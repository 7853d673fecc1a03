---------------------------- MODULE SocketProofs ----------------------------
(***************************************************************************)
(* Proofs about SocketServer, for any number of connections, any sizes of  *)
(* requests and answers and any limits.                                    *)
(***************************************************************************)
EXTENDS SocketServer, TLAPS

\* No connection is waiting twice.
Distinct == \A i, j \in DOMAIN queue : queue[i] = queue[j] => i = j

\* What has been answered to whom, by the step the server is at.
Untouched(c) == answer[c] = None /\ written[c] = 0
Progress ==
  /\ \A c \in Client : net[c] \in {"new", "queued"} => Untouched(c)
  /\ srv \in {"read", "interpret"} => Untouched(cur)
  /\ srv = "interpret" => buf.from \in {None, cur}
  /\ srv = "write" => answer[cur] # None /\ written[cur] < Chunks
  /\ srv = "close" => answer[cur] # None /\ written[cur] = Chunks

SInv == TypeOK /\ NoConnectionForgotten /\ Distinct /\ Progress /\ AnsweredInFull /\ AnswerIsOwn

----------------------------------------------------------------------------

\* The server's first state.
LEMMA SInit == Init => SInv
<1> SUFFICES ASSUME Init PROVE SInv
  OBVIOUS
<1>1. DOMAIN queue = {}
  BY DEF Init
<1>2. TypeOK
  BY SocketAssumption DEF Init, TypeOK, Empty
<1>3. NoConnectionForgotten
  BY <1>1, SocketAssumption DEF Init, NoConnectionForgotten, Serving
<1>. QED
  BY <1>1, <1>2, <1>3, SocketAssumption
     DEF Init, SInv, Distinct, Progress, Untouched, AnsweredInFull, AnswerIsOwn

\* A connection that arrives goes to the end of the queue and has nothing yet.
LEMMA ConnectStep == ASSUME SInv, NEW c \in Client, Connect(c) PROVE SInv'
<1>. USE DEF SInv
<1>1. /\ queue \in Seq(Client) /\ Len(queue) \in Nat /\ DOMAIN queue = 1..Len(queue)
      /\ queue' = Append(queue, c) /\ queue' \in Seq(Client)
      /\ DOMAIN queue' = 1..(Len(queue) + 1) /\ queue'[Len(queue) + 1] = c
      /\ \A i \in 1..Len(queue) : queue'[i] = queue[i]
  BY DEF Connect, TypeOK
<1>2. /\ net[c] = "new" /\ net' = [net EXCEPT ![c] = "queued"] /\ net \in [Client -> {"new", "queued", "open", "closed", "reset"}]
      /\ UNCHANGED <<srv, listening, cur, buf, turnstile, now, left, sent, answer, written, acceptedAt>>
  BY DEF Connect, TypeOK
<1>3. TypeOK'
  BY <1>1, <1>2 DEF TypeOK
<1>4. \A i \in DOMAIN queue : queue[i] # c
  BY <1>2 DEF NoConnectionForgotten
<1>5. Distinct'
  BY <1>1, <1>4 DEF Distinct
<1>6. NoConnectionForgotten'
  <2> SUFFICES ASSUME NEW d \in Client
               PROVE  /\ net'[d] = "open" <=> d = cur'
                      /\ net'[d] = "queued" <=> \E i \in DOMAIN queue' : queue'[i] = d
    BY <1>2 DEF NoConnectionForgotten
  <2>1. CASE d = c
    BY <1>1, <1>2, <2>1 DEF NoConnectionForgotten
  <2>2. CASE d # c
    BY <1>1, <1>2, <2>2 DEF NoConnectionForgotten
  <2>. QED
    BY <2>1, <2>2
<1>7. Progress' /\ AnsweredInFull' /\ AnswerIsOwn'
  BY <1>2 DEF Progress, Untouched, AnsweredInFull, AnswerIsOwn
<1>. QED
  BY <1>3, <1>5, <1>6, <1>7

\* What clients and the clock do on their own disturbs only the types.
LEMMA ClientStep ==
  ASSUME SInv, Tick \/ \E c \in Client : SendPacket(c) \/ Leave(c)
  PROVE  SInv'
<1>. USE DEF SInv
<1>1. UNCHANGED <<serverVars, net, answer, written, acceptedAt>>
  BY DEF Tick, SendPacket, Leave, clientVars
<1>2. now' \in 0..MaxTime
  BY SocketAssumption DEF Tick, SendPacket, Leave, TypeOK
<1>3. left' \in [Client -> BOOLEAN]
  BY DEF Tick, SendPacket, Leave, clientVars, TypeOK
<1>4. sent' \in [Client -> Nat] /\ \A c \in Client : sent'[c] <= Size[c]
  <2>1. CASE UNCHANGED sent
    BY <2>1 DEF TypeOK
  <2>2. ASSUME NEW c \in Client, SendPacket(c)
        PROVE  sent' \in [Client -> Nat] /\ \A d \in Client : sent'[d] <= Size[d]
    <3>1. sent \in [Client -> Nat] /\ Size[c] \in Nat /\ sent[c] < Size[c]
      BY <2>2, SocketAssumption DEF SendPacket, TypeOK
    <3>2. sent' = [sent EXCEPT ![c] = sent[c] + 1] /\ sent[c] + 1 \in Nat /\ sent[c] + 1 <= Size[c]
      BY <2>2, <3>1 DEF SendPacket
    <3>. QED
      BY <3>1, <3>2 DEF TypeOK
  <2>. QED
    BY <2>1, <2>2 DEF Tick, Leave, clientVars
<1>5. TypeOK'
  BY <1>1, <1>2, <1>3, <1>4 DEF serverVars, TypeOK
<1>. QED
  BY <1>1, <1>5 DEF serverVars, NoConnectionForgotten, Distinct, Progress, Untouched,
                    AnsweredInFull, AnswerIsOwn

\* A signal resets the connections that wait, and no other.
LEMMA CloseSockStep == ASSUME SInv, CloseSock PROVE SInv'
<1>. USE DEF SInv
<1>1. /\ queue' = <<>> /\ DOMAIN queue' = {} /\ queue' \in Seq(Client) /\ listening' = FALSE
      /\ net' = [c \in Client |-> IF net[c] = "queued" THEN "reset" ELSE net[c]]
      /\ UNCHANGED <<srv, cur, buf, turnstile, now, left, sent, answer, written, acceptedAt>>
  BY DEF CloseSock
<1>2. TypeOK'
  BY <1>1 DEF TypeOK
<1>. QED
  BY <1>1, <1>2 DEF NoConnectionForgotten, Distinct, Progress, Untouched, AnsweredInFull, AnswerIsOwn

\* The end of the process resets all of them.
LEMMA DieStep == ASSUME SInv, Die PROVE SInv'
<1>. USE DEF SInv
<1>1. /\ queue' = <<>> /\ DOMAIN queue' = {} /\ queue' \in Seq(Client) /\ listening' = FALSE
      /\ srv' = "dead" /\ cur' = None
      /\ net' = [c \in Client |-> IF net[c] \in {"queued", "open"} THEN "reset" ELSE net[c]]
      /\ UNCHANGED <<buf, turnstile, now, left, sent, answer, written, acceptedAt>>
  BY DEF Die
<1>2. TypeOK'
  BY <1>1 DEF TypeOK
<1>3. NoConnectionForgotten'
  BY <1>1, SocketAssumption DEF NoConnectionForgotten, Serving
<1>. QED
  BY <1>1, <1>2, <1>3 DEF Distinct, Progress, Untouched, AnsweredInFull, AnswerIsOwn

\* accept takes the first of the queue; the map is always empty, so the
\* turnstile lets it pass.
LEMMA AcceptStep == ASSUME SInv, Accept PROVE SInv'
<1>. USE DEF SInv
<1>. DEFINE c == Head(queue)
<1>1. /\ queue \in Seq(Client) /\ queue # <<>> /\ Len(queue) \in Nat /\ Len(queue) >= 1
      /\ DOMAIN queue = 1..Len(queue) /\ c = queue[1] /\ c \in Client
  BY DEF Accept, TypeOK
<1>2. /\ queue' = Tail(queue) /\ queue' \in Seq(Client) /\ DOMAIN queue' = 1..(Len(queue) - 1)
      /\ \A i \in 1..(Len(queue) - 1) : queue'[i] = queue[i + 1]
  BY <1>1 DEF Accept
<1>3. NextRequestAt(turnstile, AddressOf[c], now) = 0
      /\ TurnstileAfter(turnstile, AddressOf[c], now) = turnstile
  BY DEF TypeOK, NextRequestAt, TurnstileAfter
<1>4. /\ srv = "accept" /\ srv' = "read" /\ cur' = c /\ turnstile' = turnstile
      /\ net' = [net EXCEPT ![c] = "open"] /\ acceptedAt' = [acceptedAt EXCEPT ![c] = now]
      /\ UNCHANGED <<listening, buf, now, left, sent, answer, written>>
  BY <1>3 DEF Accept
<1>5. net[c] = "queued" /\ cur = None
  BY <1>1, <1>4 DEF NoConnectionForgotten, Serving
<1>6. TypeOK'
  <2>1. net' \in [Client -> {"new", "queued", "open", "closed", "reset"}]
    BY <1>4 DEF TypeOK
  <2>2. acceptedAt' \in [Client -> -1..MaxTime]
    <3>1. now \in -1..MaxTime
      BY SocketAssumption DEF TypeOK
    <3>. QED
      BY <1>4, <3>1 DEF TypeOK
  <2>3. cur' \in Client \cup {None} /\ srv' \in Serving \cup {"accept", "dead"}
    BY <1>1, <1>4 DEF Serving
  <2>. QED
    BY <1>2, <1>4, <2>1, <2>2, <2>3 DEF TypeOK
<1>7. Distinct'
  BY <1>1, <1>2 DEF Distinct
<1>8. NoConnectionForgotten'
  <2>1. ASSUME NEW d \in Client
        PROVE  net'[d] = "open" <=> d = cur'
    BY <1>1, <1>4, <1>5, SocketAssumption DEF NoConnectionForgotten, TypeOK
  <2>2. cur' # None /\ srv' \in Serving
    BY <1>1, <1>4, SocketAssumption DEF Serving
  <2>3. ASSUME NEW d \in Client
        PROVE  net'[d] = "queued" <=> \E i \in DOMAIN queue' : queue'[i] = d
    <3>1. net'[d] = "queued" <=> net[d] = "queued" /\ d # c
      BY <1>1, <1>4 DEF TypeOK
    <3>2. ASSUME net[d] = "queued", d # c
          PROVE  \E i \in DOMAIN queue' : queue'[i] = d
      <4>1. PICK i \in 1..Len(queue) : queue[i] = d
        BY <1>1, <3>2 DEF NoConnectionForgotten
      <4>2. i # 1
        BY <1>1, <3>2, <4>1
      <4>3. i - 1 \in 1..(Len(queue) - 1) /\ (i - 1) + 1 = i
        BY <1>1, <4>1, <4>2
      <4>4. queue'[i - 1] = queue[i]
        BY <1>2, <4>3
      <4>. QED
        BY <1>2, <4>1, <4>3, <4>4
    <3>3. ASSUME NEW i \in DOMAIN queue', queue'[i] = d
          PROVE  net[d] = "queued" /\ d # c
      <4>1. i + 1 \in DOMAIN queue /\ i + 1 # 1 /\ 1 \in DOMAIN queue /\ queue[i + 1] = d
        BY <1>1, <1>2, <3>3
      <4>2. d # c
        BY <1>1, <4>1 DEF Distinct
      <4>. QED
        BY <4>1, <4>2 DEF NoConnectionForgotten
    <3>. QED
      BY <3>1, <3>2, <3>3
  <2>. QED
    BY <2>1, <2>2, <2>3 DEF NoConnectionForgotten
<1>9. Progress'
  BY <1>1, <1>4, <1>5 DEF Progress, Untouched, TypeOK
<1>10. AnsweredInFull' /\ AnswerIsOwn'
  BY <1>1, <1>4, <1>5 DEF AnsweredInFull, AnswerIsOwn, TypeOK
<1>. QED
  BY <1>6, <1>7, <1>8, <1>9, <1>10

\* The step of a server that has a client keeps what concerns connections
\* when it keeps the client.
LEMMA SameClient ==
  ASSUME SInv, cur # None, cur' = cur, srv' \in Serving, UNCHANGED <<net, queue>>
  PROVE  NoConnectionForgotten' /\ Distinct' /\ cur \in Client /\ net[cur] = "open"
BY DEF SInv, TypeOK, NoConnectionForgotten, Distinct

\* The buffer starts empty for every connection, so it holds the packets of
\* this one or none.
LEMMA ReadStep == ASSUME SInv, Read PROVE SInv'
<1>. USE DEF SInv
<1>1. srv = "read" /\ srv' = "interpret" /\ UNCHANGED <<listening, queue, cur, turnstile, now, clientVars>>
  BY DEF Read
<1>2. cur # None /\ srv' \in Serving
  BY <1>1 DEF NoConnectionForgotten, Serving
<1>3. NoConnectionForgotten' /\ Distinct' /\ cur \in Client /\ net[cur] = "open"
  BY <1>1, <1>2, SameClient DEF clientVars
<1>4. buf' \in [from : {None, cur}, n : 0..BufSize]
  <2>1. sent[cur] \in Nat /\ BufSize \in Nat
    BY <1>3, SocketAssumption DEF TypeOK
  <2>2. CASE buf' = [from |-> cur, n |-> IF sent[cur] < BufSize THEN sent[cur] ELSE BufSize]
    BY <2>1, <2>2
  <2>3. CASE buf' = Empty
    BY <2>1, <2>3 DEF Empty
  <2>. QED
    BY <2>2, <2>3 DEF Read
<1>5. TypeOK'
  BY <1>1, <1>3, <1>4 DEF TypeOK, clientVars, Serving
<1>6. Progress'
  BY <1>1, <1>4 DEF Progress, Untouched, clientVars
<1>7. AnsweredInFull' /\ AnswerIsOwn'
  BY <1>1 DEF AnsweredInFull, AnswerIsOwn, clientVars
<1>. QED
  BY <1>3, <1>5, <1>6, <1>7

\* The answer is this client's, or that its request is malformed.
LEMMA InterpretStep == ASSUME SInv, Interpret PROVE SInv'
<1>. USE DEF SInv
<1>. DEFINE r == IF buf.from # None /\ buf.n = Size[buf.from] THEN buf.from ELSE "malformed"
<1>1. /\ srv = "interpret" /\ srv' = "write" /\ answer' = [answer EXCEPT ![cur] = r]
      /\ UNCHANGED <<listening, queue, cur, buf, turnstile, now, net, left, sent, written, acceptedAt>>
  BY DEF Interpret
<1>2. cur # None /\ srv' \in Serving
  BY <1>1 DEF NoConnectionForgotten, Serving
<1>3. NoConnectionForgotten' /\ Distinct' /\ cur \in Client /\ net[cur] = "open"
  BY <1>1, <1>2, SameClient
<1>4. r \in {cur, "malformed"} /\ r # None
  BY <1>1, <1>2, SocketAssumption DEF Progress
<1>. HIDE DEF r
<1>5. TypeOK'
  BY <1>1, <1>3, <1>4 DEF TypeOK, Serving
<1>6. Progress'
  BY <1>1, <1>3, <1>4, SocketAssumption DEF Progress, Untouched, TypeOK
<1>7. AnsweredInFull' /\ AnswerIsOwn'
  BY <1>1, <1>3, <1>4 DEF AnsweredInFull, AnswerIsOwn, TypeOK
<1>. QED
  BY <1>3, <1>5, <1>6, <1>7

\* The loop of json_object_write ends when nothing remains, not before.
LEMMA WriteStep == ASSUME SInv, Write PROVE SInv'
<1>. USE DEF SInv
<1>1. PICK n \in 1..(Chunks - written[cur]) :
        /\ written' = [written EXCEPT ![cur] = @ + n]
        /\ srv' = IF written[cur] + n = Chunks THEN "close" ELSE "write"
  BY DEF Write
<1>2. /\ srv = "write"
      /\ UNCHANGED <<listening, queue, cur, buf, turnstile, now, net, left, sent, answer, acceptedAt>>
  BY DEF Write
<1>3. cur # None /\ srv' \in Serving
  BY <1>1, <1>2 DEF NoConnectionForgotten, Serving
<1>4. NoConnectionForgotten' /\ Distinct' /\ cur \in Client /\ net[cur] = "open"
  BY <1>2, <1>3, SameClient
<1>5. written[cur] + n \in 0..Chunks /\ written' = [written EXCEPT ![cur] = written[cur] + n]
  BY <1>1, <1>4, SocketAssumption DEF TypeOK
<1>6. TypeOK'
  BY <1>2, <1>3, <1>4, <1>5 DEF TypeOK
<1>7. written'[cur] = written[cur] + n /\ \A d \in Client \ {cur} : written'[d] = written[d]
  BY <1>4, <1>5 DEF TypeOK
<1>8. Progress'
  <2>1. \A c \in Client : net'[c] \in {"new", "queued"} => Untouched(c)'
    BY <1>2, <1>4, <1>7 DEF Progress, Untouched
  <2>2. answer'[cur'] # None
    BY <1>2 DEF Progress
  <2>3. CASE written[cur] + n = Chunks
    BY <1>1, <1>2, <1>7, <2>1, <2>2, <2>3 DEF Progress
  <2>4. CASE written[cur] + n # Chunks
    <3>1. written'[cur'] < Chunks
      BY <1>2, <1>5, <1>7, <2>4, SocketAssumption
    <3>. QED
      BY <1>1, <1>2, <2>1, <2>2, <2>4, <3>1 DEF Progress
  <2>. QED
    BY <2>3, <2>4
<1>9. AnsweredInFull' /\ AnswerIsOwn'
  BY <1>2, <1>4, <1>7 DEF AnsweredInFull, AnswerIsOwn
<1>. QED
  BY <1>4, <1>6, <1>8, <1>9

\* A connection is closed when its answer is complete.
LEMMA CloseStep == ASSUME SInv, Close PROVE SInv'
<1>. USE DEF SInv
<1>1. /\ srv = "close" /\ srv' = "accept" /\ cur' = None /\ net' = [net EXCEPT ![cur] = "closed"]
      /\ UNCHANGED <<listening, queue, buf, turnstile, now, left, sent, answer, written, acceptedAt>>
  BY DEF Close
<1>2. cur # None /\ cur \in Client /\ net[cur] = "open"
  BY <1>1 DEF NoConnectionForgotten, Serving, TypeOK
<1>3. net'[cur] = "closed" /\ \A d \in Client \ {cur} : net'[d] = net[d]
  BY <1>1, <1>2 DEF TypeOK
<1>4. TypeOK'
  BY <1>1, <1>2 DEF TypeOK
<1>5. NoConnectionForgotten'
  BY <1>1, <1>2, <1>3, SocketAssumption DEF NoConnectionForgotten, Serving
<1>6. Distinct' /\ AnsweredInFull' /\ AnswerIsOwn' /\ Progress'
  BY <1>1, <1>2, <1>3 DEF Distinct, AnsweredInFull, AnswerIsOwn, Progress, Untouched
<1>. QED
  BY <1>4, <1>5, <1>6

\* Every step keeps the invariant.
LEMMA SNext == SInv /\ [Next]_vars => SInv'
<1> SUFFICES ASSUME SInv, [Next]_vars PROVE SInv'
  OBVIOUS
<1>1. CASE Serve
  BY <1>1, AcceptStep, DieStep, ReadStep, InterpretStep, WriteStep, CloseStep
     DEF Serve, AcceptFails, InterpretExits, WriteFails
<1>2. CASE CloseSock
  BY <1>2, CloseSockStep
<1>3. CASE Tick \/ \E c \in Client : SendPacket(c) \/ Leave(c)
  BY <1>3, ClientStep
<1>4. ASSUME NEW c \in Client, Connect(c)
      PROVE  SInv'
  BY <1>4, ConnectStep
<1>5. CASE UNCHANGED vars
  BY <1>5 DEF vars, serverVars, clientVars, SInv, TypeOK, NoConnectionForgotten, Distinct, Progress,
              Untouched, AnsweredInFull, AnswerIsOwn
<1>. QED
  BY <1>1, <1>2, <1>3, <1>4, <1>5 DEF Next

\* A connection the server closes had its whole answer written to it
\* (invariant AnsweredInFull).
THEOREM FullAnswers == Spec => []AnsweredInFull
<1>1. SInv => AnsweredInFull
  BY DEF SInv
<1>. QED
  BY <1>1, SInit, SNext, PTL DEF Spec

\* No client gets the answer to another's request (invariant AnswerIsOwn).
THEOREM OwnAnswers == Spec => []AnswerIsOwn
<1>1. SInv => AnswerIsOwn
  BY DEF SInv
<1>. QED
  BY <1>1, SInit, SNext, PTL DEF Spec

\* The server holds the one connection it serves and no other (invariant
\* NoConnectionForgotten).
THEOREM NoLeak == Spec => []NoConnectionForgotten
<1>1. SInv => NoConnectionForgotten
  BY DEF SInv
<1>. QED
  BY <1>1, SInit, SNext, PTL DEF Spec

\* The types hold, and the turnstile's map is always empty: what it counts is
\* lost, so no request is ever refused (invariant TypeOK).
THEOREM ServerTyping == Spec => []TypeOK
<1>1. SInv => TypeOK
  BY DEF SInv
<1>. QED
  BY <1>1, SInit, SNext, PTL DEF Spec
=============================================================================
