------------------------------ MODULE ChatProofs ------------------------------
(***************************************************************************)
(* Proofs about Chat, for any input and any number of other connections:   *)
(* how much the client asks, what it leaves open, and that the server,     *)
(* while it is up, answers it.                                             *)
(***************************************************************************)
EXTENDS Chat, SocketProofs, WellFoundedInduction

Item == {Word, Eol} \cup Choice

\* Every request has its cause (RequestsAccounted), and what is not read yet may
\* still become requests, for which there are connections.
InputTypeOK ==
  /\ stdin \in [in : Seq(Item), eof : BOOLEAN]
  /\ choix \in Choice /\ n \in Nat
  /\ numbers \in Nat /\ strays \in Nat
Asked == RequestsAccounted /\ numbers + strays + Len(stdin.in) < Len(Mine)

\* The request at hand, and the socket it has.
AtHand ==
  /\ at \in {"menu", "connect", "send", "receive", "exited", "lost", "interrupted"}
  /\ at \in {"connect", "send", "receive"} => n >= 1 /\ choix \in DOMAIN RequestOf
  /\ fds = IF at \in {"send", "receive"} THEN {conn} ELSE {}

\* Until its request is sent, a listening server waits for the client, or has
\* not come to it.
Expected ==
  at = "send" /\ listening =>
    /\ sent[conn] = 0 /\ ~left[conn]
    /\ net[conn] = "queued" \/ (net[conn] = "open" /\ srv = "read")

\* Nobody has said anything before it connects, only the end of the server
\* resets connections, and nobody is refused.
Undisturbed ==
  /\ \A c \in Client : net[c] = "new" => sent[c] = 0 /\ ~left[c]
  /\ listening => \A c \in Client : net[c] # "reset"
  /\ \A c \in Client : answer[c] # "limited"

CInv == InputTypeOK /\ Asked /\ AtHand /\ Expected /\ Undisturbed /\ LostOnlyWithServer

----------------------------------------------------------------------------
(* Standard input *)

\* A set of numbers that is not empty has a least one.
LEMMA LeastIndex ==
  ASSUME NEW S, S \subseteq Nat, S # {}
  PROVE  Min(S) \in S
<1>. DEFINE R == OpToRel(<, Nat)
<1>1. R = {ss \in Nat \X Nat : ss[1] < ss[2]}
  BY DEF OpToRel
<1>2. IsWellFoundedOn(R, Nat)
  BY NatLessThanWellFounded
<1>3. \A x, y \in Nat : <<y, x>> \in R <=> y < x
  BY <1>1
<1>. HIDE DEF R
<1>4. PICK x \in S : \A y \in S : <<y, x>> \notin R
  BY <1>2, WFMin
<1>5. \A y \in S : ~(y < x)
  BY <1>3, <1>4, Zenon
<1>6. \A y \in S : x <= y
  BY <1>5
<1>. QED
  BY <1>6 DEF Min

\* Where scanf finds something, if it does.
LEMMA FirstTypedIs ==
  ASSUME NEW in \in Seq(Item)
  PROVE  /\ FirstTyped(in) \in 0..Len(in)
         /\ FirstTyped(in) # 0 => in[FirstTyped(in)] \in {Word} \cup Choice
<1>. DEFINE I == {i \in 1..Len(in) : in[i] # Eol}
<1>1. I \subseteq Nat
  OBVIOUS
<1>2. FirstTyped(in) = IF I # {} THEN Min(I) ELSE 0
  BY Zenon DEF FirstTyped, SelectInSeq
<1>3. CASE I = {}
  BY <1>2, <1>3
<1>4. CASE I # {}
  <2>1. FirstTyped(in) \in I
    BY <1>1, <1>2, <1>4, LeastIndex, Zenon
  <2>. QED
    BY <2>1 DEF Item
<1>. QED
  BY <1>3, <1>4

\* Reading takes from the front, and does not undo the end of the input.
Reads(s, t) ==
  t \in [in : Seq(Item), eof : BOOLEAN] /\ Len(t.in) <= Len(s.in) /\ (s.eof => t.eof)

LEMMA Rest ==
  ASSUME NEW in \in Seq(Item), NEW i \in 1..(Len(in) + 1)
  PROVE  SubSeq(in, i, Len(in)) \in Seq(Item) /\ Len(SubSeq(in, i, Len(in))) = Len(in) - i + 1
OBVIOUS

LEMMA CharTakenReads ==
  ASSUME NEW s \in [in : Seq(Item), eof : BOOLEAN]
  PROVE  Reads(s, CharTaken(s)) /\ (s.in # <<>> => Len(CharTaken(s).in) = Len(s.in) - 1)
<1>1. s.in \in Seq(Item) /\ s.eof \in BOOLEAN /\ Len(s.in) \in Nat
  OBVIOUS
<1>2. CASE s.in = <<>>
  <2>1. <<>> \in Seq(Item) /\ Len(<<>>) = 0
    OBVIOUS
  <2>. QED
    BY <1>1, <1>2, <2>1 DEF CharTaken, Stream, Reads
<1>3. CASE s.in # <<>>
  <2>1. Tail(s.in) \in Seq(Item) /\ Len(Tail(s.in)) = Len(s.in) - 1
    BY <1>1, <1>3
  <2>. QED
    BY <1>1, <1>3, <2>1 DEF CharTaken, Stream, Reads
<1>. QED
  BY <1>2, <1>3

LEMMA LineTakenReads ==
  ASSUME NEW s \in [in : Seq(Item), eof : BOOLEAN]
  PROVE  Reads(s, LineTaken(s))
<1>. DEFINE I == {i \in 1..Len(s.in) : s.in[i] = Eol}
            i == IF I # {} THEN Min(I) ELSE 0
<1>1. s.in \in Seq(Item) /\ s.eof \in BOOLEAN /\ Len(s.in) \in Nat
  OBVIOUS
<1>2. LineTaken(s) = IF i = 0 THEN Stream(<<>>, TRUE) ELSE Stream(SubSeq(s.in, i + 1, Len(s.in)), s.eof)
  BY Zenon DEF LineTaken, SelectInSeq
<1>3. i \in 0..Len(s.in)
  <2>1. I \subseteq Nat /\ \A j \in I : j \in 0..Len(s.in)
    BY <1>1
  <2>2. CASE I = {}
    BY <1>1, <2>2
  <2>3. CASE I # {}
    <3>1. Min(I) \in I /\ i = Min(I)
      BY <2>1, <2>3, LeastIndex
    <3>. QED
      BY <2>1, <3>1, Zenon
  <2>. QED
    BY <2>2, <2>3
<1>. HIDE DEF i
<1>4. CASE i = 0
  <2>1. <<>> \in Seq(Item) /\ Len(<<>>) = 0
    OBVIOUS
  <2>. QED
    BY <1>1, <1>2, <1>4, <2>1 DEF Stream, Reads
<1>5. CASE i # 0
  <2>1. i + 1 \in 1..(Len(s.in) + 1)
    BY <1>1, <1>3, <1>5
  <2>2. SubSeq(s.in, i + 1, Len(s.in)) \in Seq(Item) /\ Len(SubSeq(s.in, i + 1, Len(s.in))) <= Len(s.in)
    BY <1>1, <1>3, <2>1, Rest
  <2>. QED
    BY <1>1, <1>2, <1>5, <2>2 DEF Stream, Reads
<1>. QED
  BY <1>4, <1>5

\* scanf takes a number; what is none it leaves at the front.  With nothing
\* left it has met the end of the input.
LEMMA ScannedReads ==
  ASSUME NEW s \in [in : Seq(Item), eof : BOOLEAN]
  PROVE  /\ Reads(s, Scanned(s))
         /\ Scans(s) => s.in[FirstTyped(s.in)] \in Choice /\ Len(Scanned(s).in) <= Len(s.in) - 1
         /\ FirstTyped(s.in) = 0 => Scanned(s).eof
         /\ FirstTyped(s.in) # 0 /\ ~Scans(s) => Scanned(s).in # <<>>
<1>. DEFINE i == FirstTyped(s.in)
            rest == IF i = 0 THEN <<>> ELSE SubSeq(s.in, IF Scans(s) THEN i + 1 ELSE i, Len(s.in))
<1>1. s.in \in Seq(Item) /\ s.eof \in BOOLEAN /\ Len(s.in) \in Nat
  OBVIOUS
<1>2. i \in 0..Len(s.in) /\ (i # 0 => s.in[i] \in {Word} \cup Choice)
  BY <1>1, FirstTypedIs
<1>3. Scanned(s) = [in |-> rest, eof |-> s.eof \/ rest = <<>>]
  BY DEF Scanned, Stream
<1>4. Scans(s) <=> i # 0 /\ s.in[i] # Word
  BY DEF Scans
<1>. HIDE DEF i
<1>5. CASE i = 0
  <2>1. <<>> \in Seq(Item) /\ Len(<<>>) = 0 /\ ~Scans(s)
    BY <1>4, <1>5
  <2>2. Scanned(s) = [in |-> <<>>, eof |-> TRUE]
    BY <1>3, <1>5
  <2>. QED
    BY <1>1, <1>5, <2>1, <2>2 DEF Reads, i
<1>6. CASE i # 0 /\ Scans(s)
  <2>1. i + 1 \in 1..(Len(s.in) + 1)
    BY <1>1, <1>2, <1>6
  <2>2. rest = SubSeq(s.in, i + 1, Len(s.in))
    BY <1>6
  <2>3. rest \in Seq(Item) /\ Len(rest) = Len(s.in) - i
    BY <1>1, <1>2, <2>1, <2>2, Rest
  <2>4. s.in[i] \in Choice
    BY <1>2, <1>4, <1>6
  <2>. HIDE DEF rest
  <2>5. Len(rest) <= Len(s.in) - 1
    BY <1>1, <1>2, <1>6, <2>3
  <2>. QED
    BY <1>1, <1>3, <1>6, <2>3, <2>4, <2>5 DEF Reads, i
<1>7. CASE i # 0 /\ ~Scans(s)
  <2>1. i \in 1..(Len(s.in) + 1)
    BY <1>1, <1>2, <1>7
  <2>2. rest = SubSeq(s.in, i, Len(s.in))
    BY <1>7
  <2>3. rest \in Seq(Item) /\ Len(rest) = Len(s.in) - i + 1
    BY <1>1, <2>1, <2>2, Rest
  <2>. HIDE DEF rest
  <2>4. Len(rest) <= Len(s.in) /\ rest # <<>>
    BY <1>1, <1>2, <1>7, <2>3
  <2>. QED
    BY <1>1, <1>3, <1>7, <2>3, <2>4 DEF Reads, i
<1>. QED
  BY <1>5, <1>6, <1>7

LEMMA ArgumentsReads ==
  ASSUME NEW c \in Choice, NEW s \in [in : Seq(Item), eof : BOOLEAN]
  PROVE  Reads(s, Arguments(c, s))
<1>1. Reads(s, s)
  BY DEF Reads
<1>2. Reads(s, Scanned(s)) /\ Reads(s, LineTaken(s))
  BY ScannedReads, LineTakenReads
<1>3. Reads(s, LineTaken(LineTaken(s)))
  <2>1. LineTaken(s) \in [in : Seq(Item), eof : BOOLEAN]
    BY <1>2 DEF Reads
  <2>2. Reads(LineTaken(s), LineTaken(LineTaken(s)))
    BY <2>1, LineTakenReads
  <2>3. Len(s.in) \in Nat /\ Len(LineTaken(s).in) \in Nat /\ Len(LineTaken(LineTaken(s)).in) \in Nat
    BY <2>1, <2>2 DEF Reads
  <2>. QED
    BY <1>2, <2>2, <2>3 DEF Reads
<1>. QED
  BY <1>1, <1>2, <1>3 DEF Arguments
----------------------------------------------------------------------------
(* Requests *)

\* The client authenticates with a token, the server with "constr".
LEMMA NoConstr == ASSUME NEW c \in DOMAIN RequestOf PROVE "constr" \notin RequestOf[c].with
<1>1. RequestOf[c] \in {login, logout, send_message, remove_message, inbox, nr_inbox, outbox, block, unblock}
  <2>1. c \in (1..12) \ {4}
    BY DEF RequestOf
  <2>. QED
    BY <2>1 DEF RequestOf
<1>. QED
  BY <1>1 DEF login, logout, send_message, remove_message, inbox, nr_inbox, outbox, block, unblock

LEMMA NeedsConstr == ASSUME NEW do \in DOMAIN Needs PROVE "constr" \in Needs[do]
BY DEF Needs

\* No request of the client is one the server understands.
LEMMA NoneUnderstood == ASSUME NEW c \in DOMAIN RequestOf PROVE ~Understood(RequestOf[c])
BY NoConstr, NeedsConstr DEF Understood
----------------------------------------------------------------------------
(* The server and the other connections *)

LEMMA ServerStart == Init => Undisturbed
BY SocketAssumption DEF Init, Undisturbed

\* The turnstile's map is empty, so a connection that is accepted is read.
LEMMA AcceptReads ==
  ASSUME SInv, Accept
  PROVE  /\ Head(queue) \in Client /\ net[Head(queue)] = "queued" /\ srv' = "read"
         /\ net' = [net EXCEPT ![Head(queue)] = "open"]
         /\ UNCHANGED <<listening, left, sent, answer>>
<1>1. /\ queue \in Seq(Client) /\ queue # <<>>
      /\ turnstile = [a \in {} |-> Empty]
  BY DEF Accept, SInv, TypeOK
<1>2. Head(queue) = queue[1] /\ 1 \in DOMAIN queue /\ Head(queue) \in Client
  BY <1>1
<1>3. net[Head(queue)] = "queued"
  BY <1>2 DEF SInv, NoConnectionForgotten
<1>4. NextRequestAt(turnstile, AddressOf[Head(queue)], now) = 0
  BY <1>1 DEF NextRequestAt
<1>. QED
  BY <1>2, <1>3, <1>4 DEF Accept

\* Only its end makes the server reset anybody.
LEMMA UndisturbedStep ==
  ASSUME SInv, Undisturbed, [Next]_vars
  PROVE  Undisturbed' /\ (listening' => listening)
<1>. USE DEF SInv, TypeOK, Undisturbed
<1>1. CASE Accept
  BY <1>1, AcceptReads
<1>2. CASE Die
  BY <1>2 DEF Die
<1>3. CASE Read
  BY <1>3 DEF Read, clientVars
<1>4. CASE Interpret
  <2>1. srv = "interpret" /\ UNCHANGED <<listening, net, left, sent>>
    BY <1>4 DEF Interpret
  <2>2. buf.from \in {None, cur} /\ cur \in Client /\ cur # None
    BY <2>1 DEF Progress, NoConnectionForgotten, Serving
  <2>3. \A c \in Client : answer'[c] \in {answer[c], cur, "malformed"}
    BY <1>4, <2>2 DEF Interpret
  <2>. QED
    BY <2>1, <2>2, <2>3, SocketAssumption
<1>5. CASE Write
  BY <1>5 DEF Write
<1>6. CASE Close
  <2>1. cur \in Client /\ net' = [net EXCEPT ![cur] = "closed"] /\ UNCHANGED <<listening, left, sent, answer>>
    BY <1>6 DEF Close, NoConnectionForgotten, Serving
  <2>. QED
    BY <2>1
<1>7. CASE CloseSock
  BY <1>7 DEF CloseSock
<1>8. CASE Tick
  BY <1>8 DEF Tick, serverVars, clientVars
<1>9. ASSUME NEW c \in Client, Connect(c) PROVE Undisturbed' /\ (listening' => listening)
  BY <1>9 DEF Connect
<1>10. ASSUME NEW c \in Client, SendPacket(c) PROVE Undisturbed' /\ (listening' => listening)
  BY <1>10 DEF SendPacket, Connected, serverVars
<1>11. ASSUME NEW c \in Client, Leave(c) PROVE Undisturbed' /\ (listening' => listening)
  BY <1>11 DEF Leave, Connected, serverVars
<1>12. CASE UNCHANGED vars
  BY <1>12 DEF vars, serverVars, clientVars
<1>. QED
  BY <1>1, <1>2, <1>3, <1>4, <1>5, <1>6, <1>7, <1>8, <1>9, <1>10, <1>11, <1>12
     DEF Next, Serve, AcceptFails, InterpretExits, WriteFails
----------------------------------------------------------------------------
(* The client *)

\* There is a connection for the request at hand.
LEMMA ConnIs ==
  ASSUME InputTypeOK, Asked, n >= 1
  PROVE  n \in DOMAIN Mine /\ conn \in Client /\ Size[conn] = 1
<1>1. Mine \in Seq(Client) /\ Len(Mine) \in Nat /\ DOMAIN Mine = 1..Len(Mine)
  BY ChatAssumption
<1>2. n \in Nat /\ numbers \in Nat /\ strays \in Nat /\ Len(stdin.in) \in Nat
  BY DEF InputTypeOK
<1>. DEFINE t == numbers + strays
<1>3. t \in Nat /\ n <= t + 1
  BY <1>2 DEF Asked, RequestsAccounted
<1>4. t + Len(stdin.in) < Len(Mine)
  BY DEF Asked
<1>. HIDE DEF t
<1>5. n \in 1..Len(Mine)
  BY <1>1, <1>2, <1>3, <1>4
<1>. QED
  BY <1>1, <1>5, ChatAssumption DEF conn

\* One turn at the menu takes what it asks for, or finds the end of the input.
LEMMA TurnReads ==
  ASSUME InputTypeOK, Turn
  PROVE  /\ Reads(stdin, stdin') /\ choix' \in Choice
         /\ IF FirstTyped(stdin.in) = 0 THEN stdin'.eof ELSE Len(stdin'.in) <= Len(stdin.in) - 1
<1>. DEFINE s == Scanned(stdin)
            t == CharTaken(s)
<1>1. stdin \in [in : Seq(Item), eof : BOOLEAN]
  BY DEF InputTypeOK
<1>2. /\ Reads(stdin, s)
      /\ Scans(stdin) => stdin.in[FirstTyped(stdin.in)] \in Choice /\ Len(s.in) <= Len(stdin.in) - 1
      /\ FirstTyped(stdin.in) = 0 => s.eof
      /\ FirstTyped(stdin.in) # 0 /\ ~Scans(stdin) => s.in # <<>>
  BY <1>1, ScannedReads
<1>3. s \in [in : Seq(Item), eof : BOOLEAN]
  BY <1>2 DEF Reads
<1>4. Reads(s, t) /\ (s.in # <<>> => Len(t.in) = Len(s.in) - 1)
  BY <1>3, CharTakenReads
<1>5. t \in [in : Seq(Item), eof : BOOLEAN]
  BY <1>4 DEF Reads
<1>6. stdin' = Arguments(choix', t) /\ choix' = IF Scans(stdin) THEN stdin.in[FirstTyped(stdin.in)] ELSE choix
  BY DEF Turn
<1>7. choix' \in Choice
  BY <1>2, <1>6 DEF InputTypeOK
<1>8. Reads(t, stdin')
  BY <1>5, <1>6, <1>7, ArgumentsReads
<1>. HIDE DEF s, t
<1>9. /\ Len(stdin.in) \in Nat /\ Len(s.in) \in Nat /\ Len(t.in) \in Nat /\ Len(stdin'.in) \in Nat
      /\ stdin' \in [in : Seq(Item), eof : BOOLEAN]
  BY <1>1, <1>3, <1>5, <1>8 DEF Reads
<1>10. Reads(stdin, stdin')
  BY <1>2, <1>4, <1>8, <1>9 DEF Reads
<1>11. CASE FirstTyped(stdin.in) = 0
  BY <1>2, <1>4, <1>7, <1>8, <1>10, <1>11 DEF Reads
<1>12. CASE FirstTyped(stdin.in) # 0
  <2>1. Len(t.in) <= Len(stdin.in) - 1
    <3>1. CASE Scans(stdin)
      BY <1>2, <1>4, <1>9, <3>1 DEF Reads
    <3>2. CASE ~Scans(stdin)
      BY <1>2, <1>4, <1>9, <1>12, <3>2 DEF Reads
    <3>. QED
      BY <3>1, <3>2
  <2>. QED
    BY <1>7, <1>8, <1>9, <1>10, <1>12, <2>1 DEF Reads
<1>. QED
  BY <1>11, <1>12

\* The last choice is repeated only at a character, which is then taken, or
\* where the input has ended.
LEMMA MenuStep == ASSUME CInv, Menu PROVE CInv'
<1>. USE DEF CInv
<1>1. /\ at = "menu" /\ ~stdin.eof /\ Turn /\ UNCHANGED <<fds, vars>>
      /\ numbers' + strays' = numbers + strays + (IF FirstTyped(stdin.in) = 0 THEN 0 ELSE 1)
      /\ numbers' \in Nat /\ strays' \in Nat
      /\ \/ at' \in {"exited", "menu"} /\ n' = n
         \/ at' = "connect" /\ n' = n + 1 /\ choix' \in DOMAIN RequestOf
  BY DEF Menu, Turn, Scans, InputTypeOK
<1>2. /\ Reads(stdin, stdin') /\ choix' \in Choice
      /\ IF FirstTyped(stdin.in) = 0 THEN stdin'.eof ELSE Len(stdin'.in) <= Len(stdin.in) - 1
  BY <1>1, TurnReads
<1>3. /\ n \in Nat /\ numbers \in Nat /\ strays \in Nat
      /\ Len(stdin.in) \in Nat /\ Len(stdin'.in) \in Nat /\ Len(Mine) \in Nat
      /\ stdin' \in [in : Seq(Item), eof : BOOLEAN] /\ Len(stdin'.in) <= Len(stdin.in)
  BY <1>2, ChatAssumption DEF InputTypeOK, Reads
<1>4. InputTypeOK'
  BY <1>1, <1>2, <1>3 DEF InputTypeOK
<1>5. Asked'
  <2>. DEFINE t == numbers + strays
  <2>1. /\ t \in Nat /\ t' \in Nat /\ t + Len(stdin.in) < Len(Mine)
        /\ t' = t + (IF FirstTyped(stdin.in) = 0 THEN 0 ELSE 1)
    <3>1. t + Len(stdin.in) < Len(Mine)
      BY DEF Asked
    <3>2. t' = t + (IF FirstTyped(stdin.in) = 0 THEN 0 ELSE 1)
      BY <1>1
    <3>3. t \in Nat
      BY <1>3
    <3>. HIDE DEF t
    <3>4. t' \in Nat
      BY <3>2, <3>3
    <3>. QED
      BY <3>1, <3>2, <3>3, <3>4
  <2>2. n <= t /\ n' <= n + 1 /\ n' \in Nat
    BY <1>1, <1>3 DEF Asked, RequestsAccounted
  <2>. HIDE DEF t
  <2>3. n' <= t' + (IF stdin'.eof THEN 1 ELSE 0) /\ t' + Len(stdin'.in) < Len(Mine)
    <3>1. CASE FirstTyped(stdin.in) = 0
      BY <1>2, <1>3, <2>1, <2>2, <3>1
    <3>2. CASE FirstTyped(stdin.in) # 0
      <4>1. n' <= t' /\ t' + Len(stdin'.in) <= t + Len(stdin.in)
        BY <1>2, <1>3, <2>1, <2>2, <3>2
      <4>. QED
        BY <1>3, <2>1, <2>2, <4>1
    <3>. QED
      BY <3>1, <3>2
  <2>. QED
    BY <2>3 DEF t, Asked, RequestsAccounted
<1>6. AtHand'
  BY <1>1, <1>3 DEF AtHand
<1>7. Expected' /\ Undisturbed' /\ LostOnlyWithServer'
  BY <1>1 DEF Expected, Undisturbed, LostOnlyWithServer, vars, serverVars, clientVars
<1>. QED
  BY <1>4, <1>5, <1>6, <1>7
\* Steps that take nothing from the input and begin no request.
LEMMA SameRequest ==
  ASSUME InputTypeOK, Asked, UNCHANGEDMenu
  PROVE  InputTypeOK' /\ Asked' /\ conn' = conn
BY DEF UNCHANGEDMenu, InputTypeOK, Asked, RequestsAccounted, conn

LEMMA EndStep == ASSUME CInv, EndOfInput \/ DialFails PROVE CInv'
<1>. USE DEF CInv
<1>1. /\ UNCHANGED <<stdin, choix, n, numbers, strays, vars>> /\ at' = "exited" /\ fds' = {}
  BY DEF EndOfInput, DialFails, UNCHANGEDMenu, AtHand
<1>2. InputTypeOK' /\ Asked'
  BY <1>1, SameRequest DEF UNCHANGEDMenu
<1>. QED
  BY <1>1, <1>2 DEF AtHand, Expected, Undisturbed, LostOnlyWithServer, vars, serverVars, clientVars

\* The server has not heard of the request before the client connects.
LEMMA DialStep == ASSUME CInv, SInv, Dial PROVE CInv' /\ Next
<1>. USE DEF CInv
<1>1. at = "connect" /\ Connect(conn) /\ fds' = fds \cup {conn} /\ at' = "send" /\ UNCHANGEDMenu
  BY DEF Dial
<1>2. conn \in Client
  BY <1>1, ConnIs DEF AtHand
<1>3. Next
  BY <1>1, <1>2 DEF Next
<1>4. Undisturbed'
  BY <1>3, UndisturbedStep
<1>5. InputTypeOK' /\ Asked' /\ conn' = conn /\ n' = n /\ choix' = choix
  BY <1>1, SameRequest DEF UNCHANGEDMenu
<1>6. AtHand'
  BY <1>1, <1>5 DEF AtHand
<1>7. sent'[conn] = 0 /\ ~left'[conn] /\ net'[conn] = "queued"
  BY <1>1, <1>2 DEF Connect, Undisturbed, SInv, TypeOK
<1>8. Expected'
  BY <1>5, <1>7 DEF Expected
<1>. QED
  BY <1>1, <1>3, <1>4, <1>5, <1>6, <1>8 DEF LostOnlyWithServer

\* A request is sent whole.
LEMMA TransmitStep == ASSUME CInv, SInv, Transmit PROVE CInv' /\ Next
<1>. USE DEF CInv
<1>1. /\ at = "send" /\ SendPacket(conn) /\ UNCHANGEDMenu /\ UNCHANGED fds
      /\ at' = IF sent'[conn] = Size[conn] THEN "receive" ELSE "send"
  BY DEF Transmit
<1>2. conn \in Client /\ Size[conn] = 1
  BY <1>1, ConnIs DEF AtHand
<1>3. Next
  BY <1>1, <1>2 DEF Next
<1>4. Undisturbed'
  BY <1>3, UndisturbedStep
<1>5. InputTypeOK' /\ Asked' /\ conn' = conn /\ n' = n /\ choix' = choix
  BY <1>1, SameRequest DEF UNCHANGEDMenu
<1>6. AtHand'
  BY <1>1, <1>5 DEF AtHand
<1>7. listening' = listening /\ sent'[conn] = sent[conn] + 1
  BY <1>1, <1>2 DEF SendPacket, serverVars, SInv, TypeOK
<1>8. Expected'
  <2>1. listening => at' = "receive"
    BY <1>1, <1>2, <1>7 DEF Expected
  <2>. QED
    BY <1>7, <2>1 DEF Expected
<1>. QED
  BY <1>1, <1>3, <1>4, <1>5, <1>6, <1>8 DEF LostOnlyWithServer

\* send fails when the server has ended.
LEMMA TransmitFailsStep == ASSUME CInv, TransmitFails PROVE CInv'
<1>. USE DEF CInv
<1>1. /\ at = "send" /\ ~Connected(conn) /\ UNCHANGEDMenu /\ UNCHANGED vars
      /\ \/ at' = "receive" /\ UNCHANGED fds
         \/ at' = "lost" /\ fds' = {}
  BY DEF TransmitFails
<1>2. ~listening
  BY <1>1 DEF Connected, Expected
<1>3. InputTypeOK' /\ Asked' /\ conn' = conn /\ n' = n /\ choix' = choix
  BY <1>1, SameRequest DEF UNCHANGEDMenu
<1>4. AtHand'
  BY <1>1, <1>3 DEF AtHand
<1>. QED
  BY <1>1, <1>2, <1>3, <1>4 DEF Expected, Undisturbed, LostOnlyWithServer, vars, serverVars, clientVars

\* An answer is no body, and only the end of the server is none.
LEMMA ReceiveStep == ASSUME CInv, SInv, Receive PROVE CInv'
<1>. USE DEF CInv
<1>1. at = "receive" /\ net[conn] \in {"closed", "reset"} /\ UNCHANGEDMenu /\ UNCHANGED vars
  BY DEF Receive
<1>2. conn \in Client /\ choix \in DOMAIN RequestOf
  BY <1>1, ConnIs DEF AtHand
<1>3. InputTypeOK' /\ Asked' /\ conn' = conn /\ n' = n /\ choix' = choix
  BY <1>1, SameRequest DEF UNCHANGEDMenu
<1>4. CASE net[conn] = "closed" /\ answer[conn] # "limited"
  <2>1. PICK body \in {FALSE} \cup {answer[conn] = conn /\ Understood(RequestOf[choix])} :
          at' = "menu" /\ fds' = OpenAfter(body)
    BY <1>4 DEF Receive
  <2>2. ~Understood(RequestOf[choix])
    BY <1>2, NoneUnderstood
  <2>3. ~body
    BY <2>1, <2>2
  <2>4. fds' = {}
    BY <1>1, <2>1, <2>3 DEF OpenAfter, AtHand
  <2>. QED
    BY <1>1, <1>3, <2>1, <2>4 DEF AtHand, Expected, Undisturbed, LostOnlyWithServer, vars, serverVars, clientVars
<1>5. CASE ~(net[conn] = "closed" /\ answer[conn] # "limited")
  <2>1. at' = "lost" /\ fds' = {}
    BY <1>5 DEF Receive
  <2>2. net[conn] = "reset" /\ ~listening
    BY <1>1, <1>2, <1>5 DEF Undisturbed
  <2>. QED
    BY <1>1, <1>3, <2>1, <2>2 DEF AtHand, Expected, Undisturbed, LostOnlyWithServer, vars, serverVars, clientVars
<1>. QED
  BY <1>4, <1>5

\* The user's interrupt may only end a connection the client has.
LEMMA InterruptStep == ASSUME CInv, SInv, Interrupt PROVE CInv' /\ [Next]_vars
<1>. USE DEF CInv
<1>1. /\ at' = "interrupted" /\ fds' = {} /\ UNCHANGEDMenu
      /\ IF n # 0 /\ conn \in fds /\ Connected(conn) THEN Leave(conn) ELSE UNCHANGED vars
  BY DEF Interrupt
<1>2. n # 0 => conn \in Client
  BY ConnIs DEF InputTypeOK
<1>3. [Next]_vars
  BY <1>1, <1>2 DEF Next
<1>4. Undisturbed'
  BY <1>3, UndisturbedStep
<1>5. InputTypeOK' /\ Asked'
  BY <1>1, SameRequest
<1>. QED
  BY <1>1, <1>3, <1>4, <1>5 DEF AtHand, Expected, LostOnlyWithServer

\* While the client has not sent its request the server does nothing to its
\* connection but accept it.
LEMMA OthersStep == ASSUME CInv, SInv, Others, UNCHANGED chatVars PROVE CInv' /\ Next
<1>. USE DEF CInv
<1>1. UNCHANGED <<at, stdin, choix, n, fds, connected, numbers, strays>>
  BY DEF chatVars
<1>2. Next
  BY DEF Others, Next, Foreign
<1>3. Undisturbed' /\ (listening' => listening)
  BY <1>2, UndisturbedStep
<1>4. InputTypeOK' /\ Asked' /\ conn' = conn
  BY <1>1, SameRequest DEF UNCHANGEDMenu
<1>5. AtHand' /\ LostOnlyWithServer'
  BY <1>1, <1>3, <1>4 DEF AtHand, LostOnlyWithServer
<1>6. Expected'
  <2> SUFFICES ASSUME at = "send", listening'
               PROVE  /\ sent'[conn] = 0 /\ ~left'[conn]
                      /\ net'[conn] = "queued" \/ (net'[conn] = "open" /\ srv' = "read")
    BY <1>1, <1>4 DEF Expected
  <2>1. /\ sent[conn] = 0 /\ ~left[conn]
        /\ net[conn] = "queued" \/ (net[conn] = "open" /\ srv = "read")
    BY <1>3 DEF Expected
  <2>2. n \in DOMAIN Mine /\ conn \in Client /\ conn \notin Foreign
    BY ConnIs DEF AtHand, Foreign, conn
  <2>3. net[conn] = "open" => cur = conn
    BY <2>2 DEF SInv, NoConnectionForgotten
  <2>. USE DEF SInv, TypeOK
  <2>4. CASE Accept
    <3>1. /\ net[Head(queue)] = "queued" /\ srv = "accept" /\ srv' = "read"
          /\ net' = [net EXCEPT ![Head(queue)] = "open"] /\ UNCHANGED <<sent, left>>
      BY <2>4, AcceptReads DEF Accept
    <3>. QED
      BY <2>1, <2>2, <3>1
  <2>5. CASE Die
    BY <2>5 DEF Die
  <2>6. CASE Read
    <3>1. cur # conn
      BY <2>1, <2>6 DEF Read
    <3>. QED
      BY <2>1, <2>3, <2>6, <3>1 DEF Read, clientVars
  <2>7. CASE Interpret \/ Write
    BY <2>1, <2>7 DEF Interpret, Write
  <2>8. CASE Close
    <3>1. cur # conn /\ net' = [net EXCEPT ![cur] = "closed"] /\ UNCHANGED <<sent, left>>
      BY <2>1, <2>2, <2>3, <2>8 DEF Close, NoConnectionForgotten
    <3>. QED
      BY <2>1, <2>2, <2>3, <2>8, <3>1 DEF Close
  <2>9. CASE CloseSock
    BY <2>9 DEF CloseSock
  <2>10. ASSUME NEW c \in Foreign, Connect(c) \/ SendPacket(c) \/ Leave(c)
         PROVE  /\ sent'[conn] = 0 /\ ~left'[conn]
                /\ net'[conn] = "queued" \/ (net'[conn] = "open" /\ srv' = "read")
    <3>1. c \in Client /\ c # conn
      BY <2>2 DEF Foreign
    <3>. QED
      BY <2>1, <2>2, <2>10, <3>1 DEF Connect, SendPacket, Leave, serverVars
  <2>. QED
    BY <2>4, <2>5, <2>6, <2>7, <2>8, <2>9, <2>10
       DEF Others, Serve, AcceptFails, InterpretExits, WriteFails
<1>. QED
  BY <1>2, <1>3, <1>4, <1>5, <1>6
----------------------------------------------------------------------------

LEMMA ChatStart == ChatInit => CInv /\ SInv
<1> SUFFICES ASSUME ChatInit PROVE CInv /\ SInv
  OBVIOUS
<1>1. PICK s \in Inputs : stdin = [in |-> s, eof |-> FALSE]
  BY DEF ChatInit, Stream
<1>2. s \in Seq(Item) /\ Len(s) \in Nat /\ Len(s) < Len(Mine)
  BY ChatAssumption DEF Item
<1>3. InputTypeOK
  BY <1>1, <1>2, ChatAssumption DEF ChatInit, InputTypeOK
<1>4. Asked
  BY <1>1, <1>2 DEF ChatInit, Asked, RequestsAccounted
<1>5. AtHand /\ Expected /\ LostOnlyWithServer
  BY DEF ChatInit, AtHand, Expected, LostOnlyWithServer
<1>6. Undisturbed /\ SInv
  BY ServerStart, SInit DEF ChatInit
<1>. QED
  BY <1>3, <1>4, <1>5, <1>6 DEF CInv

\* Each step keeps the invariant, and is one of the socket server and its
\* clients, or none.
LEMMA ChatStep ==
  CInv /\ SInv /\ [ChatNext]_<<chatVars, vars>> => CInv' /\ SInv' /\ [Next]_vars
<1> SUFFICES ASSUME CInv, SInv, [ChatNext]_<<chatVars, vars>>
             PROVE  CInv' /\ [Next]_vars
  BY SNext
<1>1. CASE Menu
  BY <1>1, MenuStep DEF Menu, Turn
<1>2. CASE EndOfInput \/ DialFails
  BY <1>2, EndStep DEF EndOfInput, DialFails
<1>3. CASE Dial
  BY <1>3, DialStep
<1>4. CASE Transmit
  BY <1>4, TransmitStep
<1>5. CASE TransmitFails
  BY <1>5, TransmitFailsStep DEF TransmitFails
<1>6. CASE Receive
  BY <1>6, ReceiveStep DEF Receive
<1>7. CASE Interrupt
  BY <1>7, InterruptStep
<1>8. CASE Others /\ UNCHANGED chatVars
  BY <1>8, OthersStep
<1>9. CASE UNCHANGED <<chatVars, vars>>
  <2>1. UNCHANGEDMenu /\ UNCHANGED <<at, fds, vars>>
    BY <1>9 DEF chatVars, UNCHANGEDMenu
  <2>2. InputTypeOK' /\ Asked' /\ conn' = conn /\ n' = n /\ choix' = choix
    BY <2>1, SameRequest DEF CInv, UNCHANGEDMenu
  <2>. QED
    BY <2>1, <2>2 DEF CInv, AtHand, Expected, Undisturbed, LostOnlyWithServer, vars, serverVars, clientVars
<1>. QED
  BY <1>1, <1>2, <1>3, <1>4, <1>5, <1>6, <1>7, <1>8, <1>9 DEF ChatNext, Run

LEMMA ChatInvariant == ChatSpec => [](CInv /\ SInv)
BY ChatStart, ChatStep, PTL DEF ChatSpec

\* Every request is one that was asked for by its number, or repeats the last
\* choice, once for each character that is no number and once for the end of the
\* input (invariant RequestsAccounted).
THEOREM Accounted == ChatSpec => []RequestsAccounted
<1>1. CInv => RequestsAccounted
  BY DEF CInv, Asked
<1>. QED
  BY <1>1, ChatInvariant, PTL

\* The client loses an answer, or dies of one, only when the server has ended
\* (invariant LostOnlyWithServer).
THEOREM AnsweredWhileUp == ChatSpec => []LostOnlyWithServer
<1>1. CInv => LostOnlyWithServer
  BY DEF CInv
<1>. QED
  BY <1>1, ChatInvariant, PTL

\* No socket is left open between two requests (invariant SocketsReturned).
THEOREM NoSocketLeft == ChatSpec => []SocketsReturned
<1>1. CInv => SocketsReturned
  BY DEF CInv, AtHand, SocketsReturned
<1>. QED
  BY <1>1, ChatInvariant, PTL

\* What the client does is what any client of the socket server may do
\* (client.c:160-194): it implements the clients of SocketServer, of which
\* what is proved there holds.
THEOREM ChatIsServed == ChatSpec => Spec
<1>1. ChatInit => Init
  BY DEF ChatInit
<1>. QED
  BY <1>1, ChatInvariant, ChatStep, PTL DEF ChatSpec, Spec
=============================================================================
