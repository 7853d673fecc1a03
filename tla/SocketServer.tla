---------------------------- MODULE SocketServer ----------------------------
(***************************************************************************)
(* The socket mode of tchatator-server (tchatator413-server.c): one        *)
(* process that accepts a connection, asks the turnstile, reads once,      *)
(* interprets what it read, writes the answer and closes, and only then    *)
(* turns to the next connection.  Clients send their request in packets    *)
(* and may leave at any point; a signal closes the listening socket.       *)
(* What an action does is in module Evaluate: here its interpretation is   *)
(* one step.                                                               *)
(***************************************************************************)
EXTENDS Integers, Sequences, FiniteSets

CONSTANTS
  Client,             \* connections, one request each
  Address,            \* IPv4 addresses
  AddressOf,          \* the address each client connects from
  Size,               \* the number of packets of each client's request
  BufSize,            \* the packets that fit in buf
  Chunks,             \* the bytes of an answer, in the largest pieces write may take
  Backlog,            \* cfg backlog
  Minute, Hour,       \* 60 and 3600
  RateLimitM,         \* cfg rate_limit_m
  RateLimitH,         \* cfg rate_limit_h
  MaxTime,            \* bound on the clock
  None                \* no client

ASSUME SocketAssumption ==
  /\ AddressOf \in [Client -> Address]
  /\ Size \in [Client -> Nat \ {0}]
  /\ BufSize \in Nat \ {0} /\ Chunks \in Nat \ {0} /\ Backlog \in Nat
  /\ Minute \in Nat \ {0} /\ Hour \in Nat \ {0} /\ Minute < Hour
  /\ RateLimitM \in Nat /\ RateLimitH \in Nat /\ MaxTime \in Nat
  /\ None \notin Client \cup {"malformed", "limited"}
  /\ "malformed" \notin Client /\ "limited" \notin Client

VARIABLES
  srv,        \* what the server does next
  listening,  \* gs_sock # -1
  queue,      \* the connections the kernel holds for accept
  cur,        \* the client behind fd
  buf,        \* buf: whose packets it holds, and how many
  turnstile,  \* the map of addresses to statistics, as run_socket holds it
  now,        \* time(NULL)
  net,        \* net[c]: the client's end: new, queued, open, closed or reset
  left,       \* left[c]: the client closed its end
  sent,       \* sent[c]: the packets it has sent
  answer,     \* answer[c]: what is written to it (a client: that one's answer)
  written,    \* written[c]: how much of it
  acceptedAt  \* acceptedAt[c]: when its connection was taken (-1: never)

serverVars == <<srv, listening, queue, cur, buf, turnstile>>
clientVars == <<net, left, sent, answer, written, acceptedAt>>
vars == <<serverVars, now, clientVars>>

Serving == {"read", "interpret", "write", "close"}
Empty == [from |-> None, n |-> 0]     \* { 0 }

----------------------------------------------------------------------------
(* turnstile_rate_limit *)

\* user_stats_t of an address after one more request at time t.
Count(stats, t) ==
  LET idle == t - stats.last_request_at
  IN  [last_request_at |-> t,
       n_requests_m |-> (IF idle >= Minute THEN 0 ELSE stats.n_requests_m) + 1,
       n_requests_h |-> (IF idle >= Hour THEN 0 ELSE stats.n_requests_h) + 1]

\* The time of the next request that is allowed, 0 when this one is.
NextRequestAt(table, a, t) ==
  IF a \notin DOMAIN table THEN 0
  ELSE LET idle == t - table[a].last_request_at
           stats == Count(table[a], t)
       IN  IF stats.n_requests_m >= RateLimitM THEN t + Minute - idle
           ELSE IF stats.n_requests_h >= RateLimitH THEN t + Hour - idle ELSE 0

\* Mutant of TurnstileAfter: the caller's map has the new entry, too.
TurnstileKeeps(table, a, t) ==
  LET stats == IF a \in DOMAIN table THEN table[a]
               ELSE [last_request_at |-> t, n_requests_m |-> 0, n_requests_h |-> 0]
  IN  [x \in DOMAIN table \cup {a} |-> IF x = a THEN Count(stats, t) ELSE table[x]]

\* The caller's map afterwards.  An entry is updated in place; a new one is
\* put into the callee's copy of the pointer, and lost with it.
TurnstileAfter(table, a, t) ==
  IF a \notin DOMAIN table THEN table ELSE [table EXCEPT ![a] = Count(@, t)]

----------------------------------------------------------------------------
(* Clients *)

\* The kernel completes a connection while there is room in the backlog.
Connect(c) ==
  /\ net[c] = "new" /\ listening /\ Len(queue) <= Backlog
  /\ net' = [net EXCEPT ![c] = "queued"]
  /\ queue' = Append(queue, c)
  /\ UNCHANGED <<srv, listening, cur, buf, turnstile, now, left, sent, answer, written, acceptedAt>>

Connected(c) == net[c] \in {"queued", "open"} /\ ~left[c]

SendPacket(c) ==
  /\ Connected(c) /\ sent[c] < Size[c]
  /\ sent' = [sent EXCEPT ![c] = @ + 1]
  /\ UNCHANGED <<serverVars, now, net, left, answer, written, acceptedAt>>

Leave(c) ==
  /\ Connected(c)
  /\ left' = [left EXCEPT ![c] = TRUE]
  /\ UNCHANGED <<serverVars, now, net, sent, answer, written, acceptedAt>>

Tick ==
  /\ now < MaxTime
  /\ now' = now + 1
  /\ UNCHANGED <<serverVars, clientVars>>

----------------------------------------------------------------------------
(* The server *)

\* close_sock, the handler of SIGINT and SIGTERM.  The connections that were
\* not accepted are reset.
CloseSock ==
  /\ listening /\ srv # "dead"
  /\ listening' = FALSE
  /\ queue' = <<>>
  /\ net' = [c \in Client |-> IF net[c] = "queued" THEN "reset" ELSE net[c]]
  /\ UNCHANGED <<srv, cur, buf, turnstile, now, left, sent, answer, written, acceptedAt>>

\* The end of the process, which takes its descriptors along.
Die ==
  /\ srv' = "dead" /\ listening' = FALSE /\ queue' = <<>> /\ cur' = None
  /\ net' = [c \in Client |-> IF net[c] \in {"queued", "open"} THEN "reset" ELSE net[c]]
  /\ UNCHANGED <<buf, turnstile, now, left, sent, answer, written, acceptedAt>>

\* accept, then the turnstile.
Accept ==
  /\ srv = "accept" /\ listening /\ queue # <<>>
  /\ LET c == Head(queue)
         next_request_at == NextRequestAt(turnstile, AddressOf[c], now)
     IN  /\ cur' = c
         /\ net' = [net EXCEPT ![c] = "open"]
         /\ queue' = Tail(queue)
         /\ turnstile' = TurnstileAfter(turnstile, AddressOf[c], now)
         /\ acceptedAt' = [acceptedAt EXCEPT ![c] = now]
         /\ IF next_request_at = 0
              THEN srv' = "read" /\ UNCHANGED answer
              ELSE srv' = "write" /\ answer' = [answer EXCEPT ![c] = "limited"]
  /\ UNCHANGED <<listening, buf, now, left, sent, written>>

\* Mutant of AcceptFails: whatever interrupts accept, try again.
AcceptContinues == srv = "accept" /\ ~listening /\ UNCHANGED vars

\* signal() installs the handler with SA_RESTART, so accept is restarted on
\* the descriptor it closed: EBADF, not EINTR, and errno_exit.
AcceptFails == srv = "accept" /\ ~listening /\ Die

\* Mutants of Read: the buffer is kept between requests and read's result is
\* not looked at; and the rest of the request is waited for.
ReadKeepsBuf ==
  /\ srv = "read"
  /\ \/ /\ sent[cur] > 0
        /\ buf' = [from |-> cur, n |-> IF sent[cur] < BufSize THEN sent[cur] ELSE BufSize]
     \/ left[cur] /\ UNCHANGED buf
  /\ srv' = "interpret"
  /\ UNCHANGED <<listening, queue, cur, turnstile, now, clientVars>>
ReadAll ==
  /\ srv = "read"
  /\ sent[cur] = (IF Size[cur] < BufSize THEN Size[cur] ELSE BufSize)
  /\ buf' = [from |-> cur, n |-> sent[cur]]
  /\ srv' = "interpret"
  /\ UNCHANGED <<listening, queue, cur, turnstile, now, clientVars>>

\* The one read of interpret_request: what has arrived, as much as fits, or
\* nothing when the client has left (end of file, or a reset that also
\* discards what had arrived).
Read ==
  /\ srv = "read"
  /\ \/ /\ sent[cur] > 0
        /\ buf' = [from |-> cur, n |-> IF sent[cur] < BufSize THEN sent[cur] ELSE BufSize]
     \/ left[cur] /\ buf' = Empty
  /\ srv' = "interpret"
  /\ UNCHANGED <<listening, queue, cur, turnstile, now, clientVars>>

\* Mutant of Interpret: no answer, and no close, for what is no JSON.
InterpretContinues ==
  /\ srv = "interpret"
  /\ IF buf.from # None /\ buf.n = Size[buf.from]
       THEN srv' = "write" /\ answer' = [answer EXCEPT ![cur] = buf.from] /\ UNCHANGED cur
       ELSE srv' = "accept" /\ cur' = None /\ UNCHANGED answer
  /\ UNCHANGED <<listening, queue, buf, turnstile, now, net, left, sent, written, acceptedAt>>

\* tchatator413_interpret: anything but a whole request is no JSON.
Interpret ==
  /\ srv = "interpret"
  /\ answer' = [answer EXCEPT ![cur] =
       IF buf.from # None /\ buf.n = Size[buf.from] THEN buf.from ELSE "malformed"]
  /\ srv' = "write"
  /\ UNCHANGED <<listening, queue, cur, buf, turnstile, now, net, left, sent, written, acceptedAt>>

\* An action that ends the process (Exit in module Evaluate).
InterpretExits ==
  /\ srv = "interpret" /\ buf.from # None /\ buf.n = Size[buf.from]
  /\ Die

\* Mutants of Write: what is written is not taken off what remains; no loop.
WriteAgain ==
  /\ srv = "write"
  /\ \E n \in 1..Chunks :
       /\ written' = [written EXCEPT ![cur] = @ + n]
       /\ srv' = IF written[cur] + n >= Chunks THEN "close" ELSE "write"
  /\ UNCHANGED <<listening, queue, cur, buf, turnstile, now, net, left, sent, answer, acceptedAt>>
WriteOnce ==
  /\ srv = "write"
  /\ \E n \in 1..Chunks : written' = [written EXCEPT ![cur] = n]
  /\ srv' = "close"
  /\ UNCHANGED <<listening, queue, cur, buf, turnstile, now, net, left, sent, answer, acceptedAt>>

\* One write of json_object_write, of any part of what remains.
Write ==
  /\ srv = "write"
  /\ \E n \in 1..(Chunks - written[cur]) :
       /\ written' = [written EXCEPT ![cur] = @ + n]
       /\ srv' = IF written[cur] + n = Chunks THEN "close" ELSE "write"
  /\ UNCHANGED <<listening, queue, cur, buf, turnstile, now, net, left, sent, answer, acceptedAt>>

\* A write to a client that has left: SIGPIPE, or ECONNRESET and errno_exit.
WriteFails == srv = "write" /\ left[cur] /\ Die

Close ==
  /\ srv = "close"
  /\ net' = [net EXCEPT ![cur] = "closed"]
  /\ cur' = None
  /\ srv' = "accept"
  /\ UNCHANGED <<listening, queue, buf, turnstile, now, left, sent, answer, written, acceptedAt>>

----------------------------------------------------------------------------

Init ==
  /\ srv = "accept" /\ listening = TRUE /\ queue = <<>> /\ cur = None /\ buf = Empty
  /\ turnstile = [a \in {} |-> Empty]
  /\ now = 0
  /\ net = [c \in Client |-> "new"]
  /\ left = [c \in Client |-> FALSE]
  /\ sent = [c \in Client |-> 0]
  /\ answer = [c \in Client |-> None]
  /\ written = [c \in Client |-> 0]
  /\ acceptedAt = [c \in Client |-> -1]

Serve ==
  \/ Accept \/ AcceptFails \/ Read \/ Interpret \/ InterpretExits
  \/ Write \/ WriteFails \/ Close

Next ==
  \/ Serve \/ CloseSock \/ Tick
  \/ \E c \in Client : Connect(c) \/ SendPacket(c) \/ Leave(c)

Spec == Init /\ [][Next]_vars

-----------------------------------------------------------------------------
(* Properties *)

TypeOK ==
  /\ srv \in Serving \cup {"accept", "dead"}
  /\ listening \in BOOLEAN
  /\ queue \in Seq(Client)
  /\ cur \in Client \cup {None}
  /\ buf \in [from : Client \cup {None}, n : 0..BufSize]
  /\ turnstile = [a \in {} |-> Empty]
  /\ now \in 0..MaxTime
  /\ net \in [Client -> {"new", "queued", "open", "closed", "reset"}]
  /\ left \in [Client -> BOOLEAN]
  /\ sent \in [Client -> Nat] /\ \A c \in Client : sent[c] <= Size[c]
  /\ answer \in [Client -> Client \cup {None, "malformed", "limited"}]
  /\ written \in [Client -> 0..Chunks]
  /\ acceptedAt \in [Client -> -1..MaxTime]

\* A connection the server closes by itself had its whole answer written, in
\* however many pieces write took it (tchatator413-server.c:41-47, 175-194).
AnsweredInFull ==
  \A c \in Client : net[c] = "closed" => (answer[c] # None /\ written[c] = Chunks)

\* Nobody gets the answer to the request of an earlier connection, not even a
\* client that leaves without a word (tchatator413-server.c:53-57).
AnswerIsOwn == \A c \in Client : answer[c] \in {None, c, "malformed", "limited"}

\* No descriptor is lost on any path from accept to accept
\* (tchatator413-server.c:161-195).
NoConnectionForgotten ==
  /\ \A c \in Client : net[c] = "open" <=> c = cur
  /\ cur # None <=> srv \in Serving
  /\ \A c \in Client : net[c] = "queued" <=> \E i \in DOMAIN queue : queue[i] = c

\* A client that gets a connection also gets to its end: it is served, or the
\* server ends.  The clients before it must not fall silent
\* (tchatator413-server.c:161-195).
EveryClientEnds == \A c \in Client : net[c] = "queued" ~> net[c] \in {"closed", "reset"}

\* A signal ends the server, after the request at hand
\* (tchatator413-server.c:115-120, 163-173).
SignalEnds == ~listening ~> srv = "dead"

\* The turnstile blocks an address whose requests of a minute have reached the
\* limit (tchatator413-server.c:80-81, of turnstile_rate_limit).
RateLimited ==
  \A a \in Address, t \in 0..now :
    Cardinality({c \in Client : /\ AddressOf[c] = a
                                /\ answer[c] \notin {None, "limited"}
                                /\ acceptedAt[c] \in t..(t + Minute - 1)}) <= RateLimitM
=============================================================================
