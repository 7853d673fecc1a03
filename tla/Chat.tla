-------------------------------- MODULE Chat --------------------------------
(***************************************************************************)
(* The interactive client (client.c) against the socket server of module   *)
(* SocketServer.  The client reads a menu choice from its standard input,  *)
(* then sends one request over one connection and reads until the server   *)
(* closes it.  Its input is a sequence of numbers, other characters and    *)
(* ends of lines, which scanf, getchar and fgets take as the code has it.  *)
(***************************************************************************)
EXTENDS SocketServer, SequencesExt

CONSTANTS
  Mine,     \* the connections the client makes, in order
  Inputs,   \* what may be typed
  Garbage   \* the values choix may have before it is set

Word == -1
Eol == 0
Choice == 1..14     \* 14: any other number
Quit == 13

ASSUME ChatAssumption ==
  /\ Mine \in Seq(Client) /\ IsInjective(Mine)
  /\ Inputs \subseteq Seq({Word, Eol} \cup Choice) /\ Garbage \subseteq Choice
  /\ \A s \in Inputs : Len(s) < Len(Mine)
  \* send takes a request whole: with 1023 and 255 bytes of JSON strings at
  \* most it is shorter than what the loopback carries at once.
  /\ \A i \in DOMAIN Mine : Size[Mine[i]] = 1

Foreign == Client \ {Mine[i] : i \in DOMAIN Mine}

VARIABLES
  at,         \* menu, connect, send, receive; exited, lost, interrupted
  stdin,      \* in: what is not read yet; eof: feof(stdin)
  choix,      \* choix
  n,          \* the requests made, or begun: Mine[n] is the last one's connection
  fds,        \* the sockets that are not closed
  connected,  \* gs_state.tag = state_connected
  numbers,    \* history: the numbers typed at the menu
  strays      \* history: the characters met there that are no number

chatVars == <<at, stdin, choix, n, fds, connected, numbers, strays>>

----------------------------------------------------------------------------
(* Standard input *)

Stream(s, eof) == [in |-> s, eof |-> eof]

\* scanf("%d"): ends of lines are skipped, a number is taken, anything else
\* stays.  A number at the very end meets the end of the file as well.
FirstTyped(in) == SelectInSeq(in, LAMBDA t : t # Eol)
Scans(s) == FirstTyped(s.in) # 0 /\ s.in[FirstTyped(s.in)] # Word
Scanned(s) ==
  LET i == FirstTyped(s.in)
      rest == IF i = 0 THEN <<>> ELSE SubSeq(s.in, IF Scans(s) THEN i + 1 ELSE i, Len(s.in))
  IN  Stream(rest, s.eof \/ rest = <<>>)

\* getchar.
CharTaken(s) == IF s.in = <<>> THEN Stream(<<>>, TRUE) ELSE Stream(Tail(s.in), s.eof)

\* fgets: up to and with the end of the line, or of the file.
LineTaken(s) ==
  LET i == SelectInSeq(s.in, LAMBDA t : t = Eol)
  IN  IF i = 0 THEN Stream(<<>>, TRUE) ELSE Stream(SubSeq(s.in, i + 1, Len(s.in)), s.eof)

----------------------------------------------------------------------------
(* Requests: the action, and the keys of its "with" *)

login == [do |-> "login", with |-> {"api_key", "password"}]
logout == [do |-> "logout", with |-> {}]
send_message == [do |-> "send", with |-> {"token", "dest", "content"}]
remove_message == [do |-> "rm", with |-> {}]
\* Mutant of inbox: the request the server's protocol asks for.
inboxOfServer == [do |-> "inbox", with |-> {"constr"}]
inbox == [do |-> "inbox", with |-> {"token"}]
nr_inbox == [do |-> "motd", with |-> {"token"}]
outbox == [do |-> "outbox", with |-> {"token"}]
block == [do |-> "block", with |-> {"token", "user"}]
unblock == [do |-> "unblock", with |-> {"token", "user"}]

\* The request of each choice, 4 and the others having none.  11 and 12 offer
\* to ban and block instead.
RequestOf ==
  [c \in (1..12) \ {4} |->
     CASE c = 1 -> login [] c = 2 -> logout [] c = 3 -> send_message [] c = 5 -> remove_message
       [] c = 6 -> inbox [] c = 7 -> nr_inbox [] c = 8 -> outbox
       [] c \in {9, 11} -> block [] c \in {10, 12} -> unblock]

\* What the server's action_parse takes: it must know the action, and find the
\* keys.  (page is optional.)
Needs ==
  [do \in {"whois", "send", "motd", "inbox", "outbox", "edit", "rm", "block", "unblock", "ban", "unban"} |->
     {"constr"} \cup
     CASE do \in {"motd", "inbox", "outbox"} -> {}
       [] do \in {"whois", "block", "unblock", "ban", "unban"} -> {"user"}
       [] do = "send" -> {"content", "dest"}
       [] do = "rm" -> {"msg_id"}
       [] do = "edit" -> {"msg_id", "new_content"}]
Understood(req) == req.do \in DOMAIN Needs /\ Needs[req.do] \subseteq req.with

----------------------------------------------------------------------------
(* main *)

Arguments(c, s) ==
  CASE c \in {4, 5} -> Scanned(s)
    [] c \in {1, 3} -> LineTaken(LineTaken(s))
    [] c \in 9..12 -> LineTaken(s)
    [] OTHER -> s

\* One turn of the loop, up to the request.  scanf's result is not looked at:
\* without a number choix is what it was, which at first is anything.
Turn ==
  /\ choix' = IF Scans(stdin) THEN stdin.in[FirstTyped(stdin.in)] ELSE choix
  /\ stdin' = Arguments(choix', CharTaken(Scanned(stdin)))
  /\ numbers' = IF Scans(stdin) THEN numbers + 1 ELSE numbers
  /\ strays' = IF FirstTyped(stdin.in) # 0 /\ ~Scans(stdin) THEN strays + 1 ELSE strays
  /\ IF choix' = Quit THEN at' = "exited" /\ UNCHANGED n
     ELSE IF choix' \in DOMAIN RequestOf THEN at' = "connect" /\ n' = n + 1
     ELSE at' = "menu" /\ UNCHANGED n
  /\ UNCHANGED <<fds, connected, vars>>

\* Mutant of Menu: the end of the input is not looked for.
MenuForever == at = "menu" /\ n < Len(Mine) /\ Turn

Menu == at = "menu" /\ ~stdin.eof /\ Turn

EndOfInput ==
  /\ at = "menu" /\ stdin.eof
  /\ at' = "exited"
  /\ UNCHANGED <<stdin, choix, n, fds, connected, numbers, strays, vars>>

----------------------------------------------------------------------------
(* send_request *)

conn == Mine[n]
UNCHANGEDMenu == UNCHANGED <<stdin, choix, n, numbers, strays>>

Dial ==
  /\ at = "connect"
  /\ Connect(conn)
  /\ fds' = fds \cup {conn} /\ at' = "send"
  /\ UNCHANGEDMenu /\ UNCHANGED connected

\* No server, or none that takes more connections: exit.
DialFails ==
  /\ at = "connect" /\ (~listening \/ Len(queue) > Backlog)
  /\ at' = "exited" /\ fds' = {}
  /\ UNCHANGEDMenu /\ UNCHANGED <<connected, vars>>

\* Mutant of Transmit: the answer is waited for before the request is sent.
TransmitNothing ==
  /\ at = "send" /\ Connected(conn)
  /\ at' = "receive"
  /\ UNCHANGEDMenu /\ UNCHANGED <<fds, connected, vars>>

Transmit ==
  /\ at = "send"
  /\ SendPacket(conn)
  /\ at' = IF sent'[conn] = Size[conn] THEN "receive" ELSE "send"
  /\ UNCHANGEDMenu /\ UNCHANGED <<fds, connected>>

\* The connection is gone: send fails, which is not looked at, or SIGPIPE.
TransmitFails ==
  /\ at = "send" /\ ~Connected(conn)
  /\ \/ at' = "receive" /\ UNCHANGED fds
     \/ at' = "lost" /\ fds' = {}
  /\ UNCHANGEDMenu /\ UNCHANGED <<connected, vars>>

\* The sockets left open: a body is returned without closing.
OpenAfter(body) == IF body THEN fds ELSE fds \ {conn}

\* json_object_from_fd reads up to the end of the file.  The answer is the
\* first of an array: of what is no array, the server's refusal of a request
\* too many, or of nothing, the client dies.
Receive ==
  /\ at = "receive" /\ net[conn] \in {"closed", "reset"}
  /\ IF net[conn] = "closed" /\ answer[conn] # "limited"
       THEN \E body \in {FALSE} \cup {answer[conn] = conn /\ Understood(RequestOf[choix])} :
              /\ at' = "menu"
              /\ fds' = OpenAfter(body)
              /\ connected' = IF body /\ choix \in {1, 2} THEN choix = 1 ELSE connected
       ELSE at' = "lost" /\ fds' = {} /\ UNCHANGED connected
  /\ UNCHANGEDMenu /\ UNCHANGED vars

\* The user interrupts the client, whose connection is closed.
Interrupt ==
  /\ at \in {"menu", "connect", "send", "receive"}
  /\ at' = "interrupted" /\ fds' = {}
  /\ UNCHANGEDMenu /\ UNCHANGED connected
  /\ IF n # 0 /\ conn \in fds /\ Connected(conn) THEN Leave(conn) ELSE UNCHANGED vars

----------------------------------------------------------------------------

ChatInit ==
  /\ Init
  /\ at = "menu" /\ n = 0 /\ fds = {} /\ connected = FALSE
  /\ numbers = 0 /\ strays = 0
  /\ stdin \in {Stream(s, FALSE) : s \in Inputs}
  /\ choix \in Garbage

Run == Menu \/ EndOfInput \/ Dial \/ DialFails \/ Transmit \/ TransmitFails \/ Receive

Others ==
  \/ Serve \/ CloseSock
  \/ \E c \in Foreign : Connect(c) \/ SendPacket(c) \/ Leave(c)

ChatNext == Run \/ Interrupt \/ (Others /\ UNCHANGED chatVars)

ChatSpec == ChatInit /\ [][ChatNext]_<<chatVars, vars>>

\* The client goes on when it can.  The server as in ProgramFairSpec, and the
\* connections of others: who is connected sends its request or leaves.
ChatFairSpec ==
  /\ ChatSpec
  /\ WF_<<chatVars, vars>>(Run)
  /\ WF_<<chatVars, vars>>(Serve /\ UNCHANGED chatVars)
  /\ \A c \in Foreign : WF_<<chatVars, vars>>(SendPacket(c) /\ UNCHANGED chatVars)

-----------------------------------------------------------------------------
(* Properties *)

\* The last choice is made again wherever scanf finds no number, at first an
\* arbitrary one (client.c:60, 77-80).  That is one request too many for each
\* character that is no number, which getchar takes away, and one at the end of
\* the input, which feof then ends; there are no others.
RequestsAccounted == n <= numbers + strays + (IF stdin.eof THEN 1 ELSE 0)

\* The client comes to its end, whatever is typed and whoever else is served:
\* it and the server never wait for one another (client.c:60-152, 175-177).
EndsWithInput == <>(at \in {"exited", "lost", "interrupted"})

\* While the server is up no answer is lost, nor one read that the client
\* dies of (client.c:177-180, tchatator413-server.c:175-194).
LostOnlyWithServer == at = "lost" => ~listening

\* The socket of a request is closed before the next one: no request gets a
\* body, the only answer that leaves it open (client.c:184-193, 199-364).
SocketsReturned == at = "menu" => fds = {}
=============================================================================
