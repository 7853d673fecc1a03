------------------------------ MODULE Program ------------------------------
(***************************************************************************)
(* The program tchatator-server from main to its end (server.c): the       *)
(* environment, the command line, the database, then an interactive run    *)
(* (tchatator413.c) or the socket server of module SocketServer.  With it, *)
(* the memory lists (memlst.c) that own what is allocated on the way: what *)
(* is destroyed when, and what is still used afterwards.                   *)
(***************************************************************************)
EXTENDS SocketServer

CONSTANTS
  CommandLines,   \* the options the program may be started with, in order
  MaxActions      \* bound on the actions of an interactive run's input

Option == {"help", "version", "dump-config", "quiet", "verbose", "interactive", "config", "unknown"}

ASSUME ProgramAssumption == CommandLines \subseteq Seq(Option) /\ MaxActions \in Nat

\* What the lists own: cfg, db; the input and output of an interactive run;
\* and what the action at hand allocates.
Object == {"cfg", "db", "input", "output", "result"}
List == {"main", "interactive", "act"}

EX_OK == 0
EXIT_FAILURE == 1
EX_USAGE == 64
EX_DATAERR == 65
EX_NODB == 79
Running == -1
Signalled == -2

VARIABLES
  stage,    \* what main does next, or the function it is in
  args,     \* the options getopt_long has not returned yet
  flags,    \* dump_config, interactive
  list,     \* list[l]: the objects on a memory list, in order
  heap,     \* heap[o]: never allocated, live, freed, freed again, or lost
  todo,     \* the actions of the input that are not answered
  printed,  \* whether the interactive run printed its output
  status    \* the exit status

mainVars == <<stage, args, flags, list, heap, todo, printed, status>>
runVars == <<todo, printed>>

Goto(next) == stage' = next /\ UNCHANGED status

\* exit or a signal, wherever the program is.
Exit(code) == stage' = "exited" /\ status' = code

----------------------------------------------------------------------------
(* Memory lists *)

\* memlst_add of a new allocation.
Add(l, o) ==
  /\ list' = [list EXCEPT ![l] = Append(@, o)]
  /\ heap' = [heap EXCEPT ![o] = "live"]

On(l) == {list[l][i] : i \in DOMAIN list[l]}

\* Mutant of Collected: the last allocation is left out.
CollectedShort(l) == IF list[l] = <<>> THEN {} ELSE On(l) \ {list[l][Len(list[l])]}

\* What memlst_collect calls the destructors of.
Collected(l) == On(l)

\* memlst_destroy: every destructor runs, the list is empty afterwards.
Destroy(l) ==
  /\ heap' = [o \in Object |-> IF o \notin Collected(l) THEN heap[o]
                              ELSE IF heap[o] = "live" THEN "freed" ELSE "freed again"]
  /\ list' = [list EXCEPT ![l] = <<>>]

\* CLEAN_RETURN of main and of the interactive run, with a constant: main returns.
CleanReturn(l, code) == Destroy(l) /\ stage' = "returned" /\ status' = code

----------------------------------------------------------------------------
(* main *)

Defaults ==
  /\ stage = "start"
  /\ Add("main", "cfg")
  /\ Goto("root_key")
  /\ UNCHANGED <<args, flags, runVars>>

\* require_env, for a variable that is not set: exit, without cleaning.
EnvMissing ==
  /\ stage \in {"root_key", "root_password", "connect"}
  /\ Exit(EX_USAGE)
  /\ UNCHANGED <<args, flags, list, heap, runVars>>

RootKey ==
  /\ stage = "root_key"
  /\ \/ Goto("root_password") /\ UNCHANGED <<list, heap>>
     \/ CleanReturn("main", EX_USAGE)     \* no UUID
  /\ UNCHANGED <<args, flags, runVars>>

\* cfg_load_root_credentials: bcrypt may fail.
RootPassword ==
  /\ stage = "root_password"
  /\ Goto("options") \/ Exit(EXIT_FAILURE)
  /\ UNCHANGED <<args, flags, list, heap, runVars>>

\* One turn of the loop over the options.  cfg is never NULL here, so -c is
\* always one too many.  How much is logged is left out.
TakeOption ==
  /\ stage = "options" /\ args # <<>>
  /\ args' = Tail(args)
  /\ LET opt == Head(args)
     IN  \/ /\ opt \in {"help", "version"} /\ CleanReturn("main", EX_OK)
            /\ UNCHANGED flags
         \/ /\ opt \in {"config", "unknown"} /\ CleanReturn("main", EX_USAGE)
            /\ UNCHANGED flags
         \/ /\ opt \in {"dump-config", "interactive", "quiet", "verbose"}
            /\ flags' = flags \cup ({opt} \ {"quiet", "verbose"})
            /\ UNCHANGED <<stage, status, list, heap>>
  /\ UNCHANGED runVars

OptionsTaken ==
  /\ stage = "options" /\ args = <<>>
  /\ IF "dump-config" \in flags
       THEN CleanReturn("main", EX_OK)
       ELSE Goto("connect") /\ UNCHANGED <<list, heap>>
  /\ UNCHANGED <<args, flags, runVars>>

\* db_connect: NULL is not added to the list.
ConnectDatabase ==
  /\ stage = "connect"
  /\ \/ Add("main", "db") /\ Goto("run")
     \/ CleanReturn("main", EX_NODB)
  /\ UNCHANGED <<args, flags, runVars>>

\* The last CLEAN_RETURN of main: the list is destroyed, then the expression
\* that is returned is evaluated, which runs the server.
Run ==
  /\ stage = "run"
  /\ Destroy("main")
  /\ Goto(IF "interactive" \in flags THEN "read" ELSE "bind")
  /\ UNCHANGED <<args, flags, runVars>>

----------------------------------------------------------------------------
(* tchatator413_run_interactive *)

\* The argument or standard input: an array of actions, an object that is
\* one, something else, which is answered without an action, or no JSON.
ReadInput ==
  /\ stage = "read"
  /\ \/ CleanReturn("interactive", EX_DATAERR) /\ UNCHANGED todo
     \/ /\ Add("interactive", "input")
        /\ todo' \in 0..MaxActions
        /\ Goto("interpret")
  /\ UNCHANGED <<args, flags, printed>>

\* Mutant of Act: its list is cleaned before the response is rendered.
ActCleansFirst ==
  /\ stage = "interpret" /\ todo > 0
  /\ Goto("render")
  /\ heap' \in {heap, [heap EXCEPT !["result"] = "freed"]}
  /\ UNCHANGED <<args, flags, list, runVars>>

\* act, up to its response: action_parse and action_evaluate may put what
\* they allocate on the list of the action, and may end the process.
Act ==
  /\ stage = "interpret" /\ todo > 0
  /\ \/ Goto("render") /\ (Add("act", "result") \/ UNCHANGED <<list, heap>>)
     \/ Exit(EXIT_FAILURE) /\ UNCHANGED <<list, heap>>
  /\ UNCHANGED <<args, flags, runVars>>

\* response_to_json; then the list goes out of scope as it is, and what it
\* owned is lost.
Render ==
  /\ stage = "render"
  /\ list' = [list EXCEPT !["act"] = <<>>]
  /\ heap' = [heap EXCEPT !["result"] = IF @ = "live" THEN "lost" ELSE @]
  /\ todo' = todo - 1
  /\ Goto("interpret")
  /\ UNCHANGED <<args, flags, printed>>

\* Every action has its answer.
Output ==
  /\ stage = "interpret" /\ todo = 0
  /\ Add("interactive", "output")
  /\ Goto("print")
  /\ UNCHANGED <<args, flags, runVars>>

PrintOutput ==
  /\ stage = "print"
  /\ printed' = TRUE
  /\ CleanReturn("interactive", EX_OK)
  /\ UNCHANGED <<args, flags, todo>>

----------------------------------------------------------------------------
(* tchatator413_run_socket *)

\* socket, signal, bind and listen.
Bind ==
  /\ stage = "bind"
  /\ Goto("socket") \/ Exit(EXIT_FAILURE)
  /\ UNCHANGED <<args, flags, list, heap, runVars>>

UsesCfgAndDb == {"read", "interpret", "render", "print", "bind", "socket"}

\* A use of freed memory may end the process, or have no effect.
Crash ==
  /\ stage \in UsesCfgAndDb /\ heap["cfg"] # "live" /\ srv # "dead"
  /\ Exit(Signalled)
  /\ UNCHANGED <<args, flags, list, heap, runVars>>

----------------------------------------------------------------------------

ProgramInit ==
  /\ Init
  /\ stage = "start" /\ args \in CommandLines /\ flags = {}
  /\ list = [l \in List |-> <<>>]
  /\ heap = [o \in Object |-> "none"]
  /\ todo = 0 /\ printed = FALSE /\ status = Running

Main ==
  \/ Defaults \/ EnvMissing \/ RootKey \/ RootPassword
  \/ TakeOption \/ OptionsTaken \/ ConnectDatabase \/ Run
  \/ ReadInput \/ Act \/ Render \/ Output \/ PrintOutput \/ Bind

\* The socket server and its clients, once it listens.
InSocket(A) == stage = "socket" /\ A /\ UNCHANGED mainVars

ProgramNext ==
  \/ Main /\ UNCHANGED vars
  \/ InSocket(Next)
  \/ stage # "socket" /\ Crash /\ UNCHANGED vars
  \/ stage = "socket" /\ Crash /\ Die

ProgramSpec == ProgramInit /\ [][ProgramNext]_<<mainVars, vars>>

\* A socket server that is not waiting for its client goes on; a client that is
\* connected sends the whole of its request unless it leaves.
ProgramFairSpec ==
  /\ ProgramSpec
  /\ WF_<<mainVars, vars>>(InSocket(Serve))
  /\ \A c \in Client : WF_<<mainVars, vars>>(InSocket(SendPacket(c)))

-----------------------------------------------------------------------------
(* Properties *)

\* Nothing is ever destroyed twice.  When main returns, whatever a list took
\* over was destroyed, however far the start-up or the run had come: all but the
\* results of actions, which act leaks (server.c:27-135, memlst.c:22-60,
\* tchatator413.c:36-46).  The ends by exit clean up nothing and are not returns.
ReturnsClean ==
  /\ \A o \in Object : heap[o] # "freed again"
  /\ stage = "returned" =>
       \A o \in Object : heap[o] \in {"none", "freed"} \/ (o = "result" /\ heap[o] = "lost")

\* A response is rendered while what it refers to is there: it shares the
\* results of the action and the input (tchatator413.c:36-46, action-json.c:279-434).
RendersLive ==
  stage = "render" => heap["input"] = "live" /\ heap["result"] # "freed"

\* util.h:14-17, CLEAN_RETURN cleans up before returning from a function: what
\* the list owns is not used any more (server.c:134).
UsedWhileLive == stage \in UsesCfgAndDb => heap["cfg"] = "live" /\ heap["db"] = "live"
=============================================================================
