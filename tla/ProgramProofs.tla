---------------------------- MODULE ProgramProofs ----------------------------
(***************************************************************************)
(* Proofs about Program, for all command lines and any input: what the     *)
(* memory lists own at each stage of main, and that what is proved of the  *)
(* socket server holds of the program around it.                           *)
(***************************************************************************)
EXTENDS Program, SocketProofs

Stage ==
  {"start", "root_key", "root_password", "options", "connect", "run",
   "read", "interpret", "render", "print", "bind", "socket", "returned", "exited"}
Ends == {"returned", "exited"}

\* The lists by stage: main's until it returns, that of the interactive run,
\* and that of the action at hand while its response is rendered.
MainOwns ==
  IF stage \in {"root_key", "root_password", "options", "connect"} THEN {"cfg"}
  ELSE IF stage = "run" THEN {"cfg", "db"} ELSE {}
InteractiveOwns ==
  IF stage \in {"interpret", "render"} THEN {"input"}
  ELSE IF stage = "print" THEN {"input", "output"} ELSE {}

Lists ==
  /\ On("main") = MainOwns
  /\ On("interactive") = InteractiveOwns
  /\ On("act") \subseteq IF stage = "render" THEN {"result"} ELSE {}

\* What is live is what is on a list, so that no destructor meets an object
\* that is gone.  The result of an action is not freed, but lost.
MemoryTypeOK ==
  /\ stage \in Stage
  /\ list \in [List -> Seq(Object)]
  /\ heap \in [Object -> {"none", "live", "freed", "freed again", "lost"}]

Live == \A o \in Object : heap[o] = "live" <=> \E l \in List : o \in On(l)
NoneTwice ==
  /\ heap["result"] # "freed"
  /\ \A o \in Object : heap[o] # "freed again" /\ (heap[o] = "lost" => o = "result")

\* The end, and every stage before it.
Before == status = Running /\ Lists /\ Live
After == stage = "returned" => \A o \in Object : heap[o] # "live"

PInv == MemoryTypeOK /\ NoneTwice /\ (IF stage \in Ends THEN After ELSE Before)

----------------------------------------------------------------------------
(* Memory lists *)

\* No object is on two lists.
LEMMA ListsApart ==
  ASSUME Lists, NEW k \in List, NEW l \in List, k # l
  PROVE  On(k) \cap On(l) = {}
BY DEF Lists, MainOwns, InteractiveOwns, List

\* memlst_add puts one live object on one list.
LEMMA AddStep ==
  ASSUME MemoryTypeOK, NoneTwice, Live, NEW l \in List, NEW o \in Object, Add(l, o)
  PROVE  /\ On(l)' = On(l) \cup {o} /\ \A k \in List \ {l} : On(k)' = On(k)
         /\ list' \in [List -> Seq(Object)]
         /\ heap' \in [Object -> {"none", "live", "freed", "freed again", "lost"}]
         /\ NoneTwice' /\ Live'
<1>1. /\ list' = [list EXCEPT ![l] = Append(@, o)] /\ list \in [List -> Seq(Object)]
      /\ heap' = [heap EXCEPT ![o] = "live"]
  BY DEF Add, MemoryTypeOK
<1>2. list'[l] = Append(list[l], o) /\ list[l] \in Seq(Object) /\ \A k \in List \ {l} : list'[k] = list[k]
  BY <1>1
<1>3. On(l)' = On(l) \cup {o}
  <2>1. /\ Len(list[l]) \in Nat /\ DOMAIN list[l] = 1..Len(list[l])
        /\ DOMAIN list'[l] = 1..(Len(list[l]) + 1) /\ list'[l][Len(list[l]) + 1] = o
        /\ \A i \in 1..Len(list[l]) : list'[l][i] = list[l][i]
    BY <1>2
  <2>. QED
    BY <2>1 DEF On
<1>4. \A k \in List \ {l} : On(k)' = On(k)
  BY <1>2 DEF On
<1>5. Append(list[l], o) \in Seq(Object)
  BY <1>2
<1>6. list' \in [List -> Seq(Object)]
  BY <1>1, <1>5
<1>7. /\ heap' \in [Object -> {"none", "live", "freed", "freed again", "lost"}]
      /\ heap'[o] = "live" /\ \A x \in Object \ {o} : heap'[x] = heap[x]
  BY <1>1 DEF MemoryTypeOK
<1>8. NoneTwice'
  BY <1>7 DEF NoneTwice, Object
<1>9. Live'
  <2> SUFFICES ASSUME NEW x \in Object
               PROVE  heap'[x] = "live" <=> \E k \in List : x \in On(k)'
    BY DEF Live
  <2>. QED
    BY <1>3, <1>4, <1>7 DEF Live
<1>. QED
  BY <1>3, <1>4, <1>6, <1>7, <1>8, <1>9

\* memlst_destroy frees what is on one list, each object for the first time.
LEMMA DestroyStep ==
  ASSUME MemoryTypeOK, NoneTwice, Lists, Live, NEW l \in {"main", "interactive"}, Destroy(l)
  PROVE  /\ On(l)' = {} /\ \A k \in List \ {l} : On(k)' = On(k)
         /\ list' \in [List -> Seq(Object)]
         /\ heap' \in [Object -> {"none", "live", "freed", "freed again", "lost"}]
         /\ NoneTwice' /\ Live'
<1>1. /\ list' = [list EXCEPT ![l] = <<>>] /\ list \in [List -> Seq(Object)] /\ l \in List
      /\ heap' = [o \in Object |-> IF o \notin On(l) THEN heap[o]
                                   ELSE IF heap[o] = "live" THEN "freed" ELSE "freed again"]
  BY DEF Destroy, Collected, MemoryTypeOK, List
<1>2. list'[l] = <<>> /\ \A k \in List \ {l} : list'[k] = list[k]
  BY <1>1
<1>3. On(l)' = {} /\ \A k \in List \ {l} : On(k)' = On(k)
  BY <1>2 DEF On
<1>4. list' \in [List -> Seq(Object)]
  <2>1. <<>> \in Seq(Object)
    OBVIOUS
  <2>. QED
    BY <1>1, <2>1
<1>5. \A o \in On(l) \cap Object : heap[o] = "live"
  BY <1>1 DEF Live
<1>6. \A o \in Object : heap'[o] = IF o \in On(l) THEN "freed" ELSE heap[o]
  BY <1>1, <1>5
<1>7. heap' \in [Object -> {"none", "live", "freed", "freed again", "lost"}]
  BY <1>1 DEF MemoryTypeOK
<1>8. "result" \notin On(l)
  BY DEF Lists, MainOwns, InteractiveOwns
<1>9. NoneTwice'
  BY <1>6, <1>8 DEF NoneTwice, Object
<1>10. Live'
  <2> SUFFICES ASSUME NEW x \in Object
               PROVE  heap'[x] = "live" <=> \E k \in List : x \in On(k)'
    BY DEF Live
  <2>1. CASE x \in On(l)
    BY <1>1, <1>3, <1>6, <2>1, ListsApart
  <2>2. CASE x \notin On(l)
    BY <1>3, <1>6, <2>2 DEF Live
  <2>. QED
    BY <2>1, <2>2
<1>. QED
  BY <1>3, <1>4, <1>7, <1>9, <1>10

\* A return that cleans the one list that is not empty leaves nothing live.
LEMMA CleanReturnStep ==
  ASSUME MemoryTypeOK, NoneTwice, Lists, Live, NEW l \in {"main", "interactive"}, NEW code,
         CleanReturn(l, code), \A k \in List \ {l} : On(k) = {}
  PROVE  PInv'
<1>1. Destroy(l) /\ stage' = "returned" /\ l \in List
  BY DEF CleanReturn, List
<1>2. /\ \A k \in List : On(k)' = {}
      /\ list' \in [List -> Seq(Object)]
      /\ heap' \in [Object -> {"none", "live", "freed", "freed again", "lost"}]
      /\ NoneTwice' /\ Live'
  BY <1>1, DestroyStep
<1>3. After'
  BY <1>2 DEF After, Live
<1>. QED
  BY <1>1, <1>2, <1>3 DEF PInv, MemoryTypeOK, Stage, Ends
----------------------------------------------------------------------------
(* The stages *)

\* Going on with the lists as they are.
LEMMA GotoStep ==
  ASSUME MemoryTypeOK, NoneTwice, Before, UNCHANGED <<status, list, heap>>,
         stage' \in Stage \ Ends,
         MainOwns' = MainOwns, InteractiveOwns' = InteractiveOwns, On("act") = {}
  PROVE  PInv'
<1>1. \A l \in List : On(l)' = On(l)
  BY DEF On
<1>2. Lists' /\ Live'
  BY <1>1 DEF Before, Lists, Live, List
<1>. QED
  BY <1>2 DEF PInv, MemoryTypeOK, NoneTwice, Before

\* Ending as it is: exit and errno_exit clean nothing, nor does a signal.
LEMMA ExitStep ==
  ASSUME MemoryTypeOK, NoneTwice, NEW code \in {EXIT_FAILURE, EX_USAGE, Signalled}, Exit(code),
         UNCHANGED <<list, heap>>
  PROVE  PInv'
<1>1. stage' = "exited"
  BY DEF Exit
<1>2. After'
  BY <1>1 DEF After
<1>. QED
  BY <1>1, <1>2 DEF PInv, MemoryTypeOK, NoneTwice, Stage, Ends

\* A new object that the next stage's list has to own.
LEMMA AddGotoStep ==
  ASSUME MemoryTypeOK, NoneTwice, Before, NEW l \in List, NEW o \in Object, Add(l, o),
         UNCHANGED status, stage' \in Stage \ Ends,
         MainOwns' = IF l = "main" THEN On(l) \cup {o} ELSE On("main"),
         InteractiveOwns' = IF l = "interactive" THEN On(l) \cup {o} ELSE On("interactive"),
         (IF l = "act" THEN On(l) \cup {o} ELSE On("act")) \subseteq
           (IF stage' = "render" THEN {"result"} ELSE {})
  PROVE  PInv'
<1>1. /\ On(l)' = On(l) \cup {o} /\ \A k \in List \ {l} : On(k)' = On(k)
      /\ list' \in [List -> Seq(Object)]
      /\ heap' \in [Object -> {"none", "live", "freed", "freed again", "lost"}]
      /\ NoneTwice' /\ Live'
  BY AddStep DEF Before
<1>2. Lists'
  BY <1>1 DEF Lists, List
<1>. QED
  BY <1>1, <1>2 DEF PInv, MemoryTypeOK, Before

\* Every step of main, of the interactive run and up to listen.
LEMMA MainStep == ASSUME PInv, Main PROVE PInv'
<1>. DEFINE B == MemoryTypeOK /\ NoneTwice /\ Before
<1>0. stage \notin Ends /\ B
  BY DEF Ends, PInv, Main, Defaults, EnvMissing, RootKey, RootPassword, TakeOption, OptionsTaken,
         ConnectDatabase, Run, ReadInput, Act, Render, Output, PrintOutput, Bind
<1>a. Lists /\ Live /\ MemoryTypeOK /\ NoneTwice
  BY <1>0 DEF Before
<1>b. "main" \in List /\ "interactive" \in List /\ "act" \in List
  BY DEF List
<1>1. CASE Defaults
  <2>1. stage = "start" /\ Add("main", "cfg") /\ stage' = "root_key" /\ UNCHANGED status
    BY <1>1 DEF Defaults, Goto
  <2>2. On("main") = {} /\ On("interactive") = {} /\ On("act") = {}
    BY <1>a, <2>1 DEF Lists, MainOwns, InteractiveOwns
  <2>3. MainOwns' = {"cfg"} /\ InteractiveOwns' = {} /\ "cfg" \in Object
    BY <2>1 DEF MainOwns, InteractiveOwns, Object
  <2>. QED
    BY <1>0, <1>b, <2>1, <2>2, <2>3, AddGotoStep DEF Stage, Ends
<1>2. CASE EnvMissing
  BY <1>0, <1>2, ExitStep DEF EnvMissing
<1>3. CASE RootKey
  <2>1. /\ On("interactive") = {} /\ On("act") = {} /\ stage = "root_key"
        /\ MainOwns = {"cfg"} /\ InteractiveOwns = {}
    BY <1>a, <1>3 DEF RootKey, Lists, MainOwns, InteractiveOwns
  <2>2. CASE CleanReturn("main", EX_USAGE)
    BY <1>a, <2>1, <2>2, CleanReturnStep DEF List
  <2>3. CASE Goto("root_password") /\ UNCHANGED <<list, heap>>
    <3>1. MainOwns' = {"cfg"} /\ InteractiveOwns' = {}
      BY <2>3 DEF Goto, MainOwns, InteractiveOwns
    <3>. QED
      BY <1>0, <2>1, <2>3, <3>1, GotoStep DEF Goto, Stage, Ends
  <2>. QED
    BY <1>3, <2>2, <2>3 DEF RootKey
<1>4. CASE RootPassword
  <2>1. /\ On("act") = {} /\ stage = "root_password"
        /\ MainOwns = {"cfg"} /\ InteractiveOwns = {} /\ UNCHANGED <<list, heap>>
    BY <1>a, <1>4 DEF RootPassword, Lists, MainOwns, InteractiveOwns
  <2>2. CASE Exit(EXIT_FAILURE)
    BY <1>0, <2>1, <2>2, ExitStep
  <2>3. CASE Goto("options")
    <3>1. MainOwns' = {"cfg"} /\ InteractiveOwns' = {}
      BY <2>3 DEF Goto, MainOwns, InteractiveOwns
    <3>. QED
      BY <1>0, <2>1, <2>3, <3>1, GotoStep DEF Goto, Stage, Ends
  <2>. QED
    BY <1>4, <2>2, <2>3 DEF RootPassword
<1>5. CASE TakeOption
  <2>1. /\ On("interactive") = {} /\ On("act") = {} /\ stage = "options"
    BY <1>a, <1>5 DEF TakeOption, Lists, MainOwns, InteractiveOwns
  <2>2. ASSUME NEW code, CleanReturn("main", code)
        PROVE  PInv'
    BY <1>a, <2>1, <2>2, CleanReturnStep DEF List
  <2>3. CASE UNCHANGED <<stage, status, list, heap>>
    <3>1. MainOwns' = MainOwns /\ InteractiveOwns' = InteractiveOwns
      BY <2>3 DEF MainOwns, InteractiveOwns
    <3>. QED
      BY <1>0, <2>1, <2>3, <3>1, GotoStep DEF Stage, Ends
  <2>. QED
    BY <1>5, <2>2, <2>3 DEF TakeOption
<1>6. CASE OptionsTaken
  <2>1. /\ On("interactive") = {} /\ On("act") = {} /\ stage = "options"
        /\ MainOwns = {"cfg"} /\ InteractiveOwns = {}
    BY <1>a, <1>6 DEF OptionsTaken, Lists, MainOwns, InteractiveOwns
  <2>2. CASE CleanReturn("main", EX_OK)
    BY <1>a, <2>1, <2>2, CleanReturnStep DEF List
  <2>3. CASE Goto("connect") /\ UNCHANGED <<list, heap>>
    <3>1. MainOwns' = {"cfg"} /\ InteractiveOwns' = {}
      BY <2>3 DEF Goto, MainOwns, InteractiveOwns
    <3>. QED
      BY <1>0, <2>1, <2>3, <3>1, GotoStep DEF Goto, Stage, Ends
  <2>. QED
    BY <1>6, <2>2, <2>3 DEF OptionsTaken
<1>7. CASE ConnectDatabase
  <2>1. /\ On("main") = {"cfg"} /\ On("interactive") = {} /\ On("act") = {}
    BY <1>a, <1>7 DEF ConnectDatabase, Lists, MainOwns, InteractiveOwns
  <2>2. CASE CleanReturn("main", EX_NODB)
    BY <1>a, <2>1, <2>2, CleanReturnStep DEF List
  <2>3. CASE Add("main", "db") /\ Goto("run")
    <3>1. MainOwns' = {"cfg", "db"} /\ InteractiveOwns' = {} /\ "db" \in Object
      BY <2>3 DEF Goto, MainOwns, InteractiveOwns, Object
    <3>2. On("main") \cup {"db"} = {"cfg", "db"}
      BY <2>1
    <3>. QED
      BY <1>0, <1>b, <2>1, <2>3, <3>1, <3>2, AddGotoStep DEF Goto, Stage, Ends
  <2>. QED
    BY <1>7, <2>2, <2>3 DEF ConnectDatabase
<1>8. CASE Run
  <2>1. Destroy("main") /\ stage = "run" /\ stage' \in {"read", "bind"} /\ UNCHANGED status
    BY <1>8 DEF Run, Goto
  <2>2. On("interactive") = {} /\ On("act") = {}
    BY <1>a, <2>1 DEF Lists, MainOwns, InteractiveOwns
  <2>3. /\ On("main")' = {} /\ On("interactive")' = {} /\ On("act")' = {}
        /\ list' \in [List -> Seq(Object)]
        /\ heap' \in [Object -> {"none", "live", "freed", "freed again", "lost"}]
        /\ NoneTwice' /\ Live'
    BY <1>a, <2>1, <2>2, DestroyStep DEF List
  <2>4. Lists'
    BY <2>1, <2>3 DEF Lists, MainOwns, InteractiveOwns
  <2>. QED
    BY <1>0, <2>1, <2>3, <2>4 DEF PInv, MemoryTypeOK, Before, Stage, Ends
<1>9. CASE ReadInput
  <2>1. /\ On("main") = {} /\ On("interactive") = {} /\ On("act") = {}
    BY <1>a, <1>9 DEF ReadInput, Lists, MainOwns, InteractiveOwns
  <2>2. CASE CleanReturn("interactive", EX_DATAERR)
    BY <1>a, <2>1, <2>2, CleanReturnStep DEF List
  <2>3. CASE Add("interactive", "input") /\ Goto("interpret")
    <3>1. MainOwns' = {} /\ InteractiveOwns' = {"input"} /\ "input" \in Object
      BY <2>3 DEF Goto, MainOwns, InteractiveOwns, Object
    <3>. QED
      BY <1>0, <1>b, <2>1, <2>3, <3>1, AddGotoStep DEF Goto, Stage, Ends
  <2>. QED
    BY <1>9, <2>2, <2>3 DEF ReadInput
<1>10. CASE Act
  <2>1. /\ On("main") = {} /\ On("interactive") = {"input"} /\ On("act") = {}
        /\ MainOwns = {} /\ InteractiveOwns = {"input"}
    BY <1>a, <1>10 DEF Act, Lists, MainOwns, InteractiveOwns
  <2>2. CASE Exit(EXIT_FAILURE) /\ UNCHANGED <<list, heap>>
    BY <1>0, <2>2, ExitStep
  <2>3. CASE Goto("render") /\ (Add("act", "result") \/ UNCHANGED <<list, heap>>)
    <3>1. MainOwns' = {} /\ InteractiveOwns' = {"input"} /\ "result" \in Object
      BY <2>3 DEF Goto, MainOwns, InteractiveOwns, Object
    <3>2. CASE Add("act", "result")
      BY <1>0, <1>b, <2>1, <2>3, <3>1, <3>2, AddGotoStep DEF Goto, Stage, Ends
    <3>3. CASE UNCHANGED <<list, heap>>
      BY <1>0, <2>1, <2>3, <3>1, <3>3, GotoStep DEF Goto, Stage, Ends
    <3>. QED
      BY <2>3, <3>2, <3>3
  <2>. QED
    BY <1>10, <2>2, <2>3 DEF Act
<1>11. CASE Render
  <2>1. /\ stage = "render" /\ stage' = "interpret" /\ UNCHANGED status
        /\ list' = [list EXCEPT !["act"] = <<>>] /\ list \in [List -> Seq(Object)]
        /\ heap' = [heap EXCEPT !["result"] = IF @ = "live" THEN "lost" ELSE @]
        /\ heap \in [Object -> {"none", "live", "freed", "freed again", "lost"}]
    BY <1>0, <1>11 DEF Render, Goto, MemoryTypeOK
  <2>2. /\ On("main") = {} /\ On("interactive") = {"input"} /\ On("act") \subseteq {"result"}
    BY <1>a, <2>1 DEF Lists, MainOwns, InteractiveOwns
  <2>3. list'["act"] = <<>> /\ list'["main"] = list["main"] /\ list'["interactive"] = list["interactive"]
    BY <2>1 DEF List
  <2>4. On("main")' = {} /\ On("interactive")' = {"input"} /\ On("act")' = {}
    <3>1. On("main")' = On("main") /\ On("interactive")' = On("interactive")
      BY <2>3 DEF On
    <3>2. On("act")' = {}
      BY <2>3 DEF On
    <3>. QED
      BY <2>2, <3>1, <3>2
  <2>5. Lists'
    BY <2>1, <2>4 DEF Lists, MainOwns, InteractiveOwns
  <2>6. <<>> \in Seq(Object)
    OBVIOUS
  <2>7. list' \in [List -> Seq(Object)]
    BY <2>1, <2>6
  <2>8. /\ heap' \in [Object -> {"none", "live", "freed", "freed again", "lost"}]
        /\ heap'["result"] = (IF heap["result"] = "live" THEN "lost" ELSE heap["result"])
        /\ \A x \in Object \ {"result"} : heap'[x] = heap[x]
    BY <2>1 DEF Object
  <2>9. NoneTwice'
    BY <1>a, <2>8 DEF NoneTwice, Object
  <2>10. \A x \in Object : heap'[x] = "live" <=> \E l \in List : x \in On(l)'
    <3>1. \A x \in Object : heap[x] = "live" <=>
            (x \in On("main") \/ x \in On("interactive") \/ x \in On("act"))
      BY <1>a DEF Live, List
    <3>2. \A x \in Object : (\E l \in List : x \in On(l)') <=> x = "input"
      BY <2>4 DEF List
    <3>. QED
      BY <2>2, <2>8, <3>1, <3>2 DEF Object
  <2>. QED
    BY <1>0, <2>1, <2>5, <2>7, <2>8, <2>9, <2>10 DEF PInv, MemoryTypeOK, Before, Live, Stage, Ends
<1>12. CASE Output
  <2>1. /\ On("main") = {} /\ On("interactive") = {"input"} /\ On("act") = {}
    BY <1>a, <1>12 DEF Output, Lists, MainOwns, InteractiveOwns
  <2>2. Add("interactive", "output") /\ stage' = "print" /\ UNCHANGED status
    BY <1>12 DEF Output, Goto
  <2>3. MainOwns' = {} /\ InteractiveOwns' = {"input", "output"} /\ "output" \in Object
    BY <2>2 DEF MainOwns, InteractiveOwns, Object
  <2>4. On("interactive") \cup {"output"} = {"input", "output"}
    BY <2>1
  <2>. QED
    BY <1>0, <1>b, <2>1, <2>2, <2>3, <2>4, AddGotoStep DEF Stage, Ends
<1>13. CASE PrintOutput
  <2>1. On("main") = {} /\ On("act") = {} /\ CleanReturn("interactive", EX_OK)
    BY <1>a, <1>13 DEF PrintOutput, Lists, MainOwns, InteractiveOwns
  <2>. QED
    BY <1>a, <2>1, CleanReturnStep DEF List
<1>14. CASE Bind
  <2>1. /\ On("act") = {} /\ stage = "bind"
        /\ MainOwns = {} /\ InteractiveOwns = {} /\ UNCHANGED <<list, heap>>
    BY <1>a, <1>14 DEF Bind, Lists, MainOwns, InteractiveOwns
  <2>2. CASE Exit(EXIT_FAILURE)
    BY <1>0, <2>1, <2>2, ExitStep
  <2>3. CASE Goto("socket")
    <3>1. MainOwns' = {} /\ InteractiveOwns' = {}
      BY <2>3 DEF Goto, MainOwns, InteractiveOwns
    <3>. QED
      BY <1>0, <2>1, <2>3, <3>1, GotoStep DEF Goto, Stage, Ends
  <2>. QED
    BY <1>14, <2>2, <2>3 DEF Bind
<1>. QED
  BY <1>1, <1>2, <1>3, <1>4, <1>5, <1>6, <1>7, <1>8, <1>9, <1>10, <1>11, <1>12, <1>13, <1>14 DEF Main

\* The program starts with nothing allocated.
LEMMA ProgramStart == ProgramInit => PInv /\ SInv
<1> SUFFICES ASSUME ProgramInit PROVE PInv /\ SInv
  OBVIOUS
<1>1. <<>> \in Seq(Object)
  OBVIOUS
<1>2. list = [l \in List |-> <<>>] /\ \A l \in List : On(l) = {}
  BY DEF ProgramInit, On
<1>3. MemoryTypeOK
  BY <1>1 DEF ProgramInit, MemoryTypeOK, Stage, Ends
<1>4. Lists
  BY <1>2 DEF ProgramInit, Lists, MainOwns, InteractiveOwns, List
<1>5. NoneTwice /\ Live
  BY <1>2 DEF ProgramInit, NoneTwice, Live, Object
<1>6. SInv
  BY SInit DEF ProgramInit
<1>. QED
  BY <1>3, <1>4, <1>5, <1>6 DEF ProgramInit, PInv, Before, Ends

\* Every step of the program, the socket server's included, keeps what the
\* lists own and the server's invariant.
LEMMA ProgramStep == PInv /\ SInv /\ [ProgramNext]_<<mainVars, vars>> => PInv' /\ SInv'
<1> SUFFICES ASSUME PInv, SInv, [ProgramNext]_<<mainVars, vars>>
             PROVE  PInv' /\ SInv'
  OBVIOUS
<1>1. ASSUME UNCHANGED vars PROVE SInv'
  BY <1>1, SNext
<1>2. ASSUME UNCHANGED mainVars PROVE PInv'
  <2>1. UNCHANGED <<stage, list, heap, status>> /\ \A l : On(l)' = On(l)
    BY <1>2 DEF mainVars, On
  <2>2. Lists' = Lists /\ Live' = Live
    BY <2>1 DEF Lists, Live, MainOwns, InteractiveOwns
  <2>. QED
    BY <2>1, <2>2 DEF PInv, MemoryTypeOK, NoneTwice, After, Before
<1>3. ASSUME Crash PROVE PInv'
  BY <1>3, ExitStep DEF Crash, UsesCfgAndDb, PInv, Ends
<1>4. CASE Main /\ UNCHANGED vars
  BY <1>1, <1>4, MainStep
<1>5. CASE InSocket(Next)
  BY <1>2, <1>5, SNext DEF InSocket
<1>6. CASE Crash /\ UNCHANGED vars
  BY <1>1, <1>3, <1>6
<1>7. CASE Crash /\ Die
  BY <1>3, <1>7, DieStep
<1>8. CASE UNCHANGED <<mainVars, vars>>
  BY <1>1, <1>2, <1>8
<1>. QED
  BY <1>4, <1>5, <1>6, <1>7, <1>8 DEF ProgramNext

LEMMA ProgramInvariant == ProgramSpec => [](PInv /\ SInv)
BY ProgramStart, ProgramStep, PTL DEF ProgramSpec

\* Nothing is destroyed twice, and when main returns, from wherever it does,
\* everything a list took over was destroyed but the results that act loses
\* (invariant ReturnsClean).
THEOREM CleanReturns == ProgramSpec => []ReturnsClean
<1>1. PInv => ReturnsClean
  BY DEF PInv, MemoryTypeOK, NoneTwice, After, Ends, ReturnsClean
<1>. QED
  BY <1>1, ProgramInvariant, PTL

\* What a response refers to is there when it is rendered (invariant
\* RendersLive).
THEOREM LiveRenders == ProgramSpec => []RendersLive
<1>1. PInv => RendersLive
  BY DEF PInv, Ends, NoneTwice, Before, Lists, Live, InteractiveOwns, Object, List, RendersLive
<1>. QED
  BY <1>1, ProgramInvariant, PTL

\* Under the program around it, too, the server closes a connection when its
\* answer is complete, answers nobody with another's answer, and forgets no
\* connection (invariants AnsweredInFull, AnswerIsOwn, NoConnectionForgotten).
THEOREM ServerOfProgram ==
  ProgramSpec => [](AnsweredInFull /\ AnswerIsOwn /\ NoConnectionForgotten)
<1>1. SInv => AnsweredInFull /\ AnswerIsOwn /\ NoConnectionForgotten
  BY DEF SInv
<1>. QED
  BY <1>1, ProgramInvariant, PTL
=============================================================================
