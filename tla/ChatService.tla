---------------------------- MODULE ChatService ----------------------------
(***************************************************************************)
(* What the chat promises to those who use it, whatever commands it takes: *)
(* whom a request is about is settled once, a caller is admitted once, and *)
(* then its request takes effect in one step or not at all, in the step    *)
(* that answers it.  "done" is an effect, a definite refusal is none,      *)
(* "unclear" is either.                                                    *)
(***************************************************************************)
EXTENDS Integers, FiniteSets

CONSTANTS Proc, Requests, Member, Pro, Admin, HasPassword, NameOf, PageInbox

Root == 0

VARIABLES
  users,    \* who is registered
  names,    \* the names they go by
  barred,   \* who may not write to whom
  box,      \* the messages that can be read: [id, sender, recipient]
  used,     \* the ids that have been drawn
  phase,    \* phase[p]: ready, asked, admitted, or gone when the process ended
  asked,    \* asked[p]: the request at hand, or the last one
  meant,    \* meant[p]: the user it is about, 0 while that is not settled
  answer    \* answer[p]: the outcome of the last one, with a msg_id and a page

platform == <<users, names, barred>>
store == <<platform, box, used>>
state == <<store, phase, asked, meant, answer>>

OfProsOnly == {"block", "unblock", "ban", "unban"}
NoAnswer == [outcome |-> "none", id |-> 0, page |-> {}]

\* The right password, or none from a user who has none.
Proven(r) == r.pw = (IF r.key \in HasPassword \cup {Root} THEN "right" ELSE "none")

\* Who may be let in: the owner of a known key who has proved it.
Admissible(r) == r.key \in users \cup {Root} /\ Proven(r)

\* Who must not be told to be unauthorized.  Of users without a password the
\* service leaves it open.
Entitled(r) == Admissible(r) /\ r.key \in HasPassword \cup {Root}

\* Whoever is being served was admitted, at the latest in this very step.
Trusted(p) == phase[p] = "admitted" \/ (phase[p] = "asked" /\ Admissible(asked[p]))

\* The user u bears the name that r asks for.
Called(r, u) == r.user.by = "name" /\ u \in users \cap (Member \cup Pro) /\ names[u] = r.user.val

Message(id) == {m \in box : m.id = id}

Answer(p, outcome, id, page) ==
  /\ phase[p] \in {"asked", "admitted"}
  /\ phase' = [phase EXCEPT ![p] = "ready"]
  /\ answer' = [answer EXCEPT ![p] = [outcome |-> outcome, id |-> id, page |-> page]]
  /\ UNCHANGED <<asked, meant>>

\* The process ends without an answer.
Vanish(p) ==
  /\ phase[p] \in {"asked", "admitted"}
  /\ phase' = [phase EXCEPT ![p] = "gone"]
  /\ UNCHANGED <<asked, meant, answer>>

----------------------------------------------------------------------------

\* A request arrives; one that means nothing is answered at once.  An ID says
\* whom the request is about.
Ask(p) ==
  /\ phase[p] = "ready"
  /\ \E r \in Requests :
       /\ asked' = [asked EXCEPT ![p] = r]
       /\ meant' = [meant EXCEPT ![p] = IF r.user.by = "id" THEN r.user.val ELSE 0]
  /\ \/ phase' = [phase EXCEPT ![p] = "asked"] /\ answer' = [answer EXCEPT ![p] = NoAnswer]
     \/ /\ answer' = [answer EXCEPT ![p] = [NoAnswer EXCEPT !.outcome = "unclear"]]
        /\ UNCHANGED phase
  /\ UNCHANGED store

\* A name says it once, before anything is done for the caller.
Settle(p) ==
  /\ phase[p] = "asked" /\ meant[p] = 0
  /\ \E u \in users : Called(asked[p], u) /\ meant' = [meant EXCEPT ![p] = u]
  /\ UNCHANGED <<store, phase, asked, answer>>

Admit(p) ==
  /\ phase[p] = "asked" /\ Admissible(asked[p])
  /\ phase' = [phase EXCEPT ![p] = "admitted"]
  /\ UNCHANGED <<store, asked, meant, answer>>

\* A definite refusal is the truth at that moment, and changes nothing.
Refuse(p) ==
  /\ UNCHANGED store
  /\ LET r == asked[p]
     IN  \/ Answer(p, "unauthorized", 0, {}) /\ phase[p] = "asked" /\ ~Entitled(r)
         \/ /\ Answer(p, "forbidden", 0, {}) /\ Trusted(p)
            /\ \/ r.do = "send" /\ <<r.key, meant[p]>> \in barred
               \/ r.do \in OfProsOnly /\ r.key \in Member
         \/ /\ Answer(p, "not_found", 0, {}) /\ Trusted(p)
            /\ \/ r.do = "rm" /\ Message(r.arg) = {}
               \/ r.do \in {"whois", "send"} /\ meant[p] \notin users
         \/ Answer(p, "too_long", 0, {}) /\ Trusted(p) /\ r.do = "send" /\ r.long

\* Something went wrong, and nothing was done.  Ids may be lost.
Fail(p) ==
  /\ Answer(p, "unclear", 0, {}) \/ Vanish(p)
  /\ UNCHANGED <<platform, box>> /\ used \subseteq used'

\* One message, from the caller to who was asked for, with an id that was
\* never used: the answer, if there is one, tells it or is unclear.
Send(p) ==
  /\ Trusted(p) /\ asked[p].do = "send" /\ ~asked[p].long
  /\ meant[p] \in users /\ meant[p] # asked[p].key
  /\ \E id \in used' \ used :
       /\ used' = used \cup {id}
       /\ box' = box \cup {[id |-> id, sender |-> asked[p].key, recipient |-> meant[p]]}
       /\ Answer(p, "done", id, {}) \/ Answer(p, "unclear", 0, {}) \/ Vanish(p)
  /\ UNCHANGED platform

\* The message is gone, whoever removed it.
Remove(p) ==
  /\ Trusted(p) /\ asked[p].do = "rm"
  /\ box' = box \ Message(asked[p].arg)
  /\ Answer(p, "done", 0, {}) \/ Answer(p, "unclear", 0, {})
  /\ UNCHANGED <<platform, used>>

\* A page of the caller's own messages.
Read(p) ==
  /\ Trusted(p) /\ asked[p].do = "inbox"
  /\ \E page \in SUBSET {m.id : m \in {n \in box : n.recipient = asked[p].key}} :
       Cardinality(page) <= PageInbox /\ Answer(p, "done", 0, page)
  /\ UNCHANGED store

Whois(p) ==
  /\ Trusted(p) /\ asked[p].do = "whois"
  /\ meant[p] \in users
  /\ Answer(p, "done", 0, {})
  /\ UNCHANGED store

\* What is accepted and has no effect yet.
Acknowledge(p) ==
  /\ Trusted(p) /\ asked[p].do \notin {"send", "rm", "inbox", "whois"}
  /\ Answer(p, "done", 0, {})
  /\ UNCHANGED store

\* The rest of the platform registers, renames, unregisters and bars whom it
\* likes; the messages of whoever goes go, too.
Elsewhere ==
  /\ users' \subseteq Member \cup Pro \cup Admin
  /\ box' = {m \in box : m.sender \in users' \cup {Root} /\ m.recipient \in users'}
  /\ UNCHANGED <<used, phase, asked, meant, answer>>

----------------------------------------------------------------------------

Init ==
  /\ users = Member \cup Pro \cup Admin /\ names = NameOf /\ barred = {}
  /\ box = {} /\ used \subseteq Nat
  /\ phase = [p \in Proc |-> "ready"]
  /\ asked \in [Proc -> Requests] /\ meant \in [Proc -> Nat]
  /\ answer = [p \in Proc |-> NoAnswer]

Next ==
  \/ \E p \in Proc :
       \/ Ask(p) \/ Settle(p) \/ Admit(p) \/ Refuse(p) \/ Fail(p) \/ Acknowledge(p)
       \/ Send(p) \/ Remove(p) \/ Read(p) \/ Whois(p)
  \/ Elsewhere

Spec == Init /\ [][Next]_state
=============================================================================
