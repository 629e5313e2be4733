----------------------------- MODULE OpService -----------------------------
(***************************************************************************)
(* What couchnode promises the application about an operation it starts,   *)
(* as couchbase.js says it of KeyCallback and MultiCallback: what its      *)
(* callback is told, when, and how often.  Of cookies, queues, instances   *)
(* and call stacks nothing is said; CouchnodeService shows that Couchnode  *)
(* implements this.                                                        *)
(***************************************************************************)
EXTENDS Integers, FiniteSets

CONSTANTS
  Ops,      \* the operations the application may start
  Options   \* what it may ask for: [answer: Forms, nkeys: Nat \ {0}]

\* One answer about all keys, one about each, or whichever couchnode prefers.
Forms == {"all", "each", "either"}

VARIABLES
  asked,    \* what the application asked for
  stage,    \* is an operation unborn, open or ended?
  heard,    \* what its callback was told: how often, of which keys, with an error
  failures  \* the parts of it that have failed

vars == <<asked, stage, heard, failures>>

Init ==
  /\ asked \in [Ops -> Options]
  /\ stage = [o \in Ops |-> "unborn"]
  /\ heard = [o \in Ops |-> [calls |-> 0, keys |-> {}, err |-> FALSE]]
  /\ failures = [o \in Ops |-> {}]

Become(o, st) == stage' = [stage EXCEPT ![o] = st]

\* What an operation consists of: its keys and, as 0, the operation as a whole.
Parts(a) == 0..a.nkeys

\* The callback is told once of everything, if that was asked for, and else no
\* more often than there are keys: so "either" is a bound only (an observe that
\* is not spooled is answered once, or, if cancelled, key by key).  It is given
\* an error exactly if there is, by now, a failure.
MostCalls(a) == IF a.answer = "all" THEN 1 ELSE a.nkeys

Told(o, a) ==
  /\ heard[o].calls < MostCalls(a)
  /\ \E ks \in SUBSET Parts(a), fs \in SUBSET Parts(a) :
       /\ failures' = [failures EXCEPT ![o] = @ \cup fs]
       /\ heard' = [heard EXCEPT ![o] = [calls |-> @.calls + 1, keys |-> @.keys \cup ks,
                                         err |-> failures'[o] # {}]]

-----------------------------------------------------------------------------

Ask(o, st, a) ==
  /\ stage[o] = "unborn"
  /\ Become(o, st)
  /\ asked' = [asked EXCEPT ![o] = a]

\* A new operation is accepted, ...
Accept(o) == (\E a \in Options : Ask(o, "open", a)) /\ UNCHANGED <<heard, failures>>

\* ... or answered before the call that starts it returns, ...
AnswerAtOnce(o) == \E a \in Options : Ask(o, "open", a) /\ Told(o, a)

\* ... or refused, which its callback is told, and no more.
Refuse(o) ==
  /\ \E a \in Options : Ask(o, "ended", a)
  /\ heard' = [heard EXCEPT ![o] = [calls |-> 1, keys |-> {}, err |-> TRUE]]
  /\ UNCHANGED failures

\* Something is found out about an operation whose callback is told later.
Note(o) ==
  /\ stage[o] = "open" /\ asked[o].answer # "each" /\ heard[o].calls = 0
  /\ \E k \in Parts(asked[o]) : failures' = [failures EXCEPT ![o] = @ \cup {k}]
  /\ UNCHANGED <<asked, stage, heard>>

Tell(o) ==
  /\ stage[o] = "open"
  /\ Told(o, asked[o])
  /\ UNCHANGED <<asked, stage>>

\* An operation ends when its callback was told all there is to tell.
End(o) ==
  /\ stage[o] = "open"
  /\ \/ heard[o].calls = MostCalls(asked[o])
     \/ heard[o].calls = 1 /\ asked[o].answer = "either"
  /\ heard[o].err <=> failures[o] # {}
  /\ asked[o].answer # "each" /\ failures[o] = {} => heard[o].keys = 1..asked[o].nkeys
  /\ Become(o, "ended")
  /\ UNCHANGED <<asked, heard, failures>>

Next ==
  \E o \in Ops :
    Accept(o) \/ AnswerAtOnce(o) \/ Refuse(o) \/ Note(o) \/ Tell(o) \/ End(o)

Spec == Init /\ [][Next]_vars
=============================================================================
