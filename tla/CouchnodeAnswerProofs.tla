----------------------- MODULE CouchnodeAnswerProofs -----------------------
(***************************************************************************)
(* What an operation's callback is told adds up to the answers it got: all *)
(* keys, and an error exactly if one failed.  From that follows that       *)
(* Couchnode implements OpService.                                         *)
(***************************************************************************)
EXTENDS CouchnodeQueueProofs, CouchnodeService

USE DEF NoOp, NoKey

-----------------------------------------------------------------------------
(* States in which an operation adds up. *)

\* What the types say of an operation.
LEMMA OpTypes ==
  ASSUME TypeOK, NEW o \in Ops
  PROVE  /\ cookie[o] \in CookieRec /\ cookie[o].st \in {"none", "live", "deleted"}
         /\ cookie[o].remaining \in Int /\ cookie[o].hasError \in BOOLEAN
         /\ cookie[o].isCancelled \in BOOLEAN
         /\ heard[o] \in HeardRec /\ heard[o].calls \in Nat /\ heard[o].err \in BOOLEAN
         /\ shape[o] \in Shapes /\ shape[o].kind \in Kinds /\ shape[o].mode \in Modes
         /\ shape[o].nkeys \in Nat \ {0} /\ inflight[o] \subseteq Nat
<1>1. cookie[o] \in CookieRec /\ heard[o] \in HeardRec /\ shape[o] \in Shapes
  BY DEF TypeOK
<1>2. /\ shape[o].kind \in Kinds /\ shape[o].mode \in Modes
      /\ shape[o].nkeys \in Nat \ {0}
  BY <1>1, ShapesAssumption
<1>3. /\ cookie[o].st \in {"none", "live", "deleted"} /\ cookie[o].remaining \in Int
      /\ cookie[o].hasError \in BOOLEAN /\ cookie[o].isCancelled \in BOOLEAN
  BY <1>1 DEF CookieRec
<1>4. heard[o].calls \in Nat /\ heard[o].err \in BOOLEAN
  BY <1>1 DEF HeardRec
<1>5. QED
  BY <1>1, <1>2, <1>3, <1>4 DEF TypeOK

\* What waits in the queue is untouched.
LEMMA WaitingWaits ==
  TypeOK /\ CookieInv => \A o \in Ops : Waiting(o) => Waits(o)
<1> SUFFICES ASSUME TypeOK, CookieInv, NEW o \in Ops, Waiting(o) PROVE Waits(o)
  OBVIOUS
<1>1. PICK i \in 1..Len(pending) : pending[i] = o
  BY FrameFacts DEF Waiting
<1>2. i # 1 \/ ~Cancelling
  <2> SUFFICES ASSUME i = 1, Cancelling PROVE FALSE
    OBVIOUS
  <2>1. PICK j \in Depth : CancelsFront(stack[j])
    BY DEF Cancelling
  <2>2. stack[j].op = o
    BY <1>1, <2>1 DEF CookieInv, LoopOutermost
  <2>3. Running(o)
    BY <2>1, <2>2, StackFacts
  <2>4. QED
    BY <2>3 DEF Waiting
<1>3. QED
  BY <1>1, <1>2 DEF CookieInv, QueueWaits

\* The same of the next state.
LEMMA WaitingWaitsNext ==
  TypeOK' /\ CookieInv' => \A o \in Ops : Waiting(o)' => Waits(o)'
<1>1. TypeOK /\ CookieInv => \A o \in Ops : Waiting(o) => Waits(o)
  BY WaitingWaits
<1>2. TypeOK' /\ CookieInv' => (\A o \in Ops : Waiting(o) => Waits(o))'
  BY <1>1, PTL
<1>3. QED
  BY <1>2

\* No function of o's Cookie is on the stack.
NoFrame(o) == \A i \in Depth : ~(OfCookie(stack[i]) /\ stack[i].op = o)

\* The state of an operation that waits, or of which everything is in flight.
Untold(o) ==
  /\ Live(o) /\ ~Cancelled(o) /\ Fresh(o) /\ NoFrame(o)
  /\ Counted(o) => cookie[o].remaining = shape[o].nkeys
  /\ inflight[o] = {} \/ inflight[o] = Outstanding(shape[o])

\* Of nothing adds up nothing.
LEMMA UntoldTally ==
  TypeOK => \A o \in Ops : Untold(o) => TallyOf(o)
<1> SUFFICES ASSUME TypeOK, NEW o \in Ops, Untold(o) PROVE TallyOf(o)
  OBVIOUS
<1>1. /\ cookie[o].st = "live" /\ ~Cancelled(o) /\ ~HasFrame("final", o)
      /\ heard[o] = Silence /\ failed[o] = {} /\ cookie[o].results = {}
      /\ ~cookie[o].hasError
      /\ Counted(o) => cookie[o].remaining = shape[o].nkeys
      /\ inflight[o] = {} \/ inflight[o] = Outstanding(shape[o])
  BY DEF Untold, Live, NoFrame, HasFrame, OfCookie, CookieFrames, Fresh
<1>2. /\ shape[o].nkeys \in Nat \ {0} /\ shape[o].kind \in Kinds
  BY OpTypes
<1>3. Got(o) = {}
  BY <1>1 DEF Got, Silence
<1>4. ASSUME ByProgress(o) PROVE ProgressTally(o) /\ PlainTally(o)
  <2>1. shape[o].kind = "plain" /\ cookie[o].remaining = shape[o].nkeys
    BY <1>1, <1>4 DEF ByProgress, Counted
  <2>2. cookie[o].remaining # 0 /\ Answered(o) = 0
    BY <1>2, <2>1 DEF Answered
  <2>3. ProgressTally(o)
    BY <1>1, <2>2 DEF ProgressTally, Silence
  <2>4. inflight[o] = {} \/ inflight[o] = KeysOf(o)
    BY <1>1, <2>1 DEF Outstanding, Streams, KeysOf
  <2>5. QED
    BY <1>3, <2>2, <2>3, <2>4 DEF PlainTally
<1>5. ASSUME ~ByProgress(o) PROVE FinalTally(o)
  <2>1. ASSUME Streams(shape[o]), inflight[o] # {}
        PROVE  /\ inflight[o] \subseteq 0..shape[o].nkeys
               /\ cookie[o].results = KeysOf(o) \ inflight[o]
    <3>1. inflight[o] = 1..shape[o].nkeys \cup {NoKey}
      BY <1>1, <2>1 DEF Outstanding
    <3>2. inflight[o] \subseteq 0..shape[o].nkeys
      <4>1. PICK n \in Nat : n = shape[o].nkeys
        BY <1>2
      <4>2. (\A x \in 1..n : x \in 0..n) /\ NoKey \in 0..n
        OBVIOUS
      <4>3. QED
        BY <3>1, <4>1, <4>2
    <3>3. KeysOf(o) \ inflight[o] = {}
      BY <3>1 DEF KeysOf
    <3>4. QED
      BY <1>1, <3>2, <3>3
  <2>2. QED
    BY <1>1, <2>1 DEF FinalTally, Silence
<1>6. QED
  BY <1>1, <1>4, <1>5 DEF TallyOf, Fresh

\* The same of the next state.
LEMMA UntoldTallyNext ==
  TypeOK' => \A o \in Ops : Untold(o)' => TallyOf(o)'
<1>1. TypeOK => \A o \in Ops : Untold(o) => TallyOf(o)
  BY UntoldTally
<1>2. TypeOK' => (\A o \in Ops : Untold(o) => TallyOf(o))'
  BY <1>1, PTL
<1>3. QED
  BY <1>2

\* The state of an operation that Cookie::cancel begins to fail.
CancelStarts(o) ==
  /\ Live(o) /\ Cancelled(o) /\ Counted(o) /\ Fresh(o)
  /\ cookie[o].remaining = shape[o].nkeys
  /\ \A i \in Depth : OfCookie(stack[i]) /\ stack[i].op = o =>
                        stack[i].fn = "cancel" /\ ToCancel(o, 0, stack[i].keys)

\* No key has failed yet.
LEMMA CancelStartsTally ==
  TypeOK /\ CookieInv => \A o \in Ops : CancelStarts(o) => TallyOf(o)
<1> SUFFICES ASSUME TypeOK, CookieInv, NEW o \in Ops, CancelStarts(o) PROVE TallyOf(o)
  OBVIOUS
<1>1. /\ cookie[o].st = "live" /\ Cancelled(o) /\ Counted(o)
      /\ heard[o] = Silence /\ failed[o] = {} /\ cookie[o].results = {}
      /\ ~cookie[o].hasError /\ cookie[o].remaining = shape[o].nkeys
  BY DEF CancelStarts, Live, Fresh
<1>2. shape[o].nkeys \in Nat \ {0}
  BY OpTypes
<1>3. /\ \A i \in Depth : stack[i].fn = "cancel" /\ stack[i].op = o =>
                            ToCancel(o, 0, stack[i].keys)
      /\ ~HasFrame("final", o)
  BY DEF CancelStarts, HasFrame, OfCookie, CookieFrames
<1>4. Answered(o) = 0 /\ cookie[o].remaining # 0 /\ Got(o) = {}
  BY <1>1, <1>2 DEF Answered, Got, Silence
<1>5. ProgressTally(o) /\ ByProgress(o)
  BY <1>1, <1>4 DEF ProgressTally, ByProgress, Silence
<1>6. CancelTally(o)
  <2>1. Reached(o, 0) = {}
    BY DEF Reached
  <2>2. QED
    BY <1>1, <1>3, <1>4, <2>1 DEF CancelTally
<1>7. ~Waiting(o)
  BY <1>1, WaitingWaits DEF Waits
<1>8. QED
  BY <1>1, <1>3, <1>5, <1>6, <1>7 DEF TallyOf

\* The same of the next state.
LEMMA CancelStartsTallyNext ==
  TypeOK' /\ CookieInv' => \A o \in Ops : CancelStarts(o)' => TallyOf(o)'
<1>1. TypeOK /\ CookieInv => \A o \in Ops : CancelStarts(o) => TallyOf(o)
  BY CancelStartsTally
<1>2. TypeOK' /\ CookieInv' => (\A o \in Ops : CancelStarts(o) => TallyOf(o))'
  BY <1>1, PTL
<1>3. QED
  BY <1>2

\* The state of a stream or an HTTP request whose last answer is on the stack.
ToldAll(o) ==
  /\ Live(o) /\ ~ByProgress(o) /\ inflight[o] = {} /\ ~Waiting(o)
  /\ shape[o].kind = "http" => cookie[o].results = {}
  /\ heard[o].calls = 1 /\ (heard[o].err <=> failed[o] # {})
  /\ CASE shape[o].kind = "observe" -> heard[o].keys = KeysOf(o)
       [] shape[o].kind = "stats" -> heard[o].keys = KeysOf(o) \/ NoKey \in failed[o]
       [] OTHER -> heard[o].keys = {}

\* It has told all.
LEMMA ToldAllTally ==
  TypeOK => \A o \in Ops : ToldAll(o) => TallyOf(o)
<1> SUFFICES ASSUME TypeOK, NEW o \in Ops, ToldAll(o) PROVE TallyOf(o)
  OBVIOUS
<1>1. /\ cookie[o].st = "live" /\ ~ByProgress(o) /\ ~Cancelled(o) /\ ~Waiting(o)
      /\ heard[o].calls = 1
  BY DEF ToldAll, Live, ByProgress
<1>2. FinalTally(o)
  BY DEF ToldAll, FinalTally
<1>3. QED
  BY <1>1, <1>2 DEF TallyOf

\* The same of the next state.
LEMMA ToldAllTallyNext ==
  TypeOK' => \A o \in Ops : ToldAll(o)' => TallyOf(o)'
<1>1. TypeOK => \A o \in Ops : ToldAll(o) => TallyOf(o)
  BY ToldAllTally
<1>2. TypeOK' => (\A o \in Ops : ToldAll(o) => TallyOf(o))'
  BY <1>1, PTL
<1>3. QED
  BY <1>2
-----------------------------------------------------------------------------
(* The steps. *)

\* An operation still adds up if nothing new is heard of it, though its Cookie
\* may end, and libcouchbase may forget what it owes.
LEMMA StillAdds ==
  ASSUME TypeOK, TypeOK', NEW o \in Ops, TallyOf(o),
         \/ cookie'[o] = cookie[o]
         \/ /\ Live(o) /\ cookie'[o] = [cookie[o] EXCEPT !.st = "deleted"]
            /\ IF ByProgress(o) THEN cookie[o].remaining = 0 ELSE heard[o].calls = 1,
         inflight'[o] = inflight[o] \/ inflight'[o] = {},
         shape'[o] = shape[o], heard'[o] = heard[o], failed'[o] = failed[o],
         o \in viaQueue' <=> o \in viaQueue,
         o > nops' => o > nops,
         Waiting(o)' => Waiting(o),
         HasFrame("final", o)' => HasFrame("final", o),
         \A i \in Depth' : stack'[i].fn = "cancel" /\ stack'[i].op = o =>
                             i \in Depth /\ stack'[i] = stack[i]
  PROVE  TallyOf(o)'
<1>1. /\ cookie'[o].remaining = cookie[o].remaining
      /\ cookie'[o].isCancelled = cookie[o].isCancelled
      /\ cookie'[o].hasError = cookie[o].hasError
      /\ cookie'[o].results = cookie[o].results
      /\ cookie'[o].st = cookie[o].st \/ (Live(o) /\ cookie'[o].st = "deleted")
      /\ cookie'[o].st = "deleted" =>
           \/ cookie[o].st = "deleted"
           \/ IF ByProgress(o) THEN cookie[o].remaining = 0 ELSE heard[o].calls = 1
  BY OpTypes DEF CookieRec
<1>2. /\ Cancelled(o)' <=> Cancelled(o)
      /\ cookie'[o].st = "none" <=> cookie[o].st = "none"
  BY <1>1 DEF Cancelled, Live
<1>3. /\ ByProgress(o)' <=> ByProgress(o)
      /\ Answered(o)' = Answered(o) /\ Got(o)' = Got(o)
      /\ \A m : Reached(o, m)' = Reached(o, m)
      /\ \A m, keys : ToCancel(o, m, keys)' <=> ToCancel(o, m, keys)
  BY <1>1, <1>2 DEF ByProgress, Answered, Got, Reached, ToCancel, Spooled
<1>4. /\ ProgressTally(o) => ProgressTally(o)'
      /\ PlainTally(o) => PlainTally(o)'
      /\ FinalTally(o) => FinalTally(o)'
  BY <1>1, <1>3 DEF ProgressTally, PlainTally, FinalTally, Spooled, KeysOf, Streams
<1>5. CancelTally(o) => CancelTally(o)'
  BY <1>1, <1>2, <1>3 DEF CancelTally, Counted
<1>6. Waiting(o)' => Fresh(o)'
  BY <1>1 DEF TallyOf, Fresh
<1>7. cookie'[o].st = "none" =>
        failed'[o] = {} /\ heard'[o] \in (IF o > nops' THEN {Silence} ELSE {Silence, Bailed})
  BY <1>2 DEF TallyOf
<1>8. cookie'[o].st = "deleted" =>
        IF ByProgress(o)' THEN cookie'[o].remaining = 0 ELSE heard'[o].calls = 1
  BY <1>1, <1>3 DEF TallyOf
<1>9. HasFrame("final", o)' => ~ByProgress(o)' /\ heard'[o].calls = 1
  BY <1>3 DEF TallyOf
<1>10. QED
  BY <1>2, <1>3, <1>4, <1>5, <1>6, <1>7, <1>8, <1>9 DEF TallyOf

\* So does one that a step leaves alone.
LEMMA UntouchedTally ==
  ASSUME TypeOK, TypeOK', NEW p \in Ops, Untouched(p), TallyOf(p),
         p > nops' => p > nops
  PROVE  TallyOf(p)'
<1>1. /\ cookie'[p] = cookie[p] /\ inflight'[p] = inflight[p] /\ shape'[p] = shape[p]
      /\ heard'[p] = heard[p] /\ failed'[p] = failed[p]
      /\ p \in viaQueue' <=> p \in viaQueue
  BY DEF Untouched
<1>2. /\ Waiting(p)' <=> Waiting(p)
      /\ HasFrame("final", p)' <=> HasFrame("final", p)
      /\ \A i \in Depth' : stack'[i].fn = "cancel" /\ stack'[i].op = p =>
                             i \in Depth /\ stack'[i] = stack[i]
  BY UntouchedFacts
<1>3. QED
  BY <1>1, <1>2, StillAdds

\* What markProgress does to the sum.
LEMMA ProgressAdds ==
  ASSUME TypeOK, TypeOK', NEW o \in Ops, NEW k \in Nat, NEW ok \in BOOLEAN,
         shape'[o] = shape[o], ProgressTally(o), cookie[o].remaining # 0,
         cookie'[o] = Noted(cookie[o], Spooled(o), k, ok),
         ok => failed'[o] = failed[o],
         ~ok => failed'[o] = failed[o] \cup {k},
         IF Spooled(o) /\ cookie'[o].remaining # 0
           THEN heard'[o] = heard[o]
           ELSE heard'[o] = Told(heard[o], cookie'[o], Spooled(o), k, ok)
  PROVE  /\ ProgressTally(o)'
         /\ Got(o)' = Got(o) \cup {k} /\ Answered(o)' = Answered(o) + 1
         /\ cookie'[o].remaining = cookie[o].remaining - 1
         /\ cookie'[o].st = cookie[o].st /\ (Cancelled(o)' <=> Cancelled(o))
<1>1. /\ cookie[o] \in CookieRec /\ cookie[o].remaining \in Int
      /\ cookie[o].hasError \in BOOLEAN /\ heard[o].calls \in Nat
      /\ heard[o].err \in BOOLEAN /\ shape[o].nkeys \in Nat \ {0}
  BY OpTypes
<1>2. /\ cookie'[o].remaining = cookie[o].remaining - 1
      /\ cookie'[o].st = cookie[o].st /\ cookie'[o].isCancelled = cookie[o].isCancelled
      /\ cookie'[o].hasError <=> (cookie[o].hasError \/ ~ok)
      /\ cookie'[o].results = IF Spooled(o) THEN cookie[o].results \cup {k}
                                            ELSE cookie[o].results
  BY <1>1 DEF Noted, CookieRec
<1>3. Spooled(o)' <=> Spooled(o)
  BY DEF Spooled
<1>4. failed'[o] # {} <=> (failed[o] # {} \/ ~ok)
  OBVIOUS
<1>5. Answered(o)' = Answered(o) + 1
  BY <1>1, <1>2 DEF Answered
<1>6. CASE Spooled(o)
  <2>1. heard[o] = Silence /\ (cookie[o].hasError <=> failed[o] # {})
    BY <1>6 DEF ProgressTally
  <2>2. heard'[o] = IF cookie'[o].remaining = 0
                      THEN [calls |-> 1, keys |-> cookie'[o].results,
                            err |-> cookie'[o].hasError]
                      ELSE Silence
    <3>1. CASE cookie'[o].remaining # 0
      BY <1>6, <2>1, <3>1
    <3>2. CASE cookie'[o].remaining = 0
      <4>1. heard'[o] = Told(heard[o], cookie'[o], Spooled(o), k, ok)
        BY <3>2
      <4>2. heard'[o] = [calls |-> heard[o].calls + 1, keys |-> cookie'[o].results,
                         err |-> cookie'[o].hasError]
        BY <1>6, <4>1, Zenon DEF Told
      <4>3. heard[o].calls + 1 = 1
        BY <2>1 DEF Silence
      <4>4. QED
        BY <3>2, <4>2, <4>3
    <3>3. QED
      BY <3>1, <3>2
  <2>3. Got(o)' = Got(o) \cup {k}
    BY <1>2, <1>3, <1>6 DEF Got
  <2>4. ProgressTally(o)'
    BY <1>2, <1>3, <1>4, <1>6, <2>1, <2>2 DEF ProgressTally, Silence
  <2>5. QED
    BY <1>2, <1>5, <2>3, <2>4 DEF Cancelled
<1>7. CASE ~Spooled(o)
  <2>1. heard[o].calls = Answered(o) /\ (heard[o].err <=> failed[o] # {})
    BY <1>7 DEF ProgressTally
  <2>2. /\ heard'[o].calls = heard[o].calls + 1 /\ heard'[o].keys = heard[o].keys \cup {k}
        /\ heard'[o].err <=> (heard[o].err \/ ~ok)
    <3>1. heard'[o] = Told(heard[o], cookie'[o], Spooled(o), k, ok)
      BY <1>7
    <3>2. PICK e : e = (heard[o].err \/ ~ok)
      OBVIOUS
    <3>3. heard'[o] = [calls |-> heard[o].calls + 1, keys |-> heard[o].keys \cup {k},
                       err |-> e]
      BY <1>7, <3>1, <3>2, Zenon DEF Told
    <3>4. heard'[o].calls = heard[o].calls + 1 /\ heard'[o].keys = heard[o].keys \cup {k}
      BY <3>3
    <3>5. heard'[o].err = e
      BY <3>3
    <3>6. heard'[o].err <=> (heard[o].err \/ ~ok)
      BY <3>2, <3>5, Zenon
    <3>7. QED
      BY <3>4, <3>6
  <2>3. Got(o)' = Got(o) \cup {k}
    BY <1>3, <1>7, <2>2 DEF Got
  <2>4. ProgressTally(o)'
    BY <1>3, <1>4, <1>5, <1>7, <2>1, <2>2 DEF ProgressTally
  <2>5. QED
    BY <1>2, <1>5, <2>3, <2>4 DEF Cancelled
<1>8. QED
  BY <1>6, <1>7

\* Nothing was heard of an operation before it is started.
LEMMA StartSilent ==
  ASSUME TypeOK, CookieInv, NEW o \in Ops, NEW s \in Shapes, Start(o, s), TallyOf(o)
  PROVE  /\ heard[o] = Silence /\ failed[o] = {}
         /\ inflight[o] = {} /\ cookie[o].st = "none" /\ shape'[o] = s
         /\ nops' = o /\ NoFrame(o) /\ \A i \in Depth : stack[i].op # o
<1>1. /\ o > nops /\ nops' = o /\ shape'[o] = s
      /\ inflight[o] = {} /\ cookie[o].st = "none"
      /\ \A i \in Depth : stack[i].op # o
  BY StartFacts
<1>2. heard[o] \in {Silence} /\ failed[o] = {}
  BY <1>1 DEF TallyOf
<1>3. QED
  BY <1>1, <1>2 DEF NoFrame

\* An operation is started: nothing is heard of it yet, or its failure.
LEMMA StartTally ==
  ASSUME TypeOK, TypeOK', CookieInv, CookieInv', HandedInv, NEW o \in Ops, NEW s \in Shapes,
         Bail(o, s) \/ Enqueue(o, s) \/ Schedule(o, s) \/ ScheduleFail(o, s), TallyOf(o)
  PROVE  TallyOf(o)'
<1>1. Start(o, s)
  BY DEF Bail, Enqueue, Schedule, ScheduleFail
<1>2. /\ heard[o] = Silence /\ failed[o] = {}
      /\ inflight[o] = {} /\ cookie[o].st = "none" /\ shape'[o] = s
      /\ nops' = o /\ NoFrame(o) /\ \A i \in Depth : stack[i].op # o
  BY <1>1, StartSilent
<1>3. /\ cookie \in [Ops -> CookieRec] /\ inflight \in [Ops -> SUBSET Nat]
      /\ heard \in [Ops -> HeardRec] /\ failed \in [Ops -> SUBSET Nat]
      /\ stack \in Seq(Frame)
  BY DEF TypeOK
<1>4. /\ NewCookie(s) \in CookieRec /\ NewCookie(s).st = "live" /\ ~NewCookie(s).isCancelled
      /\ s.kind \in {"plain", "observe"} => NewCookie(s).remaining = s.nkeys
      /\ NewCookie(s).results = {} /\ ~NewCookie(s).hasError
      /\ s.kind \in Kinds /\ s.nkeys \in Nat \ {0}
  BY NewFacts DEF NewCookie
<1>5. CASE Bail(o, s)
  <2>1. /\ cookie' = cookie /\ failed' = failed
        /\ heard' = [heard EXCEPT ![o] = [@ EXCEPT !.calls = 1, !.err = TRUE]]
        /\ stack' = Append(stack, Call("bailOut", o))
    BY <1>5 DEF Bail
  <2>2. heard'[o] = Bailed
    <3>1. heard'[o] = [Silence EXCEPT !.calls = 1, !.err = TRUE]
      BY <1>2, <1>3, <2>1
    <3>2. QED
      BY <3>1 DEF Silence, Bailed
  <2>3. cookie'[o].st = "none" /\ failed'[o] = {} /\ ~(o > nops')
    BY <1>2, <2>1 DEF TypeOK, Ops
  <2>4. ~Waiting(o)'
    BY <2>3, WaitingWaitsNext DEF Waits, Live
  <2>5. ~HasFrame("final", o)'
    <3>1. Call("bailOut", o) \in Frame /\ Call("bailOut", o).fn = "bailOut"
      <4>1. Call("bailOut", o) \in Frame
        BY CallType DEF AppFrames, CookieFrames
      <4>2. QED
        BY <4>1 DEF Call
    <3>2. QED
      BY <1>2, <2>1, <3>1, Pushed DEF HasFrame
  <2>6. QED
    BY <2>2, <2>3, <2>4, <2>5 DEF TallyOf
<1>6. CASE Enqueue(o, s) \/ Schedule(o, s)
  <2>1. /\ cookie' = [cookie EXCEPT ![o] = NewCookie(s)]
        /\ heard' = heard /\ failed' = failed /\ stack' = stack
        /\ \/ inflight' = inflight
           \/ inflight' = [inflight EXCEPT ![o] = Outstanding(s)]
    BY <1>6 DEF Enqueue, Schedule, library
  <2>2. cookie'[o] = NewCookie(s) /\ (inflight'[o] = {} \/ inflight'[o] = Outstanding(s))
    BY <1>2, <1>3, <2>1
  <2>3. NoFrame(o)'
    BY <1>2, <2>1 DEF NoFrame, Depth
  <2>4. Untold(o)'
    BY <1>2, <1>4, <2>1, <2>2, <2>3 DEF Untold, Live, Cancelled, Counted, Fresh
  <2>5. QED
    BY <2>4, UntoldTallyNext
<1>7. CASE ScheduleFail(o, s) /\ s.kind \in {"plain", "observe"}
  <2> DEFINE g == [fn |-> "cancel", op |-> o, keys |-> AllKeys(s)]
  <2>1. /\ cookie' = [cookie EXCEPT ![o] = [NewCookie(s) EXCEPT !.isCancelled = TRUE]]
        /\ heard' = heard /\ failed' = failed /\ stack' = Append(stack, g)
        /\ viaQueue' = viaQueue
    BY <1>7 DEF ScheduleFail, Cancel
  <2>2. /\ cookie'[o].st = "live" /\ cookie'[o].isCancelled
        /\ cookie'[o].remaining = s.nkeys /\ cookie'[o].results = {}
        /\ ~cookie'[o].hasError
    <3>1. cookie'[o] = [NewCookie(s) EXCEPT !.isCancelled = TRUE]
      BY <1>3, <2>1
    <3>2. QED
      BY <1>4, <1>7, <3>1 DEF CookieRec
  <2>3. /\ AllKeys(s) \in Seq(Nat) /\ Len(AllKeys(s)) = s.nkeys
        /\ \A j \in 1..Len(AllKeys(s)) : AllKeys(s)[j] = 0 + j
    BY <1>4 DEF AllKeys
  <2>4. o \notin viaQueue'
    <3>1. o > nops /\ nops \in Int /\ o \in Int
      BY <1>1, StartFacts, HandedFacts
    <3>2. \A p \in viaQueue : p <= nops
      BY DEF HandedInv
    <3>3. o \notin viaQueue
      BY <3>1, <3>2
    <3>4. QED
      BY <2>1, <3>3
  <2>5. ToCancel(o, 0, AllKeys(s))'
    BY <1>2, <1>4, <2>3, <2>4 DEF ToCancel
  <2>6. g \in Frame /\ g.fn = "cancel" /\ g.keys = AllKeys(s)
    BY <2>3, CancelFrame
  <2> HIDE DEF g
  <2>7. \A i \in Depth' : stack'[i].op = o => stack'[i] = g
    BY <1>2, <2>1, <2>6, Pushed
  <2>8. (\A i \in Depth : OfCookie(stack[i]) /\ stack[i].op = o =>
                             stack[i].fn = "cancel" /\ ToCancel(o, 0, stack[i].keys))'
    <3> SUFFICES ASSUME NEW i \in Depth', stack'[i].op = o
                 PROVE  stack'[i].fn = "cancel" /\ ToCancel(o, 0, stack[i].keys)'
      OBVIOUS
    <3>1. stack'[i].fn = "cancel" /\ stack'[i].keys = AllKeys(s)
      BY <2>6, <2>7
    <3>2. QED
      BY <2>5, <3>1 DEF ToCancel
  <2>9. CancelStarts(o)'
    BY <1>2, <1>7, <2>1, <2>2, <2>8
    DEF CancelStarts, Live, Cancelled, Counted, Fresh
  <2>10. QED
    BY <2>9, CancelStartsTallyNext
<1>8. CASE ScheduleFail(o, s) /\ s.kind \notin {"plain", "observe"}
  <2>1. /\ cookie' = [cookie EXCEPT ![o] = NewCookie(s)] /\ inflight' = inflight
        /\ failed' = [failed EXCEPT ![o] = @ \cup {NoKey}]
        /\ heard' = [heard EXCEPT ![o] = [calls |-> @.calls + 1, keys |-> NewCookie(s).results,
                                          err |-> TRUE]]
    BY <1>8 DEF ScheduleFail, Cancel, Answer, Fail, library
  <2>2. /\ cookie'[o] = NewCookie(s) /\ NoKey \in failed'[o]
        /\ heard'[o].calls = 1 /\ heard'[o].keys = {} /\ heard'[o].err
    BY <1>2, <1>3, <1>4, <2>1 DEF Silence
  <2>3. Live(o)' /\ ~ByProgress(o)' /\ inflight'[o] = {}
    BY <1>2, <1>4, <1>8, <2>1, <2>2 DEF Live, ByProgress, Cancelled
  <2>4. ~InQueue(o)'
    <3>1. pending' = pending /\ ~InQueue(o)
      BY <1>1, <1>8, StartFacts DEF ScheduleFail, handle
    <3>2. QED
      BY <3>1 DEF InQueue
  <2>5. shape'[o].kind \in {"stats", "http"}
    BY <1>2, <1>4, <1>8 DEF Kinds
  <2>6. ToldAll(o)'
    BY <1>4, <2>2, <2>3, <2>4, <2>5 DEF ToldAll, Waiting
  <2>7. QED
    BY <2>6, ToldAllTallyNext
<1>9. QED
  BY <1>5, <1>6, <1>7, <1>8

\* Nothing was heard of the front of the queue before the queue runs.
LEMMA FrontSilent ==
  ASSUME TypeOK, CookieInv, HandedInv, RunNext \/ RunNextFail,
         NEW o \in Ops, o = Head(pending), TallyOf(o)
  PROVE  Fresh(o) /\ NoFrame(o) /\ o \in viaQueue
<1>1. o = pending[1] /\ \A i \in Depth : ~OfCookie(stack[i]) /\ stack[i] = Top
  BY FrontFacts
<1>2. 1 \in 1..Len(pending) /\ Top.op = NoOp
  <2>1. OnTop("runScheduled") /\ pending # <<>> /\ Top.op = NoOp
    BY DEF RunNext, RunNextFail
  <2>2. QED
    BY <2>1, DrainFacts
<1>3. InQueue(o)
  BY <1>1, <1>2, FrameFacts
<1>4. ~Running(o)
  BY <1>1, <1>2, StackFacts DEF CancelsFront
<1>5. Fresh(o)
  BY <1>3, <1>4 DEF TallyOf, Waiting
<1>6. o \in viaQueue
  BY <1>1, <1>2 DEF HandedInv
<1>7. QED
  BY <1>1, <1>5, <1>6 DEF NoFrame

\* libcouchbase takes the front of the queue.
LEMMA RunNextTally ==
  ASSUME TypeOK, TypeOK', CookieInv, CookieInv', HandedInv, RunNext,
         NEW o \in Ops, o = Head(pending), TallyOf(o)
  PROVE  TallyOf(o)'
<1>1. /\ UNCHANGED <<cookie, shape, heard, failed, stack>>
      /\ inflight'[o] = Outstanding(shape[o])
  BY DEF RunNext, answers, TypeOK
<1>2. Fresh(o) /\ NoFrame(o)
  BY FrontSilent
<1>3. Live(o) /\ ~Cancelled(o) /\ (Counted(o) => cookie[o].remaining = shape[o].nkeys)
  BY FrontFacts
<1>4. Untold(o)'
  BY <1>1, <1>2, <1>3 DEF Untold, Live, Cancelled, Counted, Fresh, NoFrame, Depth
<1>5. QED
  BY <1>4, UntoldTallyNext

\* libcouchbase refuses the front of the queue, which is cancelled.
LEMMA RunNextFailTally ==
  ASSUME TypeOK, TypeOK', CookieInv, CookieInv', HandedInv, RunNextFail,
         NEW o \in Ops, o = Head(pending), TallyOf(o)
  PROVE  TallyOf(o)'
<1> DEFINE f == Call("runScheduled", o)
           base == Append(Callers, f)
<1>1. /\ Cancel(o, cookie[o], shape[o], <<NoKey>>, base)
      /\ UNCHANGED <<inflight, shape, viaQueue>>
  BY DEF RunNextFail, library
<1>2. /\ Fresh(o) /\ o \in viaQueue
      /\ heard[o] = Silence /\ failed[o] = {}
      /\ cookie[o].results = {} /\ ~cookie[o].hasError
  BY FrontSilent DEF Fresh
<1>3. /\ Live(o) /\ ~Cancelled(o) /\ inflight[o] = {}
      /\ Counted(o) => cookie[o].remaining = shape[o].nkeys
      /\ \A i \in Depth : ~OfCookie(stack[i]) /\ stack[i] = Top
      /\ shape[o].kind \in Kinds /\ shape[o].nkeys \in Nat \ {0}
      /\ cookie[o] \in CookieRec /\ stack # <<>>
  BY FrontFacts
<1>4. /\ cookie \in [Ops -> CookieRec] /\ heard \in [Ops -> HeardRec]
      /\ failed \in [Ops -> SUBSET Nat]
  BY DEF TypeOK
<1>5. f \in Frame /\ ~OfCookie(f)
  <2>1. f \in Frame
    BY CallType DEF NativeFrames, CookieFrames
  <2>2. QED
    BY <2>1 DEF Call, OfCookie, CookieFrames
<1> HIDE DEF f
<1>6. CASE Counted(o)
  <2> DEFINE g == [fn |-> "cancel", op |-> o, keys |-> <<NoKey>>]
  <2>1. /\ cookie' = [cookie EXCEPT ![o] = [cookie[o] EXCEPT !.isCancelled = TRUE]]
        /\ heard' = heard /\ failed' = failed /\ stack' = Append(base, g)
    BY <1>1, <1>6 DEF Cancel, Counted
  <2>2. /\ cookie'[o].st = "live" /\ cookie'[o].isCancelled
        /\ cookie'[o].remaining = shape[o].nkeys /\ cookie'[o].results = {}
        /\ ~cookie'[o].hasError
    <3>1. cookie'[o] = [cookie[o] EXCEPT !.isCancelled = TRUE]
      BY <1>4, <2>1
    <3>2. QED
      BY <1>2, <1>3, <1>6, <3>1 DEF CookieRec, Live
  <2>3. ToCancel(o, 0, <<NoKey>>)'
    <3>1. o \in viaQueue'
      BY <1>1, <1>2
    <3>2. QED
      BY <3>1 DEF ToCancel
  <2>4. g \in Frame /\ g.fn = "cancel" /\ g.keys = <<NoKey>>
    <3>1. <<NoKey>> \in Seq(Nat)
      OBVIOUS
    <3>2. QED
      BY <3>1, CancelFrame
  <2> HIDE DEF g
  <2>5. \A i \in Depth' : OfCookie(stack'[i]) => stack'[i] = g
    <3>1. \A i \in Depth' : \/ i \in Depth /\ stack'[i] = stack[i]
                            \/ stack'[i] = f \/ stack'[i] = g
      BY <1>3, <1>5, <2>1, <2>4, ReplacedPushed
    <3>2. QED
      BY <1>3, <1>5, <3>1
  <2>6. (\A i \in Depth : OfCookie(stack[i]) /\ stack[i].op = o =>
                             stack[i].fn = "cancel" /\ ToCancel(o, 0, stack[i].keys))'
    <3> SUFFICES ASSUME NEW i \in Depth', OfCookie(stack'[i])
                 PROVE  stack'[i].fn = "cancel" /\ ToCancel(o, 0, stack[i].keys)'
      BY DEF OfCookie
    <3>1. stack'[i].fn = "cancel" /\ stack'[i].keys = <<NoKey>>
      BY <2>4, <2>5
    <3>2. QED
      BY <2>3, <3>1 DEF ToCancel
  <2>7. CancelStarts(o)'
    BY <1>1, <1>2, <1>6, <2>1, <2>2, <2>6
    DEF CancelStarts, Live, Cancelled, Counted, Fresh
  <2>8. QED
    BY <2>7, CancelStartsTallyNext
<1>7. CASE ~Counted(o)
  <2>1. /\ cookie' = [cookie EXCEPT ![o] = cookie[o]]
        /\ failed' = [failed EXCEPT ![o] = @ \cup {NoKey}]
        /\ heard' = [heard EXCEPT ![o] = [calls |-> @.calls + 1, keys |-> cookie[o].results,
                                          err |-> TRUE]]
        /\ stack' = Append(base, Call("final", o))
    BY <1>1, <1>7 DEF Cancel, Answer, Fail, Counted
  <2>2. /\ cookie'[o] = cookie[o] /\ NoKey \in failed'[o]
        /\ heard'[o].calls = 1 /\ heard'[o].keys = {} /\ heard'[o].err
    BY <1>2, <1>4, <2>1 DEF Silence
  <2>3. Live(o)' /\ ~ByProgress(o)' /\ inflight'[o] = {}
    BY <1>1, <1>3, <1>7, <2>2 DEF Live, ByProgress, Cancelled, Counted
  <2>4. Running(o)'
    <3>1. Call("final", o) \in Frame
      BY CallbackFrames
    <3>2. Len(stack) \in Depth' /\ stack'[Len(stack)] = f
      BY <1>3, <1>5, <2>1, <3>1, ReplacedPushed
    <3>3. DOMAIN stack' = Depth'
      BY LenProperties DEF TypeOK, Depth
    <3>4. f.fn = "runScheduled" /\ f.op = o
      BY DEF f, Call
    <3>5. QED
      BY <3>2, <3>3, <3>4 DEF Running
  <2>5. shape'[o].kind \in {"stats", "http"}
    BY <1>1, <1>3, <1>7 DEF Kinds, Counted
  <2>6. ToldAll(o)'
    BY <1>2, <2>2, <2>3, <2>4, <2>5 DEF ToldAll, Waiting
  <2>7. QED
    BY <2>6, ToldAllTallyNext
<1>8. QED
  BY <1>6, <1>7

\* The front leaves the queue after its cancellation.
LEMMA RunPopTally ==
  ASSUME TypeOK, TypeOK', CookieInv, RunPop, NEW o \in Ops, o = Head(pending), TallyOf(o)
  PROVE  TallyOf(o)'
<1>1. /\ OnTop("runScheduled") /\ pending # <<>> /\ pending' = Tail(pending)
      /\ stack' = Append(Callers, Call("runScheduled", NoOp))
      /\ UNCHANGED <<cookie, heard, failed, inflight, shape, viaQueue, nops>>
  BY DEF RunPop, library, answers
<1>2. ~Waiting(o)'
  BY <1>1, TailFacts DEF Waiting
<1>3. \A i \in Depth' : ~OfCookie(stack'[i])
  <2>1. Call("runScheduled", NoOp) \in Frame /\ ~OfCookie(Call("runScheduled", NoOp))
    <3>1. Call("runScheduled", NoOp) \in Frame
      BY CallType DEF NativeFrames, CookieFrames
    <3>2. QED
      BY <3>1 DEF Call, OfCookie, CookieFrames
  <2>2. stack # <<>> /\ \A i \in Depth : ~OfCookie(stack[i])
    <3>1. stack # <<>> /\ Top.fn = "runScheduled"
      BY <1>1 DEF OnTop
    <3>2. \A i \in Depth : stack[i] = Top
      BY <3>1, LoopAlone DEF LoopFrames
    <3>3. QED
      BY <3>1, <3>2 DEF OfCookie, CookieFrames
  <2>3. \A i \in Depth' : \/ i \in Depth /\ stack'[i] = stack[i]
                          \/ stack'[i] = Call("runScheduled", NoOp)
    BY <1>1, <2>1, <2>2, Replaced
  <2>4. QED
    BY <2>1, <2>2, <2>3
<1>4. /\ ~HasFrame("final", o)'
      /\ \A i \in Depth' : stack'[i].fn # "cancel"
  BY <1>3 DEF HasFrame, OfCookie, CookieFrames
<1>5. QED
  BY <1>1, <1>2, <1>4, StillAdds

\* When a function of a Cookie returns, the frames left were there before.
LEMMA CookieReturns ==
  ASSUME TypeOK, TypeOK', CookieInv, stack # <<>>, OfCookie(Top), stack' = Callers,
         NEW o \in Ops, pending' = pending
  PROVE  /\ Waiting(o)' => Waiting(o)
         /\ HasFrame("final", o)' => HasFrame("final", o)
         /\ \A i \in Depth' : i \in Depth /\ stack'[i] = stack[i]
<1>1. /\ \A i \in Depth' : i \in Depth /\ stack'[i] = stack[i]
      /\ \A i \in Depth : i = Len(stack) \/ (i \in Depth' /\ stack'[i] = stack[i])
  BY Popped
<1>2. HasFrame("final", o)' => HasFrame("final", o)
  BY <1>1 DEF HasFrame
<1>3. Running(o) => Running(o)'
  <2>1. ASSUME Running(o) PROVE Running(o)'
    <3>1. PICK i \in Depth : stack[i].op = o /\ CancelsFront(stack[i])
      BY <2>1, StackFacts
    <3>2. i # Len(stack)
      BY <3>1, TopOfCookie DEF CancelsFront, OfCookie, CookieFrames
    <3>3. i \in Depth' /\ stack'[i] = stack[i]
      BY <1>1, <3>2
    <3>4. DOMAIN stack' = Depth'
      BY LenProperties DEF TypeOK, Depth
    <3>5. QED
      BY <3>1, <3>3, <3>4 DEF Running, CancelsFront
  <2>2. QED
    BY <2>1
<1>4. Waiting(o)' => Waiting(o)
  BY <1>3 DEF Waiting, InQueue
<1>5. QED
  BY <1>1, <1>2, <1>4

\* Cookie::cancel returns.
LEMMA CancelDoneTally ==
  ASSUME TypeOK, TypeOK', CookieInv, CancelDone, NEW o \in Ops, TallyOf(o)
  PROVE  TallyOf(o)'
<1>1. /\ stack # <<>> /\ OfCookie(Top) /\ stack' = Callers
      /\ UNCHANGED <<pending, cookie, heard, failed, inflight, shape, viaQueue, nops>>
  BY DEF CancelDone, OnTop, OfCookie, CookieFrames, handle, library, answers
<1>2. /\ Waiting(o)' => Waiting(o)
      /\ HasFrame("final", o)' => HasFrame("final", o)
      /\ \A i \in Depth' : i \in Depth /\ stack'[i] = stack[i]
  BY <1>1, CookieReturns
<1>3. QED
  BY <1>1, <1>2, StillAdds

\* The application's callback returns, and perhaps the Cookie ends.
LEMMA ReturnTally ==
  ASSUME TypeOK, TypeOK', CookieInv, ReturnProgress \/ ReturnFinal,
         NEW o \in Ops, o = Top.op, TallyOf(o)
  PROVE  TallyOf(o)'
<1>1. /\ stack # <<>> /\ OfCookie(Top) /\ stack' = Callers
      /\ UNCHANGED <<pending, heard, failed, inflight, shape, viaQueue, nops>>
  BY DEF ReturnProgress, ReturnFinal, OnTop, OfCookie, CookieFrames, handle, library
<1>2. /\ Waiting(o)' => Waiting(o)
      /\ HasFrame("final", o)' => HasFrame("final", o)
      /\ \A i \in Depth' : i \in Depth /\ stack'[i] = stack[i]
  BY <1>1, CookieReturns
<1>3. Len(stack) \in Depth /\ stack[Len(stack)] = Top /\ Holds(Top)
  BY <1>1, BelowTop
<1>4. \/ cookie'[o] = cookie[o]
      \/ /\ Live(o) /\ cookie'[o] = [cookie[o] EXCEPT !.st = "deleted"]
         /\ IF ByProgress(o) THEN cookie[o].remaining = 0 ELSE heard[o].calls = 1
  <2>1. CASE ReturnFinal
    <3>1. Top.fn = "final" /\ cookie' = [cookie EXCEPT ![o].st = "deleted"]
      BY <2>1 DEF ReturnFinal, OnTop, Delete
    <3>2. HasFrame("final", o)
      BY <1>3, <3>1 DEF HasFrame
    <3>3. ~ByProgress(o) /\ heard[o].calls = 1 /\ Live(o)
      BY <1>3, <3>1, <3>2 DEF TallyOf, Holds
    <3>4. cookie'[o] = [cookie[o] EXCEPT !.st = "deleted"]
      BY <3>1 DEF TypeOK
    <3>5. QED
      BY <3>3, <3>4
  <2>2. CASE ReturnProgress /\ cookie[o].remaining = 0
    <3>1. Top.fn = "progress" /\ cookie' = [cookie EXCEPT ![o].st = "deleted"]
      BY <2>2 DEF ReturnProgress, OnTop, Delete
    <3>2. ByProgress(o) /\ Live(o)
      BY <1>3, <3>1 DEF Holds, ByProgress
    <3>3. cookie'[o] = [cookie[o] EXCEPT !.st = "deleted"]
      BY <3>1 DEF TypeOK
    <3>4. QED
      BY <2>2, <3>2, <3>3
  <2>3. CASE ReturnProgress /\ cookie[o].remaining # 0
    BY <2>3 DEF ReturnProgress
  <2>4. QED
    BY <2>1, <2>2, <2>3
<1>5. QED
  BY <1>1, <1>2, <1>4, StillAdds

\* lcb_destroy returns.
LEMMA DestroyTally ==
  ASSUME TypeOK, TypeOK', CookieInv, DestroyDone, NEW o \in Ops, TallyOf(o)
  PROVE  TallyOf(o)'
<1>1. /\ stack # <<>> /\ Top.fn = "destroy" /\ inflight'[o] = {} /\ stack' = Callers
      /\ UNCHANGED <<cookie, shape, viaQueue, heard, failed, pending, nops>>
  BY DEF DestroyDone, OnTop, handle, answers
<1>2. SameFrames(o)
  <2>1. Foreign(Top, o)
    BY <1>1 DEF Foreign, OfCookie, CookieFrames, CancelsFront
  <2>2. QED
    BY <1>1, <2>1, PopForeign
<1>3. Waiting(o)' => Waiting(o)
  BY <1>1, <1>2 DEF SameFrames, Waiting, InQueue
<1>4. HasFrame("final", o)' => HasFrame("final", o)
  BY <1>2, SameFramesFacts DEF CookieFrames
<1>5. \A i \in Depth' : stack'[i].fn = "cancel" /\ stack'[i].op = o =>
                          i \in Depth /\ stack'[i] = stack[i]
  BY <1>2 DEF SameFrames, OfCookie, CookieFrames
<1>6. QED
  BY <1>1, <1>3, <1>4, <1>5, StillAdds

\* One more key to fail has been reached.
LEMMA ReachedNext ==
  ASSUME TypeOK, NEW o \in Ops, NEW m \in Nat, NEW keys \in Seq(Nat), keys # <<>>,
         ToCancel(o, m, keys)
  PROVE  /\ Reached(o, m + 1) = Reached(o, m) \cup {Head(keys)}
         /\ ToCancel(o, m + 1, Tail(keys)) /\ (o \in viaQueue => m = 0)
<1>1. /\ Len(keys) \in Nat \ {0} /\ Head(keys) = keys[1] /\ Len(Tail(keys)) = Len(keys) - 1
      /\ \A j \in 1..(Len(keys) - 1) : Tail(keys)[j] = keys[j + 1]
  BY TailType
<1>2. 1 \in 1..Len(keys) /\ \A j \in 1..(Len(keys) - 1) : j \in Nat /\ j + 1 \in 1..Len(keys)
  BY <1>1
<1>3. shape[o].nkeys \in Nat \ {0}
  BY OpTypes
<1>4. CASE o \in viaQueue
  <2>1. m = 0 /\ Len(keys) = 1 /\ Head(keys) = NoKey
    BY <1>1, <1>2, <1>4 DEF ToCancel
  <2>2. Reached(o, m) = {} /\ Reached(o, m + 1) = {NoKey}
    BY <1>4, <2>1 DEF Reached
  <2>3. ToCancel(o, m + 1, Tail(keys))
    <3>1. Len(Tail(keys)) = 0 /\ 1 - (m + 1) = 0
      BY <1>1, <2>1
    <3>2. QED
      BY <1>4, <3>1 DEF ToCancel
  <2>4. QED
    BY <2>1, <2>2, <2>3
<1>5. CASE o \notin viaQueue
  <2>1. /\ Len(keys) = shape[o].nkeys - m /\ \A j \in 1..Len(keys) : keys[j] = m + j
    BY <1>5 DEF ToCancel
  <2>2. Head(keys) = m + 1
    BY <1>1, <1>2, <2>1
  <2>3. Reached(o, m) = 1..m /\ Reached(o, m + 1) = 1..(m + 1)
    BY <1>5 DEF Reached
  <2>4. 1..(m + 1) = (1..m) \cup {m + 1}
    OBVIOUS
  <2>5. \A j \in 1..Len(Tail(keys)) : Tail(keys)[j] = (m + 1) + j
    <3> SUFFICES ASSUME NEW j \in 1..(Len(keys) - 1) PROVE Tail(keys)[j] = (m + 1) + j
      BY <1>1
    <3>1. Tail(keys)[j] = keys[j + 1] /\ keys[j + 1] = m + (j + 1) /\ j \in Nat
      BY <1>1, <1>2, <2>1
    <3>2. QED
      BY <3>1
  <2>6. Len(Tail(keys)) = shape[o].nkeys - (m + 1)
    <3>1. PICK n \in Nat : n = shape[o].nkeys
      BY <1>3
    <3>2. PICK l \in Nat : l = Len(keys)
      BY <1>1
    <3>3. l = n - m /\ Len(Tail(keys)) = l - 1
      BY <1>1, <2>1, <3>1, <3>2
    <3>4. (n - m) - 1 = n - (m + 1)
      OBVIOUS
    <3>5. QED
      BY <3>1, <3>3, <3>4
  <2>7. ToCancel(o, m + 1, Tail(keys))
    BY <1>5, <2>5, <2>6 DEF ToCancel
  <2>8. QED
    BY <1>5, <2>2, <2>3, <2>4, <2>7
<1>6. QED
  BY <1>4, <1>5

\* One turn of the loop in Cookie::cancel: one more key has failed.
LEMMA CancelKeyTally ==
  ASSUME TypeOK, TypeOK', CookieInv, CookieInv', CancelKey, NEW o \in Ops, o = Top.op,
         TallyOf(o)
  PROVE  TallyOf(o)'
<1>1. PICK f \in Frame, k \in Nat :
           /\ f.fn = "cancel" /\ f.op = o /\ f.keys \in Seq(Nat)
           /\ k = Head(Top.keys) /\ f.keys = Tail(Top.keys)
           /\ Top.keys \in Seq(Nat) /\ Top.keys # <<>>
           /\ cookie'[o] = Noted(cookie[o], Spooled(o), k, FALSE)
           /\ failed'[o] = failed[o] \cup {k}
           /\ IF Spooled(o) /\ cookie'[o].remaining # 0
                THEN stack' = Append(Callers, f) /\ heard'[o] = heard[o]
                ELSE /\ stack' = Append(Append(Callers, f), Call("progress", o))
                     /\ heard'[o] = Told(heard[o], cookie'[o], Spooled(o), k, FALSE)
  BY CancelKeyEffect
<1>2. /\ stack # <<>> /\ OfCookie(Top) /\ Top.fn = "cancel"
      /\ inflight' = inflight /\ shape' = shape /\ viaQueue' = viaQueue
  BY DEF CancelKey, OnTop, OfCookie, CookieFrames, library
<1>3. /\ \A i \in Depth : i = Len(stack) \/ ~OfCookie(stack[i]) \/ stack[i].op # o
      /\ Len(stack) \in Depth /\ stack[Len(stack)] = Top
      /\ Counted(o) /\ Cancelled(o) /\ Live(o)
      /\ cookie[o].remaining >= Len(Top.keys)
  <2>1. Counted(o) /\ Cancelled(o) /\ Live(o) /\ cookie[o].remaining >= Len(Top.keys)
    BY <1>1, <1>2, BelowTop DEF Holds
  <2>2. QED
    BY <1>2, <2>1, BelowTop
<1>4. cookie[o].remaining # 0 /\ cookie[o].remaining \in Int /\ shape[o].nkeys \in Nat
  <2>1. Len(Top.keys) \in Nat \ {0}
    BY <1>1, TailType
  <2>2. cookie[o].remaining \in Int /\ shape[o].nkeys \in Nat
    BY OpTypes
  <2>3. QED
    BY <1>3, <2>1, <2>2
<1>5. ProgressTally(o) /\ CancelTally(o)
  BY <1>3 DEF TallyOf, ByProgress, Live
<1>6. /\ ProgressTally(o)'
      /\ Got(o)' = Got(o) \cup {k} /\ Answered(o)' = Answered(o) + 1
      /\ cookie'[o].st = cookie[o].st /\ Cancelled(o)'
  <2>1. PICK no \in BOOLEAN : no = FALSE
    OBVIOUS
  <2>2. /\ cookie'[o] = Noted(cookie[o], Spooled(o), k, no)
        /\ no => failed'[o] = failed[o]
        /\ ~no => failed'[o] = failed[o] \cup {k}
        /\ IF Spooled(o) /\ cookie'[o].remaining # 0
             THEN heard'[o] = heard[o]
             ELSE heard'[o] = Told(heard[o], cookie'[o], Spooled(o), k, no)
    BY <1>1, <2>1
  <2>3. shape'[o] = shape[o]
    BY <1>2
  <2>4. QED
    BY <1>3, <1>4, <1>5, <2>2, <2>3, ProgressAdds
<1> DEFINE m == Answered(o)
<1>7. m \in Nat
  <2>1. m \in Int
    BY <1>4 DEF Answered
  <2>2. m >= 0
    BY <1>5 DEF CancelTally
  <2> HIDE DEF m
  <2>3. QED
    BY <2>1, <2>2
<1>8. ToCancel(o, m, Top.keys) /\ Got(o) = Reached(o, m) /\ failed[o] = Reached(o, m)
  BY <1>2, <1>3, <1>5 DEF CancelTally
<1> HIDE DEF m
<1>9. /\ Reached(o, m + 1) = Reached(o, m) \cup {k}
      /\ ToCancel(o, m + 1, f.keys) /\ (o \in viaQueue => m = 0)
  <2>1. PICK ks \in Seq(Nat) : ks = Top.keys
    BY <1>1
  <2>2. /\ Reached(o, m + 1) = Reached(o, m) \cup {Head(ks)}
        /\ ToCancel(o, m + 1, Tail(ks)) /\ (o \in viaQueue => m = 0)
    BY <1>1, <1>7, <1>8, <2>1, ReachedNext
  <2>3. Head(ks) = k /\ Tail(ks) = f.keys
    BY <1>1, <2>1
  <2>4. QED
    BY <2>2, <2>3
<1>10. Answered(o)' = m + 1
  BY <1>6 DEF m
<1>11. \A i \in Depth' : OfCookie(stack'[i]) /\ stack'[i].op = o =>
                           stack'[i] = f \/ stack'[i].fn = "progress"
  <2>1. /\ Call("progress", o) \in Frame /\ Call("progress", o).fn = "progress"
    BY CallbackFrames
  <2>2. \A i \in Depth' : \/ i \in Depth /\ i < Len(stack) /\ stack'[i] = stack[i]
                          \/ stack'[i] = f
                          \/ stack'[i] = Call("progress", o)
    <3>1. CASE stack' = Append(Callers, f)
      BY <1>1, <1>2, <3>1, Replaced
    <3>2. CASE stack' = Append(Append(Callers, f), Call("progress", o))
      BY <1>1, <1>2, <2>1, <3>2, ReplacedPushed
    <3>3. QED
      BY <1>1, <3>1, <3>2
  <2>3. \A i \in Depth : i < Len(stack) => i # Len(stack)
    BY StackFacts
  <2>4. QED
    BY <1>3, <2>1, <2>2, <2>3
<1>12. CancelTally(o)'
  <2>1. Counted(o)' /\ (o \in viaQueue' => Answered(o)' <= 1) /\ Answered(o)' >= 0
    BY <1>2, <1>3, <1>7, <1>9, <1>10 DEF Counted
  <2>2. /\ \A n : Reached(o, n)' = Reached(o, n)
        /\ \A n, keys : ToCancel(o, n, keys)' <=> ToCancel(o, n, keys)
    BY <1>2 DEF Reached, ToCancel
  <2>3. Got(o)' = Reached(o, Answered(o))' /\ failed'[o] = Reached(o, Answered(o))'
    <3>1. Reached(o, Answered(o))' = Reached(o, m + 1)
      BY <1>2, <1>10 DEF Reached
    <3>2. QED
      BY <1>1, <1>6, <1>8, <1>9, <3>1
  <2>4. (\A i \in Depth : stack[i].fn = "cancel" /\ stack[i].op = o =>
                            ToCancel(o, Answered(o), stack[i].keys))'
    <3> SUFFICES ASSUME NEW i \in Depth', stack'[i].fn = "cancel", stack'[i].op = o
                 PROVE  ToCancel(o, Answered(o), stack[i].keys)'
      OBVIOUS
    <3>1. stack'[i].keys = f.keys
      BY <1>1, <1>11 DEF OfCookie, CookieFrames
    <3>2. QED
      BY <1>2, <1>9, <1>10, <3>1 DEF ToCancel
  <2>5. QED
    BY <2>1, <2>3, <2>4 DEF CancelTally
<1>13. ~HasFrame("final", o)'
  BY <1>1, <1>11 DEF HasFrame, OfCookie, CookieFrames
<1>14. ~Waiting(o)'
  BY <1>6, WaitingWaitsNext DEF Waits
<1>15. cookie'[o].st = "live" /\ ByProgress(o)'
  BY <1>3, <1>6 DEF Live, ByProgress
<1>16. QED
  BY <1>6, <1>12, <1>13, <1>14, <1>15 DEF TallyOf

\* A reply: its key is no longer owed, and what failed is noted or told.
LEMMA DeliverTally ==
  ASSUME TypeOK, TypeOK', CookieInv, CookieInv', NEW o \in Ops, NEW k \in inflight[o],
         NEW ok \in BOOLEAN, Deliver(o, k, ok, stack), TallyOf(o)
  PROVE  TallyOf(o)'
<1>1. /\ Live(o) /\ ~Cancelled(o) /\ ~InQueue(o) /\ k \in Nat
      /\ cookie[o] \in CookieRec /\ stack \in Seq(Frame)
      /\ shape[o].kind \in Kinds /\ shape[o].nkeys \in Nat \ {0}
      /\ \A i \in Depth : ~(stack[i].fn \in {"cancel", "final"} /\ stack[i].op = o)
  BY OwedFacts
<1>2. cookie[o].st = "live" /\ inflight[o] # {} /\ inflight \in [Ops -> SUBSET Nat]
  BY <1>1 DEF Live, TypeOK
<1>3. CASE shape[o].kind = "plain"
  <2>1. /\ Progress(o, k, TRUE, ok, stack)
        /\ inflight' = [inflight EXCEPT ![o] = @ \ {k}]
        /\ UNCHANGED <<pending, shape, viaQueue>>
    BY <1>1, <1>3, DeliverPlain
  <2>2. PICK yes \in BOOLEAN : Progress(o, k, yes, ok, stack)
    BY <2>1
  <2>3. /\ cookie'[o] = Noted(cookie[o], Spooled(o), k, ok)
        /\ ok => failed'[o] = failed[o]
        /\ ~ok => failed'[o] = failed[o] \cup {k}
        /\ IF Spooled(o) /\ cookie'[o].remaining # 0
             THEN stack' = stack /\ heard'[o] = heard[o]
             ELSE /\ stack' = Append(stack, Call("progress", o))
                  /\ heard'[o] = Told(heard[o], cookie'[o], Spooled(o), k, ok)
    BY <1>1, <2>2, ProgressEffect
  <2>4. IF Spooled(o) /\ cookie'[o].remaining # 0
          THEN heard'[o] = heard[o]
          ELSE heard'[o] = Told(heard[o], cookie'[o], Spooled(o), k, ok)
    BY <2>3
  <2>5. ByProgress(o) /\ ProgressTally(o) /\ PlainTally(o)
    BY <1>1, <1>2, <1>3 DEF TallyOf, ByProgress
  <2>6. cookie[o].remaining = Cardinality(inflight[o]) /\ cookie[o].remaining # 0
    <3>1. IsFiniteSet(inflight[o]) /\ cookie[o].remaining = Cardinality(inflight[o])
      BY <1>3, OwedFacts
    <3>2. Cardinality(inflight[o]) \in Nat \ {0}
      BY <3>1, OneLess
    <3>3. QED
      BY <3>1, <3>2
  <2>7. /\ ProgressTally(o)' /\ Got(o)' = Got(o) \cup {k}
        /\ cookie'[o].remaining = cookie[o].remaining - 1
        /\ cookie'[o].st = "live" /\ ~Cancelled(o)'
    BY <1>1, <1>2, <2>1, <2>3, <2>4, <2>5, <2>6, ProgressAdds
  <2>8. inflight'[o] = inflight[o] \ {k} /\ shape'[o] = shape[o]
    BY <1>2, <2>1
  <2>9. PlainTally(o)'
    <3>1. inflight[o] \subseteq KeysOf(o) /\ Got(o) = KeysOf(o) \ inflight[o]
      BY <1>2, <2>5 DEF PlainTally
    <3>2. Got(o)' = KeysOf(o) \ inflight'[o]
      BY <2>7, <2>8, <3>1
    <3>3. KeysOf(o)' = KeysOf(o)
      BY <2>8 DEF KeysOf
    <3>4. cookie'[o].remaining = 0 => inflight'[o] = {}
      <4>1. IsFiniteSet(inflight[o])
        BY <1>3, OwedFacts
      <4>2. Cardinality(inflight[o]) - 1 = 0 <=> inflight[o] \ {k} = {}
        BY <4>1, OneLess
      <4>3. QED
        BY <2>6, <2>7, <2>8, <4>2
    <3>5. QED
      BY <2>8, <3>1, <3>2, <3>3, <3>4 DEF PlainTally
  <2>10. ~HasFrame("final", o)'
    <3>1. Call("progress", o) \in Frame /\ Call("progress", o).fn = "progress"
      BY CallbackFrames
    <3>2. CASE stack' = stack
      BY <1>1, <3>2 DEF HasFrame, Depth
    <3>3. CASE stack' = Append(stack, Call("progress", o))
      BY <1>1, <3>1, <3>3, Pushed DEF HasFrame
    <3>4. QED
      BY <2>3, <3>2, <3>3
  <2>11. ~Waiting(o)'
    BY <1>1, <2>1 DEF Waiting, InQueue
  <2>12. ByProgress(o)'
    BY <1>3, <2>8 DEF ByProgress
  <2>13. QED
    BY <2>7, <2>9, <2>10, <2>11, <2>12 DEF TallyOf
<1>4. CASE Streams(shape[o]) /\ k # NoKey
  <2>1. /\ cookie'[o] = Updated(cookie[o], k, ok)
        /\ ok => failed'[o] = failed[o]
        /\ ~ok => failed'[o] = failed[o] \cup {k}
        /\ heard' = heard /\ stack' = stack
        /\ inflight' = [inflight EXCEPT ![o] = @ \ {k}]
        /\ UNCHANGED <<pending, shape, viaQueue>>
    BY <1>1, <1>4, DeliverData
  <2>2. /\ cookie'[o].results = cookie[o].results \cup {k}
        /\ cookie'[o].hasError <=> (cookie[o].hasError \/ ~ok)
        /\ cookie'[o].st = "live" /\ ~Cancelled(o)'
    BY <1>1, <1>2, <2>1 DEF Updated, CookieRec, Cancelled
  <2>3. shape[o].kind # "plain" /\ shape[o].kind # "http"
    BY <1>4 DEF Streams
  <2>4. ~ByProgress(o) /\ FinalTally(o)
    BY <1>1, <1>2, <2>3 DEF TallyOf, ByProgress
  <2>5. /\ heard[o] = Silence /\ (cookie[o].hasError <=> failed[o] # {})
        /\ inflight[o] \subseteq 0..shape[o].nkeys
        /\ cookie[o].results = KeysOf(o) \ inflight[o]
    BY <1>2, <1>4, <2>4 DEF FinalTally
  <2>6. inflight'[o] = inflight[o] \ {k} /\ shape'[o] = shape[o]
    BY <1>2, <2>1
  <2>7. k \in KeysOf(o)
    BY <1>1, <1>4, <2>5 DEF KeysOf
  <2>8. cookie'[o].results = KeysOf(o)' \ inflight'[o]
    BY <2>2, <2>5, <2>6, <2>7 DEF KeysOf
  <2>9. cookie'[o].hasError <=> failed'[o] # {}
    BY <2>1, <2>2, <2>5
  <2>10. FinalTally(o)'
    BY <2>1, <2>3, <2>5, <2>6, <2>8, <2>9 DEF FinalTally, Silence
  <2>11. ~HasFrame("final", o)' /\ ~Waiting(o)' /\ ~ByProgress(o)'
    BY <1>1, <2>1, <2>2, <2>3, <2>6 DEF HasFrame, Depth, Waiting, InQueue, ByProgress
  <2>12. QED
    BY <2>2, <2>10, <2>11 DEF TallyOf, ByProgress
<1>5. CASE shape[o].kind # "plain" /\ ~(Streams(shape[o]) /\ k # NoKey)
  <2>1. /\ \E err \in BOOLEAN, good \in BOOLEAN :
              /\ Answer(o, cookie[o], err, good, stack)
              /\ good <=> ok \/ shape[o].kind = "observe"
              /\ err <=> cookie[o].hasError \/ ~good
        /\ shape[o].kind = "http" \/ (Streams(shape[o]) /\ inflight[o] = {NoKey})
        /\ inflight' = [inflight EXCEPT ![o] = @ \ {k}]
        /\ UNCHANGED <<pending, shape, viaQueue>>
    BY <1>1, <1>5, DeliverLast
  <2>2. PICK err \in BOOLEAN, good \in BOOLEAN :
              /\ Answer(o, cookie[o], err, good, stack)
              /\ err <=> cookie[o].hasError \/ ~good
    BY <2>1
  <2>3. /\ cookie'[o] = cookie[o]
        /\ good => failed'[o] = failed[o]
        /\ ~good => failed'[o] = failed[o] \cup {NoKey}
        /\ heard'[o].calls = heard[o].calls + 1 /\ heard'[o].keys = cookie[o].results
        /\ heard'[o].err <=> err
    BY <1>1, <2>2, AnswerEffect
  <2>4. ~ByProgress(o) /\ FinalTally(o)
    BY <1>1, <1>2, <1>5 DEF TallyOf, ByProgress
  <2>5. heard[o] = Silence /\ (cookie[o].hasError <=> failed[o] # {})
    BY <1>2, <2>4 DEF FinalTally
  <2>6. inflight'[o] = {} /\ shape'[o] = shape[o]
    <3>1. inflight[o] = {k}
      BY <2>1, OwedFacts
    <3>2. QED
      BY <1>2, <2>1, <3>1
  <2>7. heard'[o].calls = 1 /\ (heard'[o].err <=> failed'[o] # {})
    BY <2>2, <2>3, <2>5 DEF Silence
  <2>8. CASE shape[o].kind = "http"
    <3>1. cookie[o].results = {}
      BY <2>4, <2>8 DEF FinalTally
    <3>2. ToldAll(o)'
      BY <1>1, <1>5, <2>1, <2>3, <2>6, <2>7, <2>8, <3>1
      DEF ToldAll, Live, ByProgress, Cancelled, Waiting, InQueue
    <3>3. QED
      BY <3>2, ToldAllTallyNext
  <2>9. CASE Streams(shape[o]) /\ inflight[o] = {NoKey}
    <3>1. cookie[o].results = KeysOf(o) \ {NoKey} /\ NoKey \notin KeysOf(o)
      BY <2>4, <2>9 DEF FinalTally, KeysOf
    <3>2. heard'[o].keys = KeysOf(o)'
      BY <2>3, <2>6, <3>1 DEF KeysOf
    <3>3. shape'[o].kind \in {"observe", "stats"}
      BY <2>6, <2>9 DEF Streams
    <3>4. ToldAll(o)'
      BY <1>1, <1>5, <2>1, <2>3, <2>6, <2>7, <3>2, <3>3
      DEF ToldAll, Live, ByProgress, Cancelled, Waiting, InQueue
    <3>5. QED
      BY <3>4, ToldAllTallyNext
  <2>10. QED
    BY <2>1, <2>8, <2>9
<1>6. QED
  BY <1>3, <1>4, <1>5

\* Every operation adds up after every step.
LEMMA TallyStep ==
  ASSUME TypeOK, TypeOK', CookieInv, CookieInv', HandedInv, TallyInv, [Next]_vars,
         NEW p \in Ops
  PROVE  TallyOf(p)'
<1>1. TallyOf(p) /\ p \in Int /\ nops \in Int
  BY HandedFacts DEF TallyInv
<1>2. ASSUME Untouched(p), nops' = nops PROVE TallyOf(p)'
  BY <1>1, <1>2, UntouchedTally
<1>3. CASE QuietSteps
  BY <1>2, <1>3, QuietUntouched
<1>4. ASSUME NEW o \in Ops, NEW s \in Shapes,
             Bail(o, s) \/ Enqueue(o, s) \/ Schedule(o, s) \/ ScheduleFail(o, s)
      PROVE  TallyOf(p)'
  <2>1. CASE p = o
    BY <1>1, <1>4, <2>1, StartTally
  <2>2. CASE p # o
    <3>1. nops' = nops + 1
      BY <1>4 DEF Bail, Enqueue, Schedule, ScheduleFail, Start
    <3>2. p > nops' => p > nops
      BY <1>1, <3>1
    <3>3. Untouched(p)
      BY <1>4, <2>2, StartOthers
    <3>4. QED
      BY <1>1, <3>2, <3>3, UntouchedTally
  <2>3. QED
    BY <2>1, <2>2
<1>5. CASE RunNext \/ RunNextFail \/ RunPop
  <2>1. PICK o \in Ops : o = Head(pending)
    BY <1>5, DrainFacts DEF RunNext, RunNextFail, RunPop
  <2>2. CASE p = o
    BY <1>1, <1>5, <2>1, <2>2, RunNextTally, RunNextFailTally, RunPopTally
  <2>3. CASE p # o
    BY <1>2, <1>5, <2>1, <2>3, RunOthers
  <2>4. QED
    BY <2>2, <2>3
<1>6. CASE CancelKey \/ CancelDone \/ ReturnProgress \/ ReturnFinal
  <2>1. PICK o \in Ops : o = Top.op
    <3>1. stack # <<>> /\ OfCookie(Top)
      BY <1>6 DEF CancelKey, CancelDone, ReturnProgress, ReturnFinal, OnTop, OfCookie,
                  CookieFrames
    <3>2. QED
      BY <3>1, TopOfCookie
  <2>2. CASE p = o
    BY <1>1, <1>6, <2>1, <2>2, CancelKeyTally, CancelDoneTally, ReturnTally
  <2>3. CASE p # o
    BY <1>2, <1>6, <2>1, <2>3, CookieOthers
  <2>4. QED
    BY <2>2, <2>3
<1>7. CASE DestroyDone
  BY <1>1, <1>7, DestroyTally
<1>8. ASSUME NEW o \in Ops, NEW k \in inflight[o], NEW ok \in BOOLEAN,
             Deliver(o, k, ok, stack)
      PROVE  TallyOf(p)'
  <2>1. CASE p = o
    BY <1>1, <1>8, <2>1, DeliverTally
  <2>2. CASE p # o
    BY <1>2, <1>8, <2>2, DeliverOthers
  <2>3. QED
    BY <2>1, <2>2
<1>9. QED
  BY <1>3, <1>4, <1>5, <1>6, <1>7, <1>8, StepKinds

-----------------------------------------------------------------------------
(* What is heard of are parts of an operation. *)

\* One more part may be heard of.
LEMMA PartGrows ==
  ASSUME NEW o \in Ops, PartsOf(o), shape'[o] = shape[o], NEW k \in 0..shape[o].nkeys,
         Live(o), cookie'[o].st = cookie[o].st,
         cookie'[o].results \subseteq cookie[o].results \cup {k},
         failed'[o] \subseteq failed[o] \cup {k},
         heard'[o].keys \subseteq heard[o].keys \cup cookie'[o].results \cup {k}
  PROVE  PartsOf(o)'
BY DEF PartsOf, Live

\* Through markProgress it is the response's.
LEMMA ProgressGrows ==
  ASSUME TypeOK, NEW o \in Ops, PartsOf(o), Live(o), shape'[o] = shape[o],
         NEW k \in 0..shape[o].nkeys, NEW ok,
         cookie'[o] = Noted(cookie[o], Spooled(o), k, ok),
         failed'[o] \subseteq failed[o] \cup {k},
         heard'[o] = heard[o] \/ heard'[o] = Told(heard[o], cookie'[o], Spooled(o), k, ok)
  PROVE  PartsOf(o)'
<1>1. cookie'[o].results \subseteq cookie[o].results \cup {k} /\ cookie'[o].st = cookie[o].st
  <2>1. cookie[o] \in CookieRec
    BY OpTypes
  <2>2. /\ cookie'[o].results = IF Spooled(o) THEN cookie[o].results \cup {k}
                                              ELSE cookie[o].results
        /\ cookie'[o].st = cookie[o].st
    BY <2>1 DEF Noted, CookieRec
  <2>3. QED
    BY <2>2
<1>2. heard'[o].keys \subseteq heard[o].keys \cup cookie'[o].results \cup {k}
  <2>1. heard'[o] = Told(heard[o], cookie'[o], Spooled(o), k, ok) =>
          heard'[o].keys = IF Spooled(o) THEN cookie'[o].results ELSE heard[o].keys \cup {k}
    BY DEF Told
  <2>2. QED
    BY <2>1
<1>3. QED
  BY <1>1, <1>2, PartGrows

\* libcouchbase owes replies to an operation's keys, and the one without a key.
LEMMA OwedParts ==
  ASSUME TypeOK, CookieInv, NEW o \in Ops, TallyOf(o), NEW k \in inflight[o]
  PROVE  k \in 0..shape[o].nkeys
<1>1. /\ cookie[o].st = "live" /\ ~Cancelled(o) /\ inflight[o] # {}
      /\ shape[o].kind \in Kinds /\ shape[o].nkeys \in Nat \ {0}
      /\ shape[o].kind = "http" => k = 1
  BY OwedFacts DEF Live
<1>2. PICK n \in Nat : n = shape[o].nkeys /\ n # 0
  BY <1>1
<1>3. CASE shape[o].kind = "plain"
  <2>1. k \in 1..n
    BY <1>1, <1>2, <1>3 DEF TallyOf, ByProgress, PlainTally, KeysOf
  <2>2. QED
    BY <1>2, <2>1
<1>4. CASE Streams(shape[o])
  <2>1. FinalTally(o)
    BY <1>1, <1>4 DEF TallyOf, ByProgress, Streams
  <2>2. QED
    BY <1>1, <1>4, <2>1 DEF FinalTally
<1>5. CASE shape[o].kind = "http"
  BY <1>1, <1>2, <1>5
<1>6. QED
  BY <1>1, <1>3, <1>4, <1>5 DEF Kinds, Streams

\* So do the keys that Cookie::cancel fails.
LEMMA CancelParts ==
  ASSUME TypeOK, CookieInv, CancelKey, NEW o \in Ops, o = Top.op, TallyOf(o),
         Top.keys \in Seq(Nat), Top.keys # <<>>
  PROVE  Head(Top.keys) \in 0..shape[o].nkeys
<1>1. stack # <<>> /\ Top.fn = "cancel"
  BY DEF CancelKey, OnTop
<1>2. Len(stack) \in Depth /\ stack[Len(stack)] = Top /\ Holds(Top)
  BY <1>1, BelowTop DEF OfCookie, CookieFrames
<1>3. Cancelled(o) /\ cookie[o].st = "live"
  BY <1>1, <1>2 DEF Holds, Live
<1>4. Answered(o) >= 0 /\ ToCancel(o, Answered(o), Top.keys)
  BY <1>1, <1>2, <1>3 DEF TallyOf, CancelTally
<1>5. shape[o].nkeys \in Nat /\ cookie[o].remaining \in Int
  BY OpTypes
<1>6. PICK n \in Nat : n = shape[o].nkeys
  BY <1>5
<1>7. PICK m \in Nat : m = Answered(o)
  BY <1>4, <1>5 DEF Answered
<1>8. Head(Top.keys) = Top.keys[1] /\ Len(Top.keys) \in Nat \ {0}
  BY TailType
<1>9. PICK l \in Nat : l = Len(Top.keys) /\ 1 \in 1..l
  BY <1>8
<1>10. CASE o \in viaQueue
  <2>1. Head(Top.keys) = 0
    BY <1>4, <1>7, <1>8, <1>9, <1>10 DEF ToCancel
  <2>2. QED
    BY <1>6, <2>1
<1>11. CASE o \notin viaQueue
  <2>1. l = n - m /\ Head(Top.keys) = m + 1
    BY <1>4, <1>6, <1>7, <1>8, <1>9, <1>11 DEF ToCancel
  <2>2. QED
    BY <1>6, <1>9, <2>1
<1>12. QED
  BY <1>10, <1>11

\* Cookie::cancel tells of the operation as a whole, if at all.
LEMMA CancelTells ==
  ASSUME TypeOK, NEW o \in Ops, NEW c \in CookieRec, NEW s \in Shapes,
         NEW keys \in Seq(Nat), NEW base \in Seq(Frame), Cancel(o, c, s, keys, base)
  PROVE  /\ cookie'[o].st = c.st /\ cookie'[o].results = c.results
         /\ failed'[o] \subseteq failed[o] \cup {NoKey}
         /\ heard'[o].keys \subseteq heard[o].keys \cup c.results
<1>1. CASE s.kind \in {"plain", "observe"}
  <2> DEFINE d == [c EXCEPT !.isCancelled = TRUE]
  <2>1. cookie' = [cookie EXCEPT ![o] = d] /\ heard' = heard /\ failed' = failed
    BY <1>1 DEF Cancel
  <2>2. d.st = c.st /\ d.results = c.results
    BY DEF CookieRec
  <2> HIDE DEF d
  <2>3. cookie'[o] = d
    BY <2>1 DEF TypeOK
  <2>4. QED
    BY <2>1, <2>2, <2>3
<1>2. CASE s.kind \notin {"plain", "observe"}
  <2>1. /\ cookie' = [cookie EXCEPT ![o] = c]
        /\ failed' = [failed EXCEPT ![o] = @ \cup {NoKey}]
        /\ heard' = [heard EXCEPT ![o] = [calls |-> @.calls + 1, keys |-> c.results,
                                          err |-> TRUE]]
    BY <1>2 DEF Cancel, Answer, Fail
  <2>2. cookie'[o] = c /\ failed'[o] = failed[o] \cup {NoKey} /\ heard'[o].keys = c.results
    BY <2>1 DEF TypeOK
  <2>3. QED
    BY <2>2
<1>3. QED
  BY <1>1, <1>2

\* The start of an operation.
LEMMA StartParts ==
  ASSUME TypeOK, CookieInv, NEW o \in Ops, NEW s \in Shapes, TallyOf(o),
         PartsOf(o),
         Bail(o, s) \/ Enqueue(o, s) \/ Schedule(o, s) \/ ScheduleFail(o, s)
  PROVE  PartsOf(o)'
<1>1. Start(o, s)
  BY DEF Bail, Enqueue, Schedule, ScheduleFail
<1>2. /\ heard[o] = Silence /\ failed[o] = {} /\ heard[o].keys = {} /\ shape'[o] = s
      /\ s.nkeys \in Nat
  BY <1>1, StartSilent, NewFacts DEF Silence
<1>3. 0 \in 0..shape'[o].nkeys
  BY <1>2
<1>4. NewCookie(s).results = {} /\ NewCookie(s) \in CookieRec
  BY NewFacts DEF NewCookie
<1>5. /\ cookie \in [Ops -> CookieRec] /\ heard \in [Ops -> HeardRec]
      /\ failed \in [Ops -> SUBSET Nat]
  BY DEF TypeOK
<1>6. CASE Bail(o, s)
  <2>1. /\ cookie' = cookie /\ failed' = failed
        /\ heard' = [heard EXCEPT ![o] = [@ EXCEPT !.calls = 1, !.err = TRUE]]
    BY <1>6 DEF Bail
  <2>2. heard'[o].keys = {}
    BY <1>2, <1>5, <2>1 DEF HeardRec
  <2>3. cookie[o].results = {}
    BY <1>1, StartSilent DEF PartsOf
  <2>4. QED
    BY <1>2, <2>1, <2>2, <2>3 DEF PartsOf
<1>7. CASE Enqueue(o, s) \/ Schedule(o, s)
  <2>1. cookie' = [cookie EXCEPT ![o] = NewCookie(s)] /\ heard' = heard /\ failed' = failed
    BY <1>7 DEF Enqueue, Schedule
  <2>2. cookie'[o].results = {}
    BY <1>4, <1>5, <2>1
  <2>3. QED
    BY <1>2, <2>1, <2>2 DEF PartsOf
<1>8. CASE ScheduleFail(o, s)
  <2>1. Cancel(o, NewCookie(s), s, AllKeys(s), stack)
    BY <1>8 DEF ScheduleFail
  <2>2. AllKeys(s) \in Seq(Nat) /\ stack \in Seq(Frame)
    BY <1>2 DEF AllKeys, TypeOK
  <2>3. /\ cookie'[o].st = NewCookie(s).st /\ cookie'[o].results = NewCookie(s).results
        /\ failed'[o] \subseteq failed[o] \cup {NoKey}
        /\ heard'[o].keys \subseteq heard[o].keys \cup NewCookie(s).results
    BY <1>4, <2>1, <2>2, CancelTells
  <2>4. NewCookie(s).st # "none"
    BY NewFacts
  <2>5. QED
    BY <1>2, <1>3, <1>4, <2>3, <2>4 DEF PartsOf
<1>9. QED
  BY <1>6, <1>7, <1>8

\* A reply, and the cancellation of a key or of a command that was refused.
LEMMA AnswerParts ==
  ASSUME TypeOK, CookieInv, NEW o \in Ops, TallyOf(o), PartsOf(o),
         \/ CancelKey /\ o = Top.op
         \/ RunNextFail /\ o = Head(pending)
         \/ \E k \in inflight[o], ok \in BOOLEAN : Deliver(o, k, ok, stack)
  PROVE  PartsOf(o)'
<1>1. shape[o].nkeys \in Nat /\ 0 \in 0..shape[o].nkeys
  BY OpTypes
<1>2. CASE CancelKey /\ o = Top.op
  <2>1. PICK k \in Nat :
           /\ k = Head(Top.keys) /\ Top.keys \in Seq(Nat) /\ Top.keys # <<>>
           /\ cookie'[o] = Noted(cookie[o], Spooled(o), k, FALSE)
           /\ failed'[o] = failed[o] \cup {k}
           /\ heard'[o] = heard[o] \/ heard'[o] = Told(heard[o], cookie'[o], Spooled(o), k, FALSE)
    BY <1>2, CancelKeyEffect
  <2>2. k \in 0..shape[o].nkeys
    BY <1>2, <2>1, CancelParts
  <2>3. shape' = shape
    BY <1>2 DEF CancelKey
  <2>4. Live(o)
    <3>1. stack # <<>> /\ Top.fn = "cancel"
      BY <1>2 DEF CancelKey, OnTop
    <3>2. QED
      BY <1>2, <2>1, <3>1, BelowTop DEF Holds, OfCookie, CookieFrames
  <2>5. QED
    BY <2>1, <2>2, <2>3, <2>4, ProgressGrows
<1>3. CASE RunNextFail /\ o = Head(pending)
  <2>1. /\ Cancel(o, cookie[o], shape[o], <<NoKey>>, Append(Callers, Call("runScheduled", o)))
        /\ shape' = shape
    BY <1>3 DEF RunNextFail
  <2>2. /\ <<NoKey>> \in Seq(Nat) /\ shape[o] \in Shapes /\ cookie[o] \in CookieRec
        /\ Live(o) /\ cookie[o].st # "none"
        /\ Append(Callers, Call("runScheduled", o)) \in Seq(Frame)
    <3>1. Callers \in Seq(Frame) /\ Call("runScheduled", o) \in Frame
      BY <1>3, FrontFacts, CallersType, CallType DEF TypeOK, NativeFrames, CookieFrames
    <3>2. QED
      BY <1>3, <3>1, FrontFacts DEF Live
  <2>3. /\ cookie'[o].st = cookie[o].st /\ cookie'[o].results = cookie[o].results
        /\ failed'[o] \subseteq failed[o] \cup {NoKey}
        /\ heard'[o].keys \subseteq heard[o].keys \cup cookie[o].results
    BY <2>1, <2>2, CancelTells
  <2>4. QED
    BY <1>1, <2>1, <2>2, <2>3 DEF PartsOf
<1>4. ASSUME NEW k \in inflight[o], NEW ok \in BOOLEAN, Deliver(o, k, ok, stack)
      PROVE  PartsOf(o)'
  <2>1. /\ k \in Nat /\ k \in 0..shape[o].nkeys /\ Live(o)
        /\ cookie[o] \in CookieRec /\ stack \in Seq(Frame)
    BY OwedFacts, OwedParts
  <2>2. CASE shape[o].kind = "plain"
    <3>1. Progress(o, k, TRUE, ok, stack) /\ shape' = shape
      BY <1>4, <2>1, <2>2, DeliverPlain
    <3>2. PICK yes \in BOOLEAN : Progress(o, k, yes, ok, stack)
      BY <3>1
    <3>3. /\ cookie'[o] = Noted(cookie[o], Spooled(o), k, ok)
          /\ failed'[o] \subseteq failed[o] \cup {k}
          /\ \/ heard'[o] = heard[o]
             \/ heard'[o] = Told(heard[o], cookie'[o], Spooled(o), k, ok)
      BY <2>1, <3>2, ProgressEffect
    <3>4. QED
      BY <2>1, <3>1, <3>3, ProgressGrows
  <2>3. CASE Streams(shape[o]) /\ k # NoKey
    <3>1. /\ cookie'[o] = Updated(cookie[o], k, ok) /\ shape' = shape /\ heard' = heard
          /\ failed'[o] \subseteq failed[o] \cup {k}
      BY <1>4, <2>1, <2>3, DeliverData
    <3>2. /\ cookie'[o].results = cookie[o].results \cup {k}
          /\ cookie'[o].st = cookie[o].st
      BY <2>1, <3>1 DEF Updated, CookieRec
    <3>3. QED
      BY <2>1, <3>1, <3>2, PartGrows
  <2>4. CASE shape[o].kind # "plain" /\ ~(Streams(shape[o]) /\ k # NoKey)
    <3>1. PICK err \in BOOLEAN, good \in BOOLEAN : Answer(o, cookie[o], err, good, stack)
      BY <1>4, <2>1, <2>4, DeliverLast
    <3>2. shape' = shape
      BY <1>4, <2>1, <2>4, DeliverLast
    <3>3. /\ cookie'[o] = cookie[o] /\ failed'[o] \subseteq failed[o] \cup {NoKey}
          /\ heard'[o].keys = cookie[o].results
      BY <2>1, <3>1, AnswerEffect
    <3>4. QED
      BY <1>1, <2>1, <3>2, <3>3 DEF PartsOf, Live
  <2>5. QED
    BY <2>2, <2>3, <2>4
<1>5. QED
  BY <1>2, <1>3, <1>4

\* No step breaks that.
LEMMA PartsStep ==
  ASSUME TypeOK, TypeOK', CookieInv, TallyInv, PartsInv, [Next]_vars, NEW p \in Ops
  PROVE  PartsOf(p)'
<1>1. TallyOf(p) /\ PartsOf(p)
  BY DEF TallyInv, PartsInv
<1>2. ASSUME Untouched(p) PROVE PartsOf(p)'
  BY <1>1, <1>2 DEF Untouched, PartsOf
<1>3. ASSUME cookie'[p].results = cookie[p].results, heard' = heard, failed' = failed,
             cookie'[p].st = "none" => cookie[p].st = "none", shape' = shape
      PROVE  PartsOf(p)'
  BY <1>1, <1>3 DEF PartsOf
<1>4. CASE QuietSteps
  BY <1>2, <1>4, QuietUntouched
<1>5. ASSUME NEW o \in Ops, NEW s \in Shapes,
             Bail(o, s) \/ Enqueue(o, s) \/ Schedule(o, s) \/ ScheduleFail(o, s)
      PROVE  PartsOf(p)'
  BY <1>1, <1>2, <1>5, StartParts, StartOthers
<1>6. CASE RunNext \/ RunPop \/ CancelDone \/ DestroyDone
  <2>1. UNCHANGED <<cookie, heard, failed, shape>>
    BY <1>6 DEF RunNext, RunPop, CancelDone, DestroyDone, answers
  <2>2. QED
    BY <1>3, <2>1
<1>7. CASE RunNextFail
  <2>1. PICK o \in Ops : o = Head(pending)
    BY <1>7, DrainFacts DEF RunNextFail
  <2>2. QED
    BY <1>1, <1>2, <1>7, <2>1, AnswerParts, RunOthers
<1>8. CASE CancelKey \/ ReturnProgress \/ ReturnFinal
  <2>1. PICK o \in Ops : o = Top.op
    <3>1. stack # <<>> /\ OfCookie(Top)
      BY <1>8 DEF CancelKey, ReturnProgress, ReturnFinal, OnTop, OfCookie, CookieFrames
    <3>2. QED
      BY <3>1, TopOfCookie
  <2>2. CASE p # o
    BY <1>2, <1>8, <2>1, <2>2, CookieOthers
  <2>3. CASE p = o /\ CancelKey
    BY <1>1, <2>1, <2>3, AnswerParts
  <2>4. CASE p = o /\ (ReturnProgress \/ ReturnFinal)
    <3>1. /\ cookie' = cookie \/ cookie' = [cookie EXCEPT ![o].st = "deleted"]
          /\ UNCHANGED <<heard, failed, shape>>
      BY <2>1, <2>4 DEF ReturnProgress, ReturnFinal, Delete
    <3>2. /\ cookie'[p].results = cookie[p].results
          /\ cookie'[p].st = cookie[p].st \/ cookie'[p].st = "deleted"
      BY <2>4, <3>1 DEF TypeOK, CookieRec
    <3>3. QED
      BY <1>3, <3>1, <3>2
  <2>5. QED
    BY <1>8, <2>2, <2>3, <2>4
<1>9. ASSUME NEW o \in Ops, NEW k \in inflight[o], NEW ok \in BOOLEAN,
             Deliver(o, k, ok, stack)
      PROVE  PartsOf(p)'
  <2>1. CASE p = o
    BY <1>1, <1>9, <2>1, AnswerParts
  <2>2. CASE p # o
    BY <1>2, <1>9, <2>2, DeliverOthers
  <2>3. QED
    BY <2>1, <2>2
<1>10. QED
  BY <1>4, <1>5, <1>6, <1>7, <1>8, <1>9, StepKinds

\* At the start nothing was heard of any operation.
LEMMA TallyInvInit ==
  ASSUME Init
  PROVE  TallyInv
<1>1. /\ stack = <<>> /\ Len(stack) = 0 /\ pending = <<>>
      /\ \A o \in Ops : cookie[o].st = "none" /\ failed[o] = {} /\ heard[o] = Silence
  BY DEF Init, NoCookie, Silence
<1>2. Depth = {}
  BY <1>1 DEF Depth
<1>3. \A o \in Ops : ~Waiting(o) /\ ~HasFrame("final", o)
  BY <1>1, <1>2 DEF Waiting, InQueue, HasFrame
<1>4. QED
  BY <1>1, <1>3 DEF TallyInv, TallyOf

\* Nor of any part.
LEMMA PartsInvInit ==
  ASSUME Init
  PROVE  PartsInv
BY DEF Init, NoCookie, PartsInv, PartsOf

\* The invariant that all others follow from holds in every state.
THEOREM InductiveCorrect == Spec => []Inductive
<1>1. Init => ConnectInv /\ HandedInv /\ KeptInv /\ TallyInv /\ PartsInv
  BY ConnectInvInit, HandedInvInit, KeptInvInit, TallyInvInit, PartsInvInit
<1>2. /\ TypeOK /\ TypeOK' /\ CookieInv /\ CookieInv'
      /\ ConnectInv /\ HandedInv /\ KeptInv /\ TallyInv /\ PartsInv /\ [Next]_vars
      => ConnectInv' /\ HandedInv' /\ KeptInv' /\ TallyInv' /\ PartsInv'
  <2> SUFFICES ASSUME TypeOK, TypeOK', CookieInv, CookieInv',
                      ConnectInv, HandedInv, KeptInv, TallyInv, PartsInv, [Next]_vars
               PROVE  ConnectInv' /\ HandedInv' /\ KeptInv' /\ TallyInv' /\ PartsInv'
    OBVIOUS
  <2>1. ConnectInv' /\ HandedInv' /\ KeptInv'
    BY ConnectInvStep, HandedInvStep, KeptInvStep
  <2>2. TallyInv'
    BY TallyStep DEF TallyInv
  <2>3. PartsInv'
    BY PartsStep DEF PartsInv
  <2>4. QED
    BY <2>1, <2>2, <2>3
<1>3. CookieInv /\ ConnectInv /\ HandedInv /\ KeptInv /\ TallyInv /\ PartsInv => Inductive
  BY DEF Inductive
<1>4. QED
  BY <1>1, <1>2, <1>3, TypeCorrect, CookieInvCorrect, PTL DEF Spec
-----------------------------------------------------------------------------
(* What an operation that has ended was told. *)

\* All keys, as often as its kind and mode say.
EndedWell(o) ==
  LET s == shape[o]
      stopped == failed[o] = {NoKey}
      perKey == s.mode = "single" /\ (s.kind = "plain" \/ cookie[o].isCancelled)
  IN /\ heard[o].calls = IF perKey THEN s.nkeys ELSE 1
     /\ CASE s.kind = "http" -> heard[o].keys = {}
          [] s.kind = "stats" -> heard[o].keys = 1..s.nkeys \/ NoKey \in failed[o]
          [] OTHER -> \/ heard[o].keys = 1..s.nkeys
                      \/ /\ heard[o].keys = {NoKey} /\ stopped
                         /\ o \in viaQueue /\ s.nkeys = 1

\* That follows from the sum.
LEMMA EndedWhole ==
  ASSUME TypeOK, NEW o \in Ops, TallyOf(o), cookie[o].st = "deleted"
  PROVE  EndedWell(o)
<1> USE DEF EndedWell
<1>1. /\ shape[o].kind \in Kinds /\ shape[o].mode \in Modes
      /\ shape[o].nkeys \in Nat \ {0} /\ cookie[o].remaining \in Int
  BY OpTypes
<1>2. CASE ByProgress(o)
  <2>1. cookie[o].remaining = 0 /\ ProgressTally(o)
    BY <1>2 DEF TallyOf
  <2>2. Answered(o) = shape[o].nkeys
    BY <1>1, <2>1 DEF Answered
  <2>3. heard[o].calls = (IF Spooled(o) THEN 1 ELSE shape[o].nkeys) /\ heard[o].keys = Got(o)
    BY <2>1, <2>2 DEF ProgressTally, Got
  <2>4. shape[o].mode = "single" <=> ~Spooled(o)
    BY <1>1 DEF Modes, Spooled
  <2>5. shape[o].kind \in {"plain", "observe"}
    BY <1>2, <1>1 DEF ByProgress, TallyOf, CancelTally, Counted
  <2>6. \/ heard[o].keys = 1..shape[o].nkeys
        \/ /\ heard[o].keys = {NoKey} /\ failed[o] = {NoKey}
           /\ o \in viaQueue /\ shape[o].nkeys = 1
    <3>1. CASE ~Cancelled(o)
      BY <1>2, <2>1, <2>3, <3>1 DEF TallyOf, PlainTally, KeysOf
    <3>2. CASE Cancelled(o)
      <4>1. /\ o \in viaQueue => shape[o].nkeys <= 1
            /\ heard[o].keys = Reached(o, shape[o].nkeys)
            /\ failed[o] = Reached(o, shape[o].nkeys)
        BY <2>2, <2>3, <3>2 DEF TallyOf, CancelTally
      <4>2. QED
        BY <1>1, <4>1 DEF Reached
    <3>3. QED
      BY <3>1, <3>2
  <2>7. shape[o].kind = "plain" \/ cookie[o].isCancelled
    BY <1>2 DEF ByProgress, Cancelled
  <2>8. QED
    BY <2>3, <2>4, <2>5, <2>6, <2>7
<1>3. CASE ~ByProgress(o)
  <2>1. heard[o].calls = 1 /\ FinalTally(o)
    BY <1>3 DEF TallyOf
  <2>2. /\ shape[o].kind = "observe" => heard[o].keys = KeysOf(o)
        /\ shape[o].kind = "stats" => heard[o].keys = KeysOf(o) \/ NoKey \in failed[o]
        /\ shape[o].kind = "http" => heard[o].keys = {}
    BY <2>1 DEF FinalTally, Silence
  <2>3. shape[o].kind # "plain" /\ ~cookie[o].isCancelled
    BY <1>3 DEF ByProgress, Cancelled
  <2>4. shape[o].kind \in {"observe", "stats", "http"}
    BY <1>1, <2>3 DEF Kinds
  <2>5. QED
    BY <2>1, <2>2, <2>3, <2>4 DEF KeysOf
<1>4. QED
  BY <1>2, <1>3

\* An error exactly if a key failed.
LEMMA EndedError ==
  ASSUME TypeOK, NEW o \in Ops, TallyOf(o), cookie[o].st = "deleted"
  PROVE  heard[o].err <=> failed[o] # {}
<1>1. CASE ByProgress(o)
  <2>1. cookie[o].remaining = 0 /\ ProgressTally(o)
    BY <1>1 DEF TallyOf
  <2>2. QED
    BY <2>1 DEF ProgressTally
<1>2. CASE ~ByProgress(o)
  BY <1>2 DEF TallyOf, FinalTally, Silence
<1>3. QED
  BY <1>1, <1>2

\* When a Cookie is deleted its callback has had the whole answer.
THEOREM WholeAnswerCorrect == Spec => []WholeAnswer
<1>1. TypeOK /\ Inductive => WholeAnswer
  BY EndedWhole DEF EndedWell, Inductive, TallyInv, WholeAnswer
<1>2. QED
  BY <1>1, TypeCorrect, InductiveCorrect, PTL

\* The callback of an operation that has ended was given an error if and only if
\* one of its keys failed.
THEOREM ErrorIffFailureCorrect == Spec => []ErrorIffFailure
<1>1. TypeOK /\ Inductive => ErrorIffFailure
  BY EndedError DEF Inductive, TallyInv, ErrorIffFailure
<1>2. QED
  BY <1>1, TypeCorrect, InductiveCorrect, PTL
-----------------------------------------------------------------------------
(* Nothing happens to an operation that has ended. *)

\* A step changes the Cookie of an operation, and what was heard of it, only
\* while the Cookie lives or before there is one.
LEMMA EndedStays ==
  ASSUME TypeOK, TypeOK', CookieInv, CookieInv', [Next]_vars,
         NEW p \in Ops, cookie[p].st = "deleted"
  PROVE  cookie'[p] = cookie[p] /\ heard'[p] = heard[p]
<1>1. CASE Untouched(p)
  BY <1>1 DEF Untouched
<1>2. CASE UNCHANGED <<cookie, heard>>
  BY <1>2
<1>3. CASE QuietSteps
  BY <1>1, <1>3, QuietUntouched
<1>4. ASSUME NEW o \in Ops, NEW s \in Shapes,
             Bail(o, s) \/ Enqueue(o, s) \/ Schedule(o, s) \/ ScheduleFail(o, s)
      PROVE  cookie'[p] = cookie[p] /\ heard'[p] = heard[p]
  <2>1. cookie[o].st = "none"
    BY <1>4, StartFacts DEF Bail, Enqueue, Schedule, ScheduleFail
  <2>2. QED
    BY <1>1, <1>4, <2>1, StartOthers
<1>5. CASE RunNext \/ RunPop \/ CancelDone \/ DestroyDone
  BY <1>2, <1>5 DEF RunNext, RunPop, CancelDone, DestroyDone, answers
<1>6. CASE RunNextFail
  <2>1. PICK o \in Ops : o = Head(pending)
    BY <1>6, DrainFacts DEF RunNextFail
  <2>2. Live(o)
    BY <1>6, <2>1, FrontFacts
  <2>3. QED
    BY <1>1, <1>6, <2>1, <2>2, RunOthers DEF Live
<1>7. CASE CancelKey \/ ReturnProgress \/ ReturnFinal
  <2>1. /\ stack # <<>> /\ Top.fn \in CookieFrames
        /\ CancelKey => Top.fn = "cancel" /\ Top.keys # <<>>
        /\ ReturnProgress \/ ReturnFinal => Top.fn \in {"progress", "final"}
    BY <1>7 DEF CancelKey, ReturnProgress, ReturnFinal, OnTop, CookieFrames
  <2>2. PICK o \in Ops : o = Top.op
    BY <2>1, TopOfCookie DEF OfCookie
  <2>3. Live(o)
    BY <1>7, <2>1, <2>2, BelowTop DEF OfCookie, Holds
  <2>4. QED
    BY <1>1, <1>7, <2>2, <2>3, CookieOthers DEF Live
<1>8. ASSUME NEW o \in Ops, NEW k \in inflight[o], NEW ok \in BOOLEAN,
             Deliver(o, k, ok, stack)
      PROVE  cookie'[p] = cookie[p] /\ heard'[p] = heard[p]
  <2>1. Live(o)
    BY <1>8, OwedFacts
  <2>2. QED
    BY <1>1, <1>8, <2>1, DeliverOthers DEF Live
<1>9. QED
  BY <1>3, <1>4, <1>5, <1>6, <1>7, <1>8, StepKinds

\* Once an operation has ended nothing more is heard of it.
THEOREM EndIsFinalCorrect == Spec => EndIsFinal
<1>1. TypeOK /\ TypeOK' /\ CookieInv /\ CookieInv' /\ [Next]_vars =>
        [\A o \in Ops : cookie[o].st = "deleted" =>
           cookie'[o] = cookie[o] /\ heard'[o] = heard[o]]_vars
  BY EndedStays
<1>2. QED
  BY <1>1, TypeCorrect, CookieInvCorrect, PTL DEF Spec, EndIsFinal
-----------------------------------------------------------------------------
(* Couchnode implements OpService: what the steps look like to the          *)
(* application.                                                             *)

SameToApp(p) ==
  /\ shape'[p] = shape[p] /\ heard'[p] = heard[p] /\ failed'[p] = failed[p]
  /\ Stage(p)' = Stage(p)

OthersSame(o) == \A p \in Ops : p # o => SameToApp(p)

ServiceStep == Service!Next \/ UNCHANGED Service!vars

\* What is asked for follows from the shape.
LEMMA AskedFacts ==
  ASSUME NEW s \in Shapes
  PROVE  /\ Asked(s).nkeys = s.nkeys /\ Asked(s) \in {Asked(z) : z \in Shapes}
         /\ s.mode = "spooled" => Asked(s).answer = "all"
         /\ s.mode # "spooled" /\ s.kind = "observe" => Asked(s).answer = "either"
         /\ s.mode # "spooled" /\ s.kind # "observe" => Asked(s).answer = "each"
<1>1. s.mode \in {"single", "spooled"}
  BY ShapesAssumption DEF Modes
<1>2. Asked(s).nkeys = s.nkeys
  BY DEF Asked
<1>3. CASE s.mode = "spooled"
  BY <1>2, <1>3 DEF Asked
<1>4. CASE s.mode = "single" /\ s.kind = "observe"
  BY <1>2, <1>4 DEF Asked
<1>5. CASE s.mode = "single" /\ s.kind # "observe"
  BY <1>2, <1>5 DEF Asked
<1>6. QED
  BY <1>1, <1>3, <1>4, <1>5

\* Nothing happens, ...
LEMMA ServiceStays ==
  ASSUME TypeOK, TypeOK', \A p \in Ops : SameToApp(p)
  PROVE  ServiceStep
<1>1. heard' = heard /\ failed' = failed
  BY DEF TypeOK, SameToApp
<1>2. [o \in Ops |-> Stage(o)]' = [o \in Ops |-> Stage(o)]
  BY DEF SameToApp
<1>3. [o \in Ops |-> Asked(shape[o])]' = [o \in Ops |-> Asked(shape[o])]
  BY DEF SameToApp
<1>4. QED
  BY <1>1, <1>2, <1>3 DEF Service!vars, ServiceStep

\* ... or an operation is asked for, ...
LEMMA ServiceAsks ==
  ASSUME TypeOK, TypeOK', NEW o \in Ops, OthersSame(o), Stage(o) = "unborn",
         NEW s \in Shapes, shape'[o] = s, NEW st, Stage(o)' = st
  PROVE  Service!Ask(o, st, Asked(s))
<1>1. [p \in Ops |-> Stage(p)]' = [[p \in Ops |-> Stage(p)] EXCEPT ![o] = st]
  BY DEF OthersSame, SameToApp
<1>2. [p \in Ops |-> Asked(shape[p])]' =
        [[p \in Ops |-> Asked(shape[p])] EXCEPT ![o] = Asked(s)]
  BY DEF OthersSame, SameToApp
<1>3. [p \in Ops |-> Stage(p)][o] = "unborn"
  OBVIOUS
<1>4. QED
  BY <1>1, <1>2, <1>3 DEF Service!Ask, Service!Become

\* ... or its callback is told something.
Tells(o, s) ==
  /\ heard[o].calls < (IF s.mode = "spooled" THEN 1 ELSE s.nkeys)
  /\ heard'[o].calls = heard[o].calls + 1
  /\ heard[o].keys \subseteq heard'[o].keys /\ failed[o] \subseteq failed'[o]
  /\ heard'[o].err <=> failed'[o] # {}

\* That is what OpService calls to be told.
LEMMA ServiceTold ==
  ASSUME TypeOK, TypeOK', NEW o \in Ops, OthersSame(o), NEW s \in Shapes,
         shape'[o] = s, Tells(o, s), PartsOf(o)'
  PROVE  Service!Told(o, Asked(s))
<1>0. /\ heard[o].calls < (IF s.mode = "spooled" THEN 1 ELSE s.nkeys)
      /\ failed[o] \subseteq failed'[o] /\ failed'[o] \subseteq 0..s.nkeys
      /\ heard[o].keys \subseteq heard'[o].keys /\ heard'[o].keys \subseteq 0..s.nkeys
      /\ heard'[o].calls = heard[o].calls + 1
      /\ heard'[o].err <=> failed'[o] # {}
  BY DEF Tells, PartsOf
<1>1. heard[o].calls < Service!MostCalls(Asked(s))
  BY <1>0, AskedFacts DEF Service!MostCalls
<1>2. Service!Parts(Asked(s)) = 0..s.nkeys
  BY AskedFacts DEF Service!Parts
<1>3. PICK ks \in SUBSET (0..s.nkeys), fs \in SUBSET (0..s.nkeys) :
             ks = heard'[o].keys /\ fs = failed'[o]
  BY <1>0
<1>4. failed' = [failed EXCEPT ![o] = @ \cup fs]
  BY <1>0, <1>3 DEF TypeOK, OthersSame, SameToApp
<1>5. PICK e \in BOOLEAN : e = (failed'[o] # {})
  OBVIOUS
<1>6. heard'[o] = [calls |-> heard[o].calls + 1, keys |-> heard[o].keys \cup ks, err |-> e]
  <2>1. heard'[o].err = e
    <3>1. heard'[o].err \in BOOLEAN
      BY DEF TypeOK, HeardRec
    <3>2. QED
      BY <1>0, <1>5, <3>1, Zenon
  <2>2. heard'[o].keys = heard[o].keys \cup ks
    BY <1>0, <1>3
  <2>3. heard'[o] \in [calls: Nat, keys: SUBSET Nat, err: BOOLEAN]
    BY DEF TypeOK, HeardRec
  <2>4. QED
    BY <1>0, <2>1, <2>2, <2>3
<1>7. heard' = [heard EXCEPT ![o] = [calls |-> @.calls + 1, keys |-> @.keys \cup ks, err |-> e]]
  BY <1>6 DEF TypeOK, OthersSame, SameToApp
<1>8. heard' = [heard EXCEPT ![o] = [calls |-> @.calls + 1, keys |-> @.keys \cup ks,
                                     err |-> failed'[o] # {}]]
  BY <1>5, <1>7, Zenon
<1>9. QED
  BY <1>1, <1>2, <1>4, <1>8, Zenon DEF Service!Told

\* How far an operation is.
StageSays(o) == /\ o > nops => Stage(o) = "unborn"
                /\ Live(o) => Stage(o) = "open"
                /\ ~(o > nops) /\ ~Live(o) => Stage(o) = "ended"

\* That is so while CookieInv holds, ...
LEMMA StageFacts ==
  TypeOK /\ CookieInv => \A o \in Ops : StageSays(o)
<1> SUFFICES ASSUME TypeOK, CookieInv, NEW o \in Ops PROVE StageSays(o)
  OBVIOUS
<1>1. o > nops \/ (~(o > nops) /\ o <= nops)
  BY DEF TypeOK, Ops
<1>2. CASE o > nops
  BY <1>2 DEF StageSays, Stage, CookieInv, Unstarted, Live
<1>3. CASE ~(o > nops) /\ o <= nops /\ Live(o)
  BY <1>3 DEF StageSays, Stage
<1>4. CASE ~(o > nops) /\ o <= nops /\ ~Live(o)
  BY <1>4 DEF StageSays, Stage
<1>5. QED
  BY <1>1, <1>2, <1>3, <1>4

\* ... also in the next state.
LEMMA StageFactsNext ==
  TypeOK' /\ CookieInv' => \A o \in Ops : StageSays(o)'
<1>1. TypeOK /\ CookieInv => \A o \in Ops : StageSays(o)
  BY StageFacts
<1>2. TypeOK' /\ CookieInv' => (\A o \in Ops : StageSays(o))'
  BY <1>1, PTL
<1>3. QED
  BY <1>2

\* An operation that a step leaves alone is the same to the application.
LEMMA UntouchedSame ==
  ASSUME TypeOK, TypeOK', NEW p \in Ops, Untouched(p), p > nops' <=> p > nops
  PROVE  SameToApp(p)
<1>1. (Live(p)' <=> Live(p)) /\ (p <= nops' <=> p <= nops)
  <2>1. p \in Int /\ nops \in Int /\ nops' \in Int
    BY DEF TypeOK, Ops
  <2>2. QED
    BY <2>1 DEF Untouched, Live
<1>2. Stage(p)' = Stage(p)
  <2>1. CASE p > nops
    BY <2>1, <1>1 DEF Stage
  <2>2. CASE ~(p > nops) /\ p <= nops /\ Live(p)
    BY <2>2, <1>1 DEF Stage
  <2>3. CASE ~(p > nops) /\ ~(p <= nops /\ Live(p))
    BY <2>3, <1>1 DEF Stage
  <2>4. QED
    BY <2>1, <2>2, <2>3
<1>3. QED
  BY <1>2 DEF Untouched, SameToApp

\* Something may be noted of an operation that is told of later.
LEMMA ServiceNotes ==
  ASSUME TypeOK, TypeOK', NEW o \in Ops, OthersSame(o), Stage(o) = "open",
         Stage(o)' = "open", shape'[o] = shape[o], heard'[o] = heard[o],
         heard[o].calls = 0, shape[o].mode = "spooled" \/ shape[o].kind = "observe",
         NEW k \in 0..shape[o].nkeys,
         failed'[o] = failed[o] \/ failed'[o] = failed[o] \cup {k}
  PROVE  ServiceStep
<1>1. CASE failed'[o] = failed[o]
  <2>1. \A p \in Ops : SameToApp(p)
    BY <1>1 DEF OthersSame, SameToApp
  <2>2. QED
    BY <2>1, ServiceStays
<1>2. CASE failed'[o] = failed[o] \cup {k}
  <2>1. failed' = [failed EXCEPT ![o] = @ \cup {k}] /\ heard' = heard
    BY <1>2 DEF TypeOK, OthersSame, SameToApp
  <2>2. /\ [p \in Ops |-> Stage(p)]' = [p \in Ops |-> Stage(p)]
        /\ [p \in Ops |-> Asked(shape[p])]' = [p \in Ops |-> Asked(shape[p])]
    BY DEF OthersSame, SameToApp
  <2>3. [p \in Ops |-> Stage(p)][o] = "open"
    OBVIOUS
  <2>4. PICK s \in Shapes : s = shape[o]
    BY DEF TypeOK
  <2>5. /\ [p \in Ops |-> Asked(shape[p])][o] = Asked(s)
        /\ Asked(s).answer # "each" /\ k \in Service!Parts(Asked(s))
    BY <2>4, AskedFacts DEF Service!Parts
  <2>6. Service!Note(o)
    BY <2>1, <2>2, <2>3, <2>5 DEF Service!Note
  <2>7. QED
    BY <2>6 DEF ServiceStep, Service!Next
<1>3. QED
  BY <1>1, <1>2

\* An open operation may be told something.
LEMMA ServiceTells ==
  ASSUME TypeOK, TypeOK', NEW o \in Ops, OthersSame(o), Stage(o) = "open",
         Stage(o)' = "open", shape'[o] = shape[o], Tells(o, shape[o]), PartsOf(o)'
  PROVE  ServiceStep
<1>1. PICK s \in Shapes : s = shape[o]
  BY DEF TypeOK
<1>2. Service!Told(o, Asked(s))
  BY <1>1, ServiceTold
<1>3. /\ [p \in Ops |-> Stage(p)]' = [p \in Ops |-> Stage(p)]
      /\ [p \in Ops |-> Asked(shape[p])]' = [p \in Ops |-> Asked(shape[p])]
      /\ [p \in Ops |-> Stage(p)][o] = "open"
      /\ [p \in Ops |-> Asked(shape[p])][o] = Asked(s)
  BY <1>1 DEF OthersSame, SameToApp
<1>4. Service!Tell(o)
  BY <1>2, <1>3 DEF Service!Tell
<1>5. QED
  BY <1>4 DEF ServiceStep, Service!Next

\* What EndedWhole and EndedError say of the next state.
LEMMA EndedNext ==
  TypeOK' => \A o \in Ops : TallyOf(o)' /\ cookie'[o].st = "deleted" =>
                             EndedWell(o)' /\ (heard'[o].err <=> failed'[o] # {})
<1>1. TypeOK => \A o \in Ops : TallyOf(o) /\ cookie[o].st = "deleted" =>
                               EndedWell(o) /\ (heard[o].err <=> failed[o] # {})
  BY EndedWhole, EndedError
<1>2. TypeOK' => (\A o \in Ops : TallyOf(o) /\ cookie[o].st = "deleted" =>
                                 EndedWell(o) /\ (heard[o].err <=> failed[o] # {}))'
  BY <1>1, PTL
<1>3. QED
  BY <1>2

\* An operation that ends was told all there is to tell.
LEMMA ServiceEnds ==
  ASSUME TypeOK, TypeOK', NEW o \in Ops, OthersSame(o), TallyOf(o)',
         Stage(o) = "open", Stage(o)' = "ended", cookie'[o].st = "deleted",
         shape'[o] = shape[o], heard'[o] = heard[o], failed'[o] = failed[o]
  PROVE  ServiceStep
<1>1. PICK s \in Shapes : s = shape[o]
  BY DEF TypeOK
<1>2. s.kind \in Kinds /\ s.mode \in Modes /\ s.nkeys \in Nat \ {0}
  BY ShapesAssumption
<1>3. /\ heard[o].err <=> failed[o] # {}
      /\ \/ heard[o].calls = (IF s.mode = "single" /\ s.kind # "observe" THEN s.nkeys ELSE 1)
         \/ heard[o].calls = s.nkeys /\ s.mode = "single" /\ s.kind = "observe"
      /\ s.kind # "http" /\ failed[o] = {} => heard[o].keys = 1..s.nkeys
  <2>1. heard'[o].err <=> failed'[o] # {}
    BY EndedNext
  <2>2. EndedWell(o)'
    BY EndedNext
  <2>3. PICK perKey \in BOOLEAN :
           /\ perKey = (s.mode = "single" /\ (s.kind = "plain" \/ cookie'[o].isCancelled))
           /\ heard[o].calls = IF perKey THEN s.nkeys ELSE 1
    BY <1>1, <2>2 DEF EndedWell
  <2>4. s.kind = "http" => s.nkeys = 1
    BY ShapesAssumption
  <2>5. \/ heard[o].calls = (IF s.mode = "single" /\ s.kind # "observe" THEN s.nkeys ELSE 1)
        \/ heard[o].calls = s.nkeys /\ s.mode = "single" /\ s.kind = "observe"
    <3>1. s.kind = "stats" => s.mode = "spooled"
      BY ShapesAssumption
    <3>2. QED
      BY <1>2, <2>3, <2>4, <3>1 DEF Kinds, Modes
  <2>6. s.kind # "http" /\ failed[o] = {} => heard[o].keys = 1..s.nkeys
    BY <1>1, <1>2, <2>2 DEF EndedWell, Kinds
  <2>7. QED
    BY <2>1, <2>5, <2>6
<1>4. /\ [p \in Ops |-> Stage(p)]' = [[p \in Ops |-> Stage(p)] EXCEPT ![o] = "ended"]
      /\ [p \in Ops |-> Asked(shape[p])]' = [p \in Ops |-> Asked(shape[p])]
      /\ [p \in Ops |-> Stage(p)][o] = "open"
      /\ [p \in Ops |-> Asked(shape[p])][o] = Asked(s)
  BY <1>1 DEF OthersSame, SameToApp
<1>5. heard' = heard /\ failed' = failed
  BY DEF TypeOK, OthersSame, SameToApp
<1>6. \/ heard[o].calls = Service!MostCalls(Asked(s))
      \/ heard[o].calls = 1 /\ Asked(s).answer = "either"
  BY <1>2, <1>3, AskedFacts DEF Service!MostCalls, Modes
<1>7. Asked(s).answer # "each" /\ failed[o] = {} => heard[o].keys = 1..Asked(s).nkeys
  <2>1. s.kind = "http" => Asked(s).answer = "each"
    BY AskedFacts, ShapesAssumption
  <2>2. QED
    BY <1>3, <2>1, AskedFacts
<1>8. Service!End(o)
  BY <1>3, <1>4, <1>5, <1>6, <1>7 DEF Service!End, Service!Become
<1>9. QED
  BY <1>8 DEF ServiceStep, Service!Next

\* An operation is started: it is open if it has a Cookie.
LEMMA StartService ==
  ASSUME TypeOK, TypeOK', CookieInv, CookieInv', NEW o \in Ops, NEW s \in Shapes,
         Bail(o, s) \/ Enqueue(o, s) \/ Schedule(o, s) \/ ScheduleFail(o, s),
         TallyOf(o), PartsOf(o)', OthersSame(o)
  PROVE  ServiceStep
<1>1. Start(o, s)
  BY DEF Bail, Enqueue, Schedule, ScheduleFail
<1>2. /\ heard[o] = Silence /\ failed[o] = {} /\ cookie[o].st = "none"
      /\ shape'[o] = s /\ o > nops /\ ~(o > nops')
  <2>1. o > nops /\ nops' = o
    BY <1>1, StartFacts
  <2>2. ~(o > nops')
    BY <2>1 DEF Ops
  <2>3. QED
    BY <1>1, <2>1, <2>2, StartSilent
<1>3. Stage(o) = "unborn"
  BY <1>2, StageFacts DEF StageSays
<1>4. /\ NewCookie(s) \in CookieRec /\ NewCookie(s).st = "live" /\ s.nkeys \in Nat \ {0}
      /\ NewCookie(s).results = {}
  BY NewFacts DEF NewCookie
<1>5. CASE Bail(o, s)
  <2>1. /\ cookie' = cookie /\ failed' = failed
        /\ heard' = [heard EXCEPT ![o] = [@ EXCEPT !.calls = 1, !.err = TRUE]]
    BY <1>5 DEF Bail
  <2>2. Stage(o)' = "ended"
    BY <1>2, <2>1, StageFactsNext DEF StageSays, Live
  <2>3. Service!Ask(o, "ended", Asked(s))
    BY <1>2, <1>3, <2>2, ServiceAsks
  <2>4. heard' = [heard EXCEPT ![o] = [calls |-> 1, keys |-> {}, err |-> TRUE]]
    <3>1. heard'[o] = [Silence EXCEPT !.calls = 1, !.err = TRUE]
      BY <1>2, <2>1 DEF TypeOK
    <3>2. heard'[o] = Bailed
      BY <3>1 DEF Silence, Bailed
    <3>3. heard' = [heard EXCEPT ![o] = Bailed]
      BY <2>1, <3>2 DEF TypeOK
    <3>4. QED
      BY <3>3 DEF Bailed
  <2>5. Service!Refuse(o)
    BY <2>1, <2>3, <2>4, AskedFacts DEF Service!Refuse
  <2>6. QED
    BY <2>5 DEF ServiceStep, Service!Next
<1>6. ASSUME cookie'[o].st = "live", heard' = heard, failed' = failed
      PROVE  ServiceStep
  <2>1. Stage(o)' = "open"
    BY <1>6, StageFactsNext DEF StageSays, Live
  <2>2. Service!Ask(o, "open", Asked(s))
    BY <1>2, <1>3, <2>1, ServiceAsks
  <2>3. Service!Accept(o)
    BY <1>6, <2>2, AskedFacts DEF Service!Accept
  <2>4. QED
    BY <2>3 DEF ServiceStep, Service!Next
<1>7. CASE Enqueue(o, s) \/ Schedule(o, s)
  <2>1. cookie' = [cookie EXCEPT ![o] = NewCookie(s)] /\ heard' = heard /\ failed' = failed
    BY <1>7 DEF Enqueue, Schedule
  <2>2. cookie'[o].st = "live"
    BY <1>4, <2>1 DEF TypeOK
  <2>3. QED
    BY <1>6, <2>1, <2>2
<1>8. CASE ScheduleFail(o, s) /\ s.kind \in {"plain", "observe"}
  <2>1. /\ cookie' = [cookie EXCEPT ![o] = [NewCookie(s) EXCEPT !.isCancelled = TRUE]]
        /\ heard' = heard /\ failed' = failed
    BY <1>8 DEF ScheduleFail, Cancel
  <2>2. cookie'[o].st = "live"
    BY <1>4, <2>1 DEF TypeOK, CookieRec
  <2>3. QED
    BY <1>6, <2>1, <2>2
<1>9. CASE ScheduleFail(o, s) /\ s.kind \notin {"plain", "observe"}
  <2>1. /\ cookie' = [cookie EXCEPT ![o] = NewCookie(s)]
        /\ failed' = [failed EXCEPT ![o] = @ \cup {NoKey}]
        /\ heard' = [heard EXCEPT ![o] = [calls |-> @.calls + 1, keys |-> NewCookie(s).results,
                                          err |-> TRUE]]
    BY <1>9 DEF ScheduleFail, Cancel, Answer, Fail
  <2>2. /\ cookie'[o] = NewCookie(s) /\ failed'[o] = {NoKey}
        /\ heard'[o].calls = heard[o].calls + 1 /\ heard'[o].err
    BY <1>2, <2>1 DEF TypeOK
  <2>3. Stage(o)' = "open"
    BY <1>4, <2>2, StageFactsNext DEF StageSays, Live
  <2>4. Service!Ask(o, "open", Asked(s))
    BY <1>2, <1>3, <2>3, ServiceAsks
  <2>5. heard[o].calls < (IF s.mode = "spooled" THEN 1 ELSE s.nkeys)
    BY <1>2, <1>4 DEF Silence
  <2>6. Tells(o, s)
    BY <1>2, <2>2, <2>5 DEF Tells, Silence
  <2>7. Service!Told(o, Asked(s))
    BY <1>2, <2>6, ServiceTold
  <2>8. Service!AnswerAtOnce(o)
    BY <2>4, <2>7, AskedFacts DEF Service!AnswerAtOnce
  <2>9. QED
    BY <2>8 DEF ServiceStep, Service!Next
<1>10. QED
  BY <1>5, <1>7, <1>8, <1>9

\* markProgress tells of a response, or only notes it.
LEMMA ProgressTells ==
  ASSUME TypeOK, TypeOK', NEW o \in Ops, NEW k \in Nat, NEW ok \in BOOLEAN,
         shape'[o] = shape[o], ProgressTally(o), ProgressTally(o)',
         cookie[o].remaining > 0,
         cookie'[o] = Noted(cookie[o], Spooled(o), k, ok),
         ok => failed'[o] = failed[o],
         ~ok => failed'[o] = failed[o] \cup {k},
         IF Spooled(o) /\ cookie'[o].remaining # 0
           THEN heard'[o] = heard[o]
           ELSE heard'[o] = Told(heard[o], cookie'[o], Spooled(o), k, ok)
  PROVE  \/ Tells(o, shape[o])
         \/ heard'[o] = heard[o] /\ heard[o].calls = 0 /\ shape[o].mode = "spooled"
<1>1. /\ cookie[o].remaining \in Int /\ heard[o].calls \in Nat /\ shape[o].nkeys \in Nat \ {0}
      /\ shape[o].mode \in Modes
  BY OpTypes
<1>2. /\ Spooled(o) <=> shape[o].mode = "spooled"
      /\ Spooled(o)' <=> Spooled(o)
  BY DEF Spooled
<1>3. failed[o] \subseteq failed'[o]
  OBVIOUS
<1>4. Spooled(o) => heard[o] = Silence
  BY <1>1 DEF ProgressTally
<1>5. CASE Spooled(o) /\ cookie'[o].remaining # 0
  BY <1>2, <1>4, <1>5 DEF Silence
<1>6. CASE ~(Spooled(o) /\ cookie'[o].remaining # 0)
  <2>1. heard'[o] = Told(heard[o], cookie'[o], Spooled(o), k, ok)
    BY <1>6
  <2>2. heard'[o].calls = heard[o].calls + 1
    BY <2>1 DEF Told
  <2>3. heard'[o].keys = IF Spooled(o) THEN cookie'[o].results ELSE heard[o].keys \cup {k}
    BY <2>1 DEF Told
  <2>4. heard[o].keys \subseteq heard'[o].keys
    BY <1>4, <2>3 DEF Silence
  <2>5. heard'[o].err <=> failed'[o] # {}
    <3>1. CASE Spooled(o)
      <4>1. /\ cookie'[o].hasError <=> failed'[o] # {}
            /\ heard'[o] = [calls |-> 1, keys |-> cookie'[o].results,
                            err |-> cookie'[o].hasError]
        BY <1>2, <1>6, <3>1 DEF ProgressTally
      <4>2. heard'[o].err = cookie'[o].hasError
        BY <4>1
      <4>3. QED
        BY <4>1, <4>2, Zenon
    <3>2. CASE ~Spooled(o)
      BY <1>2, <3>2 DEF ProgressTally
    <3>3. QED
      BY <3>1, <3>2
  <2>6. heard[o].calls < (IF shape[o].mode = "spooled" THEN 1 ELSE shape[o].nkeys)
    <3>1. CASE Spooled(o)
      BY <1>2, <1>4, <3>1 DEF Silence
    <3>2. CASE ~Spooled(o)
      <4>1. heard[o].calls = shape[o].nkeys - cookie[o].remaining
        BY <3>2 DEF ProgressTally, Answered
      <4>2. PICK n \in Nat, r \in Int : n = shape[o].nkeys /\ r = cookie[o].remaining /\ r > 0
        BY <1>1
      <4>3. n - r < n
        BY <4>2
      <4>4. QED
        BY <1>2, <3>2, <4>1, <4>2, <4>3
    <3>3. QED
      BY <3>1, <3>2
  <2>7. QED
    BY <1>3, <2>2, <2>4, <2>5, <2>6 DEF Tells
<1>7. QED
  BY <1>5, <1>6

\* A step of an operation that the application does not notice.
LEMMA SilentService ==
  ASSUME TypeOK, TypeOK', NEW o \in Ops, OthersSame(o),
         cookie'[o].st = cookie[o].st, heard'[o] = heard[o], failed'[o] = failed[o],
         shape' = shape, nops' = nops
  PROVE  ServiceStep
<1>1. Live(o)' <=> Live(o)
  BY DEF Live
<1>2. Stage(o)' = Stage(o)
  BY <1>1 DEF Stage
<1>3. \A p \in Ops : SameToApp(p)
  BY <1>2 DEF OthersSame, SameToApp
<1>4. QED
  BY <1>3, ServiceStays

\* libcouchbase takes the front of the queue, of which nothing is heard, or
\* refuses it: a stream or HTTP request is told so.
LEMMA RunService ==
  ASSUME TypeOK, TypeOK', CookieInv, CookieInv', HandedInv,
         RunNext \/ RunNextFail \/ RunPop, NEW o \in Ops, o = Head(pending),
         TallyOf(o), PartsOf(o)', OthersSame(o)
  PROVE  ServiceStep
<1>1. ASSUME cookie'[o].st = cookie[o].st, heard'[o] = heard[o], failed'[o] = failed[o],
             shape' = shape, nops' = nops
      PROVE  ServiceStep
  BY <1>1, SilentService
<1>2. CASE RunNext \/ RunPop
  <2>1. UNCHANGED <<cookie, heard, failed, shape, nops>>
    BY <1>2 DEF RunNext, RunPop, answers, library
  <2>2. QED
    BY <1>1, <2>1
<1>3. CASE RunNextFail
  <2>1. /\ Cancel(o, cookie[o], shape[o], <<NoKey>>, Append(Callers, Call("runScheduled", o)))
        /\ shape' = shape /\ nops' = nops
    BY <1>3 DEF RunNextFail
  <2>2. /\ heard[o] = Silence /\ failed[o] = {} /\ Live(o)
        /\ shape[o].nkeys \in Nat \ {0}
    BY <1>3, FrontSilent, FrontFacts DEF Fresh
  <2>3. CASE shape[o].kind \in {"plain", "observe"}
    <3>1. /\ cookie' = [cookie EXCEPT ![o] = [cookie[o] EXCEPT !.isCancelled = TRUE]]
          /\ heard' = heard /\ failed' = failed
      BY <2>1, <2>3 DEF Cancel
    <3>2. cookie'[o].st = cookie[o].st
      BY <3>1 DEF TypeOK, CookieRec
    <3>3. QED
      BY <1>1, <2>1, <3>1, <3>2
  <2>4. CASE shape[o].kind \notin {"plain", "observe"}
    <3>1. /\ cookie' = [cookie EXCEPT ![o] = cookie[o]]
          /\ failed' = [failed EXCEPT ![o] = @ \cup {NoKey}]
          /\ heard' = [heard EXCEPT ![o] = [calls |-> @.calls + 1, keys |-> cookie[o].results,
                                            err |-> TRUE]]
      BY <2>1, <2>4 DEF Cancel, Answer, Fail
    <3>2. /\ cookie'[o] = cookie[o] /\ failed'[o] = {NoKey}
          /\ heard'[o].calls = heard[o].calls + 1 /\ heard'[o].err
      BY <2>2, <3>1 DEF TypeOK
    <3>3. Stage(o) = "open" /\ Stage(o)' = "open"
      BY <2>2, <3>2, StageFacts, StageFactsNext DEF StageSays, Live
    <3>4. heard[o].calls < (IF shape[o].mode = "spooled" THEN 1 ELSE shape[o].nkeys)
      BY <2>2 DEF Silence
    <3>5. Tells(o, shape[o])
      BY <2>2, <3>2, <3>4 DEF Tells, Silence
    <3>6. QED
      BY <2>1, <3>3, <3>5, ServiceTells
  <2>5. QED
    BY <2>3, <2>4
<1>4. QED
  BY <1>2, <1>3

\* A key is cancelled, which is told or noted; or the callback returns, and the
\* operation may end.
LEMMA CookieService ==
  ASSUME TypeOK, TypeOK', CookieInv, CookieInv',
         CancelKey \/ CancelDone \/ ReturnProgress \/ ReturnFinal,
         NEW o \in Ops, o = Top.op, TallyOf(o), TallyOf(o)', PartsOf(o)', OthersSame(o)
  PROVE  ServiceStep
<1>1. shape' = shape /\ nops' = nops
  BY DEF CancelKey, CancelDone, ReturnProgress, ReturnFinal
<1>2. CASE CancelDone
  <2>1. UNCHANGED <<cookie, heard, failed>>
    BY <1>2 DEF CancelDone, answers
  <2>2. QED
    BY <1>1, <2>1, SilentService
<1>3. CASE CancelKey
  <2>1. PICK k \in Nat :
           /\ k = Head(Top.keys) /\ Top.keys \in Seq(Nat) /\ Top.keys # <<>>
           /\ cookie'[o] = Noted(cookie[o], Spooled(o), k, FALSE)
           /\ failed'[o] = failed[o] \cup {k}
           /\ IF Spooled(o) /\ cookie'[o].remaining # 0
                THEN heard'[o] = heard[o]
                ELSE heard'[o] = Told(heard[o], cookie'[o], Spooled(o), k, FALSE)
    BY <1>3, CancelKeyEffect
  <2>2. Live(o) /\ Cancelled(o) /\ cookie[o].remaining >= Len(Top.keys)
    <3>1. stack # <<>> /\ Top.fn = "cancel"
      BY <1>3 DEF CancelKey, OnTop
    <3>2. QED
      BY <2>1, <3>1, BelowTop DEF OfCookie, CookieFrames, Holds
  <2>3. cookie[o].remaining > 0
    <3>1. Len(Top.keys) \in Nat \ {0} /\ cookie[o].remaining \in Int
      BY <2>1, TailType, OpTypes
    <3>2. QED
      BY <2>2, <3>1
  <2>4. cookie'[o].st = "live" /\ cookie'[o].isCancelled
    <3>1. cookie[o] \in CookieRec
      BY OpTypes
    <3>2. QED
      BY <2>1, <2>2, <3>1 DEF Noted, CookieRec, Live, Cancelled
  <2>5. ProgressTally(o) /\ ProgressTally(o)'
    BY <2>2, <2>4 DEF TallyOf, ByProgress, Cancelled, Live
  <2>6. PICK no \in BOOLEAN : no = FALSE
    OBVIOUS
  <2>7. /\ cookie'[o] = Noted(cookie[o], Spooled(o), k, no)
        /\ no => failed'[o] = failed[o]
        /\ ~no => failed'[o] = failed[o] \cup {k}
        /\ IF Spooled(o) /\ cookie'[o].remaining # 0
             THEN heard'[o] = heard[o]
             ELSE heard'[o] = Told(heard[o], cookie'[o], Spooled(o), k, no)
    BY <2>1, <2>6
  <2>8. \/ Tells(o, shape[o])
        \/ heard'[o] = heard[o] /\ heard[o].calls = 0 /\ shape[o].mode = "spooled"
    BY <1>1, <2>3, <2>5, <2>7, ProgressTells
  <2>9. Stage(o) = "open" /\ Stage(o)' = "open"
    BY <2>2, <2>4, StageFacts, StageFactsNext DEF StageSays, Live
  <2>10. k \in 0..shape[o].nkeys
    BY <1>3, <2>1, CancelParts
  <2>11. QED
    BY <1>1, <2>1, <2>8, <2>9, <2>10, ServiceTells, ServiceNotes
<1>4. CASE ReturnProgress \/ ReturnFinal
  <2>1. heard' = heard /\ failed' = failed
    BY <1>4 DEF ReturnProgress, ReturnFinal
  <2>2. CASE cookie' = cookie
    BY <1>1, <2>1, <2>2, SilentService
  <2>3. CASE cookie' = [cookie EXCEPT ![o].st = "deleted"]
    <3>1. cookie'[o].st = "deleted"
      BY <2>3 DEF TypeOK, CookieRec
    <3>2. Live(o)
      <4>1. stack # <<>> /\ Top.fn \in {"progress", "final"}
        BY <1>4 DEF ReturnProgress, ReturnFinal, OnTop
      <4>2. QED
        BY <4>1, BelowTop DEF OfCookie, CookieFrames, Holds
    <3>3. Stage(o) = "open"
      BY <3>2, StageFacts DEF StageSays
    <3>4. ~(o > nops)
      BY <3>2 DEF CookieInv, Unstarted, Live
    <3>5. Stage(o)' = "ended"
      BY <1>1, <3>1, <3>4, StageFactsNext DEF StageSays, Live
    <3>6. QED
      BY <1>1, <2>1, <3>1, <3>3, <3>5, ServiceEnds
  <2>4. QED
    BY <1>4, <2>2, <2>3 DEF ReturnProgress, ReturnFinal, Delete
<1>5. QED
  BY <1>2, <1>3, <1>4

\* A reply is told or noted.
LEMMA DeliverService ==
  ASSUME TypeOK, TypeOK', CookieInv, CookieInv', NEW o \in Ops, NEW k \in inflight[o],
         NEW ok \in BOOLEAN, Deliver(o, k, ok, stack),
         TallyOf(o), TallyOf(o)', PartsOf(o)', OthersSame(o)
  PROVE  ServiceStep
<1>1. /\ Live(o) /\ ~Cancelled(o) /\ k \in Nat /\ k \in 0..shape[o].nkeys
      /\ cookie[o] \in CookieRec /\ stack \in Seq(Frame) /\ cookie[o].st = "live"
      /\ shape[o].kind \in Kinds /\ shape[o].nkeys \in Nat \ {0} /\ inflight[o] # {}
      /\ Stage(o) = "open"
  BY OwedFacts, OwedParts, StageFacts DEF Live, StageSays
<1>2. ASSUME cookie'[o].st = "live" PROVE Stage(o)' = "open"
  BY <1>2, StageFactsNext DEF StageSays, Live
<1>3. CASE shape[o].kind = "plain"
  <2>1. Progress(o, k, TRUE, ok, stack) /\ shape' = shape
    BY <1>1, <1>3, DeliverPlain
  <2>2. PICK yes \in BOOLEAN : Progress(o, k, yes, ok, stack)
    BY <2>1
  <2>3. /\ cookie'[o] = Noted(cookie[o], Spooled(o), k, ok)
        /\ ok => failed'[o] = failed[o]
        /\ ~ok => failed'[o] = failed[o] \cup {k}
        /\ IF Spooled(o) /\ cookie'[o].remaining # 0
             THEN stack' = stack /\ heard'[o] = heard[o]
             ELSE /\ stack' = Append(stack, Call("progress", o))
                  /\ heard'[o] = Told(heard[o], cookie'[o], Spooled(o), k, ok)
    BY <1>1, <2>2, ProgressEffect
  <2>4. IF Spooled(o) /\ cookie'[o].remaining # 0
          THEN heard'[o] = heard[o]
          ELSE heard'[o] = Told(heard[o], cookie'[o], Spooled(o), k, ok)
    BY <2>3
  <2>5. cookie'[o].st = "live"
    BY <1>1, <2>3 DEF Noted, CookieRec
  <2>6. ProgressTally(o) /\ ProgressTally(o)'
    BY <1>1, <1>3, <2>1, <2>5 DEF TallyOf, ByProgress
  <2>7. cookie[o].remaining > 0
    <3>1. IsFiniteSet(inflight[o]) /\ cookie[o].remaining = Cardinality(inflight[o])
      BY <1>3, OwedFacts
    <3>2. Cardinality(inflight[o]) \in Nat \ {0}
      BY <3>1, OneLess
    <3>3. QED
      BY <3>1, <3>2
  <2>8. \/ Tells(o, shape[o])
        \/ heard'[o] = heard[o] /\ heard[o].calls = 0 /\ shape[o].mode = "spooled"
    BY <1>1, <2>1, <2>3, <2>4, <2>6, <2>7, ProgressTells
  <2>9. QED
    BY <1>1, <1>2, <2>1, <2>3, <2>5, <2>8, ServiceTells, ServiceNotes
<1>4. CASE Streams(shape[o]) /\ k # NoKey
  <2>1. /\ cookie'[o] = Updated(cookie[o], k, ok) /\ heard' = heard /\ shape' = shape
        /\ failed'[o] = failed[o] \/ failed'[o] = failed[o] \cup {k}
    BY <1>1, <1>4, DeliverData
  <2>2. cookie'[o].st = "live"
    BY <1>1, <2>1 DEF Updated, CookieRec
  <2>3. ~ByProgress(o) /\ FinalTally(o)
    BY <1>1, <1>4 DEF TallyOf, ByProgress, Streams
  <2>4. heard[o].calls = 0
    BY <1>1, <2>3 DEF FinalTally
  <2>5. shape[o].mode = "spooled" \/ shape[o].kind = "observe"
    BY <1>1, <1>4, ShapesAssumption DEF Streams, TypeOK
  <2>6. QED
    BY <1>1, <1>2, <2>1, <2>2, <2>4, <2>5, ServiceNotes
<1>5. CASE shape[o].kind # "plain" /\ ~(Streams(shape[o]) /\ k # NoKey)
  <2>1. PICK err \in BOOLEAN, good \in BOOLEAN :
              /\ Answer(o, cookie[o], err, good, stack)
              /\ err <=> cookie[o].hasError \/ ~good
    BY <1>1, <1>5, DeliverLast
  <2>2. shape' = shape
    BY <1>1, <1>5, DeliverLast
  <2>3. /\ cookie'[o] = cookie[o]
        /\ good => failed'[o] = failed[o]
        /\ ~good => failed'[o] = failed[o] \cup {NoKey}
        /\ heard'[o].calls = heard[o].calls + 1
        /\ heard'[o].err <=> err
    BY <1>1, <2>1, AnswerEffect
  <2>4. FinalTally(o)
    BY <1>1, <1>5 DEF TallyOf, ByProgress
  <2>5. heard[o] = Silence /\ (cookie[o].hasError <=> failed[o] # {})
    BY <1>1, <2>4 DEF FinalTally
  <2>6. heard[o].calls < (IF shape[o].mode = "spooled" THEN 1 ELSE shape[o].nkeys)
    BY <1>1, <2>5 DEF Silence
  <2>7. failed[o] \subseteq failed'[o] /\ (heard'[o].err <=> failed'[o] # {})
    BY <2>1, <2>3, <2>5
  <2>8. Tells(o, shape[o])
    BY <2>3, <2>5, <2>6, <2>7 DEF Tells, Silence
  <2>9. QED
    BY <1>1, <1>2, <2>2, <2>3, <2>8, ServiceTells
<1>6. QED
  BY <1>3, <1>4, <1>5

\* Every step is one of OpService's, or nothing to the application.
LEMMA ServiceNext ==
  ASSUME TypeOK, TypeOK', Inductive, Inductive', [Next]_vars
  PROVE  ServiceStep
<1>1. /\ CookieInv /\ CookieInv' /\ HandedInv
      /\ \A o \in Ops : TallyOf(o) /\ TallyOf(o)' /\ PartsOf(o)'
  BY DEF Inductive, TallyInv, PartsInv
<1>2. \A p \in Ops : Untouched(p) /\ nops' = nops => SameToApp(p)
  BY UntouchedSame
<1>3. CASE QuietSteps
  BY <1>1, <1>2, <1>3, QuietUntouched, ServiceStays
<1>4. ASSUME NEW o \in Ops, NEW s \in Shapes,
             Bail(o, s) \/ Enqueue(o, s) \/ Schedule(o, s) \/ ScheduleFail(o, s)
      PROVE  ServiceStep
  <2>1. nops' = nops + 1 /\ o = nops + 1 /\ nops \in Int
    BY <1>4 DEF Bail, Enqueue, Schedule, ScheduleFail, Start, TypeOK
  <2>2. ASSUME NEW p \in Ops, p # o PROVE SameToApp(p)
    <3>1. p > nops' <=> p > nops
      BY <2>1, <2>2 DEF Ops
    <3>2. QED
      BY <1>1, <1>4, <2>2, <3>1, StartOthers, UntouchedSame
  <2>3. OthersSame(o)
    BY <2>2 DEF OthersSame
  <2>4. QED
    BY <1>1, <1>4, <2>3, StartService
<1>5. CASE RunNext \/ RunNextFail \/ RunPop
  <2>1. PICK o \in Ops : o = Head(pending)
    BY <1>1, <1>5, DrainFacts DEF RunNext, RunNextFail, RunPop
  <2>2. OthersSame(o)
    BY <1>1, <1>2, <1>5, <2>1, RunOthers DEF OthersSame
  <2>3. QED
    BY <1>1, <1>5, <2>1, <2>2, RunService
<1>6. CASE CancelKey \/ CancelDone \/ ReturnProgress \/ ReturnFinal
  <2>1. PICK o \in Ops : o = Top.op
    <3>1. stack # <<>> /\ OfCookie(Top)
      BY <1>6 DEF CancelKey, CancelDone, ReturnProgress, ReturnFinal, OnTop, OfCookie,
                  CookieFrames
    <3>2. QED
      BY <3>1, TopOfCookie
  <2>2. OthersSame(o)
    BY <1>1, <1>2, <1>6, <2>1, CookieOthers DEF OthersSame
  <2>3. QED
    BY <1>1, <1>6, <2>1, <2>2, CookieService
<1>7. CASE DestroyDone
  <2>1. UNCHANGED <<cookie, heard, failed, shape, nops>>
    BY <1>7 DEF DestroyDone, answers
  <2>2. \A p \in Ops : SameToApp(p)
    BY <2>1 DEF SameToApp, Stage, Live
  <2>3. QED
    BY <2>2, ServiceStays
<1>8. ASSUME NEW o \in Ops, NEW k \in inflight[o], NEW ok \in BOOLEAN,
             Deliver(o, k, ok, stack)
      PROVE  ServiceStep
  <2>1. OthersSame(o)
    BY <1>1, <1>2, <1>8, DeliverOthers DEF OthersSame
  <2>2. QED
    BY <1>1, <1>8, <2>1, DeliverService
<1>9. QED
  BY <1>3, <1>4, <1>5, <1>6, <1>7, <1>8, StepKinds

\* Nothing has been asked for at the start.
LEMMA ServiceInit ==
  ASSUME Init, TypeOK
  PROVE  Service!Init
<1>1. nops = 0 /\ heard = [o \in Ops |-> [calls |-> 0, keys |-> {}, err |-> FALSE]]
      /\ failed = [o \in Ops |-> {}]
  BY DEF Init
<1>2. \A o \in Ops : Stage(o) = "unborn"
  BY <1>1 DEF Ops, Stage
<1>3. [o \in Ops |-> Stage(o)] = [o \in Ops |-> "unborn"]
  BY <1>2
<1>4. [o \in Ops |-> Asked(shape[o])] \in [Ops -> {Asked(s) : s \in Shapes}]
  BY DEF TypeOK
<1>5. QED
  BY <1>1, <1>3, <1>4 DEF Service!Init

\* Whatever queues, callbacks within callbacks, cancellations and shutdowns do
\* to an operation, the application sees what OpService promises.
THEOREM ImplementsServiceCorrect == Spec => ImplementsService
<1>1. Init /\ TypeOK => Service!Init
  BY ServiceInit
<1>2. TypeOK /\ TypeOK' /\ Inductive /\ Inductive' /\ [Next]_vars =>
        [Service!Next]_(Service!vars)
  BY ServiceNext DEF ServiceStep
<1>3. QED
  BY <1>1, <1>2, TypeCorrect, InductiveCorrect, PTL
  DEF Spec, ImplementsService, Service!Spec

-----------------------------------------------------------------------------
(* Nobody waits for nothing. *)

\* When the event loop has control every operation has ended, is lost in one of
\* the three ways, is in flight in an instance that answers, or is in the queue
\* of a handle that is still to be connected.
Awaited ==
  stack = <<>> => \A o \in Ops : o <= nops =>
    \/ Ended(o) \/ Lost(o)
    \/ inflight[o] # {} /\ primary = "ready"
    \/ InQueue(o) /\ ~connected /\ primary \in {"created", "connecting"}

\* What is in flight is in flight in an instance that is ready, or that is
\* being destroyed.
HasInstance(o) ==
  inflight[o] # {} => \/ primary = "ready"
                      \/ primary = "destroyed" /\ \E i \in Depth : stack[i].fn = "destroy"

\* An operation without a Cookie is one bailOut has answered.
BailIsEnd(o) == o <= nops /\ cookie[o].st = "none" => heard[o].calls = 1

\* The configuration connects the handle, whose callback is there to be called.
ReadyIsConnected == (primary = "ready" => connected) /\ (~connected => configCb)

AwaitedInv == ReadyIsConnected /\ \A o \in Ops : HasInstance(o) /\ BailIsEnd(o)

\* An instance that is ready stays so until the idle handle destroys it.
LEMMA ReadyStays ==
  ASSUME [Next]_vars, primary = "ready"
  PROVE  primary' = "ready" \/ IdleRuns
<1>1. ~Connect /\ ~ConfigArrives
  BY DEF Connect, ConfigArrives
<1>2. CASE QuietSteps
  BY <1>1, <1>2 DEF QuietSteps, ErrorArrives, On, Shutdown, ReturnConnect,
                    ReturnConnectError, ReturnOther, RunDone, vars, library
<1>3. ASSUME NEW o \in Ops, NEW s \in Shapes,
             Bail(o, s) \/ Enqueue(o, s) \/ Schedule(o, s) \/ ScheduleFail(o, s)
      PROVE  primary' = primary
  BY <1>3 DEF Bail, Enqueue, Schedule, ScheduleFail, library
<1>4. CASE RunNext \/ RunNextFail \/ RunPop
  BY <1>4 DEF RunNext, RunNextFail, RunPop, library
<1>5. CASE CancelKey \/ CancelDone \/ ReturnProgress \/ ReturnFinal
  BY <1>5 DEF CancelKey, CancelDone, ReturnProgress, ReturnFinal, library
<1>6. CASE DestroyDone
  BY <1>6 DEF DestroyDone
<1>7. ASSUME NEW o \in Ops, NEW k \in inflight[o], NEW ok \in BOOLEAN,
             Deliver(o, k, ok, stack)
      PROVE  primary' = primary
  BY <1>7 DEF Deliver
<1>8. QED
  BY <1>2, <1>3, <1>4, <1>5, <1>6, <1>7, StepKinds

\* Only an instance that is ready is given commands.
LEMMA OwesMore ==
  ASSUME TypeOK, CookieInv, [Next]_vars, NEW p \in Ops, inflight'[p] # {}
  PROVE  inflight[p] # {} \/ primary' = "ready"
<1>1. CASE QuietSteps
  BY <1>1 DEF QuietSteps, Connect, ConfigArrives, ErrorArrives, IdleRuns, On, Shutdown,
              ReturnConnect, ReturnConnectError, ReturnOther, RunDone, vars, library
<1>2. ASSUME NEW o \in Ops, NEW s \in Shapes,
             Bail(o, s) \/ Enqueue(o, s) \/ Schedule(o, s) \/ ScheduleFail(o, s)
      PROVE  inflight' = inflight \/ primary' = "ready"
  BY <1>2 DEF Bail, Enqueue, Schedule, ScheduleFail, library, Usable
<1>3. CASE RunNext \/ RunNextFail \/ RunPop
  BY <1>3 DEF RunNext, RunNextFail, RunPop, library, Usable
<1>4. CASE CancelKey \/ CancelDone \/ ReturnProgress \/ ReturnFinal
  BY <1>4 DEF CancelKey, CancelDone, ReturnProgress, ReturnFinal, library
<1>5. CASE DestroyDone
  BY <1>5 DEF DestroyDone
<1>6. ASSUME NEW o \in Ops, NEW k \in inflight[o], NEW ok \in BOOLEAN,
             Deliver(o, k, ok, stack)
      PROVE  inflight[p] # {}
  <2>1. inflight' = [inflight EXCEPT ![o] = @ \ {k}]
    BY <1>6, DeliverEffect
  <2>2. CASE p = o
    BY <1>6, <2>2
  <2>3. CASE p # o
    BY <2>1, <2>3 DEF TypeOK
  <2>4. QED
    BY <2>2, <2>3
<1>7. QED
  BY <1>1, <1>2, <1>3, <1>4, <1>5, <1>6, StepKinds

\* lcb_destroy is on the stack until it has failed or forgotten all commands.
LEMMA DestroyGoesOn ==
  ASSUME TypeOK, TypeOK', CookieInv, [Next]_vars, ~DestroyDone,
         NEW i \in Depth, stack[i].fn = "destroy"
  PROVE  i \in Depth' /\ stack'[i] = stack[i]
<1>1. i = 1 /\ stack[1].fn = "destroy" /\ stack # <<>> /\ Top = stack[Len(stack)]
  BY StackFacts DEF CookieInv, LoopOutermost, LoopFrames, Depth
<1>2. ~(stack # <<>> /\ Top.fn \in {"connectCb", "errorCb", "runScheduled"})
  <2> SUFFICES ASSUME stack # <<>>, Top.fn \in {"connectCb", "errorCb", "runScheduled"}
               PROVE  FALSE
    OBVIOUS
  <2>1. stack[i] = Top
    BY LoopAlone DEF LoopFrames
  <2>2. QED
    BY <2>1
<1>3. ASSUME stack # <<>>, Top.fn # "destroy", stack' = Callers
      PROVE  i \in Depth' /\ stack'[i] = stack[i]
  <2>1. i # Len(stack)
    BY <1>1, <1>3
  <2>2. QED
    BY <1>3, <2>1, Popped
<1>4. ASSUME NEW f \in Frame, stack' = Append(stack, f)
      PROVE  i \in Depth' /\ stack'[i] = stack[i]
  BY <1>4, Pushed
<1>5. ASSUME stack' = stack PROVE i \in Depth' /\ stack'[i] = stack[i]
  BY <1>5 DEF Depth
<1>6. CASE QuietSteps
  <2>1. ~InLoop
    BY <1>1 DEF InLoop
  <2>2. ~Connect /\ ~ConfigArrives /\ ~ErrorArrives /\ ~IdleRuns
    BY <2>1 DEF Connect, ConfigArrives, ErrorArrives, IdleRuns
  <2>3. ~ReturnConnect /\ ~ReturnConnectError /\ ~RunDone
    BY <1>2 DEF ReturnConnect, ReturnConnectError, RunDone, OnTop
  <2>4. CASE ReturnOther
    BY <1>3, <2>4 DEF ReturnOther, OnTop
  <2>5. CASE On \/ Shutdown \/ UNCHANGED vars
    BY <1>5, <2>5 DEF On, Shutdown, vars
  <2>6. QED
    BY <1>6, <2>2, <2>3, <2>4, <2>5 DEF QuietSteps
<1>7. ASSUME NEW o \in Ops, NEW s \in Shapes,
             Bail(o, s) \/ Enqueue(o, s) \/ Schedule(o, s) \/ ScheduleFail(o, s)
      PROVE  i \in Depth' /\ stack'[i] = stack[i]
  <2>1. CASE Bail(o, s)
    <3>1. Call("bailOut", o) \in Frame /\ stack' = Append(stack, Call("bailOut", o))
      BY <2>1, CallType DEF Bail, AppFrames, CookieFrames
    <3>2. QED
      BY <1>4, <3>1
  <2>2. CASE Enqueue(o, s) \/ Schedule(o, s)
    BY <1>5, <2>2 DEF Enqueue, Schedule
  <2>3. CASE ScheduleFail(o, s)
    <3>1. Cancel(o, NewCookie(s), s, AllKeys(s), stack)
      BY <2>3 DEF ScheduleFail
    <3>2. NewCookie(s) \in CookieRec /\ AllKeys(s) \in Seq(Nat) /\ stack \in Seq(Frame)
      <4>1. s.nkeys \in Nat
        BY ShapesAssumption
      <4>2. QED
        BY <4>1, NewCookieType DEF TypeOK, AllKeys
    <3>3. \/ stack' = Append(stack, [fn |-> "cancel", op |-> o, keys |-> AllKeys(s)])
          \/ stack' = Append(stack, Call("final", o))
      BY <3>1, <3>2, CancelBegins
    <3>4. QED
      BY <1>4, <3>2, <3>3, CancelFrame, CallbackFrames
  <2>4. QED
    BY <1>7, <2>1, <2>2, <2>3
<1>8. CASE RunNext \/ RunNextFail \/ RunPop
  BY <1>2, <1>8 DEF RunNext, RunNextFail, RunPop, OnTop
<1>9. CASE CancelKey \/ CancelDone \/ ReturnProgress \/ ReturnFinal
  <2>1. stack # <<>> /\ Top.fn \in {"cancel", "progress", "final"}
    BY <1>9 DEF CancelKey, CancelDone, ReturnProgress, ReturnFinal, OnTop
  <2>2. CASE CancelDone \/ ReturnProgress \/ ReturnFinal
    BY <1>3, <2>1, <2>2 DEF CancelDone, ReturnProgress, ReturnFinal
  <2>3. CASE CancelKey
    <3>1. PICK o \in Ops : o = Top.op
      BY <2>1, TopOfCookie DEF OfCookie, CookieFrames
    <3>2. PICK f \in Frame : \/ stack' = Append(Callers, f)
                             \/ stack' = Append(Append(Callers, f), Call("progress", o))
      BY <2>3, <3>1, CancelKeyEffect
    <3>3. Call("progress", o) \in Frame /\ i # Len(stack)
      BY <1>1, <2>1, CallbackFrames
    <3>4. QED
      BY <2>1, <3>2, <3>3, Replaced, ReplacedPushed
  <2>4. QED
    BY <1>9, <2>2, <2>3
<1>10. ASSUME NEW o \in Ops, NEW k \in inflight[o], NEW ok \in BOOLEAN,
              Deliver(o, k, ok, stack)
       PROVE  i \in Depth' /\ stack'[i] = stack[i]
  <2>1. Call("progress", o) \in Frame /\ Call("final", o) \in Frame
    BY CallbackFrames
  <2>2. QED
    BY <1>4, <1>5, <1>10, <2>1, DeliverEffect
<1>11. QED
  BY <1>6, <1>7, <1>8, <1>9, <1>10, StepKinds

\* A step keeps the instance of what is in flight, ...
LEMMA InstanceStep ==
  ASSUME TypeOK, TypeOK', CookieInv, [Next]_vars, NEW p \in Ops, HasInstance(p)
  PROVE  HasInstance(p)'
<1> SUFFICES ASSUME inflight'[p] # {}
             PROVE  \/ primary' = "ready"
                    \/ primary' = "destroyed" /\ \E i \in Depth' : stack'[i].fn = "destroy"
  BY DEF HasInstance
<1>1. CASE primary = "ready"
  <2>1. CASE IdleRuns
    <3>1. primary' = "destroyed" /\ stack' = Append(stack, Call("destroy", NoOp))
      BY <2>1 DEF IdleRuns
    <3>2. Call("destroy", NoOp) \in Frame /\ Call("destroy", NoOp).fn = "destroy"
      BY CallType DEF NativeFrames, CookieFrames, Call
    <3>3. QED
      BY <3>1, <3>2, Pushed
  <2>2. QED
    BY <1>1, <2>1, ReadyStays
<1>2. CASE primary = "destroyed" /\ \E i \in Depth : stack[i].fn = "destroy"
  <2>1. ~DestroyDone
    BY DEF DestroyDone
  <2>2. PICK i \in Depth : stack[i].fn = "destroy"
    BY <1>2
  <2>3. i \in Depth' /\ stack'[i] = stack[i]
    BY <2>1, <2>2, DestroyGoesOn
  <2>4. QED
    BY <1>2, <2>2, <2>3, DestroyedStays
<1>3. QED
  BY <1>1, <1>2, OwesMore DEF HasInstance

\* ... and the callback of a handle to be connected, ...
LEMMA ReadyStep ==
  ASSUME TypeOK, TypeOK', CookieInv, ConnectInv, [Next]_vars, ReadyIsConnected
  PROVE  ReadyIsConnected'
<1>1. primary' = "ready" => connected'
  <2>1. CASE Connect
    BY <2>1 DEF Connect
  <2>2. CASE ConfigArrives
    BY <2>2 DEF ConfigArrives, ReadyIsConnected
  <2>3. CASE ErrorArrives
    BY <2>3 DEF ErrorArrives, TypeOK
  <2>4. CASE /\ UNCHANGED <<connected, connectCalls>>
             /\ primary' = primary \/ primary' = "destroyed"
    BY <2>4 DEF ReadyIsConnected
  <2>5. QED
    BY <2>1, <2>2, <2>3, <2>4, ConnectEffect
<1>2. configCb' = configCb \/ (RunDone /\ connected)
  <2>1. CASE QuietSteps
    BY <2>1, OnlyConnectedRun
    DEF QuietSteps, Connect, ConfigArrives, ErrorArrives, IdleRuns, On, Shutdown,
        ReturnConnect, ReturnConnectError, ReturnOther, RunDone, vars, library
  <2>2. ASSUME NEW o \in Ops, NEW s \in Shapes,
               Bail(o, s) \/ Enqueue(o, s) \/ Schedule(o, s) \/ ScheduleFail(o, s)
        PROVE  configCb' = configCb
    BY <2>2 DEF Bail, Enqueue, Schedule, ScheduleFail, library
  <2>3. CASE RunNext \/ RunNextFail \/ RunPop
    BY <2>3 DEF RunNext, RunNextFail, RunPop, library
  <2>4. CASE CancelKey \/ CancelDone \/ ReturnProgress \/ ReturnFinal \/ DestroyDone
    BY <2>4 DEF CancelKey, CancelDone, ReturnProgress, ReturnFinal, DestroyDone, library
  <2>5. ASSUME NEW o \in Ops, NEW k \in inflight[o], NEW ok \in BOOLEAN,
               Deliver(o, k, ok, stack)
        PROVE  configCb' = configCb
    BY <2>5 DEF Deliver
  <2>6. QED
    BY <2>1, <2>2, <2>3, <2>4, <2>5, StepKinds
<1>3. connected => connected'
  <2>1. Connect \/ ConfigArrives \/ ErrorArrives => (connected => connected')
    BY DEF Connect, ConfigArrives, ErrorArrives, handle
  <2>2. QED
    BY <2>1, ConnectEffect
<1>4. QED
  BY <1>1, <1>2, <1>3 DEF ReadyIsConnected

\* ... and what bailOut has answered.
LEMMA BailStep ==
  ASSUME TypeOK, TypeOK', CookieInv, [Next]_vars, NEW p \in Ops, BailIsEnd(p)
  PROVE  BailIsEnd(p)'
<1>1. ASSUME Untouched(p), nops' = nops PROVE BailIsEnd(p)'
  BY <1>1 DEF Untouched, BailIsEnd
<1>2. ASSUME cookie'[p].st # "none" PROVE BailIsEnd(p)'
  BY <1>2 DEF BailIsEnd
<1>3. CASE QuietSteps
  BY <1>1, <1>3, QuietUntouched
<1>4. ASSUME NEW o \in Ops, NEW s \in Shapes,
             Bail(o, s) \/ Enqueue(o, s) \/ Schedule(o, s) \/ ScheduleFail(o, s)
      PROVE  BailIsEnd(p)'
  <2>1. CASE p # o
    <3>1. Untouched(p) /\ nops' = o /\ o = nops + 1
      BY <1>4, <2>1, StartOthers DEF Bail, Enqueue, Schedule, ScheduleFail, Start
    <3>2. p <= nops' => p <= nops
      BY <2>1, <3>1, HandedFacts
    <3>3. QED
      BY <3>1, <3>2 DEF Untouched, BailIsEnd
  <2>2. CASE p = o /\ Bail(o, s)
    <3>1. heard'[p].calls = 1
      BY <2>2 DEF Bail, TypeOK, HeardRec
    <3>2. QED
      BY <3>1 DEF BailIsEnd
  <2>3. CASE p = o /\ (Enqueue(o, s) \/ Schedule(o, s))
    BY <1>2, <2>3 DEF Enqueue, Schedule, NewCookie, TypeOK
  <2>4. CASE p = o /\ ScheduleFail(o, s)
    <3>1. Cancel(o, NewCookie(s), s, AllKeys(s), stack)
      BY <2>4 DEF ScheduleFail
    <3>2. NewCookie(s) \in CookieRec /\ AllKeys(s) \in Seq(Nat) /\ stack \in Seq(Frame)
      <4>1. s.nkeys \in Nat
        BY ShapesAssumption
      <4>2. QED
        BY <4>1, NewCookieType DEF TypeOK, AllKeys
    <3>3. cookie'[o].st = "live"
      BY <3>1, <3>2, CancelTells DEF NewCookie
    <3>4. QED
      BY <1>2, <2>4, <3>3
  <2>5. QED
    BY <1>4, <2>1, <2>2, <2>3, <2>4
<1>5. CASE RunNext \/ RunNextFail \/ RunPop
  <2>1. PICK o \in Ops : o = Head(pending)
    BY <1>5, DrainFacts DEF RunNext, RunNextFail, RunPop
  <2>2. CASE p # o
    BY <1>1, <1>5, <2>1, <2>2, RunOthers
  <2>3. CASE p = o /\ (RunNext \/ RunPop)
    BY <2>3 DEF RunNext, RunPop, answers, BailIsEnd
  <2>4. CASE p = o /\ RunNextFail
    <3>1. Live(o) /\ Cancel(o, cookie[o], shape[o], <<NoKey>>,
                            Append(Callers, Call("runScheduled", o)))
      BY <2>1, <2>4, FrontFacts DEF RunNextFail
    <3>2. /\ cookie[o] \in CookieRec /\ shape[o] \in Shapes /\ <<NoKey>> \in Seq(Nat)
          /\ stack # <<>> /\ Callers \in Seq(Frame)
      <4>1. stack # <<>>
        BY <2>4 DEF RunNextFail, OnTop
      <4>2. QED
        BY <4>1, CallersType DEF TypeOK
    <3>3. Append(Callers, Call("runScheduled", o)) \in Seq(Frame)
      BY <3>2, PushType DEF NativeFrames, CookieFrames
    <3>4. cookie'[o].st = "live"
      BY <3>1, <3>2, <3>3, CancelTells DEF Live
    <3>5. QED
      BY <1>2, <2>4, <3>4
  <2>5. QED
    BY <1>5, <2>2, <2>3, <2>4
<1>6. CASE CancelKey \/ CancelDone \/ ReturnProgress \/ ReturnFinal
  <2>1. PICK o \in Ops : o = Top.op
    <3>1. stack # <<>> /\ OfCookie(Top)
      BY <1>6 DEF CancelKey, CancelDone, ReturnProgress, ReturnFinal, OnTop, OfCookie,
                  CookieFrames
    <3>2. QED
      BY <3>1, TopOfCookie
  <2>2. CASE p # o
    BY <1>1, <1>6, <2>1, <2>2, CookieOthers
  <2>3. CASE p = o /\ CancelKey
    <3>1. stack # <<>> /\ Top.fn = "cancel" /\ Top.keys # <<>>
      BY <2>3 DEF CancelKey, OnTop
    <3>2. Live(o)
      BY <2>1, <3>1, BelowTop DEF OfCookie, CookieFrames, Holds
    <3>3. cookie'[o].st = "live"
      <4>1. PICK k \in Nat : cookie'[o] = Noted(cookie[o], Spooled(o), k, FALSE)
        BY <2>1, <2>3, CancelKeyEffect
      <4>2. cookie[o] \in CookieRec
        BY OpTypes
      <4>3. Noted(cookie[o], Spooled(o), k, FALSE).st = cookie[o].st
        BY <4>2 DEF Noted, CookieRec
      <4>4. QED
        BY <3>2, <4>1, <4>3 DEF Live
    <3>4. QED
      BY <1>2, <2>3, <3>3
  <2>4. CASE p = o /\ CancelDone
    BY <2>4 DEF CancelDone, answers, BailIsEnd
  <2>5. CASE p = o /\ (ReturnProgress \/ ReturnFinal)
    <3>1. UNCHANGED <<heard, nops>> /\ (cookie' = cookie \/ Delete(o))
      BY <2>1, <2>5 DEF ReturnProgress, ReturnFinal
    <3>2. CASE Delete(o)
      BY <1>2, <2>5, <3>2 DEF Delete, TypeOK, CookieRec
    <3>3. QED
      BY <3>1, <3>2 DEF BailIsEnd
  <2>6. QED
    BY <1>6, <2>2, <2>3, <2>4, <2>5
<1>7. CASE DestroyDone
  BY <1>7 DEF DestroyDone, answers, BailIsEnd
<1>8. ASSUME NEW o \in Ops, NEW k \in inflight[o], NEW ok \in BOOLEAN,
             Deliver(o, k, ok, stack)
      PROVE  BailIsEnd(p)'
  <2>1. CASE p = o
    BY <1>2, <1>8, <2>1, DeliverEffect
  <2>2. CASE p # o
    BY <1>1, <1>8, <2>2, DeliverOthers
  <2>3. QED
    BY <2>1, <2>2
<1>9. QED
  BY <1>3, <1>4, <1>5, <1>6, <1>7, <1>8, StepKinds

\* With nothing on the stack a Cookie that is alive waits for libcouchbase.
LEMMA LoopAwaits ==
  TypeOK /\ Inductive /\ AwaitedInv => Awaited
<1> SUFFICES ASSUME TypeOK, Inductive, AwaitedInv, stack = <<>>, NEW o \in Ops, o <= nops,
                    ~Ended(o), ~Lost(o)
             PROVE  \/ inflight[o] # {} /\ primary = "ready"
                    \/ InQueue(o) /\ ~connected /\ primary \in {"created", "connecting"}
  BY DEF Awaited
<1>1. Depth = {} /\ DOMAIN stack = {} /\ ~InFrame(o)
  <2>1. Depth = {} /\ DOMAIN stack = Depth
    BY StackFacts DEF Depth
  <2>2. QED
    BY <2>1 DEF InFrame
<1>2. Live(o)
  BY OpTypes DEF Live, Ended, AwaitedInv, BailIsEnd
<1>3. Waiting(o) \/ inflight[o] # {}
  BY <1>1, <1>2 DEF Inductive, KeptInv, KeptOne, Lost
<1>4. inflight[o] # {} => primary = "ready"
  BY <1>1 DEF AwaitedInv, HasInstance
<1>5. Waiting(o) => /\ InQueue(o) /\ ~connected
                    /\ primary \in {"created", "connecting"}
  <2> SUFFICES ASSUME Waiting(o)
               PROVE  InQueue(o) /\ ~connected /\ primary \in {"created", "connecting"}
    OBVIOUS
  <2>1. InQueue(o)
    BY DEF Waiting
  <2>2. ~connected /\ primary \notin {"failed", "destroyed"}
    BY <1>1, <2>1 DEF Lost, Stranded
  <2>3. primary # "ready"
    BY <2>2 DEF AwaitedInv, ReadyIsConnected
  <2>4. QED
    BY <2>1, <2>2, <2>3 DEF TypeOK
<1>6. QED
  BY <1>3, <1>4, <1>5

\* When the event loop has control, every operation not ended or lost waits for
\* something libcouchbase is yet to report.
THEOREM AwaitedCorrect == Spec => []Awaited
<1>1. Init => AwaitedInv
  BY DEF Init, AwaitedInv, ReadyIsConnected, HasInstance, BailIsEnd, Ops
<1>2. /\ TypeOK /\ TypeOK' /\ Inductive /\ AwaitedInv /\ [Next]_vars
      => AwaitedInv'
  BY InstanceStep, ReadyStep, BailStep DEF Inductive, AwaitedInv
<1>3. QED
  BY <1>1, <1>2, LoopAwaits, TypeCorrect, InductiveCorrect, PTL DEF Spec
=============================================================================
