---------------------------- MODULE CouchnodeInv ----------------------------
(***************************************************************************)
(* An inductive invariant of Couchnode: why no Cookie is used after it has *)
(* deleted itself.  CouchnodeInvProofs proves that it is one.              *)
(***************************************************************************)
EXTENDS Couchnode

\* Functions that only the event loop calls.
LoopFrames == {"connectCb", "errorCb", "runScheduled", "destroy"}

Depth == 1..Len(stack)
Counted(o) == shape[o].kind \in {"plain", "observe"}
Cancelled(o) == cookie[o].isCancelled
OfCookie(f) == f.fn \in CookieFrames

\* Operations not yet started have left no trace.
Unstarted ==
  /\ \A o \in Ops : o > nops => cookie[o].st = "none" /\ inflight[o] = {}
  /\ \A i \in Depth : stack[i].op <= nops
  /\ \A i \in 1..Len(pending) : pending[i] <= nops

\* libcouchbase owes answers to live cookies only, and a cookie counts what
\* it is owed.
OwedTo(o) ==
  /\ inflight[o] # {} => Live(o) /\ ~Cancelled(o) /\ ~InQueue(o)
  /\ shape[o].kind = "plain" /\ inflight[o] # {} =>
        IsFiniteSet(inflight[o]) /\ cookie[o].remaining = Cardinality(inflight[o])
  /\ shape[o].kind = "http" => inflight[o] \subseteq {1}

Owed == \A o \in Ops : OwedTo(o)

\* What the frame of a function of a Cookie, or of its callback, may expect
\* of the Cookie when it runs again.
Holds(f) ==
  /\ f.fn \in {"progress", "final"} => Live(f.op)
  /\ f.fn = "final" => inflight[f.op] = {} /\ ~Cancelled(f.op)
  /\ f.fn = "progress" => shape[f.op].kind = "plain" \/ Cancelled(f.op)
  /\ f.fn = "cancel" =>
       /\ Counted(f.op) /\ Cancelled(f.op)
       /\ f.keys # <<>> => Live(f.op) /\ cookie[f.op].remaining >= Len(f.keys)

FramesHold == \A i \in Depth : Holds(stack[i])

\* Two frames of one Cookie are Cookie::cancel and a callback it has called.
FramesNest ==
  \A i, j \in Depth :
    (i < j /\ OfCookie(stack[i]) /\ OfCookie(stack[j]) /\ stack[i].op = stack[j].op) =>
       stack[i].fn = "cancel" /\ stack[j].fn # "cancel"

\* The event loop calls its functions with nothing else on the stack, and
\* runScheduledOperations cancels the front of the queue only.
CancelsFront(f) == f.fn = "runScheduled" /\ f.op # NoOp

LoopOutermost ==
  \A i \in Depth :
    /\ stack[i].fn \in LoopFrames => i = 1
    /\ CancelsFront(stack[i]) => pending # <<>> /\ stack[i].op = pending[1]

Cancelling == \E i \in Depth : CancelsFront(stack[i])

\* What waits in the queue is untouched, but for a front that is being
\* cancelled.
Waits(o) ==
  /\ Live(o) /\ ~Cancelled(o)
  /\ Counted(o) => cookie[o].remaining = shape[o].nkeys
  /\ \A j \in Depth : OfCookie(stack[j]) => stack[j].op # o

QueueWaits ==
  /\ \A i, j \in 1..Len(pending) : pending[i] = pending[j] => i = j
  /\ \A i \in 1..Len(pending) : i # 1 \/ ~Cancelling => Waits(pending[i])

CookieInv ==
  /\ Unstarted /\ Owed /\ FramesHold /\ FramesNest /\ LoopOutermost /\ QueueWaits
  /\ NoUseAfterDelete
-----------------------------------------------------------------------------
(* The connect handler is called once, and operations reach libcouchbase in *)
(* the order they were started.                                             *)

ConnectInv ==
  /\ connectCalls <= 1
  /\ primary = "created" => ~connected
  /\ connected => connectCalls = 1
  /\ ~connected /\ primary \in {"created", "connecting", "ready"} => connectCalls = 0
  /\ handed # <<>> => connected
  /\ \A i \in Depth : stack[i].fn \in {"connectCb", "runScheduled"} => connected

\* What went through the queue left it in order, and before anything that did
\* not go through it was started.
HandedInv ==
  /\ \A i \in 1..Len(handed) : handed[i] <= nops
  /\ \A p \in viaQueue : p <= nops
  /\ \A i \in 1..Len(pending) : pending[i] \in viaQueue
  /\ \A i, j \in 1..Len(pending) : i < j => pending[i] < pending[j]
  /\ \A i \in 1..Len(handed), j \in 1..Len(pending) :
       handed[i] \in viaQueue => \/ handed[i] < pending[j]
                                \/ (handed[i] = pending[j] /\ j = 1 /\ Cancelling)
  /\ \A i \in 1..Len(handed) : handed[i] \notin viaQueue =>
                                \A p \in viaQueue : p < handed[i]
  /\ HandedInOrder

-----------------------------------------------------------------------------
(* Who will still use a Cookie. *)

Waiting(o) == InQueue(o) /\ ~Running(o)
HasFrame(fn, o) == \E i \in Depth : stack[i].fn = fn /\ stack[i].op = o

\* The queue will cancel it for one key where it has more.
LeftOver(o) == o \in viaQueue /\ shape[o].nkeys > 1

\* A Cookie that is alive has someone to use it, or is lost.  It is cancelled
\* for what remains of it.
KeptOne(o) ==
  /\ Live(o) => \/ Waiting(o) \/ inflight[o] # {} \/ InFrame(o)
               \/ CutShort(o) \/ Forgotten(o)
  /\ shape[o].kind = "plain" /\ Live(o) /\ ~Cancelled(o) /\ ~Waiting(o) /\ inflight[o] = {} =>
        cookie[o].remaining = 0 \/ Forgotten(o)
  /\ Streams(shape[o]) /\ inflight[o] # {} => NoKey \in inflight[o]
  /\ Live(o) /\ Cancelled(o) /\ cookie[o].remaining = 0 => HasFrame("progress", o)
  /\ HasFrame("progress", o) /\ Cancelled(o) => HasFrame("cancel", o)
  /\ \A i \in Depth : stack[i].fn = "cancel" /\ stack[i].op = o /\ Live(o) =>
                        LeftOver(o) \/ cookie[o].remaining = Len(stack[i].keys)

KeptInv ==
  /\ \A o \in Ops : KeptOne(o)
  /\ \A i \in Depth : stack[i].fn = "destroy" => primary = "destroyed"

-----------------------------------------------------------------------------
(* What is heard of an operation adds up to what it was answered. *)

Silence == [calls |-> 0, keys |-> {}, err |-> FALSE]
Bailed == [calls |-> 1, keys |-> {}, err |-> TRUE]

KeysOf(o) == 1..shape[o].nkeys

\* Nothing was heard of a Cookie, and it has noted nothing.
Fresh(o) == /\ heard[o] = Silence /\ failed[o] = {}
            /\ cookie[o].results = {} /\ ~cookie[o].hasError

\* Answers pass through markProgress.
ByProgress(o) == shape[o].kind = "plain" \/ Cancelled(o)

Answered(o) == shape[o].nkeys - cookie[o].remaining
Got(o) == IF Spooled(o) THEN cookie[o].results ELSE heard[o].keys

\* markProgress tells of each response, or of all with the last one.
ProgressTally(o) ==
  IF Spooled(o)
    THEN /\ cookie[o].hasError <=> failed[o] # {}
         /\ heard[o] = IF cookie[o].remaining = 0
                         THEN [calls |-> 1, keys |-> cookie[o].results,
                               err |-> cookie[o].hasError]
                         ELSE Silence
    ELSE /\ heard[o].calls = Answered(o)
         /\ heard[o].err <=> failed[o] # {}

\* The keys not answered are those libcouchbase owes.
PlainTally(o) ==
  /\ inflight[o] \subseteq KeysOf(o)
  /\ inflight[o] # {} => Got(o) = KeysOf(o) \ inflight[o]
  /\ cookie[o].remaining = 0 => Got(o) = KeysOf(o)

\* The keys Cookie::cancel has failed, and those it has still to fail.
Reached(o, m) == IF o \in viaQueue THEN IF m = 0 THEN {} ELSE {NoKey} ELSE 1..m
ToCancel(o, m, keys) ==
  /\ Len(keys) = (IF o \in viaQueue THEN 1 ELSE shape[o].nkeys) - m
  /\ \A j \in 1..Len(keys) : keys[j] = IF o \in viaQueue THEN NoKey ELSE m + j

CancelTally(o) ==
  /\ Counted(o)
  /\ Answered(o) >= 0 /\ (o \in viaQueue => Answered(o) <= 1)
  /\ Got(o) = Reached(o, Answered(o)) /\ failed[o] = Reached(o, Answered(o))
  /\ \A i \in Depth : stack[i].fn = "cancel" /\ stack[i].op = o =>
                        ToCancel(o, Answered(o), stack[i].keys)

\* The last answer of a stream tells all, and so does the only one of an HTTP
\* request.
FinalTally(o) ==
  /\ Streams(shape[o]) /\ inflight[o] # {} =>
        inflight[o] \subseteq 0..shape[o].nkeys /\ cookie[o].results = KeysOf(o) \ inflight[o]
  /\ shape[o].kind = "http" => cookie[o].results = {}
  /\ inflight[o] # {} => heard[o].calls = 0
  /\ \/ heard[o] = Silence /\ (cookie[o].hasError <=> failed[o] # {})
     \/ /\ heard[o].calls = 1 /\ (heard[o].err <=> failed[o] # {})
        /\ CASE shape[o].kind = "observe" -> heard[o].keys = KeysOf(o)
             [] shape[o].kind = "stats" -> heard[o].keys = KeysOf(o) \/ NoKey \in failed[o]
             [] OTHER -> heard[o].keys = {}

TallyOf(o) ==
  /\ cookie[o].st = "none" =>
        failed[o] = {} /\ heard[o] \in (IF o > nops THEN {Silence} ELSE {Silence, Bailed})
  /\ Waiting(o) => Fresh(o)
  /\ cookie[o].st # "none" =>
       /\ ByProgress(o) => ProgressTally(o)
       /\ ByProgress(o) /\ ~Cancelled(o) => PlainTally(o)
       /\ Cancelled(o) => CancelTally(o)
       /\ ~ByProgress(o) => FinalTally(o)
  /\ cookie[o].st = "deleted" =>
       IF ByProgress(o) THEN cookie[o].remaining = 0 ELSE heard[o].calls = 1
  /\ HasFrame("final", o) => ~ByProgress(o) /\ heard[o].calls = 1

TallyInv == \A o \in Ops : TallyOf(o)

\* What fails, and what is heard of, are keys of the operation or 0 for all.
PartsOf(o) ==
  failed[o] \cup heard[o].keys \cup cookie[o].results \subseteq
    IF cookie[o].st = "none" THEN {} ELSE 0..shape[o].nkeys

PartsInv == \A o \in Ops : PartsOf(o)

-----------------------------------------------------------------------------

\* Why Couchnode's safety properties hold: no step breaks this.  (Who uses a
\* Cookie, when the connect handler is called, in which order operations are
\* executed, who keeps a Cookie alive, and what its callback was told.)
Inductive ==
  CookieInv /\ ConnectInv /\ HandedInv /\ KeptInv /\ TallyInv /\ PartsInv
=============================================================================
