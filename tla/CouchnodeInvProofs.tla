------------------------- MODULE CouchnodeInvProofs -------------------------
(***************************************************************************)
(* The types of Couchnode hold, and none of its Cookies is used after it   *)
(* has deleted itself, for every value of the constants.                   *)
(***************************************************************************)
EXTENDS CouchnodeInv, SequenceTheorems, FiniteSetTheorems, TLAPS

USE DEF NoOp, NoKey


-----------------------------------------------------------------------------
(* The call stack as a sequence. *)

\* A call is a frame.
LEMMA CallType ==
  ASSUME NEW o \in Ops \cup {NoOp}, NEW fn \in AppFrames \cup NativeFrames,
         fn \in CookieFrames => o \in Ops
  PROVE  Call(fn, o) \in Frame
<1>1. <<>> \in Seq(Nat)
  BY EmptySeq
<1>2. QED
  BY <1>1 DEF Call, Frame

\* Calling a function pushes a frame.
LEMMA PushType ==
  ASSUME NEW base \in Seq(Frame), NEW o \in Ops \cup {NoOp},
         NEW fn \in AppFrames \cup NativeFrames, fn \in CookieFrames => o \in Ops
  PROVE  Append(base, Call(fn, o)) \in Seq(Frame)
BY CallType, AppendProperties

\* A sequence without its last element.
LEMMA FrontType ==
  ASSUME NEW T, NEW s \in Seq(T), s # <<>>
  PROVE  /\ Len(s) \in Nat \ {0}
         /\ s[Len(s)] \in T
         /\ SubSeq(s, 1, Len(s) - 1) \in Seq(T)
         /\ Len(SubSeq(s, 1, Len(s) - 1)) = Len(s) - 1
         /\ \A i \in 1..(Len(s) - 1) : SubSeq(s, 1, Len(s) - 1)[i] = s[i]
<1> DEFINE n == Len(s) - 1
           f == SubSeq(s, 1, n)
<1>1. Len(s) \in Nat \ {0} /\ n \in Nat
  BY EmptySeq
<1>2. \A i \in 1..Len(s) : s[i] \in T
  BY ElementOfSeq
<1>3. \A i \in 1..n : s[i] \in T
  BY <1>1, <1>2
<1> HIDE DEF n
<1>4. /\ f \in Seq(T)
      /\ Len(f) = IF 1 <= n THEN n - 1 + 1 ELSE 0
      /\ \A i \in 1..(n - 1 + 1) : f[i] = s[1 + i - 1]
  BY <1>1, <1>3, SubSeqProperties
<1>5. Len(f) = n
  BY <1>1, <1>4
<1> HIDE DEF f
<1>6. \A i \in 1..n : f[i] = s[i]
  BY <1>1, <1>4
<1>7. f \in Seq(T) /\ Len(f) = n /\ \A i \in 1..n : f[i] = s[i]
  BY <1>4, <1>5, <1>6
<1>8. s[Len(s)] \in T
  BY <1>1, <1>2
<1>9. QED
  BY <1>1, <1>7, <1>8 DEF f, n

\* What a function returns to is the stack without its own frame.
LEMMA CallersType ==
  ASSUME stack \in Seq(Frame), stack # <<>>
  PROVE  /\ Len(stack) \in Nat \ {0}
         /\ Top \in Frame
         /\ Callers \in Seq(Frame)
         /\ Len(Callers) = Len(stack) - 1
         /\ \A i \in 1..(Len(stack) - 1) : Callers[i] = stack[i]
BY FrontType DEF Callers, Top

\* The queue without its front.
LEMMA TailType ==
  ASSUME NEW T, NEW s \in Seq(T), s # <<>>
  PROVE  /\ Len(s) \in Nat \ {0} /\ Head(s) \in T /\ Head(s) = s[1]
         /\ Tail(s) \in Seq(T) /\ Len(Tail(s)) = Len(s) - 1
         /\ \A i \in 1..(Len(s) - 1) : Tail(s)[i] = s[i + 1]
BY HeadTailProperties, EmptySeq

-----------------------------------------------------------------------------
(* Types. *)

\* The part of the type invariant that the handlers of answers can disturb.
AnswersOK == /\ cookie \in [Ops -> CookieRec]
             /\ stack \in Seq(Frame)
             /\ heard \in [Ops -> HeardRec]
             /\ failed \in [Ops -> SUBSET Nat]
             /\ misused \subseteq Ops

\* A new Cookie has a Cookie's fields.
LEMMA NewCookieType ==
  ASSUME NEW s \in Shapes
  PROVE  NewCookie(s) \in CookieRec
BY ShapesAssumption DEF NewCookie, CookieRec

\* So has one that has noted a response.
LEMMA NotedType ==
  ASSUME NEW c \in CookieRec, NEW spooled \in BOOLEAN, NEW k \in Nat, NEW ok \in BOOLEAN
  PROVE  Noted(c, spooled, k, ok) \in CookieRec
<1>1. c.remaining \in Int /\ c.hasError \in BOOLEAN /\ c.results \in SUBSET Nat
  BY DEF CookieRec
<1>2. c.remaining - 1 \in Int
  BY <1>1
<1>3. (c.hasError \/ ~ok) \in BOOLEAN
  OBVIOUS
<1>4. (IF spooled THEN c.results \cup {k} ELSE c.results) \in SUBSET Nat
  BY <1>1
<1>5. QED
  BY <1>2, <1>3, <1>4 DEF Noted, CookieRec

\* What a callback was given is a count, keys and an error.
LEMMA ToldType ==
  ASSUME NEW h \in HeardRec, NEW c \in CookieRec, NEW spooled \in BOOLEAN,
         NEW k \in Nat, NEW ok \in BOOLEAN
  PROVE  Told(h, c, spooled, k, ok) \in HeardRec
<1>1. /\ h.calls \in Nat /\ h.keys \in SUBSET Nat /\ h.err \in BOOLEAN
      /\ c.results \in SUBSET Nat /\ c.hasError \in BOOLEAN
  BY DEF HeardRec, CookieRec
<1>2. /\ h.calls + 1 \in Nat
      /\ (IF spooled THEN c.results ELSE h.keys \cup {k}) \in SUBSET Nat
  BY <1>1
<1>3. (IF spooled THEN c.hasError ELSE h.err \/ ~ok) \in BOOLEAN
  BY <1>1
<1>4. QED
  BY <1>2, <1>3 DEF Told, HeardRec

\* Cookie::markProgress keeps the types.
LEMMA ProgressType ==
  ASSUME TypeOK, NEW o \in Ops, NEW k \in Nat, NEW hasKey \in BOOLEAN,
         NEW ok \in BOOLEAN, NEW base \in Seq(Frame),
         Progress(o, k, hasKey, ok, base)
  PROVE  AnswersOK'
<1> DEFINE c == Noted(cookie[o], Spooled(o), k, ok)
<1>1. cookie[o] \in CookieRec /\ heard[o] \in HeardRec /\ Spooled(o) \in BOOLEAN
  BY DEF TypeOK, Spooled
<1>2. c \in CookieRec
  BY <1>1, NotedType
<1>3. Told(heard[o], c, Spooled(o), k, ok) \in HeardRec
  BY <1>1, <1>2, ToldType
<1>4. Append(base, Call("progress", o)) \in Seq(Frame)
  BY PushType DEF AppFrames, CookieFrames
<1> HIDE DEF c
<1>5. cookie' \in [Ops -> CookieRec] /\ misused' \subseteq Ops
  BY <1>2 DEF Progress, TypeOK, c, Use
<1>6. stack' \in Seq(Frame) /\ heard' \in [Ops -> HeardRec]
  BY <1>3, <1>4 DEF Progress, TypeOK, c
<1>7. failed' \in [Ops -> SUBSET Nat]
  BY DEF Progress, TypeOK, Fail
<1>8. QED
  BY <1>5, <1>6, <1>7 DEF AnswersOK

\* The last answer of a Cookie keeps the types.
LEMMA AnswerType ==
  ASSUME TypeOK, NEW o \in Ops, NEW c \in CookieRec, NEW err \in BOOLEAN,
         NEW ok \in BOOLEAN, NEW base \in Seq(Frame),
         Answer(o, c, err, ok, base)
  PROVE  AnswersOK'
<1>1. heard[o].calls + 1 \in Nat /\ c.results \in SUBSET Nat
  BY DEF TypeOK, HeardRec, CookieRec
<1>2. [calls |-> heard[o].calls + 1, keys |-> c.results, err |-> err] \in HeardRec
  BY <1>1 DEF HeardRec
<1>3. Append(base, Call("final", o)) \in Seq(Frame)
  BY PushType DEF AppFrames, CookieFrames
<1>4. heard' \in [Ops -> HeardRec] /\ stack' \in Seq(Frame)
  BY <1>2, <1>3 DEF Answer, TypeOK
<1>5. cookie' \in [Ops -> CookieRec] /\ misused' \subseteq Ops
  BY DEF Answer, TypeOK, Use
<1>6. failed' \in [Ops -> SUBSET Nat]
  BY DEF Answer, TypeOK, Fail
<1>7. QED
  BY <1>4, <1>5, <1>6 DEF AnswersOK

\* Cookie::cancel keeps the types.
LEMMA CancelType ==
  ASSUME TypeOK, NEW o \in Ops, NEW c \in CookieRec, NEW s \in Shapes,
         NEW keys \in Seq(Nat), NEW base \in Seq(Frame),
         Cancel(o, c, s, keys, base)
  PROVE  AnswersOK'
<1>1. CASE s.kind \in {"plain", "observe"}
  <2>1. [fn |-> "cancel", op |-> o, keys |-> keys] \in Frame
    BY DEF Frame, NativeFrames, CookieFrames
  <2>2. Append(base, [fn |-> "cancel", op |-> o, keys |-> keys]) \in Seq(Frame)
    BY <2>1, AppendProperties
  <2>3. [c EXCEPT !.isCancelled = TRUE] \in CookieRec
    BY DEF CookieRec
  <2>4. stack' \in Seq(Frame) /\ cookie' \in [Ops -> CookieRec]
    BY <1>1, <2>2, <2>3 DEF Cancel, TypeOK
  <2>5. misused' \subseteq Ops /\ UNCHANGED <<heard, failed>>
    BY <1>1 DEF Cancel, TypeOK, Use
  <2>6. QED
    BY <2>4, <2>5 DEF TypeOK, AnswersOK
<1>2. CASE s.kind \notin {"plain", "observe"}
  BY <1>2, AnswerType DEF Cancel
<1>3. QED
  BY <1>1, <1>2

\* The handler of a reply keeps the types.
LEMMA DeliverType ==
  ASSUME TypeOK, NEW o \in Ops, NEW k \in inflight[o], NEW ok \in BOOLEAN,
         NEW base \in Seq(Frame), Deliver(o, k, ok, base)
  PROVE  TypeOK'
<1>1. k \in Nat /\ cookie[o] \in CookieRec /\ shape[o] \in Shapes
  BY DEF TypeOK
<1>2. inflight' = [inflight EXCEPT ![o] = @ \ {k}] /\ AnswersOK'
  <2>1. CASE HandleReply(o, k, ok, base)
    BY <1>1, <2>1, ProgressType DEF HandleReply
  <2>2. CASE HandleData(o, k, ok, base)
    <3>1. /\ (cookie[o].hasError \/ ~ok) \in BOOLEAN
          /\ cookie[o].results \cup {k} \in SUBSET Nat
      BY <1>1 DEF CookieRec
    <3>2. Updated(cookie[o], k, ok) \in CookieRec
      BY <1>1, <3>1 DEF CookieRec, Updated
    <3>3. cookie' \in [Ops -> CookieRec]
      BY <2>2, <3>2 DEF HandleData, TypeOK
    <3>4. failed' \in [Ops -> SUBSET Nat] /\ misused' \subseteq Ops
      BY <1>1, <2>2 DEF HandleData, TypeOK, Fail, Use
    <3>5. QED
      BY <2>2, <3>3, <3>4 DEF HandleData, TypeOK, AnswersOK
  <2>3. CASE HandleLast(o, k, ok, base)
    <3>1. cookie[o].hasError \in BOOLEAN
      BY <1>1 DEF CookieRec
    <3>2. (IF shape[o].kind = "observe" THEN cookie[o].hasError
                                         ELSE cookie[o].hasError \/ ~ok) \in BOOLEAN
      BY <3>1
    <3>3. (ok \/ shape[o].kind = "observe") \in BOOLEAN
      OBVIOUS
    <3>4. QED
      BY <1>1, <2>3, <3>2, <3>3, AnswerType DEF HandleLast
  <2>4. shape[o].kind \in Kinds
    BY <1>1, ShapesAssumption
  <2>5. QED
    BY <2>1, <2>2, <2>3, <2>4 DEF Deliver, Kinds, Streams
<1>3. inflight' \in [Ops -> SUBSET Nat]
  BY <1>2 DEF TypeOK
<1>4. UNCHANGED <<handle, primary, configCb, idle, nerr, nops, shape, viaQueue,
                  handed, connectCalls>>
  BY DEF Deliver
<1>5. QED
  BY <1>2, <1>3, <1>4 DEF TypeOK, AnswersOK, handle

-----------------------------------------------------------------------------
(* The type invariant. *)

\* The variables the entry points set when they start an operation.
LEMMA StartType ==
  ASSUME TypeOK, NEW o \in Ops, NEW s \in Shapes, Start(o, s)
  PROVE  nops' \in 0..MaxOps /\ shape' \in [Ops -> Shapes]
BY BoundsAssumption DEF TypeOK, Start, Ops

\* Every step keeps the types.
LEMMA TypeStep ==
  ASSUME TypeOK, [Next]_vars
  PROVE  TypeOK'
<1> USE DEF handle, library, answers
<1> DEFINE Rest == /\ connected' \in BOOLEAN /\ isShutdown' \in BOOLEAN
                   /\ errorHandler' \in BOOLEAN /\ pending' \in Seq(Ops)
                   /\ primary' \in {"created", "connecting", "ready", "failed", "destroyed"}
                   /\ configCb' \in BOOLEAN /\ idle' \in BOOLEAN
                   /\ inflight' \in [Ops -> SUBSET Nat]
                   /\ nerr' \in Nat /\ nops' \in 0..MaxOps
                   /\ shape' \in [Ops -> Shapes]
                   /\ viaQueue' \subseteq Ops /\ handed' \in Seq(Ops)
                   /\ connectCalls' \in Nat
<1>0. Rest /\ AnswersOK' => TypeOK'
  BY DEF TypeOK, AnswersOK
<1>1. CASE Connect
  BY <1>1 DEF Connect, TypeOK
<1>2. CASE ConfigArrives
  <2>1. Append(stack, Call("connectCb", NoOp)) \in Seq(Frame)
    BY PushType DEF TypeOK, AppFrames, CookieFrames
  <2>2. connectCalls + 1 \in Nat /\ connectCalls \in Nat
    BY DEF TypeOK
  <2>3. stack' \in Seq(Frame) /\ connectCalls' \in Nat
    BY <1>2, <2>1, <2>2 DEF ConfigArrives, TypeOK
  <2>4. connected' \in BOOLEAN /\ configCb' \in BOOLEAN
    BY <1>2, Zenon DEF ConfigArrives, TypeOK
  <2>5. QED
    BY <1>2, <2>3, <2>4 DEF ConfigArrives, TypeOK
<1>3. CASE ErrorArrives
  <2>1. /\ Append(stack, Call("errorCb", NoOp)) \in Seq(Frame)
        /\ Append(stack, Call("errorEvent", NoOp)) \in Seq(Frame)
    BY PushType DEF TypeOK, AppFrames, CookieFrames
  <2>2. connected' \in BOOLEAN
    BY <1>3, Zenon DEF ErrorArrives, TypeOK
  <2>5. nerr' \in Nat /\ connectCalls' \in Nat
    <3>1. nerr + 1 \in Nat /\ connectCalls + 1 \in Nat
      BY DEF TypeOK
    <3>2. QED
      BY <1>3, <3>1, Zenon DEF ErrorArrives, TypeOK
  <2>3. stack' \in Seq(Frame)
    BY <1>3, <2>1 DEF ErrorArrives, TypeOK
  <2>4. QED
    BY <1>3, <2>2, <2>3, <2>5 DEF ErrorArrives, TypeOK
<1>4. CASE IdleRuns
  <2>1. Append(stack, Call("destroy", NoOp)) \in Seq(Frame)
    BY PushType DEF TypeOK, NativeFrames, CookieFrames
  <2>2. QED
    BY <1>4, <2>1 DEF IdleRuns, TypeOK
<1>5. CASE On \/ Shutdown
  BY <1>5 DEF On, Shutdown, TypeOK
<1>6. ASSUME NEW o \in Ops, NEW s \in Shapes,
             Bail(o, s) \/ Enqueue(o, s) \/ Schedule(o, s) \/ ScheduleFail(o, s)
      PROVE  TypeOK'
  <2>1. nops' \in 0..MaxOps /\ shape' \in [Ops -> Shapes]
    BY <1>6, StartType DEF Bail, Enqueue, Schedule, ScheduleFail
  <2>2. CASE Bail(o, s)
    <3>1. Append(stack, Call("bailOut", o)) \in Seq(Frame)
      BY PushType DEF TypeOK, AppFrames, CookieFrames
    <3>2. [heard[o] EXCEPT !.calls = 1, !.err = TRUE] \in HeardRec
      BY DEF TypeOK, HeardRec
    <3>3. heard' \in [Ops -> HeardRec]
      BY <2>2, <3>2 DEF Bail, TypeOK
    <3>4. QED
      BY <2>1, <2>2, <3>1, <3>3 DEF Bail, TypeOK
  <2>3. CASE Enqueue(o, s)
    <3>1. cookie' \in [Ops -> CookieRec]
      BY <2>3, NewCookieType DEF Enqueue, TypeOK
    <3>2. pending' \in Seq(Ops)
      BY <2>3, AppendProperties DEF Enqueue, TypeOK
    <3>3. QED
      BY <2>1, <2>3, <3>1, <3>2 DEF Enqueue, TypeOK
  <2>4. CASE Schedule(o, s)
    <3>1. cookie' \in [Ops -> CookieRec]
      BY <2>4, NewCookieType DEF Schedule, TypeOK
    <3>2. Outstanding(s) \in SUBSET Nat
      BY ShapesAssumption DEF Outstanding
    <3>3. inflight' \in [Ops -> SUBSET Nat] /\ handed' \in Seq(Ops)
      BY <2>4, <3>2, AppendProperties DEF Schedule, TypeOK
    <3>4. QED
      BY <2>1, <2>4, <3>1, <3>3 DEF Schedule, TypeOK
  <2>5. CASE ScheduleFail(o, s)
    <3>1. AllKeys(s) \in Seq(Nat)
      <4>1. s.nkeys \in Nat
        BY ShapesAssumption
      <4>2. QED
        BY <4>1 DEF AllKeys
    <3>2. AnswersOK'
      BY <2>5, <3>1, NewCookieType, CancelType DEF ScheduleFail, TypeOK
    <3>3. handed' \in Seq(Ops)
      BY <2>5, AppendProperties DEF ScheduleFail, TypeOK
    <3>4. QED
      BY <1>0, <2>1, <2>5, <3>2, <3>3 DEF ScheduleFail, TypeOK
  <2>6. QED
    BY <1>6, <2>2, <2>3, <2>4, <2>5
<1>7. ASSUME stack # <<>>, NativeSteps
      PROVE  TypeOK'
  <2>1. Callers \in Seq(Frame) /\ Top \in Frame
    BY <1>7, CallersType DEF TypeOK
  <2>2. Top.op \in Ops \cup {NoOp} /\ Top.keys \in Seq(Nat)
    BY <2>1 DEF Frame
  <2>3. CASE ReturnConnect
    <3>1. Append(Callers, Call("runScheduled", NoOp)) \in Seq(Frame)
      BY <2>1, PushType DEF NativeFrames, CookieFrames
    <3>2. QED
      BY <2>3, <3>1 DEF ReturnConnect, TypeOK
  <2>4. CASE ReturnConnectError
    <3>1. Append(Callers, Call("errorEvent", NoOp)) \in Seq(Frame)
      BY <2>1, PushType DEF AppFrames, CookieFrames
    <3>2. QED
      BY <2>1, <2>4, <3>1 DEF ReturnConnectError, TypeOK
  <2>5. CASE ReturnProgress \/ ReturnFinal
    <3>1. cookie' \in [Ops -> CookieRec]
      <4>1. CASE UNCHANGED cookie
        BY <4>1 DEF TypeOK
      <4>2. CASE Delete(Top.op)
        <5>1. \A o \in Ops : [cookie[o] EXCEPT !.st = "deleted"] \in CookieRec
          BY DEF TypeOK, CookieRec
        <5>2. QED
          BY <4>2, <5>1 DEF Delete, TypeOK
      <4>3. QED
        BY <2>5, <4>1, <4>2 DEF ReturnProgress, ReturnFinal
    <3>2. QED
      BY <2>1, <2>5, <3>1 DEF ReturnProgress, ReturnFinal, TypeOK
  <2>6. CASE ReturnOther \/ CancelDone
    BY <2>1, <2>6 DEF ReturnOther, CancelDone, TypeOK
  <2>7. CASE RunNext
    <3>1. Head(pending) \in Ops /\ Tail(pending) \in Seq(Ops)
      BY <2>7, TailType DEF RunNext, TypeOK
    <3>2. Outstanding(shape[Head(pending)]) \in SUBSET Nat
      BY <3>1, ShapesAssumption DEF Outstanding, TypeOK
    <3>3. inflight' \in [Ops -> SUBSET Nat] /\ handed' \in Seq(Ops)
      BY <2>7, <3>1, <3>2, AppendProperties DEF RunNext, TypeOK
    <3>4. QED
      BY <2>7, <3>1, <3>3 DEF RunNext, TypeOK
  <2>8. CASE RunNextFail
    <3>1. Head(pending) \in Ops
      BY <2>8, TailType DEF RunNextFail, TypeOK
    <3>2. Append(Callers, Call("runScheduled", Head(pending))) \in Seq(Frame)
      BY <2>1, <3>1, PushType DEF NativeFrames, CookieFrames
    <3>3. <<NoKey>> \in Seq(Nat)
      OBVIOUS
    <3>4. AnswersOK'
      BY <2>8, <3>1, <3>2, <3>3, CancelType DEF RunNextFail, TypeOK
    <3>5. handed' \in Seq(Ops)
      BY <2>8, <3>1, AppendProperties DEF RunNextFail, TypeOK
    <3>6. QED
      BY <1>0, <2>8, <3>4, <3>5 DEF RunNextFail, TypeOK
  <2>9. CASE RunPop
    <3>1. Append(Callers, Call("runScheduled", NoOp)) \in Seq(Frame)
      BY <2>1, PushType DEF NativeFrames, CookieFrames
    <3>2. QED
      BY <2>9, <3>1, TailType DEF RunPop, TypeOK
  <2>10. CASE RunDone
    BY <2>1, <2>10 DEF RunDone, TypeOK
  <2>11. CASE CancelKey
    <3>1. Top.fn = "cancel" /\ Top.keys # <<>>
      BY <2>11 DEF CancelKey, OnTop
    <3>2. Top.op \in Ops /\ Head(Top.keys) \in Nat /\ Tail(Top.keys) \in Seq(Nat)
      BY <2>1, <2>2, <3>1, TailType DEF Frame, CookieFrames
    <3>3. [Top EXCEPT !.keys = Tail(Top.keys)] \in Frame
      BY <2>1, <3>1, <3>2 DEF Frame, CookieFrames
    <3>4. Append(Callers, [Top EXCEPT !.keys = Tail(Top.keys)]) \in Seq(Frame)
      BY <2>1, <3>3, AppendProperties
    <3>5. AnswersOK'
      BY <2>11, <3>2, <3>4, ProgressType DEF CancelKey
    <3>6. QED
      BY <1>0, <2>11, <3>5 DEF CancelKey, TypeOK
  <2>12. CASE DestroyDone
    BY <2>1, <2>12 DEF DestroyDone, TypeOK
  <2>13. ASSUME NEW o \in Ops, NEW k \in inflight[o], DestroyNext(o, k)
         PROVE  TypeOK'
    BY <2>13, DeliverType DEF DestroyNext, TypeOK
  <2>14. QED
    BY <1>7, <2>3, <2>4, <2>5, <2>6, <2>7, <2>8, <2>9, <2>10, <2>11, <2>12,
       <2>13 DEF NativeSteps
<1>8. CASE Replies
  <2>1. PICK o \in Ops : \E k \in inflight[o], ok \in BOOLEAN : Reply(o, k, ok)
    BY <1>8 DEF Replies
  <2>2. PICK k \in inflight[o], ok \in BOOLEAN : Reply(o, k, ok)
    BY <2>1
  <2>3. QED
    BY <2>2, DeliverType DEF Reply, TypeOK
<1>9. CASE UNCHANGED vars
  BY <1>9 DEF vars, TypeOK
<1>10. NativeSteps => stack # <<>>
  BY DEF NativeSteps, OnTop, ReturnConnect, ReturnConnectError, ReturnProgress,
         ReturnFinal, ReturnOther, RunNext, RunNextFail, RunPop, RunDone,
         CancelKey, CancelDone, DestroyDone, DestroyNext
<1>11. QED
  BY <1>1, <1>2, <1>3, <1>4, <1>5, <1>6, <1>7, <1>8, <1>9, <1>10
     DEF Next, Application

\* The initial state has the types.
LEMMA TypeInit ==
  ASSUME Init
  PROVE  TypeOK
<1>1. (CHOOSE s \in Shapes : TRUE) \in Shapes
  BY ShapesAssumption
<1>2. NoCookie \in CookieRec /\ [calls |-> 0, keys |-> {}, err |-> FALSE] \in HeardRec
  BY DEF NoCookie, CookieRec, HeardRec
<1>3. /\ shape \in [Ops -> Shapes] /\ cookie \in [Ops -> CookieRec]
      /\ heard \in [Ops -> HeardRec] /\ failed \in [Ops -> SUBSET Nat]
      /\ inflight \in [Ops -> SUBSET Nat]
  BY <1>1, <1>2 DEF Init
<1>4. pending \in Seq(Ops) /\ stack \in Seq(Frame) /\ handed \in Seq(Ops)
  BY EmptySeq DEF Init
<1>5. /\ connected \in BOOLEAN /\ isShutdown \in BOOLEAN /\ errorHandler \in BOOLEAN
      /\ primary = "created" /\ configCb \in BOOLEAN /\ idle \in BOOLEAN
      /\ viaQueue \subseteq Ops /\ misused \subseteq Ops
  BY Zenon DEF Init
<1>6. nerr \in Nat /\ nops \in 0..MaxOps /\ connectCalls \in Nat
  BY BoundsAssumption DEF Init
<1>7. QED
  BY <1>3, <1>4, <1>5, <1>6 DEF TypeOK

\* Every variable keeps its type, for any number of operations of any shapes.
THEOREM TypeCorrect == Spec => []TypeOK
<1>1. Init => TypeOK
  BY TypeInit
<1>2. TypeOK /\ [Next]_vars => TypeOK'
  BY TypeStep
<1>3. QED
  BY <1>1, <1>2, PTL DEF Spec


-----------------------------------------------------------------------------
(* The stack before and after a step. *)

\* What the types say of the frames on the stack.
LEMMA FrameFacts ==
  ASSUME TypeOK
  PROVE  /\ Len(stack) \in Nat /\ (stack = <<>> <=> Len(stack) = 0)
         /\ Len(pending) \in Nat /\ (pending = <<>> <=> Len(pending) = 0)
         /\ \A i \in Depth : /\ stack[i] \in Frame
                             /\ stack[i].op \in Ops \cup {NoOp}
                             /\ stack[i].keys \in Seq(Nat)
                             /\ OfCookie(stack[i]) => stack[i].op \in Ops
         /\ \A i \in 1..Len(pending) : pending[i] \in Ops
         /\ \A o \in Ops : InQueue(o) <=> \E i \in 1..Len(pending) : pending[i] = o
<1>1. stack \in Seq(Frame) /\ pending \in Seq(Ops)
  BY DEF TypeOK
<1>2. /\ Len(stack) \in Nat /\ (stack = <<>> <=> Len(stack) = 0)
      /\ Len(pending) \in Nat /\ (pending = <<>> <=> Len(pending) = 0)
      /\ DOMAIN pending = 1..Len(pending)
  BY <1>1, EmptySeq, LenProperties
<1>3. \A i \in 1..Len(stack) : stack[i] \in Frame
  BY <1>1, ElementOfSeq
<1>4. \A i \in 1..Len(pending) : pending[i] \in Ops
  BY <1>1, ElementOfSeq
<1>5. \A f \in Frame : /\ f.op \in Ops \cup {NoOp} /\ f.keys \in Seq(Nat)
                       /\ f.fn \in CookieFrames => f.op \in Ops
  BY DEF Frame, CookieFrames
<1>6. QED
  BY <1>2, <1>3, <1>4, <1>5 DEF Depth, OfCookie, InQueue

\* The stack after a call.
LEMMA AfterPush ==
  ASSUME NEW base \in Seq(Frame), NEW f \in Frame
  PROVE  /\ Append(base, f) \in Seq(Frame)
         /\ Len(base) \in Nat /\ Len(Append(base, f)) = Len(base) + 1
         /\ \A i \in 1..Len(base) : Append(base, f)[i] = base[i]
         /\ Append(base, f)[Len(base) + 1] = f
BY AppendProperties, LenProperties

-----------------------------------------------------------------------------
(* Steps that leave the cookies alone. *)

\* A function that is no front being cancelled returns.
LEMMA PopKeeps ==
  ASSUME TypeOK, CookieInv, TypeOK', stack # <<>>, stack' = Callers,
         ~CancelsFront(Top),
         UNCHANGED <<cookie, shape, nops, pending, misused>>,
         \A o \in Ops : inflight'[o] \in {inflight[o], {}}
  PROVE  CookieInv'
<1> USE DEF CookieInv
<1> DEFINE n == Len(stack) - 1
<1>1. /\ n \in Nat /\ Len(stack') = n /\ n < Len(stack)
      /\ \A i \in 1..n : stack'[i] = stack[i]
  BY CallersType DEF TypeOK
<1>2. \A i \in Depth' : i \in Depth /\ stack'[i] = stack[i]
  BY <1>1 DEF Depth
<1>3. \A o \in Ops : InQueue(o)' <=> InQueue(o)
  BY DEF InQueue
<1>4. Unstarted'
  BY <1>2 DEF Unstarted
<1>5. Owed'
  BY <1>3 DEF Owed, OwedTo, Live, Cancelled
<1>6. FramesHold'
  <2>1. SUFFICES ASSUME NEW i \in Depth' PROVE Holds(stack[i])'
    BY DEF FramesHold
  <2>2. Holds(stack[i]) /\ stack'[i] = stack[i] /\ (OfCookie(stack[i]) => stack[i].op \in Ops)
    BY <1>2, FrameFacts DEF FramesHold
  <2>3. QED
    BY <2>2 DEF Holds, Live, Cancelled, Counted, OfCookie, CookieFrames
<1>7. FramesNest'
  BY <1>2 DEF FramesNest, OfCookie
<1>8. LoopOutermost'
  BY <1>2 DEF LoopOutermost, CancelsFront
<1>9. Cancelling => Cancelling'
  <2>1. \A i \in Depth : i = n + 1 \/ i \in Depth'
    BY <1>1 DEF Depth
  <2>2. QED
    BY <1>1, <1>2, <2>1 DEF Cancelling, CancelsFront, Top
<1>10. QueueWaits'
  BY <1>2, <1>9 DEF QueueWaits, Waits, Live, Cancelled, Counted, OfCookie
<1>11. QED
  BY <1>4, <1>5, <1>6, <1>7, <1>8, <1>10 DEF NoUseAfterDelete

\* A function calls application code or one of the event loop's functions.
LEMMA PushKeeps ==
  ASSUME TypeOK, CookieInv, TypeOK', NEW f \in Frame, stack' = Append(stack, f),
         ~OfCookie(f), ~CancelsFront(f), f.op <= nops',
         f.fn \in LoopFrames => stack = <<>>,
         nops' \in {nops, nops + 1},
         \A o \in Ops : o <= nops => shape'[o] = shape[o],
         UNCHANGED <<cookie, inflight, pending, misused>>
  PROVE  CookieInv'
<1> USE DEF CookieInv
<1> DEFINE n == Len(stack)
<1>1. /\ n \in Nat /\ Len(stack') = n + 1 /\ stack'[n + 1] = f
      /\ \A i \in 1..n : stack'[i] = stack[i]
  BY AfterPush DEF TypeOK
<1>2. \A i \in Depth' : \/ (i \in Depth /\ stack'[i] = stack[i])
                        \/ (i = n + 1 /\ stack'[i] = f)
  <2>1. SUFFICES ASSUME NEW i \in Depth'
                 PROVE  (i \in Depth /\ stack'[i] = stack[i]) \/ i = n + 1
    BY <1>1
  <2>2. i \in 1..n \/ i = n + 1
    BY <1>1 DEF Depth
  <2>3. QED
    BY <1>1, <2>2 DEF Depth
<1>3. \A i \in Depth : i \in Depth' /\ stack'[i] = stack[i]
  BY <1>1 DEF Depth
<1>4. \A o \in Ops : InQueue(o)' <=> InQueue(o)
  BY DEF InQueue
<1>5. nops \in Nat /\ nops' \in Nat /\ nops <= nops' /\ \A o \in Ops : o \in Nat
  BY DEF TypeOK, Ops
<1>6. Unstarted'
  <2>1. \A o \in Ops : o > nops' => o > nops
    BY <1>5
  <2>2. \A i \in Depth : stack[i].op <= nops'
    <3>1. \A i \in Depth : stack[i].op \in Nat
      BY FrameFacts, BoundsAssumption DEF Ops
    <3>2. QED
      BY <1>5, <3>1 DEF Unstarted
  <2>3. \A i \in 1..Len(pending) : pending[i] <= nops'
    <3>1. \A i \in 1..Len(pending) : pending[i] \in Nat
      BY FrameFacts DEF Ops
    <3>2. QED
      BY <1>5, <3>1 DEF Unstarted
  <2>4. QED
    BY <1>2, <2>1, <2>2, <2>3 DEF Unstarted
<1>7. \A o \in Ops : o <= nops \/ (cookie[o].st = "none" /\ inflight[o] = {})
  <2>1. \A o \in Ops : o <= nops \/ o > nops
    BY <1>5
  <2>2. \A o \in Ops : o > nops => cookie[o].st = "none" /\ inflight[o] = {}
    BY DEF Unstarted
  <2>3. QED
    BY <2>1, <2>2, Zenon
<1>8. Owed'
  BY <1>4, <1>7 DEF Owed, OwedTo, Live, Cancelled
<1>9. FramesHold'
  <2>1. SUFFICES ASSUME NEW i \in Depth, OfCookie(stack[i]) PROVE Holds(stack[i])'
    BY <1>2, <1>3 DEF FramesHold, Holds, OfCookie, CookieFrames
  <2>2. Holds(stack[i]) /\ stack[i].op \in Ops /\ stack[i].op <= nops /\ stack'[i] = stack[i]
    BY <1>3, <2>1, FrameFacts DEF FramesHold, Unstarted
  <2>3. QED
    BY <2>2 DEF Holds, Live, Cancelled, Counted
<1>10. FramesNest'
  BY <1>2 DEF FramesNest, OfCookie
<1>11. LoopOutermost'
  <2>1. f.fn \in LoopFrames => n = 0
    BY FrameFacts
  <2>2. f.fn \in LoopFrames => n + 1 = 1
    BY <1>1, <2>1
  <2>3. QED
    BY <1>2, <2>2 DEF LoopOutermost, CancelsFront
<1>12. Cancelling' <=> Cancelling
  BY <1>2, <1>3 DEF Cancelling, CancelsFront
<1>13. QueueWaits'
  <2>1. \A i \in 1..Len(pending) : pending[i] \in Ops /\ pending[i] <= nops
    BY FrameFacts DEF Unstarted
  <2>2. SUFFICES ASSUME NEW i \in 1..Len(pending), i # 1 \/ ~Cancelling
                 PROVE  Waits(pending[i])'
    BY <1>12 DEF QueueWaits
  <2>3. Waits(pending[i]) /\ pending[i] \in Ops /\ shape'[pending[i]] = shape[pending[i]]
    BY <2>1, <2>2 DEF QueueWaits
  <2>4. \A j \in Depth' : OfCookie(stack[j])' => stack'[j].op # pending[i]
    BY <1>2, <2>3 DEF Waits, OfCookie
  <2>5. QED
    BY <2>3, <2>4 DEF Waits, Live, Cancelled, Counted
<1>14. QED
  BY <1>6, <1>8, <1>9, <1>10, <1>11, <1>13 DEF NoUseAfterDelete

\* One function of the event loop takes the place of another.
LEMMA ReplaceKeeps ==
  ASSUME TypeOK, CookieInv, TypeOK', stack # <<>>, Top.fn \in LoopFrames,
         NEW f \in Frame, stack' = Append(Callers, f),
         ~OfCookie(f), ~CancelsFront(f), ~CancelsFront(Top), f.op <= nops,
         UNCHANGED <<cookie, shape, nops, inflight, pending, misused>>
  PROVE  CookieInv'
<1> USE DEF CookieInv
<1>1. Len(stack) = 1
  BY CallersType DEF TypeOK, LoopOutermost, Depth, Top
<1>2. Len(stack') = 1 /\ stack'[1] = f
  BY <1>1, CallersType, AfterPush DEF TypeOK
<1>3. \A i \in Depth' : i = 1 /\ stack'[i] = f
  BY <1>2 DEF Depth
<1>4. \A o \in Ops : InQueue(o)' <=> InQueue(o)
  BY DEF InQueue
<1>5. Unstarted'
  BY <1>3 DEF Unstarted
<1>6. Owed'
  BY <1>4 DEF Owed, OwedTo, Live, Cancelled
<1>7. FramesHold'
  BY <1>3 DEF FramesHold, Holds, OfCookie, CookieFrames
<1>8. FramesNest'
  BY <1>3 DEF FramesNest, OfCookie
<1>9. LoopOutermost'
  BY <1>3 DEF LoopOutermost, CancelsFront
<1>10. ~Cancelling
  BY <1>1 DEF Cancelling, CancelsFront, Depth, Top
<1>11. QueueWaits'
  BY <1>3, <1>10 DEF QueueWaits, Waits, Live, Cancelled, Counted, OfCookie
<1>12. QED
  BY <1>5, <1>6, <1>7, <1>8, <1>9, <1>11 DEF NoUseAfterDelete

-----------------------------------------------------------------------------
(* Steps that start or end an answer. *)

\* The callback returns to a function of the Cookie, which may delete it.
LEMMA ReturnKeeps ==
  ASSUME TypeOK, CookieInv, TypeOK', ReturnProgress \/ ReturnFinal
  PROVE  CookieInv'
<1> USE DEF CookieInv
<1> DEFINE n == Len(stack) - 1
           o == Top.op
<1>1. /\ stack # <<>> /\ stack' = Callers /\ Top.fn \in {"progress", "final"}
      /\ UNCHANGED <<inflight, pending, shape, nops, misused>>
      /\ cookie' = cookie \/ Delete(o)
      /\ Top.fn = "progress" => cookie' = cookie \/ cookie[o].remaining = 0
  BY DEF ReturnProgress, ReturnFinal, OnTop, handle, library
<1>2. /\ n \in Nat /\ Len(stack) = n + 1 /\ Len(stack') = n
      /\ \A i \in 1..n : stack'[i] = stack[i]
  BY <1>1, CallersType DEF TypeOK
<1>3. /\ \A i \in Depth' : i \in Depth /\ i < n + 1 /\ stack'[i] = stack[i]
      /\ n + 1 \in Depth /\ Top = stack[n + 1]
  BY <1>2 DEF Depth, Top
<1>4. CASE UNCHANGED cookie
  <2>1. ~CancelsFront(Top)
    BY <1>1 DEF CancelsFront
  <2>2. QED
    BY <1>1, <1>4, <2>1, PopKeeps
<1>5. CASE Delete(o) /\ (Top.fn = "progress" => cookie[o].remaining = 0)
  <2>1. o \in Ops /\ Holds(Top) /\ o <= nops
    BY <1>1, <1>3, FrameFacts DEF FramesHold, OfCookie, CookieFrames, Unstarted
  <2>2. inflight[o] = {}
    <3>1. CASE Top.fn = "final"
      BY <2>1, <3>1 DEF Holds
    <3>2. CASE Top.fn = "progress" /\ inflight[o] # {}
      <4>1. /\ IsFiniteSet(inflight[o]) /\ Cardinality(inflight[o]) = 0
        BY <1>5, <2>1, <3>2 DEF Holds, Owed, OwedTo
      <4>2. QED
        BY <3>2, <4>1, FS_EmptySet
    <3>3. QED
      BY <1>1, <3>1, <3>2
  <2>3. /\ \A p \in Ops : p # o => cookie'[p] = cookie[p]
        /\ cookie'[o] = [cookie[o] EXCEPT !.st = "deleted"]
    BY <1>5, <2>1 DEF Delete, TypeOK
  <2>4. /\ cookie'[o].isCancelled = cookie[o].isCancelled
        /\ cookie'[o].remaining = cookie[o].remaining
        /\ cookie'[o].st = "deleted"
    BY <2>1, <2>3 DEF TypeOK, CookieRec
  <2>5. \A p \in Ops : InQueue(p)' <=> InQueue(p)
    BY <1>1 DEF InQueue
  <2>6. Unstarted'
    <3>1. ~(o > nops)
      BY <2>1 DEF TypeOK, Ops
    <3>2. QED
      BY <1>1, <1>3, <2>3, <3>1 DEF Unstarted
  <2>7. Owed'
    BY <1>1, <2>2, <2>3, <2>5 DEF Owed, OwedTo, Live, Cancelled
  <2>8. FramesHold'
    <3>1. SUFFICES ASSUME NEW i \in Depth', OfCookie(stack[i]) PROVE Holds(stack[i])'
      BY <1>3 DEF FramesHold, Holds, OfCookie, CookieFrames
    <3>2. Holds(stack[i]) /\ stack[i].op \in Ops /\ stack'[i] = stack[i]
      BY <1>3, <3>1, FrameFacts DEF FramesHold
    <3>3. CASE stack[i].op # o
      BY <1>1, <2>3, <3>2, <3>3 DEF Holds, Live, Cancelled, Counted
    <3>4. CASE stack[i].op = o
      <4>1. stack[i].fn = "cancel"
        BY <1>1, <1>3, <3>1, <3>4 DEF FramesNest, OfCookie, CookieFrames
      <4>2. Cancelled(o)
        BY <3>2, <3>4, <4>1 DEF Holds
      <4>3. Top.fn = "progress"
        <5>1. Top.fn = "final" => ~Cancelled(o)
          BY <2>1 DEF Holds
        <5>2. QED
          BY <1>1, <4>2, <5>1
      <4>4. Len(stack[i].keys) \in Nat
        BY <1>3, FrameFacts, LenProperties
      <4>5. stack[i].keys = <<>>
        <5>1. stack[i].keys # <<>> => Len(stack[i].keys) <= 0
          BY <1>5, <3>2, <3>4, <4>1, <4>3 DEF Holds
        <5>2. stack[i].keys # <<>> => Len(stack[i].keys) > 0
          BY <1>3, FrameFacts, EmptySeq
        <5>3. QED
          BY <4>4, <5>1, <5>2
      <4>6. QED
        BY <1>1, <2>4, <3>2, <3>4, <4>1, <4>2, <4>5 DEF Holds, Counted, Cancelled
    <3>5. QED
      BY <3>3, <3>4
  <2>9. FramesNest'
    BY <1>3 DEF FramesNest, OfCookie
  <2>10. LoopOutermost'
    BY <1>1, <1>3 DEF LoopOutermost, CancelsFront
  <2>11. Cancelling => Cancelling'
    <3>1. ~CancelsFront(Top)
      BY <1>1 DEF CancelsFront
    <3>2. \A i \in Depth : i = n + 1 \/ i \in Depth'
      <4>1. Depth = 1..(n + 1) /\ Depth' = 1..n
        BY <1>2 DEF Depth
      <4>2. n \in Nat
        BY <1>2
      <4> HIDE DEF n
      <4>3. QED
        BY <4>1, <4>2
    <3>3. QED
      BY <1>3, <3>1, <3>2 DEF Cancelling, CancelsFront
  <2>12. QueueWaits'
    <3>1. SUFFICES ASSUME NEW i \in 1..Len(pending), i # 1 \/ ~Cancelling
                   PROVE  Waits(pending[i])'
      BY <1>1, <2>11 DEF QueueWaits
    <3>2. Waits(pending[i]) /\ pending[i] \in Ops
      BY <3>1, FrameFacts DEF QueueWaits
    <3>3. pending[i] # o
      BY <1>1, <1>3, <3>2 DEF Waits, OfCookie, CookieFrames
    <3>4. \A j \in Depth' : OfCookie(stack[j])' => stack'[j].op # pending[i]
      BY <1>3, <3>2 DEF Waits, OfCookie
    <3>5. QED
      BY <1>1, <2>3, <3>2, <3>3, <3>4 DEF Waits, Live, Cancelled, Counted
  <2>13. QED
    BY <1>1, <2>6, <2>7, <2>8, <2>9, <2>10, <2>12 DEF NoUseAfterDelete
<1>6. QED
  BY <1>1, <1>4, <1>5 DEF ReturnFinal, OnTop

\* A step about operation o: it keeps the first n frames, none of which is
\* a frame of o's Cookie, and the others it leaves are.
LEMMA FocusKeeps ==
  ASSUME TypeOK, CookieInv, TypeOK', NEW o \in Ops, NEW n \in Nat,
         n <= Len(stack), n <= Len(stack'),
         \A i \in 1..n : /\ stack'[i] = stack[i]
                         /\ OfCookie(stack[i]) => stack[i].op # o,
         \A i \in Depth' : (i > n /\ OfCookie(stack'[i])) =>
                             stack'[i].op = o /\ Holds(stack[i])',
         \A i, j \in Depth' :
            (n < i /\ i < j /\ OfCookie(stack'[i]) /\ OfCookie(stack'[j])) =>
               stack'[i].fn = "cancel" /\ stack'[j].fn # "cancel",
         \A p \in Ops : p # o => /\ cookie'[p] = cookie[p] /\ inflight'[p] = inflight[p]
                                 /\ inflight[p] # {} => shape'[p] = shape[p]
                                 /\ Live(p) => shape'[p] = shape[p]
                                 /\ Cancelled(p) => shape'[p] = shape[p]
                                 /\ InQueue(p)' => InQueue(p),
         \A p \in Ops : p # o => (shape'[p].kind = "http" => inflight'[p] \subseteq {1}),
         OwedTo(o)'
  PROVE  Owed' /\ FramesHold' /\ FramesNest'
<1> USE DEF CookieInv
<1>1. \A i \in Depth' : i \in 1..n \/ i > n
  BY FrameFacts DEF Depth, TypeOK
<1>2. \A i \in 1..n : i \in Depth
  BY FrameFacts DEF Depth
<1>3. Owed'
  <2>1. SUFFICES ASSUME NEW p \in Ops, p # o PROVE OwedTo(p)'
    BY DEF Owed
  <2>2. OwedTo(p)
    BY DEF Owed
  <2>3. QED
    BY <2>1, <2>2 DEF OwedTo, Live, Cancelled
<1>4. FramesHold'
  <2>1. SUFFICES ASSUME NEW i \in 1..n, OfCookie(stack[i]) PROVE Holds(stack[i])'
    BY <1>1, <1>2 DEF FramesHold, Holds, OfCookie, CookieFrames
  <2>2. /\ Holds(stack[i]) /\ stack[i].op \in Ops /\ stack[i].op # o
        /\ stack'[i] = stack[i]
    BY <1>2, <2>1, FrameFacts DEF FramesHold
  <2>3. Cancelled(stack[i].op) \/ Live(stack[i].op)
    BY <2>1, <2>2 DEF Holds, OfCookie, CookieFrames
  <2>4. shape'[stack[i].op] = shape[stack[i].op]
    BY <2>2, <2>3
  <2>5. QED
    BY <2>2, <2>4 DEF Holds, Live, Cancelled, Counted
<1>5. FramesNest'
  <2>1. SUFFICES ASSUME NEW i \in Depth', NEW j \in Depth', i < j,
                        OfCookie(stack'[i]), OfCookie(stack'[j]),
                        stack'[i].op = stack'[j].op
                 PROVE  stack'[i].fn = "cancel" /\ stack'[j].fn # "cancel"
    BY DEF FramesNest, OfCookie
  <2>2. CASE i > n
    BY <2>1, <2>2
  <2>3. CASE i \in 1..n /\ j > n
    BY <2>1, <2>3
  <2>4. CASE i \in 1..n /\ j \in 1..n
    BY <1>2, <2>1, <2>4 DEF FramesNest
  <2>5. QED
    BY <1>1, <2>2, <2>3, <2>4
<1>6. QED
  BY <1>3, <1>4, <1>5

\* markProgress leaves the Cookie as it was but for what it has noted.
LEMMA NotedFields ==
  ASSUME NEW c \in CookieRec, NEW spooled, NEW k, NEW ok
  PROVE  /\ Noted(c, spooled, k, ok).st = c.st
         /\ Noted(c, spooled, k, ok).isCancelled = c.isCancelled
         /\ Noted(c, spooled, k, ok).remaining = c.remaining - 1
BY DEF Noted, CookieRec

\* What a handler of replies does to the Cookie, the stack and what is owed.
LEMMA DeliverEffect ==
  ASSUME TypeOK, CookieInv, NEW o \in Ops, NEW k \in inflight[o], NEW ok \in BOOLEAN,
         Deliver(o, k, ok, stack)
  PROVE  /\ UNCHANGED <<pending, shape, nops, misused>>
         /\ inflight' = [inflight EXCEPT ![o] = @ \ {k}]
         /\ \A p \in Ops : p # o => cookie'[p] = cookie[p]
         /\ cookie'[o].st = "live" /\ ~cookie'[o].isCancelled
         /\ shape[o].kind = "plain" => cookie'[o].remaining = cookie[o].remaining - 1
         /\ \/ stack' = stack
            \/ stack' = Append(stack, Call("progress", o)) /\ shape[o].kind = "plain"
            \/ stack' = Append(stack, Call("final", o)) /\ inflight'[o] = {}
<1> USE DEF CookieInv
<1>1. /\ inflight[o] # {} /\ Live(o) /\ ~Cancelled(o)
      /\ shape[o].kind = "http" => inflight[o] \subseteq {1}
  BY DEF Owed, OwedTo
<1>2. cookie[o] \in CookieRec /\ shape[o].kind \in Kinds
  BY ShapesAssumption DEF TypeOK
<1>3. /\ UNCHANGED <<pending, shape, nops>>
  BY DEF Deliver, handle
<1>4. CASE shape[o].kind = "plain"
  <2> DEFINE c == Noted(cookie[o], Spooled(o), k, ok)
  <2>1. HandleReply(o, k, ok, stack)
    BY <1>4 DEF Deliver, Streams
  <2>2. c.st = "live" /\ ~c.isCancelled /\ c.remaining = cookie[o].remaining - 1
    BY <1>1, <1>2, NotedFields DEF Live, Cancelled
  <2> HIDE DEF c
  <2>3. cookie' = [cookie EXCEPT ![o] = c] /\ misused' = misused
    BY <1>1, <2>1 DEF HandleReply, Progress, Use, c
  <2>4. stack' = stack \/ stack' = Append(stack, Call("progress", o))
    BY <2>1 DEF HandleReply, Progress
  <2>5. inflight' = [inflight EXCEPT ![o] = @ \ {k}]
    BY <2>1 DEF HandleReply
  <2>6. cookie'[o] = c /\ \A p \in Ops : p # o => cookie'[p] = cookie[p]
    BY <2>3 DEF TypeOK
  <2>7. QED
    BY <1>3, <1>4, <2>2, <2>3, <2>4, <2>5, <2>6
<1>5. CASE HandleData(o, k, ok, stack) /\ shape[o].kind # "plain"
  <2> DEFINE c == Updated(cookie[o], k, ok)
  <2>1. c.st = "live" /\ ~c.isCancelled
    BY <1>1, <1>2 DEF Updated, CookieRec, Live, Cancelled
  <2> HIDE DEF c
  <2>2. /\ cookie' = [cookie EXCEPT ![o] = c] /\ misused' = misused
        /\ stack' = stack /\ inflight' = [inflight EXCEPT ![o] = @ \ {k}]
    BY <1>1, <1>5 DEF HandleData, Use, c
  <2>3. cookie'[o] = c /\ \A p \in Ops : p # o => cookie'[p] = cookie[p]
    BY <2>2 DEF TypeOK
  <2>4. QED
    BY <1>3, <1>5, <2>1, <2>2, <2>3
<1>6. CASE /\ HandleLast(o, k, ok, stack) /\ shape[o].kind # "plain"
           /\ inflight[o] \subseteq {k}
  <2>1. /\ cookie' = [cookie EXCEPT ![o] = cookie[o]] /\ misused' = misused
        /\ stack' = Append(stack, Call("final", o))
        /\ inflight' = [inflight EXCEPT ![o] = @ \ {k}]
    BY <1>1, <1>6 DEF HandleLast, Answer, Use, Live
  <2>2. \A p \in Ops : cookie'[p] = cookie[p]
    BY <2>1 DEF TypeOK
  <2>3. inflight'[o] = {}
    BY <1>6, <2>1 DEF TypeOK
  <2>4. QED
    BY <1>1, <1>3, <1>6, <2>1, <2>2, <2>3 DEF Live, Cancelled
<1>7. shape[o].kind = "http" => inflight[o] \subseteq {k}
  BY <1>1
<1>8. QED
  BY <1>2, <1>4, <1>5, <1>6, <1>7 DEF Deliver, Streams, Kinds

\* A reply, delivered from the event loop or by lcb_destroy.
LEMMA DeliverKeeps ==
  ASSUME TypeOK, CookieInv, TypeOK', NEW o \in Ops, NEW k \in inflight[o],
         NEW ok \in BOOLEAN, stack = <<>> \/ Top.fn = "destroy",
         Deliver(o, k, ok, stack)
  PROVE  CookieInv'
<1> USE DEF CookieInv
<1> DEFINE n == Len(stack)
<1>1. /\ inflight[o] # {} /\ Live(o) /\ ~Cancelled(o) /\ ~InQueue(o)
      /\ shape[o].kind = "plain" =>
            IsFiniteSet(inflight[o]) /\ cookie[o].remaining = Cardinality(inflight[o])
      /\ shape[o].kind = "http" => inflight[o] \subseteq {1}
  BY DEF Owed, OwedTo
<1>2. \A i \in Depth : stack[i].fn = "destroy"
  <2>1. CASE stack = <<>>
    BY <2>1, FrameFacts DEF Depth
  <2>2. CASE stack # <<>> /\ Top.fn = "destroy"
    <3>1. Len(stack) \in Depth /\ Len(stack) = 1
      <4>1. Len(stack) \in Depth
        BY <2>2, FrameFacts DEF Depth
      <4>2. QED
        BY <2>2, <4>1 DEF Top, LoopOutermost, LoopFrames
    <3>2. QED
      BY <2>2, <3>1 DEF Depth, Top
  <2>3. QED
    BY <2>1, <2>2
<1>3. /\ UNCHANGED <<pending, shape, nops, misused>>
      /\ inflight'[o] = inflight[o] \ {k}
      /\ \A p \in Ops : p # o => cookie'[p] = cookie[p] /\ inflight'[p] = inflight[p]
      /\ cookie'[o].st = "live" /\ ~cookie'[o].isCancelled
      /\ shape[o].kind = "plain" => cookie'[o].remaining = cookie[o].remaining - 1
      /\ \/ stack' = stack
         \/ stack' = Append(stack, Call("progress", o)) /\ shape[o].kind = "plain"
         \/ stack' = Append(stack, Call("final", o)) /\ inflight'[o] = {}
  BY DeliverEffect DEF TypeOK
<1>4. /\ n \in Nat /\ Len(stack') \in {n, n + 1}
      /\ \A i \in 1..n : i \in Depth' /\ stack'[i] = stack[i]
      /\ Len(stack') = n + 1 =>
            \/ stack'[n + 1] = Call("progress", o) /\ shape[o].kind = "plain"
            \/ stack'[n + 1] = Call("final", o) /\ inflight'[o] = {}
  <2>1. n \in Nat
    BY FrameFacts
  <2>2. CASE stack' = stack
    BY <2>1, <2>2 DEF Depth
  <2>3. ASSUME NEW fn \in {"progress", "final"}, stack' = Append(stack, Call(fn, o))
        PROVE  /\ Len(stack') = n + 1 /\ stack'[n + 1] = Call(fn, o)
               /\ \A i \in 1..n : i \in Depth' /\ stack'[i] = stack[i]
    <3>1. Call(fn, o) \in Frame
      BY CallType DEF AppFrames
    <3>2. QED
      BY <2>1, <2>3, <3>1, AfterPush DEF Depth, TypeOK
  <2>4. QED
    BY <1>3, <2>1, <2>2, <2>3
<1> HIDE DEF n
<1>5. \A i \in Depth' : \/ i \in 1..n /\ i \in Depth
                        \/ i = n + 1 /\ Len(stack') = n + 1
  BY <1>4 DEF Depth, n
<1>6. \A p \in Ops : InQueue(p)' <=> InQueue(p)
  BY <1>3 DEF InQueue
<1>7. OwedTo(o)'
  <2>1. shape[o].kind = "plain" =>
           IsFiniteSet(inflight'[o]) /\ cookie'[o].remaining = Cardinality(inflight'[o])
    <3>1. IsFiniteSet(inflight[o]) => /\ IsFiniteSet(inflight[o] \ {k})
                                      /\ Cardinality(inflight[o] \ {k})
                                           = Cardinality(inflight[o]) - 1
      BY FS_RemoveElement
    <3>2. QED
      BY <1>1, <1>3, <3>1
  <2>2. QED
    BY <1>1, <1>3, <1>6, <2>1 DEF OwedTo, Live, Cancelled
<1>8. Owed' /\ FramesHold' /\ FramesNest'
  <2>1. \A i \in 1..n : stack'[i] = stack[i] /\ ~OfCookie(stack[i])
    BY <1>2, <1>4 DEF OfCookie, CookieFrames, Depth, n
  <2>2. \A i \in Depth' : i > n => i = n + 1 /\ Len(stack') = n + 1
    BY <1>4, <1>5
  <2>3. \A i \in Depth' : i > n => stack'[i].op = o /\ Holds(stack[i])'
    BY <1>3, <1>4, <2>2 DEF Holds, Live, Cancelled, Call
  <2>4. n <= Len(stack) /\ n <= Len(stack')
    BY <1>4 DEF n
  <2>5. \A p \in Ops : shape'[p].kind = "http" => inflight'[p] \subseteq {1}
    BY <1>1, <1>3 DEF Owed, OwedTo
  <2>6. \A i, j \in Depth' : ~(n < i /\ i < j)
    <3>1. \A i \in Depth' : i \in Int
      BY DEF Depth
    <3>2. QED
      BY <1>4, <2>2, <3>1
  <2>7. QED
    BY <1>3, <1>4, <1>6, <1>7, <2>1, <2>2, <2>3, <2>4, <2>5, <2>6, FocusKeeps
<1>9. Unstarted'
  <2>1. o <= nops /\ ~(o > nops)
    BY <1>1 DEF Unstarted, TypeOK, Ops
  <2>2. \A i \in Depth' : stack'[i].op <= nops
    BY <1>4, <1>5, <2>1 DEF Unstarted, Call
  <2>3. QED
    BY <1>3, <2>1, <2>2 DEF Unstarted
<1>10. LoopOutermost'
  <2>1. \A i \in Depth' : \/ i \in Depth /\ stack'[i] = stack[i]
                          \/ stack'[i].fn \notin LoopFrames /\ ~CancelsFront(stack'[i])
    BY <1>4, <1>5 DEF Call, LoopFrames, CancelsFront
  <2>2. QED
    BY <1>3, <2>1 DEF LoopOutermost, CancelsFront
<1>11. QueueWaits'
  <2>1. ~Cancelling
    BY <1>2 DEF Cancelling, CancelsFront
  <2>2. SUFFICES ASSUME NEW i \in 1..Len(pending) PROVE Waits(pending[i])'
    BY <1>3 DEF QueueWaits
  <2>3. Waits(pending[i]) /\ pending[i] \in Ops /\ pending[i] # o
    BY <1>1, <2>1, <2>2, FrameFacts DEF QueueWaits
  <2>4. \A j \in Depth' : OfCookie(stack[j])' => stack'[j].op # pending[i]
    BY <1>4, <1>5, <2>3 DEF Waits, OfCookie, Call
  <2>5. QED
    BY <1>3, <2>3, <2>4 DEF Waits, Live, Cancelled, Counted
<1>12. QED
  BY <1>3, <1>8, <1>9, <1>10, <1>11 DEF NoUseAfterDelete

\* One turn of the loop of Cookie::cancel.
LEMMA CancelKeyKeeps ==
  ASSUME TypeOK, CookieInv, TypeOK', CancelKey, NEW o \in Ops, Top.op = o
  PROVE  CookieInv'
<1> USE DEF CookieInv
<1> DEFINE n == Len(stack) - 1
           k == Head(Top.keys)
           c == Noted(cookie[o], Spooled(o), k, FALSE)
           rest == [Top EXCEPT !.keys = Tail(Top.keys)]
<1>1. /\ stack # <<>> /\ Top.fn = "cancel" /\ Top.keys # <<>>
      /\ UNCHANGED <<inflight, pending, shape, nops>>
      /\ Progress(o, k, FALSE, FALSE, Append(Callers, rest))
  BY DEF CancelKey, OnTop, handle, library
<1>2. /\ n \in Nat /\ n + 1 = Len(stack) /\ Callers \in Seq(Frame) /\ Len(Callers) = n
      /\ \A i \in 1..n : Callers[i] = stack[i]
      /\ n + 1 \in Depth /\ Top = stack[n + 1] /\ Top \in Frame
      /\ \A i \in 1..n : i \in Depth /\ i < n + 1
  <2>1. /\ Len(stack) \in Nat \ {0} /\ Top \in Frame
        /\ Callers \in Seq(Frame) /\ Len(Callers) = Len(stack) - 1
        /\ \A i \in 1..(Len(stack) - 1) : Callers[i] = stack[i]
    BY <1>1, CallersType DEF TypeOK
  <2>2. n \in Nat /\ n + 1 = Len(stack)
    BY <2>1
  <2>3. Depth = 1..(n + 1) /\ Top = stack[n + 1]
    BY <2>2 DEF Depth, Top
  <2>4. \A i \in 1..n : i \in 1..(n + 1) /\ i < n + 1
    BY <2>2
  <2>5. n + 1 \in 1..(n + 1)
    BY <2>2
  <2>6. QED
    BY <2>1, <2>2, <2>3, <2>4, <2>5
<1>3. /\ o \in Ops /\ o <= nops /\ Top.keys \in Seq(Nat)
      /\ Counted(o) /\ Cancelled(o) /\ Live(o)
      /\ cookie[o].remaining >= Len(Top.keys)
  <2>1. Holds(Top)
    BY <1>2 DEF FramesHold
  <2>2. QED
    BY <1>1, <1>2, <2>1, FrameFacts DEF Holds, OfCookie, CookieFrames, Unstarted
<1>4. inflight[o] = {}
  BY <1>3 DEF Owed, OwedTo
<1>5. /\ rest \in Frame /\ rest.fn = "cancel" /\ rest.op = o /\ rest.keys = Tail(Top.keys)
      /\ Len(rest.keys) = Len(Top.keys) - 1 /\ Len(rest.keys) \in Nat
  <2>1. Tail(Top.keys) \in Seq(Nat) /\ Len(Tail(Top.keys)) = Len(Top.keys) - 1
        /\ Len(Top.keys) \in Nat \ {0}
    BY <1>1, <1>3, TailType
  <2>2. rest \in Frame /\ rest.fn = "cancel" /\ rest.op = o /\ rest.keys = Tail(Top.keys)
    BY <1>1, <1>2, <1>3, <2>1 DEF Frame, CookieFrames
  <2>3. QED
    BY <2>1, <2>2
<1>6. /\ c.st = "live" /\ c.isCancelled
      /\ c.remaining = cookie[o].remaining - 1
  <2>1. cookie[o] \in CookieRec
    BY <1>3 DEF TypeOK
  <2> HIDE DEF k
  <2>2. /\ c.st = cookie[o].st /\ c.isCancelled = cookie[o].isCancelled
        /\ c.remaining = cookie[o].remaining - 1
    BY <2>1 DEF Noted, CookieRec
  <2>3. QED
    BY <1>3, <2>2 DEF Live, Cancelled
<1> HIDE DEF c, rest, n
<1>7. /\ cookie' = [cookie EXCEPT ![o] = c] /\ misused' = misused
      /\ \/ stack' = Append(Callers, rest)
         \/ stack' = Append(Append(Callers, rest), Call("progress", o))
  <2>1. cookie' = [cookie EXCEPT ![o] = c]
    BY <1>1 DEF Progress, c
  <2>2. misused' = misused
    BY <1>1, <1>3, <1>6 DEF Progress, Use, c
  <2>3. \/ stack' = Append(Callers, rest)
        \/ stack' = Append(Append(Callers, rest), Call("progress", o))
    BY <1>1 DEF Progress
  <2>4. QED
    BY <2>1, <2>2, <2>3
<1>8. cookie'[o] = c /\ \A p \in Ops : p # o => cookie'[p] = cookie[p]
  BY <1>3, <1>7 DEF TypeOK
<1>9. /\ Len(stack') \in {n + 1, n + 2}
      /\ \A i \in 1..n : i \in Depth' /\ stack'[i] = stack[i]
      /\ n + 1 \in Depth' /\ stack'[n + 1] = rest
      /\ Len(stack') = n + 2 => stack'[n + 2] = Call("progress", o)
  <2> DEFINE base == Append(Callers, rest)
  <2>1. /\ base \in Seq(Frame) /\ Len(base) = n + 1 /\ base[n + 1] = rest
        /\ \A i \in 1..n : base[i] = stack[i]
    BY <1>2, <1>5, AfterPush
  <2> HIDE DEF base
  <2>2. CASE stack' = base
    BY <1>2, <2>1, <2>2 DEF Depth
  <2>3. CASE stack' = Append(base, Call("progress", o))
    <3>1. Call("progress", o) \in Frame
      BY <1>3, CallType DEF AppFrames
    <3>2. /\ Len(stack') = n + 2 /\ stack'[n + 2] = Call("progress", o)
          /\ \A i \in 1..(n + 1) : stack'[i] = base[i]
      BY <1>2, <2>1, <2>3, <3>1, AfterPush
    <3>3. QED
      BY <1>2, <2>1, <3>2 DEF Depth
  <2>4. QED
    BY <1>7, <2>2, <2>3 DEF base
<1>10. \A i \in Depth' : \/ i \in 1..n
                         \/ i = n + 1
                         \/ i = n + 2 /\ Len(stack') = n + 2
  BY <1>2, <1>9 DEF Depth
<1>11. \A p \in Ops : InQueue(p)' <=> InQueue(p)
  BY <1>1 DEF InQueue
<1>12. OwedTo(o)'
  <2>1. inflight'[o] = {}
    BY <1>1, <1>4
  <2>2. QED
    BY <2>1 DEF OwedTo
<1>13. Owed' /\ FramesHold' /\ FramesNest'
  <2>1. \A i \in 1..n : /\ stack'[i] = stack[i]
                        /\ OfCookie(stack[i]) => stack[i].op # o
    BY <1>1, <1>2, <1>9 DEF FramesNest, OfCookie, CookieFrames
  <2>2. \A i \in Depth' : i > n => (i = n + 1 \/ (i = n + 2 /\ Len(stack') = n + 2))
    BY <1>2, <1>10
  <2>3. shape' = shape /\ cookie'[o].st = "live" /\ cookie'[o].isCancelled
    BY <1>1, <1>6, <1>8
  <2>4. cookie'[o].remaining >= Len(rest.keys)
    <3>1. Len(Top.keys) \in Nat /\ cookie[o].remaining \in Int
      BY <1>3, EmptySeq DEF TypeOK, CookieRec
    <3>2. QED
      BY <1>3, <1>5, <1>6, <1>8, <3>1
  <2>5. \A i \in Depth' : i > n => stack'[i].op = o /\ Holds(stack[i])'
    <3>1. SUFFICES ASSUME NEW i \in Depth', i > n
                   PROVE  stack'[i].op = o /\ Holds(stack[i])'
      OBVIOUS
    <3>2. CASE i = n + 1
      <4>1. stack'[i].fn = "cancel" /\ stack'[i].op = o /\ stack'[i].keys = rest.keys
        BY <1>5, <1>9, <3>2
      <4>2. QED
        BY <1>3, <2>3, <2>4, <4>1 DEF Holds, Live, Cancelled, Counted
    <3>3. CASE i = n + 2 /\ Len(stack') = n + 2
      <4>1. stack'[i].fn = "progress" /\ stack'[i].op = o
        BY <1>9, <3>3 DEF Call
      <4>2. QED
        BY <2>3, <4>1 DEF Holds, Live, Cancelled
    <3>4. QED
      BY <2>2, <3>1, <3>2, <3>3
  <2>6. \A i, j \in Depth' : n < i /\ i < j => i = n + 1 /\ j = n + 2 /\ Len(stack') = n + 2
    <3>1. \A i \in Depth' : i \in Int
      BY DEF Depth
    <3>2. QED
      BY <1>2, <2>2, <3>1
  <2>7. \A i, j \in Depth' : n < i /\ i < j => stack'[i].fn = "cancel" /\ stack'[j].fn # "cancel"
    BY <1>5, <1>9, <2>6 DEF Call
  <2>8. n <= Len(stack) /\ n <= Len(stack')
    BY <1>2, <1>9
  <2>9. \A p \in Ops : shape'[p].kind = "http" => inflight'[p] \subseteq {1}
    BY <1>1 DEF Owed, OwedTo
  <2>10. \A p \in Ops : p # o => /\ cookie'[p] = cookie[p] /\ inflight'[p] = inflight[p]
                                 /\ inflight[p] # {} => shape'[p] = shape[p]
                                 /\ Live(p) => shape'[p] = shape[p]
                                 /\ Cancelled(p) => shape'[p] = shape[p]
                                 /\ InQueue(p)' => InQueue(p)
    BY <1>1, <1>8, <1>11
  <2>11. n \in Nat
    BY <1>2
  <2>12. QED
    BY <1>12, <2>1, <2>5, <2>7, <2>8, <2>9, <2>10, <2>11, FocusKeeps
<1>14. Unstarted'
  <2>1. ~(o > nops)
    BY <1>3 DEF TypeOK, Ops
  <2>2. \A i \in Depth' : stack'[i].op <= nops
    BY <1>2, <1>3, <1>5, <1>9, <1>10 DEF Unstarted, Call
  <2>3. QED
    BY <1>1, <1>8, <2>1, <2>2 DEF Unstarted
<1>15. \A i \in Depth' : \/ i \in 1..n /\ i \in Depth /\ stack'[i] = stack[i]
                         \/ stack'[i].fn \notin LoopFrames /\ ~CancelsFront(stack'[i])
  BY <1>2, <1>5, <1>9, <1>10 DEF Call, LoopFrames, CancelsFront
<1>16. LoopOutermost'
  BY <1>1, <1>15 DEF LoopOutermost, CancelsFront
<1>17. QueueWaits'
  <2>1. Cancelling => Cancelling'
    <3>1. ~CancelsFront(Top)
      BY <1>1 DEF CancelsFront
    <3>2. \A i \in Depth : i = n + 1 \/ i \in 1..n
      BY <1>2 DEF Depth
    <3>3. QED
      BY <1>2, <1>9, <3>1, <3>2 DEF Cancelling, CancelsFront
  <2>2. SUFFICES ASSUME NEW i \in 1..Len(pending), i # 1 \/ ~Cancelling
                 PROVE  Waits(pending[i])'
    BY <1>1, <2>1 DEF QueueWaits
  <2>3. Waits(pending[i]) /\ pending[i] \in Ops /\ pending[i] # o
    BY <1>3, <2>2, FrameFacts DEF QueueWaits, Waits
  <2>4. \A j \in Depth' : OfCookie(stack[j])' => stack'[j].op # pending[i]
    <3>1. \A j \in Depth' : \/ j \in Depth /\ stack'[j] = stack[j]
                            \/ stack'[j].op = o
      BY <1>2, <1>5, <1>9, <1>10 DEF Call
    <3>2. QED
      BY <2>3, <3>1 DEF Waits, OfCookie
  <2>5. QED
    BY <1>1, <1>8, <2>3, <2>4 DEF Waits, Live, Cancelled, Counted
<1>18. QED
  BY <1>1, <1>7, <1>13, <1>14, <1>16, <1>17 DEF NoUseAfterDelete
-----------------------------------------------------------------------------
(* Operations start. *)

\* Nothing is known of an operation before it is started.
LEMMA StartFacts ==
  ASSUME TypeOK, CookieInv, NEW o \in Ops, NEW s \in Shapes, Start(o, s)
  PROVE  /\ nops' = o /\ o > nops /\ ~(o <= nops)
         /\ shape'[o] = s /\ \A p \in Ops : p # o => shape'[p] = shape[p]
         /\ inflight[o] = {} /\ cookie[o].st = "none" /\ ~InQueue(o)
         /\ \A i \in Depth : stack[i].op # o /\ stack[i].op <= o
         /\ \A i \in 1..Len(pending) : pending[i] # o /\ pending[i] <= o
         /\ \A p \in Ops : p > o => p > nops
<1> USE DEF CookieInv
<1>1. nops' = o /\ o = nops + 1 /\ shape' = [shape EXCEPT ![o] = s] /\ nops \in Nat
  BY DEF Start, TypeOK
<1>2. o > nops /\ ~(o <= nops) /\ \A x \in Nat : x <= nops => x # o /\ x <= o
  BY <1>1
<1>3. \A i \in Depth : stack[i].op \in Nat /\ stack[i].op <= nops
  BY FrameFacts DEF Unstarted, Ops
<1>4. \A i \in 1..Len(pending) : pending[i] \in Nat /\ pending[i] <= nops
  BY FrameFacts DEF Unstarted, Ops
<1>5. inflight[o] = {} /\ cookie[o].st = "none"
  BY <1>2 DEF Unstarted
<1>6. ~InQueue(o)
  BY <1>2, <1>4, FrameFacts
<1>7. shape'[o] = s /\ \A p \in Ops : p # o => shape'[p] = shape[p]
  BY <1>1 DEF TypeOK
<1>8. \A p \in Ops : p > o => p > nops
  BY <1>1 DEF Ops
<1>9. QED
  BY <1>1, <1>2, <1>3, <1>4, <1>5, <1>6, <1>7, <1>8

\* A new cookie, and what libcouchbase owes for it.
LEMMA NewFacts ==
  ASSUME NEW s \in Shapes
  PROVE  /\ s.kind \in Kinds /\ s.nkeys \in Nat \ {0}
         /\ NewCookie(s) \in CookieRec
         /\ NewCookie(s).st = "live" /\ ~NewCookie(s).isCancelled
         /\ s.kind \in {"plain", "observe"} => NewCookie(s).remaining = s.nkeys
         /\ s.kind = "http" => Outstanding(s) \subseteq {1}
         /\ s.kind = "plain" =>
              IsFiniteSet(Outstanding(s)) /\ Cardinality(Outstanding(s)) = s.nkeys
<1>1. s.kind \in Kinds /\ s.nkeys \in Nat \ {0} /\ (s.kind = "http" => s.nkeys = 1)
  BY ShapesAssumption
<1>2. NewCookie(s) \in CookieRec
  BY NewCookieType
<1>3. /\ NewCookie(s).st = "live" /\ ~NewCookie(s).isCancelled
      /\ s.kind \in {"plain", "observe"} => NewCookie(s).remaining = s.nkeys
  BY DEF NewCookie
<1>4. s.kind \in {"plain", "http"} => Outstanding(s) = 1..s.nkeys
  BY DEF Outstanding, Streams
<1>5. s.kind = "http" => Outstanding(s) \subseteq {1}
  BY <1>1, <1>4
<1>6. /\ IsFiniteSet(1..s.nkeys) /\ Cardinality(1..s.nkeys) = s.nkeys
  <2>1. \A b \in Nat \ {0} : IsFiniteSet(1..b) /\ Cardinality(1..b) = b
    BY FS_Interval
  <2>2. QED
    BY <1>1, <2>1
<1>7. QED
  BY <1>1, <1>2, <1>3, <1>4, <1>5, <1>6

\* makeOperation hands the commands to libcouchbase, or queues them.
LEMMA TakenKeeps ==
  ASSUME TypeOK, CookieInv, TypeOK', NEW o \in Ops, NEW s \in Shapes,
         Enqueue(o, s) \/ Schedule(o, s)
  PROVE  CookieInv'
<1> USE DEF CookieInv
<1> DEFINE queued == pending' = Append(pending, o) /\ inflight' = inflight
           taken == pending' = pending /\ inflight' = [inflight EXCEPT ![o] = Outstanding(s)]
           c == NewCookie(s)
<1>1. /\ Start(o, s) /\ stack' = stack /\ misused' = misused
      /\ cookie' = [cookie EXCEPT ![o] = c]
      /\ queued \/ taken
  BY DEF Enqueue, Schedule, handle, library
<1>2. /\ nops' = o /\ o > nops /\ ~(o <= nops)
      /\ shape'[o] = s /\ \A p \in Ops : p # o => shape'[p] = shape[p]
      /\ inflight[o] = {} /\ cookie[o].st = "none" /\ ~InQueue(o)
      /\ \A i \in Depth : stack[i].op # o /\ stack[i].op <= o
      /\ \A i \in 1..Len(pending) : pending[i] # o /\ pending[i] <= o
      /\ \A p \in Ops : p > o => p > nops
  BY <1>1, StartFacts
<1>3. /\ c.st = "live" /\ ~c.isCancelled
      /\ s.kind \in {"plain", "observe"} => c.remaining = s.nkeys
      /\ s.kind = "http" => Outstanding(s) \subseteq {1}
      /\ s.kind = "plain" =>
           IsFiniteSet(Outstanding(s)) /\ Cardinality(Outstanding(s)) = s.nkeys
  BY NewFacts
<1> HIDE DEF c
<1>4. cookie'[o] = c /\ \A p \in Ops : p # o => cookie'[p] = cookie[p]
  BY <1>1 DEF TypeOK
<1>5. /\ Len(pending) \in Nat
      /\ \A i \in 1..Len(pending) : i \in 1..Len(pending') /\ pending'[i] = pending[i]
      /\ \A i \in 1..Len(pending') :
           \/ i \in 1..Len(pending) /\ pending'[i] = pending[i]
           \/ queued /\ i = Len(pending) + 1 /\ pending'[i] = o
  <2>1. pending \in Seq(Ops) /\ Len(pending) \in Nat
    BY FrameFacts DEF TypeOK
  <2>2. CASE taken
    BY <2>1, <2>2
  <2>3. CASE queued
    <3>1. /\ Len(pending') = Len(pending) + 1 /\ pending'[Len(pending) + 1] = o
          /\ \A i \in 1..Len(pending) : pending'[i] = pending[i]
      BY <2>1, <2>3, AppendProperties
    <3>2. QED
      BY <2>1, <2>3, <3>1
  <2>4. QED
    BY <1>1, <2>2, <2>3
<1>6. \A p \in Ops : p # o => (InQueue(p)' => InQueue(p))
  <2>1. \A p \in Ops : InQueue(p)' <=> \E i \in 1..Len(pending') : pending'[i] = p
    <3>1. pending' \in Seq(Ops)
      BY DEF TypeOK
    <3>2. DOMAIN pending' = 1..Len(pending')
      BY <3>1, LenProperties
    <3>3. QED
      BY <3>2 DEF InQueue
  <2>2. QED
    BY <1>5, <2>1, FrameFacts
<1>7. \A p \in Ops : p # o => inflight'[p] = inflight[p]
  BY <1>1 DEF TypeOK
<1>8. OwedTo(o)'
  <2>1. CASE queued
    BY <1>2, <2>1 DEF OwedTo
  <2>2. CASE taken
    <3>1. inflight'[o] = Outstanding(s) /\ ~InQueue(o)'
      BY <1>2, <2>2 DEF TypeOK, InQueue
    <3>2. QED
      BY <1>2, <1>3, <1>4, <3>1 DEF OwedTo, Live, Cancelled
  <2>3. QED
    BY <1>1, <2>1, <2>2
<1>9. \A p \in Ops : p # o => (shape'[p].kind = "http" => inflight'[p] \subseteq {1})
  BY <1>2, <1>7 DEF Owed, OwedTo
<1>10. Owed' /\ FramesHold' /\ FramesNest'
  <2> DEFINE n == Len(stack)
  <2>1. n \in Nat /\ n <= Len(stack) /\ n <= Len(stack')
    BY <1>1, FrameFacts
  <2>2. \A i \in Depth' : ~(i > n)
    BY <1>1, <2>1 DEF Depth
  <2>3. \A i \in 1..n : /\ stack'[i] = stack[i]
                        /\ OfCookie(stack[i]) => stack[i].op # o
    BY <1>1, <1>2 DEF Depth
  <2> HIDE DEF n
  <2>4. \A i, j \in Depth' : ~(n < i /\ i < j)
    <3>1. \A i \in Depth' : i \in Int
      BY DEF Depth
    <3>2. QED
      BY <2>1, <2>2, <3>1
  <2>5. \A p \in Ops : p # o => /\ cookie'[p] = cookie[p] /\ inflight'[p] = inflight[p]
                                /\ inflight[p] # {} => shape'[p] = shape[p]
                                /\ Live(p) => shape'[p] = shape[p]
                                /\ Cancelled(p) => shape'[p] = shape[p]
                                /\ InQueue(p)' => InQueue(p)
    BY <1>2, <1>4, <1>6, <1>7
  <2>6. QED
    BY <1>8, <1>9, <2>1, <2>2, <2>3, <2>4, <2>5, FocusKeeps
<1>11. Unstarted'
  BY <1>1, <1>2, <1>4, <1>5, <1>7 DEF Unstarted, Depth, Ops
<1>12. LoopOutermost'
  <2>1. \A i \in Depth' : i \in Depth /\ stack'[i] = stack[i]
    BY <1>1 DEF Depth
  <2>2. pending # <<>> => pending' # <<>> /\ pending'[1] = pending[1]
    <3>1. pending # <<>> => 1 \in 1..Len(pending)
      BY <1>5, FrameFacts
    <3>2. pending' = <<>> => Len(pending') = 0
      BY FrameFacts DEF TypeOK
    <3>3. QED
      BY <1>5, <3>1, <3>2
  <2>3. QED
    BY <2>1, <2>2 DEF LoopOutermost, CancelsFront
<1>13. QueueWaits'
  <2>1. Cancelling' <=> Cancelling
    BY <1>1 DEF Cancelling, CancelsFront, Depth
  <2>2. \A i, j \in 1..Len(pending') : pending'[i] = pending'[j] => i = j
    BY <1>2, <1>5 DEF QueueWaits
  <2>3. \A j \in Depth' : j \in Depth /\ stack'[j] = stack[j]
    BY <1>1 DEF Depth
  <2>4. Waits(o)'
    BY <1>2, <1>3, <1>4, <2>3 DEF Waits, Live, Cancelled, Counted
  <2>5. ASSUME NEW q \in Ops, q # o, Waits(q)
        PROVE  Waits(q)'
    BY <1>2, <1>4, <2>3, <2>5 DEF Waits, Live, Cancelled, Counted, OfCookie
  <2>6. ASSUME NEW i \in 1..Len(pending'), i # 1 \/ ~Cancelling'
        PROVE  \E q \in Ops : q = pending'[i] /\ Waits(q)'
    <3>1. CASE i \in 1..Len(pending) /\ pending'[i] = pending[i]
      <4>1. pending[i] \in Ops /\ pending[i] # o /\ Waits(pending[i])
        BY <1>2, <2>1, <2>6, <3>1, FrameFacts DEF QueueWaits
      <4>2. PICK q \in Ops : q = pending[i] /\ q # o /\ Waits(q)
        BY <4>1
      <4>3. QED
        BY <2>5, <3>1, <4>2
    <3>2. CASE pending'[i] = o
      BY <2>4, <3>2
    <3>3. QED
      BY <1>5, <3>1, <3>2
  <2>7. QED
    BY <2>2, <2>6 DEF QueueWaits
<1>14. QED
  BY <1>1, <1>10, <1>11, <1>12, <1>13 DEF NoUseAfterDelete

-----------------------------------------------------------------------------
(* Cancellations begin. *)

\* What Cookie::cancel and its overrides do when they are called.
LEMMA CancelEffect ==
  ASSUME TypeOK, NEW o \in Ops, NEW c \in CookieRec, NEW s \in Shapes,
         NEW keys \in Seq(Nat), NEW base \in Seq(Frame),
         c.st = "live", ~c.isCancelled, Cancel(o, c, s, keys, base)
  PROVE  \E f \in Frame :
           /\ stack' = Append(base, f) /\ f.op = o /\ misused' = misused
           /\ \A p \in Ops : p # o => cookie'[p] = cookie[p]
           /\ cookie'[o].st = "live" /\ cookie'[o].remaining = c.remaining
           /\ \/ /\ f.fn = "cancel" /\ f.keys = keys /\ cookie'[o].isCancelled
                 /\ s.kind \in {"plain", "observe"}
              \/ f.fn = "final" /\ ~cookie'[o].isCancelled
<1>1. CASE s.kind \in {"plain", "observe"}
  <2> DEFINE f == [fn |-> "cancel", op |-> o, keys |-> keys]
             d == [c EXCEPT !.isCancelled = TRUE]
  <2>1. /\ cookie' = [cookie EXCEPT ![o] = d] /\ misused' = misused
        /\ stack' = Append(base, f)
    BY <1>1 DEF Cancel, Use
  <2>2. f \in Frame /\ f.op = o /\ f.fn = "cancel" /\ f.keys = keys
    BY DEF Frame, CookieFrames
  <2>3. d.st = "live" /\ d.isCancelled /\ d.remaining = c.remaining
    BY DEF CookieRec
  <2> HIDE DEF d, f
  <2>4. cookie'[o] = d /\ \A p \in Ops : p # o => cookie'[p] = cookie[p]
    BY <2>1 DEF TypeOK
  <2>5. QED
    BY <1>1, <2>1, <2>2, <2>3, <2>4
<1>2. CASE s.kind \notin {"plain", "observe"}
  <2> DEFINE f == Call("final", o)
  <2>1. /\ cookie' = [cookie EXCEPT ![o] = c] /\ misused' = misused
        /\ stack' = Append(base, f)
    BY <1>2 DEF Cancel, Answer, Use
  <2>2. f \in Frame /\ f.op = o /\ f.fn = "final"
    BY DEF Call, Frame, CookieFrames
  <2> HIDE DEF f
  <2>3. cookie'[o] = c /\ \A p \in Ops : p # o => cookie'[p] = cookie[p]
    BY <2>1 DEF TypeOK
  <2>4. QED
    BY <2>1, <2>2, <2>3
<1>3. QED
  BY <1>1, <1>2

\* libcouchbase refuses the commands of an operation that just started.
LEMMA ScheduleFailKeeps ==
  ASSUME TypeOK, CookieInv, TypeOK', NEW o \in Ops, NEW s \in Shapes,
         ScheduleFail(o, s)
  PROVE  CookieInv'
<1> USE DEF CookieInv
<1> DEFINE n == Len(stack)
           c == NewCookie(s)
           keys == AllKeys(s)
<1>1. /\ Start(o, s) /\ Cancel(o, c, s, keys, stack)
      /\ UNCHANGED <<pending, inflight>>
  BY DEF ScheduleFail, handle, library
<1>2. /\ nops' = o /\ o > nops /\ ~(o <= nops)
      /\ shape'[o] = s /\ \A p \in Ops : p # o => shape'[p] = shape[p]
      /\ inflight[o] = {} /\ cookie[o].st = "none" /\ ~InQueue(o)
      /\ \A i \in Depth : stack[i].op # o /\ stack[i].op <= o
      /\ \A i \in 1..Len(pending) : pending[i] # o /\ pending[i] <= o
      /\ \A p \in Ops : p > o => p > nops
  BY <1>1, StartFacts
<1>3. /\ c \in CookieRec /\ c.st = "live" /\ ~c.isCancelled
      /\ s.kind \in {"plain", "observe"} => c.remaining = s.nkeys
      /\ s.nkeys \in Nat
  BY NewFacts
<1>4. keys \in Seq(Nat) /\ Len(keys) = s.nkeys
  <2>1. keys = [i \in 1..s.nkeys |-> i] /\ \A i \in 1..s.nkeys : i \in Nat
    BY DEF AllKeys
  <2>2. QED
    BY <1>3, <2>1
<1> HIDE DEF c, keys
<1>5. PICK f \in Frame :
           /\ stack' = Append(stack, f) /\ f.op = o /\ misused' = misused
           /\ \A p \in Ops : p # o => cookie'[p] = cookie[p]
           /\ cookie'[o].st = "live" /\ cookie'[o].remaining = c.remaining
           /\ \/ /\ f.fn = "cancel" /\ f.keys = keys /\ cookie'[o].isCancelled
                 /\ s.kind \in {"plain", "observe"}
              \/ f.fn = "final" /\ ~cookie'[o].isCancelled
  <2>1. stack \in Seq(Frame)
    BY DEF TypeOK
  <2>2. QED
    BY <1>1, <1>3, <1>4, <2>1, CancelEffect
<1>6. /\ n \in Nat /\ Len(stack') = n + 1 /\ stack'[n + 1] = f
      /\ \A i \in 1..n : stack'[i] = stack[i]
  BY <1>5, AfterPush DEF TypeOK
<1> HIDE DEF n
<1>7. \A i \in Depth' : \/ i \in 1..n /\ i \in Depth /\ stack'[i] = stack[i]
                        \/ i = n + 1 /\ stack'[i] = f
  <2>1. Depth = 1..n
    BY DEF Depth, n
  <2>2. Depth' = 1..(n + 1)
    BY <1>6 DEF Depth
  <2>3. \A i \in 1..(n + 1) : i \in 1..n \/ i = n + 1
    BY <1>6
  <2>4. QED
    BY <1>6, <2>1, <2>2, <2>3
<1>8. \A p \in Ops : InQueue(p)' <=> InQueue(p)
  BY <1>1 DEF InQueue
<1>9. OwedTo(o)'
  BY <1>1, <1>2 DEF OwedTo
<1>10. Owed' /\ FramesHold' /\ FramesNest'
  <2>1. \A i \in 1..n : i \in Depth
    BY DEF Depth, n
  <2>2. \A i \in 1..n : /\ stack'[i] = stack[i]
                        /\ OfCookie(stack[i]) => stack[i].op # o
    BY <1>2, <1>6, <2>1
  <2>3. \A i \in Depth' : i > n => i = n + 1 /\ stack'[i] = f
    BY <1>6, <1>7
  <2>4. \A i \in Depth' : i > n => stack'[i].op = o /\ Holds(stack[i])'
    <3>1. CASE f.fn = "cancel"
      <4>1. cookie'[o].remaining >= Len(f.keys)
        BY <1>3, <1>4, <1>5, <3>1
      <4>2. QED
        BY <1>2, <1>5, <2>3, <3>1, <4>1 DEF Holds, Live, Cancelled, Counted
    <3>2. CASE f.fn = "final"
      BY <1>1, <1>2, <1>5, <2>3, <3>2 DEF Holds, Live, Cancelled
    <3>3. QED
      BY <1>5, <3>1, <3>2
  <2>5. \A i, j \in Depth' : ~(n < i /\ i < j)
    <3>1. \A i \in Depth' : i \in Int
      BY DEF Depth
    <3>2. QED
      BY <1>6, <2>3, <3>1
  <2>6. n <= Len(stack) /\ n <= Len(stack')
    BY <1>6 DEF n
  <2>7. \A p \in Ops : p # o => (shape'[p].kind = "http" => inflight'[p] \subseteq {1})
    BY <1>1, <1>2 DEF Owed, OwedTo
  <2>8. \A p \in Ops : p # o => /\ cookie'[p] = cookie[p] /\ inflight'[p] = inflight[p]
                                /\ inflight[p] # {} => shape'[p] = shape[p]
                                /\ Live(p) => shape'[p] = shape[p]
                                /\ Cancelled(p) => shape'[p] = shape[p]
                                /\ InQueue(p)' => InQueue(p)
    BY <1>1, <1>2, <1>5, <1>8
  <2>9. QED
    BY <1>6, <1>9, <2>2, <2>4, <2>5, <2>6, <2>7, <2>8, FocusKeeps
<1>11. Unstarted'
  <2>1. o <= o
    BY DEF Ops
  <2>2. \A i \in Depth' : stack'[i].op <= o
    BY <1>2, <1>5, <1>7, <2>1
  <2>3. \A p \in Ops : p > o => p # o /\ cookie[p].st = "none" /\ inflight[p] = {}
    BY <1>2 DEF Unstarted, Ops
  <2>4. \A p \in Ops : p > nops' => cookie'[p].st = "none" /\ inflight'[p] = {}
    BY <1>1, <1>2, <1>5, <2>3
  <2>5. \A i \in 1..Len(pending') : pending'[i] <= nops'
    BY <1>1, <1>2
  <2>6. \A i \in Depth' : stack'[i].op <= nops'
    BY <1>2, <2>2
  <2>7. QED
    BY <2>4, <2>5, <2>6 DEF Unstarted
<1>12. \A i \in Depth' : \/ i \in Depth /\ stack'[i] = stack[i]
                         \/ stack'[i].fn \notin LoopFrames /\ ~CancelsFront(stack'[i])
  BY <1>5, <1>7 DEF LoopFrames, CancelsFront
<1>13. LoopOutermost'
  BY <1>1, <1>12 DEF LoopOutermost, CancelsFront
<1>14. QueueWaits'
  <2>1. Cancelling => Cancelling'
    <3>1. \A i \in Depth : i \in Depth' /\ stack'[i] = stack[i]
      BY <1>6 DEF Depth, n
    <3>2. QED
      BY <3>1 DEF Cancelling, CancelsFront
  <2>2. SUFFICES ASSUME NEW i \in 1..Len(pending), i # 1 \/ ~Cancelling
                 PROVE  Waits(pending[i])'
    BY <1>1, <2>1 DEF QueueWaits
  <2>3. Waits(pending[i]) /\ pending[i] \in Ops /\ pending[i] # o
    BY <1>2, <2>2, FrameFacts DEF QueueWaits
  <2>4. \A j \in Depth' : OfCookie(stack[j])' => stack'[j].op # pending[i]
    BY <1>5, <1>7, <2>3 DEF Waits, OfCookie
  <2>5. QED
    BY <1>1, <1>2, <1>5, <2>3, <2>4 DEF Waits, Live, Cancelled, Counted
<1>15. QED
  BY <1>5, <1>10, <1>11, <1>13, <1>14 DEF NoUseAfterDelete

-----------------------------------------------------------------------------
(* The queue runs. *)

\* The frame of runScheduledOperations is alone on the stack when it runs.
LEMMA DrainFacts ==
  ASSUME TypeOK, CookieInv, OnTop("runScheduled"), pending # <<>>
  PROVE  /\ Len(stack) = 1 /\ stack[1] = Top /\ Callers = <<>> /\ Top \in Frame
         /\ Len(pending) \in Nat \ {0}
         /\ Head(pending) \in Ops /\ Head(pending) = pending[1]
         /\ Head(pending) <= nops /\ ~(Head(pending) > nops)
         /\ \A i \in 2..Len(pending) : Waits(pending[i])
         /\ Top.op = NoOp => ~Cancelling /\ Waits(Head(pending))
<1> USE DEF CookieInv
<1>1. stack # <<>> /\ Top.fn = "runScheduled"
  BY DEF OnTop
<1>2. Len(stack) \in Depth
  BY <1>1, FrameFacts DEF Depth
<1>3. Len(stack) = 1 /\ stack[1] = Top
  BY <1>1, <1>2 DEF LoopOutermost, LoopFrames, Top
<1>4. Callers = <<>>
  BY <1>1, <1>3, CallersType, EmptySeq DEF TypeOK
<1>5. /\ Len(pending) \in Nat \ {0} /\ 1 \in 1..Len(pending)
      /\ Head(pending) = pending[1]
  <2>1. pending \in Seq(Ops) /\ pending # <<>>
    BY DEF TypeOK
  <2>2. QED
    BY <2>1, EmptySeq, LenProperties
<1>6. Head(pending) \in Ops /\ Head(pending) <= nops /\ ~(Head(pending) > nops)
  <2>1. Head(pending) \in Ops /\ Head(pending) <= nops
    BY <1>5, FrameFacts DEF Unstarted
  <2>2. QED
    BY <2>1 DEF TypeOK, Ops
<1>7. \A i \in 2..Len(pending) : Waits(pending[i])
  BY <1>5 DEF QueueWaits
<1>8. Top.op = NoOp => ~Cancelling /\ Waits(Head(pending))
  <2>1. Top.op = NoOp => ~Cancelling
    BY <1>3 DEF Cancelling, CancelsFront, Depth
  <2>2. QED
    BY <1>5, <2>1 DEF QueueWaits
<1>9. Top \in Frame
  BY <1>1, <1>3, FrameFacts DEF Depth
<1>10. QED
  BY <1>3, <1>4, <1>5, <1>6, <1>7, <1>8, <1>9

\* The queue without its front.
LEMMA TailFacts ==
  ASSUME TypeOK, CookieInv, pending # <<>>, pending' = Tail(pending)
  PROVE  /\ \A i \in 1..Len(pending') : /\ i + 1 \in 2..Len(pending)
                                        /\ pending'[i] = pending[i + 1]
                                        /\ pending'[i] \in Ops
                                        /\ pending'[i] <= nops
                                        /\ pending'[i] # Head(pending)
         /\ \A p \in Ops : InQueue(p)' => InQueue(p) /\ p # Head(pending)
         /\ \A i, j \in 1..Len(pending') : pending'[i] = pending'[j] => i = j
<1> USE DEF CookieInv
<1>1. /\ pending \in Seq(Ops) /\ Len(pending) \in Nat \ {0}
      /\ Head(pending) = pending[1]
      /\ pending' \in Seq(Ops) /\ Len(pending') = Len(pending) - 1
      /\ \A i \in 1..Len(pending') : pending'[i] = pending[i + 1]
  <2>1. pending \in Seq(Ops) /\ pending # <<>>
    BY DEF TypeOK
  <2>2. QED
    BY <2>1, EmptySeq, LenProperties, HeadTailProperties
<1>2. \A i \in 1..Len(pending') : i \in Int /\ i + 1 \in 2..Len(pending)
                                  /\ i + 1 \in 1..Len(pending) /\ i + 1 # 1
  BY <1>1
<1>3. 1 \in 1..Len(pending)
  BY <1>1
<1>4. \A i \in 1..Len(pending') : /\ pending'[i] \in Ops /\ pending'[i] <= nops
                                  /\ pending'[i] # Head(pending)
  BY <1>1, <1>2, <1>3, FrameFacts DEF Unstarted, QueueWaits
<1>5. \A i, j \in 1..Len(pending') : pending'[i] = pending'[j] => i = j
  <2>1. SUFFICES ASSUME NEW i \in 1..Len(pending'), NEW j \in 1..Len(pending'),
                        pending'[i] = pending'[j]
                 PROVE  i = j
    OBVIOUS
  <2>2. i + 1 = j + 1
    BY <1>1, <1>2, <2>1 DEF QueueWaits
  <2>3. QED
    BY <1>2, <2>2
<1>6. \A p \in Ops : InQueue(p)' => InQueue(p) /\ p # Head(pending)
  <2>1. DOMAIN pending' = 1..Len(pending')
    BY <1>1, LenProperties
  <2>2. SUFFICES ASSUME NEW p \in Ops, InQueue(p)'
                 PROVE  InQueue(p) /\ p # Head(pending)
    OBVIOUS
  <2>3. PICK i \in 1..Len(pending') : pending'[i] = p
    BY <2>1, <2>2 DEF InQueue
  <2>4. pending[i + 1] = p /\ i + 1 \in 1..Len(pending) /\ p # Head(pending)
    BY <1>1, <1>2, <1>4, <2>3
  <2>5. QED
    BY <2>4, FrameFacts
<1>7. QED
  BY <1>1, <1>2, <1>4, <1>5, <1>6

\* What remains in the queue still waits, if only the front was touched.
LEMMA StillWaits ==
  ASSUME NEW o \in Ops, NEW q \in Ops, q # o, Waits(q), shape' = shape,
         \A p \in Ops : p # o => cookie'[p] = cookie[p],
         \A j \in Depth' : OfCookie(stack'[j]) => stack'[j].op = o
  PROVE  Waits(q)'
BY DEF Waits, Live, Cancelled, Counted, OfCookie

\* libcouchbase takes the front of the queue.
LEMMA RunNextKeeps ==
  ASSUME TypeOK, CookieInv, TypeOK', RunNext
  PROVE  CookieInv'
<1> USE DEF CookieInv
<1>1. PICK o \in Ops : o = Head(pending)
  BY DrainFacts DEF RunNext
<1>2. /\ OnTop("runScheduled") /\ Top.op = NoOp /\ pending # <<>>
      /\ inflight' = [inflight EXCEPT ![o] = Outstanding(shape[o])]
      /\ pending' = Tail(pending)
      /\ UNCHANGED <<nops, shape, cookie, misused, stack>>
  BY <1>1 DEF RunNext, answers
<1>3. /\ Len(stack) = 1 /\ stack[1] = Top /\ o <= nops /\ ~(o > nops)
      /\ \A i \in 2..Len(pending) : Waits(pending[i])
      /\ ~Cancelling /\ Waits(o)
  BY <1>1, <1>2, DrainFacts
<1>4. \A i \in Depth' : i = 1 /\ i \in Depth /\ stack'[i] = stack[i]
                        /\ stack'[i].fn = "runScheduled" /\ ~CancelsFront(stack'[i])
  BY <1>2, <1>3 DEF Depth, OnTop, CancelsFront
<1>5. /\ \A i \in 1..Len(pending') : /\ i + 1 \in 2..Len(pending)
                                     /\ pending'[i] = pending[i + 1]
                                     /\ pending'[i] \in Ops
                                     /\ pending'[i] <= nops
                                     /\ pending'[i] # o
      /\ \A p \in Ops : InQueue(p)' => InQueue(p) /\ p # o
      /\ \A i, j \in 1..Len(pending') : pending'[i] = pending'[j] => i = j
  BY <1>1, <1>2, TailFacts
<1>6. /\ inflight'[o] = Outstanding(shape[o])
      /\ \A p \in Ops : p # o => inflight'[p] = inflight[p]
  BY <1>2 DEF TypeOK
<1>7. Unstarted'
  BY <1>2, <1>3, <1>4, <1>5, <1>6 DEF Unstarted
<1>8. Owed'
  <2>1. OwedTo(o)'
    <3>1. shape[o] \in Shapes
      BY DEF TypeOK
    <3>2. shape[o].kind = "http" => Outstanding(shape[o]) \subseteq {1}
      BY <3>1, NewFacts
    <3>3. shape[o].kind = "plain" => /\ IsFiniteSet(Outstanding(shape[o]))
                                     /\ Cardinality(Outstanding(shape[o])) = shape[o].nkeys
      BY <3>1, NewFacts
    <3>4. Live(o) /\ ~Cancelled(o) /\ (Counted(o) => cookie[o].remaining = shape[o].nkeys)
      BY <1>3 DEF Waits
    <3>5. QED
      BY <1>2, <1>5, <1>6, <3>2, <3>3, <3>4 DEF OwedTo, Live, Cancelled, Counted
  <2>2. ASSUME NEW p \in Ops, p # o PROVE OwedTo(p)'
    BY <1>2, <1>5, <1>6, <2>2 DEF Owed, OwedTo, Live, Cancelled
  <2>3. QED
    BY <2>1, <2>2 DEF Owed
<1>9. FramesHold' /\ FramesNest' /\ LoopOutermost'
  BY <1>4 DEF FramesHold, Holds, FramesNest, LoopOutermost, OfCookie, CookieFrames, CancelsFront
<1>10. QueueWaits'
  <2>1. SUFFICES ASSUME NEW i \in 1..Len(pending')
                 PROVE  \E q \in Ops : q = pending'[i] /\ Waits(q)'
    BY <1>5 DEF QueueWaits
  <2>2. PICK q \in Ops : q = pending'[i] /\ q # o /\ Waits(q)
    BY <1>3, <1>5
  <2>3. \A j \in Depth' : OfCookie(stack'[j]) => stack'[j].op = o
    BY <1>4 DEF OfCookie, CookieFrames
  <2>4. QED
    BY <1>2, <2>2, <2>3, StillWaits
<1>11. QED
  BY <1>2, <1>7, <1>8, <1>9, <1>10 DEF NoUseAfterDelete

\* libcouchbase refuses the front of the queue.
LEMMA RunNextFailKeeps ==
  ASSUME TypeOK, CookieInv, TypeOK', RunNextFail
  PROVE  CookieInv'
<1> USE DEF CookieInv
<1>1. PICK o \in Ops : o = Head(pending)
  BY DrainFacts DEF RunNextFail
<1> DEFINE g == Call("runScheduled", o)
           base == Append(Callers, g)
           keys == <<NoKey>>
<1>2. /\ OnTop("runScheduled") /\ Top.op = NoOp /\ pending # <<>>
      /\ Cancel(o, cookie[o], shape[o], keys, base)
      /\ UNCHANGED <<nops, shape, inflight, pending>>
  BY <1>1 DEF RunNextFail, handle, library
<1>3. /\ Len(stack) = 1 /\ stack[1] = Top /\ o <= nops /\ ~(o > nops) /\ o = pending[1]
      /\ Callers = <<>> /\ Len(pending) \in Nat \ {0}
      /\ \A i \in 2..Len(pending) : Waits(pending[i])
      /\ ~Cancelling /\ Waits(o)
  BY <1>1, <1>2, DrainFacts
<1>4. g \in Frame /\ g.fn = "runScheduled" /\ g.op = o /\ o # NoOp
  BY DEF Call, Frame, CookieFrames, AppFrames, NativeFrames, Ops
<1>5. base \in Seq(Frame) /\ Len(base) = 1 /\ base[1] = g
  <2>1. <<>> \in Seq(Frame) /\ Len(<<>>) = 0
    BY EmptySeq
  <2>2. QED
    BY <1>3, <1>4, <2>1, AfterPush
<1>6. keys \in Seq(Nat) /\ Len(keys) = 1
  OBVIOUS
<1> HIDE DEF g, base, keys
<1>7. /\ cookie[o] \in CookieRec /\ shape[o] \in Shapes
      /\ cookie[o].st = "live" /\ ~cookie[o].isCancelled
      /\ Counted(o) => cookie[o].remaining = shape[o].nkeys
      /\ shape[o].nkeys \in Nat \ {0}
  BY <1>3, ShapesAssumption DEF Waits, Live, Cancelled, TypeOK
<1>8. PICK f \in Frame :
           /\ stack' = Append(base, f) /\ f.op = o /\ misused' = misused
           /\ \A p \in Ops : p # o => cookie'[p] = cookie[p]
           /\ cookie'[o].st = "live" /\ cookie'[o].remaining = cookie[o].remaining
           /\ \/ /\ f.fn = "cancel" /\ f.keys = keys /\ cookie'[o].isCancelled
                 /\ shape[o].kind \in {"plain", "observe"}
              \/ f.fn = "final" /\ ~cookie'[o].isCancelled
  BY <1>2, <1>5, <1>6, <1>7, CancelEffect
<1>9. Len(stack') = 2 /\ stack'[1] = g /\ stack'[2] = f
  <2>1. /\ Len(Append(base, f)) = Len(base) + 1
        /\ \A i \in 1..Len(base) : Append(base, f)[i] = base[i]
        /\ Append(base, f)[Len(base) + 1] = f
    BY <1>5, AfterPush
  <2>2. QED
    BY <1>5, <1>8, <2>1
<1>10. \A i \in Depth' : (i = 1 /\ stack'[i] = g) \/ (i = 2 /\ stack'[i] = f)
  BY <1>9 DEF Depth
<1>11. /\ f.fn \in CookieFrames /\ f.fn \notin LoopFrames /\ ~CancelsFront(f)
  BY <1>8 DEF CookieFrames, LoopFrames, CancelsFront
<1>12. inflight[o] = {}
  <2>1. InQueue(o)
    BY <1>3, FrameFacts
  <2>2. QED
    BY <2>1 DEF Owed, OwedTo
<1>13. Unstarted'
  <2>1. \A i \in Depth' : stack'[i].op <= nops
    BY <1>3, <1>4, <1>8, <1>10
  <2>2. QED
    BY <1>2, <1>3, <1>8, <2>1 DEF Unstarted
<1>14. Owed'
  <2>1. \A p \in Ops : InQueue(p)' <=> InQueue(p)
    BY <1>2 DEF InQueue
  <2>2. QED
    BY <1>2, <1>8, <1>12, <2>1 DEF Owed, OwedTo, Live, Cancelled
<1>15. FramesHold'
  <2>1. Holds(stack[1])'
    BY <1>4, <1>9 DEF Holds
  <2>2. Holds(stack[2])'
    <3>1. CASE f.fn = "cancel"
      <4>1. cookie'[o].remaining >= Len(f.keys) /\ Counted(o)
        <5>1. Counted(o) /\ f.keys = keys
          BY <1>8, <3>1 DEF Counted
        <5>2. cookie'[o].remaining = shape[o].nkeys
          BY <1>7, <1>8, <5>1
        <5>3. shape[o].nkeys >= 1
          BY <1>7
        <5>4. Len(f.keys) = 1
          BY <1>6, <5>1
        <5>5. QED
          BY <5>1, <5>2, <5>3, <5>4
      <4>2. QED
        BY <1>2, <1>8, <1>9, <3>1, <4>1 DEF Holds, Live, Cancelled, Counted
    <3>2. CASE f.fn = "final"
      BY <1>2, <1>8, <1>9, <1>12, <3>2 DEF Holds, Live, Cancelled
    <3>3. QED
      BY <1>8, <3>1, <3>2
  <2>3. QED
    BY <1>10, <2>1, <2>2 DEF FramesHold
<1>16. FramesNest'
  BY <1>4, <1>10 DEF FramesNest, OfCookie, CookieFrames
<1>17. LoopOutermost'
  BY <1>2, <1>3, <1>4, <1>10, <1>11 DEF LoopOutermost, CancelsFront
<1>18. QueueWaits'
  <2>1. Cancelling'
    <3>1. 1 \in Depth'
      BY <1>9 DEF Depth
    <3>2. QED
      BY <1>4, <1>9, <3>1 DEF Cancelling, CancelsFront
  <2>2. SUFFICES ASSUME NEW i \in 1..Len(pending), i # 1
                 PROVE  \E q \in Ops : q = pending[i] /\ Waits(q)'
    BY <1>2, <2>1 DEF QueueWaits
  <2>3. i \in 2..Len(pending) /\ 1 \in 1..Len(pending)
    BY <1>3, <2>2
  <2>4. PICK q \in Ops : q = pending[i] /\ q # o /\ Waits(q)
    BY <1>3, <2>2, <2>3, FrameFacts DEF QueueWaits
  <2>5. \A j \in Depth' : OfCookie(stack'[j]) => stack'[j].op = o
    BY <1>4, <1>8, <1>10
  <2>6. QED
    BY <1>2, <1>8, <2>4, <2>5, StillWaits
<1>19. QED
  BY <1>8, <1>13, <1>14, <1>15, <1>16, <1>17, <1>18 DEF NoUseAfterDelete

\* The command that was cancelled leaves the queue.
LEMMA RunPopKeeps ==
  ASSUME TypeOK, CookieInv, TypeOK', RunPop
  PROVE  CookieInv'
<1> USE DEF CookieInv
<1> DEFINE g == Call("runScheduled", NoOp)
<1>1. /\ OnTop("runScheduled") /\ pending # <<>> /\ pending' = Tail(pending)
      /\ stack' = Append(Callers, g)
      /\ UNCHANGED <<nops, shape, inflight, cookie, misused>>
  BY DEF RunPop, library, answers
<1>2. /\ Callers = <<>> /\ \A i \in 2..Len(pending) : Waits(pending[i])
  BY <1>1, DrainFacts
<1>3. g \in Frame /\ g.fn = "runScheduled" /\ g.op = NoOp
  BY DEF Call, Frame, CookieFrames, AppFrames, NativeFrames
<1> HIDE DEF g
<1>4. Len(stack') = 1 /\ stack'[1] = g
  <2>1. <<>> \in Seq(Frame) /\ Len(<<>>) = 0
    BY EmptySeq
  <2>2. QED
    BY <1>1, <1>2, <1>3, <2>1, AfterPush
<1>5. \A i \in Depth' : i = 1 /\ stack'[i] = g
  BY <1>4 DEF Depth
<1>6. /\ \A i \in 1..Len(pending') : /\ i + 1 \in 2..Len(pending)
                                     /\ pending'[i] = pending[i + 1]
                                     /\ pending'[i] \in Ops
                                     /\ pending'[i] <= nops
                                     /\ pending'[i] # Head(pending)
      /\ \A p \in Ops : InQueue(p)' => InQueue(p) /\ p # Head(pending)
      /\ \A i, j \in 1..Len(pending') : pending'[i] = pending'[j] => i = j
  BY <1>1, TailFacts
<1>7. Unstarted'
  <2>1. 0 <= nops
    BY DEF TypeOK
  <2>2. QED
    BY <1>1, <1>3, <1>5, <1>6, <2>1 DEF Unstarted
<1>8. Owed'
  BY <1>1, <1>6 DEF Owed, OwedTo, Live, Cancelled
<1>9. FramesHold' /\ FramesNest' /\ LoopOutermost'
  BY <1>3, <1>5 DEF FramesHold, Holds, FramesNest, LoopOutermost, OfCookie, CookieFrames,
                    CancelsFront
<1>10. QueueWaits'
  <2>1. SUFFICES ASSUME NEW i \in 1..Len(pending')
                 PROVE  \E q \in Ops : q = pending'[i] /\ Waits(q)'
    BY <1>6 DEF QueueWaits
  <2>2. PICK q \in Ops : q = pending'[i] /\ Waits(q)
    BY <1>2, <1>6
  <2>3. Waits(q)'
    BY <1>1, <1>3, <1>5, <2>2 DEF Waits, Live, Cancelled, Counted, OfCookie, CookieFrames
  <2>4. QED
    BY <2>2, <2>3
<1>11. QED
  BY <1>1, <1>7, <1>8, <1>9, <1>10 DEF NoUseAfterDelete

-----------------------------------------------------------------------------
(* Every step. *)

\* Steps that leave alone everything the invariant is about.
LEMMA UnchangedKeeps ==
  ASSUME CookieInv, UNCHANGED <<cookie, inflight, pending, misused, stack, shape, nops>>
  PROVE  CookieInv'
<1> USE DEF CookieInv
<1>1. Unstarted' /\ FramesNest' /\ LoopOutermost'
  BY DEF Unstarted, FramesNest, LoopOutermost, CancelsFront, OfCookie, Depth
<1>2. Owed'
  BY DEF Owed, OwedTo, Live, Cancelled, InQueue
<1>3. FramesHold'
  BY DEF FramesHold, Holds, Live, Cancelled, Counted, Depth
<1>4. QueueWaits'
  BY DEF QueueWaits, Cancelling, CancelsFront, Waits, Live, Cancelled, Counted, OfCookie,
         Depth
<1>5. QED
  BY <1>1, <1>2, <1>3, <1>4 DEF NoUseAfterDelete

\* The calls of application code that is not a Cookie's callback, and of the
\* functions of the event loop.
LEMMA CallKeeps ==
  ASSUME TypeOK, CookieInv, TypeOK',
         \/ ConfigArrives \/ ErrorArrives \/ IdleRuns
         \/ \E o \in Ops, s \in Shapes : Bail(o, s)
  PROVE  CookieInv'
<1> USE DEF handle, library, answers
<1>1. nops \in Nat /\ 0 <= nops
  BY DEF TypeOK
<1>2. ASSUME NEW fn \in LoopFrames \cup {"errorEvent"},
             InLoop, stack' = Append(stack, Call(fn, NoOp)), fn # "runScheduled",
             UNCHANGED <<cookie, inflight, pending, misused, shape, nops>>
      PROVE  CookieInv'
  <2> DEFINE f == Call(fn, NoOp)
  <2>1. /\ f \in Frame /\ ~OfCookie(f) /\ ~CancelsFront(f) /\ f.op = 0
        /\ f.fn \in LoopFrames => stack = <<>>
    BY <1>2 DEF Call, Frame, CookieFrames, AppFrames, NativeFrames, LoopFrames, OfCookie,
                CancelsFront, InLoop
  <2> HIDE DEF f
  <2>2. nops' \in {nops, nops + 1} /\ f.op <= nops' /\ stack' = Append(stack, f)
    BY <1>1, <1>2, <2>1 DEF f
  <2>3. QED
    BY <1>2, <2>1, <2>2, PushKeeps
<1>3. CASE ConfigArrives
  <2>1. InLoop /\ UNCHANGED <<cookie, inflight, pending, misused, shape, nops>>
    BY <1>3 DEF ConfigArrives
  <2>2. stack' = stack \/ stack' = Append(stack, Call("connectCb", NoOp))
    BY <1>3 DEF ConfigArrives
  <2>3. QED
    BY <1>2, <2>1, <2>2, UnchangedKeeps DEF LoopFrames
<1>4. CASE ErrorArrives
  <2>1. InLoop /\ UNCHANGED <<cookie, inflight, pending, misused, shape, nops>>
    BY <1>4 DEF ErrorArrives
  <2>2. \/ stack' = stack \/ stack' = Append(stack, Call("errorCb", NoOp))
        \/ stack' = Append(stack, Call("errorEvent", NoOp))
    BY <1>4 DEF ErrorArrives
  <2>3. QED
    BY <1>2, <2>1, <2>2, UnchangedKeeps DEF LoopFrames
<1>5. CASE IdleRuns
  <2>1. InLoop /\ UNCHANGED <<cookie, inflight, pending, misused, shape, nops>>
    BY <1>5 DEF IdleRuns
  <2>2. stack' = Append(stack, Call("destroy", NoOp))
    BY <1>5 DEF IdleRuns
  <2>3. QED
    BY <1>2, <2>1, <2>2 DEF LoopFrames
<1>6. ASSUME NEW o \in Ops, NEW s \in Shapes, Bail(o, s)
      PROVE  CookieInv'
  <2> DEFINE f == Call("bailOut", o)
  <2>1. /\ f \in Frame /\ ~OfCookie(f) /\ ~CancelsFront(f) /\ f.op = o
        /\ f.fn \notin LoopFrames
    BY DEF Call, Frame, CookieFrames, AppFrames, NativeFrames, LoopFrames, OfCookie,
           CancelsFront
  <2>2. /\ nops' = nops + 1 /\ nops' = o /\ stack' = Append(stack, f)
        /\ shape' = [shape EXCEPT ![o] = s]
        /\ UNCHANGED <<cookie, inflight, pending, misused>>
    BY <1>6 DEF Bail, Start
  <2> HIDE DEF f
  <2>3. nops' \in {nops, nops + 1} /\ f.op <= nops'
    BY <2>1, <2>2 DEF Ops
  <2>4. \A p \in Ops : p <= nops => shape'[p] = shape[p]
    <3>1. ~(o <= nops)
      BY <1>1, <2>2
    <3>2. QED
      BY <2>2, <3>1 DEF TypeOK
  <2>5. QED
    BY <2>1, <2>2, <2>3, <2>4, PushKeeps
<1>7. QED
  BY <1>3, <1>4, <1>5, <1>6

\* The returns to the event loop and to its functions, and from a finished
\* Cookie::cancel.
LEMMA LeaveKeeps ==
  ASSUME TypeOK, CookieInv, TypeOK',
         \/ ReturnConnect \/ ReturnConnectError \/ ReturnOther
         \/ RunDone \/ CancelDone \/ DestroyDone
  PROVE  CookieInv'
<1> USE DEF handle, library, answers
<1>1. ASSUME NEW fn \in {"runScheduled", "errorEvent"}, stack # <<>>,
             Top.fn \in {"connectCb", "errorCb"},
             stack' = Append(Callers, Call(fn, NoOp)),
             UNCHANGED <<cookie, shape, nops, inflight, pending, misused>>
      PROVE  CookieInv'
  <2> DEFINE f == Call(fn, NoOp)
  <2>1. /\ f \in Frame /\ ~OfCookie(f) /\ ~CancelsFront(f) /\ f.op = 0
        /\ Top.fn \in LoopFrames /\ ~CancelsFront(Top)
    BY <1>1 DEF Call, Frame, CookieFrames, AppFrames, NativeFrames, LoopFrames, OfCookie,
                CancelsFront
  <2> HIDE DEF f
  <2>2. f.op <= nops /\ stack' = Append(Callers, f)
    BY <1>1, <2>1 DEF TypeOK, f
  <2>3. QED
    BY <1>1, <2>1, <2>2, ReplaceKeeps
<1>2. ASSUME stack # <<>>, stack' = Callers, ~CancelsFront(Top),
             UNCHANGED <<cookie, shape, nops, pending, misused>>,
             inflight' = inflight \/ inflight' = [o \in Ops |-> {}]
      PROVE  CookieInv'
  <2>1. \A o \in Ops : inflight'[o] \in {inflight[o], {}}
    BY <1>2
  <2>2. QED
    BY <1>2, <2>1, PopKeeps
<1>3. CASE ReturnConnect
  BY <1>1, <1>3 DEF ReturnConnect, OnTop
<1>4. CASE ReturnConnectError
  <2>1. ~CancelsFront(Top)
    BY <1>4 DEF ReturnConnectError, OnTop, CancelsFront
  <2>2. /\ stack # <<>> /\ Top.fn = "errorCb"
        /\ UNCHANGED <<cookie, shape, nops, inflight, pending, misused>>
        /\ stack' = Callers \/ stack' = Append(Callers, Call("errorEvent", NoOp))
    BY <1>4 DEF ReturnConnectError, OnTop
  <2>3. QED
    BY <1>1, <1>2, <2>1, <2>2
<1>5. CASE ReturnOther \/ RunDone \/ CancelDone \/ DestroyDone
  <2>1. ~CancelsFront(Top)
    BY <1>5 DEF ReturnOther, RunDone, CancelDone, DestroyDone, OnTop, CancelsFront
  <2>2. /\ stack # <<>> /\ stack' = Callers
        /\ UNCHANGED <<cookie, shape, nops, pending, misused>>
        /\ inflight' = inflight \/ inflight' = [o \in Ops |-> {}]
    BY <1>5 DEF ReturnOther, RunDone, CancelDone, DestroyDone, OnTop
  <2>3. QED
    BY <1>2, <2>1, <2>2
<1>6. QED
  BY <1>3, <1>4, <1>5

\* Every step keeps the invariant.
LEMMA CookieInvStep ==
  ASSUME TypeOK, CookieInv, TypeOK', [Next]_vars
  PROVE  CookieInv'
<1>1. CASE On \/ Shutdown \/ Connect \/ UNCHANGED vars
  <2>1. UNCHANGED <<cookie, inflight, pending, misused, stack, shape, nops>>
    BY <1>1 DEF On, Shutdown, Connect, vars, handle, library, answers
  <2>2. QED
    BY <2>1, UnchangedKeeps
<1>2. CASE ConfigArrives \/ ErrorArrives \/ IdleRuns
  BY <1>2, CallKeeps
<1>3. ASSUME NEW o \in Ops, NEW s \in Shapes,
             Bail(o, s) \/ Enqueue(o, s) \/ Schedule(o, s) \/ ScheduleFail(o, s)
      PROVE  CookieInv'
  BY <1>3, CallKeeps, TakenKeeps, ScheduleFailKeeps
<1>4. CASE ReturnProgress \/ ReturnFinal
  BY <1>4, ReturnKeeps
<1>5. CASE \/ ReturnConnect \/ ReturnConnectError \/ ReturnOther
           \/ RunDone \/ CancelDone \/ DestroyDone
  BY <1>5, LeaveKeeps
<1>6. CASE RunNext \/ RunNextFail \/ RunPop
  BY <1>6, RunNextKeeps, RunNextFailKeeps, RunPopKeeps
<1>7. CASE CancelKey
  <2>1. PICK o \in Ops : o = Top.op
    <3>1. stack # <<>> /\ OfCookie(Top)
      BY <1>7 DEF CancelKey, OnTop, OfCookie, CookieFrames
    <3>2. Len(stack) \in Depth
      BY <3>1, FrameFacts DEF Depth
    <3>3. QED
      BY <3>1, <3>2, FrameFacts DEF Top
  <2>2. QED
    BY <1>7, <2>1, CancelKeyKeeps
<1>8. ASSUME NEW o \in Ops, NEW k \in inflight[o], DestroyNext(o, k)
      PROVE  CookieInv'
  <2>1. FALSE \in BOOLEAN /\ Top.fn = "destroy" /\ Deliver(o, k, FALSE, stack)
    BY <1>8 DEF DestroyNext, OnTop
  <2>2. QED
    BY <2>1, DeliverKeeps
<1>9. ASSUME NEW o \in Ops, NEW k \in inflight[o], NEW ok \in BOOLEAN, Reply(o, k, ok)
      PROVE  CookieInv'
  <2>1. stack = <<>> /\ Deliver(o, k, ok, stack)
    BY <1>9 DEF Reply, InLoop
  <2>2. QED
    BY <2>1, DeliverKeeps
<1>10. QED
  BY <1>1, <1>2, <1>3, <1>4, <1>5, <1>6, <1>7, <1>8, <1>9
     DEF Next, Application, NativeSteps, Replies

\* It holds at first, when no operation was started.
LEMMA CookieInvInit ==
  ASSUME Init
  PROVE  CookieInv
<1>1. stack = <<>> /\ Len(stack) = 0 /\ pending = <<>> /\ Len(pending) = 0
  BY DEF Init
<1>2. Depth = {} /\ 1..Len(pending) = {}
  BY <1>1 DEF Depth
<1>3. \A o \in Ops : inflight[o] = {} /\ cookie[o].st = "none"
  BY DEF Init, NoCookie
<1>4. Owed
  BY <1>3 DEF Owed, OwedTo
<1>5. Unstarted /\ FramesHold /\ FramesNest /\ LoopOutermost /\ QueueWaits
  BY <1>2, <1>3 DEF Unstarted, FramesHold, FramesNest, LoopOutermost, QueueWaits
<1>6. misused = {}
  BY DEF Init
<1>7. QED
  BY <1>4, <1>5, <1>6 DEF CookieInv, NoUseAfterDelete

\* The invariant, for any number of operations, keys and errors, and for any
\* of the faults.
THEOREM CookieInvCorrect == Spec => []CookieInv
<1>1. Init => TypeOK /\ CookieInv
  BY TypeInit, CookieInvInit
<1>2. TypeOK /\ CookieInv /\ TypeOK' /\ [Next]_vars => CookieInv'
  BY CookieInvStep
<1>3. QED
  BY <1>1, <1>2, TypeCorrect, PTL DEF Spec

\* No function of a Cookie runs on one that has deleted itself, whatever the
\* application does in its callbacks.
THEOREM NoUseAfterDeleteCorrect == Spec => []NoUseAfterDelete
<1>1. CookieInv => NoUseAfterDelete
  BY DEF CookieInv
<1>2. QED
  BY <1>1, CookieInvCorrect, PTL

\* Whoever still holds a pointer to a Cookie (the queue, libcouchbase, a
\* function of the Cookie on the stack) finds it alive.
THEOREM CookieOutlivesUseCorrect == Spec => []CookieOutlivesUse
<1>1. ASSUME TypeOK, CookieInv PROVE CookieOutlivesUse
  <2> USE <1>1
  <2>1. ASSUME NEW o \in Ops, InQueue(o), ~Running(o) PROVE Live(o)
    <3>1. PICK i \in 1..Len(pending) : pending[i] = o
      BY <2>1, FrameFacts
    <3>2. CASE i # 1 \/ ~Cancelling
      BY <3>1, <3>2 DEF CookieInv, QueueWaits, Waits
    <3>3. CASE i = 1 /\ Cancelling
      <4>1. PICK j \in Depth : CancelsFront(stack[j])
        BY <3>3 DEF Cancelling
      <4>2. stack[j].fn = "runScheduled" /\ stack[j].op = o
        BY <3>1, <3>3, <4>1 DEF CookieInv, LoopOutermost, CancelsFront
      <4>3. stack \in Seq(Frame) /\ DOMAIN stack = Depth
        BY LenProperties DEF TypeOK, Depth
      <4>4. QED
        BY <2>1, <4>2, <4>3 DEF Running
    <3>4. QED
      BY <3>2, <3>3
  <2>2. ASSUME NEW o \in Ops, inflight[o] # {} PROVE Live(o)
    BY <2>2 DEF CookieInv, Owed, OwedTo
  <2>3. DOMAIN stack = Depth
    BY LenProperties DEF TypeOK, Depth
  <2>4. \A i \in Depth :
          /\ stack[i].fn \in {"progress", "final"} => Live(stack[i].op)
          /\ stack[i].fn = "cancel" /\ stack[i].keys # <<>> => Live(stack[i].op)
    BY DEF CookieInv, FramesHold, Holds
  <2>5. QED
    BY <2>1, <2>2, <2>3, <2>4 DEF CookieOutlivesUse
<1>2. QED
  BY <1>1, TypeCorrect, CookieInvCorrect, PTL
=============================================================================
