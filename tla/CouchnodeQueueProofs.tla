------------------------ MODULE CouchnodeQueueProofs ------------------------
(***************************************************************************)
(* The connect handler is called once, operations reach libcouchbase in    *)
(* order, nothing does after shutdown, no Cookie is left without a user    *)
(* but those of lost operations, and these stay lost.                      *)
(***************************************************************************)
EXTENDS CouchnodeInvProofs

USE DEF NoOp, NoKey

-----------------------------------------------------------------------------
(* The stack and the queue, before and after a step. *)

\* The stack is a function on its depths, and its last frame the top.
LEMMA StackFacts ==
  ASSUME TypeOK
  PROVE  /\ stack \in Seq(Frame) /\ Len(stack) \in Nat /\ DOMAIN stack = Depth
         /\ \A i \in Depth : i \in Nat /\ i <= Len(stack)
         /\ stack # <<>> => Len(stack) \in Depth /\ Top = stack[Len(stack)]
         /\ \A i \in Depth : OfCookie(stack[i]) => stack[i].op \in Ops
         /\ \A o \in Ops : /\ InFrame(o) <=> \E i \in Depth : stack[i].op = o /\ OfCookie(stack[i])
                           /\ Running(o) <=> \E i \in Depth : stack[i].op = o /\ CancelsFront(stack[i])
<1>1. stack \in Seq(Frame) /\ Len(stack) \in Nat
  BY FrameFacts DEF TypeOK
<1>2. DOMAIN stack = Depth
  BY <1>1, LenProperties DEF Depth
<1>3. \A i \in Depth : i \in Nat /\ i <= Len(stack)
  BY <1>1 DEF Depth
<1>4. stack # <<>> => Len(stack) \in Depth /\ Top = stack[Len(stack)]
  BY <1>1, FrameFacts DEF Depth, Top
<1>5. \A i \in Depth : OfCookie(stack[i]) => stack[i].op \in Ops
  BY FrameFacts
<1>6. \A o \in Ops : InFrame(o) <=> \E i \in Depth : stack[i].op = o /\ OfCookie(stack[i])
  BY <1>2 DEF InFrame, OfCookie
<1>7. \A o \in Ops : o # NoOp
  BY DEF Ops
<1>8. \A o \in Ops : Running(o) <=> \E i \in Depth : stack[i].op = o /\ CancelsFront(stack[i])
  BY <1>2, <1>7 DEF Running, CancelsFront
<1>9. QED
  BY <1>1, <1>2, <1>3, <1>4, <1>5, <1>6, <1>8

\* A frame is left.
LEMMA Popped ==
  ASSUME TypeOK, stack # <<>>, stack' = Callers
  PROVE  /\ \A i \in Depth' : i \in Depth /\ i < Len(stack) /\ stack'[i] = stack[i]
         /\ \A i \in Depth : i = Len(stack) \/ (i \in Depth' /\ stack'[i] = stack[i])
<1> DEFINE n == Len(stack) - 1
<1>1. /\ n \in Nat /\ Len(stack) = n + 1 /\ Len(stack') = n
      /\ \A i \in 1..n : stack'[i] = stack[i]
  BY CallersType DEF TypeOK
<1>2. Depth = 1..(n + 1) /\ Depth' = 1..n
  BY <1>1 DEF Depth
<1> HIDE DEF n
<1>3. QED
  BY <1>1, <1>2

\* A frame is entered.
LEMMA Pushed ==
  ASSUME TypeOK, NEW f \in Frame, stack' = Append(stack, f)
  PROVE  /\ \A i \in Depth : i \in Depth' /\ stack'[i] = stack[i]
         /\ \A i \in Depth' : \/ i \in Depth /\ stack'[i] = stack[i]
                              \/ i = Len(stack) + 1 /\ stack'[i] = f
         /\ Len(stack) + 1 \in Depth' /\ stack'[Len(stack) + 1] = f
<1> DEFINE n == Len(stack)
<1>1. /\ n \in Nat /\ Len(stack') = n + 1 /\ stack'[n + 1] = f
      /\ \A i \in 1..n : stack'[i] = stack[i]
  BY AfterPush DEF TypeOK
<1>2. Depth = 1..n /\ Depth' = 1..(n + 1)
  BY <1>1 DEF Depth
<1> HIDE DEF n
<1>3. /\ \A i \in Depth : i \in Depth' /\ stack'[i] = stack[i]
      /\ \A i \in Depth' : \/ i \in Depth /\ stack'[i] = stack[i]
                           \/ i = n + 1 /\ stack'[i] = f
      /\ n + 1 \in Depth'
  BY <1>1, <1>2
<1>4. QED
  BY <1>1, <1>3 DEF n

\* A frame takes the place of the top.
LEMMA Replaced ==
  ASSUME TypeOK, stack # <<>>, NEW f \in Frame, stack' = Append(Callers, f)
  PROVE  /\ \A i \in Depth : i = Len(stack) \/ (i \in Depth' /\ stack'[i] = stack[i])
         /\ \A i \in Depth' : \/ i \in Depth /\ i < Len(stack) /\ stack'[i] = stack[i]
                              \/ i = Len(stack) /\ stack'[i] = f
         /\ Len(stack) \in Depth' /\ stack'[Len(stack)] = f
<1> DEFINE n == Len(stack) - 1
<1>1. /\ n \in Nat /\ Len(stack) = n + 1 /\ Callers \in Seq(Frame) /\ Len(Callers) = n
      /\ \A i \in 1..n : Callers[i] = stack[i]
  BY CallersType DEF TypeOK
<1> HIDE DEF n
<1>2. /\ Len(stack') = n + 1 /\ stack'[n + 1] = f
      /\ \A i \in 1..n : stack'[i] = stack[i]
  BY <1>1, AfterPush
<1>3. Depth = 1..(n + 1) /\ Depth' = 1..(n + 1)
  BY <1>1, <1>2 DEF Depth
<1>4. QED
  BY <1>1, <1>2, <1>3

\* A frame takes the place of the top, and calls another.
LEMMA ReplacedPushed ==
  ASSUME TypeOK, stack # <<>>, NEW f \in Frame, NEW g \in Frame,
         stack' = Append(Append(Callers, f), g)
  PROVE  /\ \A i \in Depth : i = Len(stack) \/ (i \in Depth' /\ stack'[i] = stack[i])
         /\ \A i \in Depth' : \/ i \in Depth /\ i < Len(stack) /\ stack'[i] = stack[i]
                              \/ i = Len(stack) /\ stack'[i] = f
                              \/ i = Len(stack) + 1 /\ stack'[i] = g
         /\ Len(stack) \in Depth' /\ stack'[Len(stack)] = f
         /\ Len(stack) + 1 \in Depth' /\ stack'[Len(stack) + 1] = g
<1> DEFINE n == Len(stack) - 1
           base == Append(Callers, f)
<1>1. /\ n \in Nat /\ Len(stack) = n + 1 /\ Callers \in Seq(Frame) /\ Len(Callers) = n
      /\ \A i \in 1..n : Callers[i] = stack[i]
  BY CallersType DEF TypeOK
<1> HIDE DEF n
<1>2. /\ base \in Seq(Frame) /\ Len(base) = n + 1 /\ base[n + 1] = f
      /\ \A i \in 1..n : base[i] = stack[i]
  BY <1>1, AfterPush
<1> HIDE DEF base
<1>3. /\ Len(stack') = n + 2 /\ stack'[n + 2] = g
      /\ \A i \in 1..(n + 1) : stack'[i] = base[i]
  <2>1. stack' = Append(base, g)
    BY DEF base
  <2>2. QED
    BY <1>1, <1>2, <2>1, AfterPush
<1>4. Depth = 1..(n + 1) /\ Depth' = 1..(n + 2)
  BY <1>1, <1>3 DEF Depth
<1>5. stack'[n + 1] = f /\ \A i \in 1..n : stack'[i] = stack[i]
  <2>1. n + 1 \in 1..(n + 1) /\ \A i \in 1..n : i \in 1..(n + 1)
    BY <1>1
  <2>2. QED
    BY <1>2, <1>3, <2>1
<1>6. \A i \in Depth : i = n + 1 \/ i \in 1..n
  BY <1>1, <1>4
<1>7. \A i \in Depth' : i \in 1..n \/ i = n + 1 \/ i = n + 2
  BY <1>1, <1>4
<1>8. /\ \A i \in 1..n : i \in Depth /\ i \in Depth' /\ i < n + 1
      /\ n + 1 \in Depth' /\ n + 2 \in Depth' /\ n + 2 = (n + 1) + 1
  BY <1>1, <1>4
<1>9. QED
  BY <1>1, <1>3, <1>5, <1>6, <1>7, <1>8
-----------------------------------------------------------------------------
(* A step leaves most operations alone. *)

\* A frame that has nothing to do with the Cookie of p, nor with the queue's
\* cancelling it.
Foreign(f, p) == (OfCookie(f) \/ CancelsFront(f)) => f.op # p

SameFrames(p) ==
  /\ \A i \in Depth : OfCookie(stack[i]) /\ stack[i].op = p =>
                        i \in Depth' /\ stack'[i] = stack[i]
  /\ \A i \in Depth' : OfCookie(stack'[i]) /\ stack'[i].op = p =>
                         i \in Depth /\ stack'[i] = stack[i]
  /\ Running(p)' <=> Running(p)

Untouched(p) ==
  /\ cookie'[p] = cookie[p] /\ inflight'[p] = inflight[p] /\ shape'[p] = shape[p]
  /\ heard'[p] = heard[p] /\ failed'[p] = failed[p]
  /\ p \in viaQueue' <=> p \in viaQueue
  /\ InQueue(p)' <=> InQueue(p)
  /\ SameFrames(p)

\* The frames of p's Cookie stay if only foreign frames come and go.
LEMMA ForeignFrames ==
  ASSUME TypeOK, TypeOK', NEW p \in Ops,
         \A i \in Depth : \/ Foreign(stack[i], p)
                          \/ i \in Depth' /\ stack'[i] = stack[i],
         \A i \in Depth' : \/ Foreign(stack'[i], p)
                           \/ i \in Depth /\ stack'[i] = stack[i]
  PROVE  SameFrames(p)
<1>1. Running(p) <=> \E i \in Depth : stack[i].op = p /\ CancelsFront(stack[i])
  BY StackFacts
<1>2. \A o \in Ops : o # NoOp
  BY DEF Ops
<1>3. Running(p)' <=> \E i \in Depth' : stack'[i].op = p /\ CancelsFront(stack'[i])
  <2>1. stack' \in Seq(Frame)
    BY DEF TypeOK
  <2>2. DOMAIN stack' = Depth'
    BY <2>1, LenProperties DEF Depth
  <2>3. QED
    BY <1>2, <2>2 DEF Running, CancelsFront
<1>4. Running(p)' <=> Running(p)
  BY <1>1, <1>3 DEF Foreign
<1>5. QED
  BY <1>4 DEF SameFrames, Foreign

\* A foreign frame is left, ...
LEMMA PopForeign ==
  ASSUME TypeOK, TypeOK', stack # <<>>, stack' = Callers, NEW p \in Ops, Foreign(Top, p)
  PROVE  SameFrames(p)
BY Popped, StackFacts, ForeignFrames

\* ... or entered, ...
LEMMA PushForeign ==
  ASSUME TypeOK, TypeOK', NEW f \in Frame, stack' = Append(stack, f),
         NEW p \in Ops, Foreign(f, p)
  PROVE  SameFrames(p)
BY Pushed, ForeignFrames

\* ... or makes place for another, ...
LEMMA ReplaceForeign ==
  ASSUME TypeOK, TypeOK', stack # <<>>, NEW f \in Frame, stack' = Append(Callers, f),
         NEW p \in Ops, Foreign(Top, p), Foreign(f, p)
  PROVE  SameFrames(p)
BY Replaced, StackFacts, ForeignFrames

\* ... which calls a third, ...
LEMMA ReplacePushForeign ==
  ASSUME TypeOK, TypeOK', stack # <<>>, NEW f \in Frame, NEW g \in Frame,
         stack' = Append(Append(Callers, f), g),
         NEW p \in Ops, Foreign(Top, p), Foreign(f, p), Foreign(g, p)
  PROVE  SameFrames(p)
<1>1. \A i \in Depth : Foreign(stack[i], p) \/ (i \in Depth' /\ stack'[i] = stack[i])
  BY ReplacedPushed, StackFacts
<1>2. \A i \in Depth' : Foreign(stack'[i], p) \/ (i \in Depth /\ stack'[i] = stack[i])
  BY ReplacedPushed
<1>3. QED
  BY <1>1, <1>2, ForeignFrames

\* ... or the stack stays.
LEMMA StackStays ==
  ASSUME TypeOK, TypeOK', stack' = stack, NEW p \in Ops
  PROVE  SameFrames(p)
<1>1. \A i \in Depth : i \in Depth' /\ stack'[i] = stack[i]
  BY DEF Depth
<1>2. \A i \in Depth' : i \in Depth /\ stack'[i] = stack[i]
  BY DEF Depth
<1>3. QED
  BY <1>1, <1>2, ForeignFrames

\* What the frames of p's Cookie say stays said.
LEMMA SameFramesFacts ==
  ASSUME TypeOK, TypeOK', NEW p \in Ops, SameFrames(p)
  PROVE  /\ InFrame(p)' <=> InFrame(p)
         /\ \A fn \in CookieFrames : HasFrame(fn, p)' <=> HasFrame(fn, p)
<1>1. InFrame(p) <=> \E i \in Depth : stack[i].op = p /\ OfCookie(stack[i])
  BY StackFacts
<1>2. InFrame(p)' <=> \E i \in Depth' : stack'[i].op = p /\ OfCookie(stack'[i])
  <2>1. stack' \in Seq(Frame)
    BY DEF TypeOK
  <2>2. DOMAIN stack' = Depth'
    BY <2>1, LenProperties DEF Depth
  <2>3. QED
    BY <2>2 DEF InFrame, OfCookie
<1>3. InFrame(p)' <=> InFrame(p)
  BY <1>1, <1>2 DEF SameFrames
<1>4. ASSUME NEW fn \in CookieFrames PROVE HasFrame(fn, p)' <=> HasFrame(fn, p)
  BY DEF HasFrame, SameFrames, OfCookie
<1>5. QED
  BY <1>3, <1>4
\* The steps that touch no operation: calls of application code that is no
\* Cookie's callback and of the event loop's functions, and their returns.
QuietSteps ==
  \/ Connect \/ ConfigArrives \/ ErrorArrives \/ IdleRuns \/ On \/ Shutdown
  \/ ReturnConnect \/ ReturnConnectError \/ ReturnOther \/ RunDone
  \/ UNCHANGED vars

\* What the quiet steps do to the stack.
LEMMA QuietStack ==
  ASSUME TypeOK, TypeOK', CookieInv, QuietSteps, NEW p \in Ops
  PROVE  SameFrames(p)
<1>1. ASSUME NEW fn \in {"connectCb", "errorCb", "errorEvent", "destroy", "runScheduled"}
      PROVE  Call(fn, NoOp) \in Frame /\ Foreign(Call(fn, NoOp), p)
  <2>1. Call(fn, NoOp) \in Frame
    BY CallType DEF AppFrames, NativeFrames, CookieFrames
  <2>2. Foreign(Call(fn, NoOp), p)
    BY DEF Foreign, Call, OfCookie, CookieFrames, CancelsFront
  <2>3. QED
    BY <2>1, <2>2
<1>2. CASE stack' = stack
  BY <1>2, StackStays
<1>3. ASSUME NEW fn \in {"connectCb", "errorCb", "errorEvent", "destroy", "runScheduled"},
             stack' = Append(stack, Call(fn, NoOp))
      PROVE  SameFrames(p)
  BY <1>1, <1>3, PushForeign
<1>4. ASSUME stack # <<>>, Foreign(Top, p), stack' = Callers
      PROVE  SameFrames(p)
  BY <1>4, PopForeign
<1>5. ASSUME stack # <<>>, Foreign(Top, p),
             NEW fn \in {"connectCb", "errorCb", "errorEvent", "destroy", "runScheduled"},
             stack' = Append(Callers, Call(fn, NoOp))
      PROVE  SameFrames(p)
  BY <1>1, <1>5, ReplaceForeign
<1>6. \/ OnTop("connectCb") \/ OnTop("errorCb") \/ OnTop("bailOut") \/ OnTop("errorEvent")
      \/ OnTop("runScheduled") /\ Top.op = NoOp
      => stack # <<>> /\ Foreign(Top, p)
  BY DEF OnTop, Foreign, OfCookie, CookieFrames, CancelsFront
<1>7. CASE Connect \/ On \/ Shutdown \/ UNCHANGED vars
  BY <1>2, <1>7 DEF Connect, On, Shutdown, vars
<1>8. CASE ConfigArrives
  BY <1>2, <1>3, <1>8 DEF ConfigArrives
<1>9. CASE ErrorArrives
  BY <1>2, <1>3, <1>9 DEF ErrorArrives
<1>10. CASE IdleRuns
  BY <1>3, <1>10 DEF IdleRuns
<1>11. CASE ReturnConnect
  BY <1>5, <1>6, <1>11 DEF ReturnConnect
<1>12. CASE ReturnConnectError
  BY <1>4, <1>5, <1>6, <1>12 DEF ReturnConnectError
<1>13. CASE ReturnOther
  BY <1>4, <1>6, <1>13 DEF ReturnOther
<1>14. CASE RunDone
  BY <1>4, <1>6, <1>14 DEF RunDone
<1>15. QED
  BY <1>7, <1>8, <1>9, <1>10, <1>11, <1>12, <1>13, <1>14 DEF QuietSteps

\* They touch nothing else of an operation.
LEMMA QuietUntouched ==
  ASSUME TypeOK, TypeOK', CookieInv, QuietSteps, NEW p \in Ops
  PROVE  Untouched(p) /\ UNCHANGED <<nops, pending, handed, viaQueue, shape>>
<1>1. UNCHANGED <<cookie, inflight, shape, heard, failed, viaQueue, pending, nops, handed>>
  BY DEF QuietSteps, Connect, ConfigArrives, ErrorArrives, IdleRuns, On, Shutdown,
         ReturnConnect, ReturnConnectError, ReturnOther, RunDone, vars, handle, library,
         answers
<1>2. InQueue(p)' <=> InQueue(p)
  BY <1>1 DEF InQueue
<1>3. QED
  BY <1>1, <1>2, QuietStack DEF Untouched
-----------------------------------------------------------------------------
(* What a step does to the operation it is about. *)

\* Cookie::markProgress.
LEMMA ProgressEffect ==
  ASSUME TypeOK, NEW o \in Ops, NEW k \in Nat, NEW hasKey \in BOOLEAN, NEW ok \in BOOLEAN,
         NEW base \in Seq(Frame), Progress(o, k, hasKey, ok, base)
  PROVE  /\ \A p \in Ops : p # o => /\ cookie'[p] = cookie[p] /\ heard'[p] = heard[p]
                                    /\ failed'[p] = failed[p]
         /\ cookie'[o] = Noted(cookie[o], Spooled(o), k, ok)
         /\ ok => failed'[o] = failed[o]
         /\ ~ok => failed'[o] = failed[o] \cup {k}
         /\ IF Spooled(o) /\ cookie'[o].remaining # 0
              THEN stack' = base /\ heard'[o] = heard[o]
              ELSE /\ stack' = Append(base, Call("progress", o))
                   /\ heard'[o] = Told(heard[o], cookie'[o], Spooled(o), k, ok)
<1> DEFINE c == Noted(cookie[o], Spooled(o), k, ok)
<1>1. /\ cookie' = [cookie EXCEPT ![o] = c] /\ Fail(o, k, ok)
      /\ IF Spooled(o) /\ c.remaining # 0
           THEN stack' = base /\ heard' = heard
           ELSE /\ stack' = Append(base, Call("progress", o))
                /\ heard' = [heard EXCEPT ![o] = Told(heard[o], c, Spooled(o), k, ok)]
  BY DEF Progress
<1> HIDE DEF c
<1>2. cookie'[o] = c /\ \A p \in Ops : p # o => cookie'[p] = cookie[p]
  BY <1>1 DEF TypeOK
<1>3. /\ ok => failed'[o] = failed[o]
      /\ ~ok => failed'[o] = failed[o] \cup {k}
      /\ \A p \in Ops : p # o => failed'[p] = failed[p]
  BY <1>1 DEF TypeOK, Fail
<1>4. \A p \in Ops : p # o => heard'[p] = heard[p]
  BY <1>1 DEF TypeOK
<1>5. IF Spooled(o) /\ c.remaining # 0
        THEN stack' = base /\ heard'[o] = heard[o]
        ELSE /\ stack' = Append(base, Call("progress", o))
             /\ heard'[o] = Told(heard[o], c, Spooled(o), k, ok)
  BY <1>1 DEF TypeOK
<1>6. QED
  BY <1>2, <1>3, <1>4, <1>5 DEF c

\* The last answer of a Cookie.
LEMMA AnswerEffect ==
  ASSUME TypeOK, NEW o \in Ops, NEW c \in CookieRec, NEW err \in BOOLEAN,
         NEW ok \in BOOLEAN, NEW base \in Seq(Frame), Answer(o, c, err, ok, base)
  PROVE  /\ \A p \in Ops : p # o => /\ cookie'[p] = cookie[p] /\ heard'[p] = heard[p]
                                    /\ failed'[p] = failed[p]
         /\ cookie'[o] = c
         /\ ok => failed'[o] = failed[o]
         /\ ~ok => failed'[o] = failed[o] \cup {NoKey}
         /\ heard'[o].calls = heard[o].calls + 1 /\ heard'[o].keys = c.results
         /\ heard'[o].err <=> err
         /\ stack' = Append(base, Call("final", o))
BY DEF TypeOK, Answer, Fail

\* Cookie::cancel and its overrides.
LEMMA CancelBegins ==
  ASSUME TypeOK, NEW o \in Ops, NEW c \in CookieRec, NEW s \in Shapes,
         NEW keys \in Seq(Nat), NEW base \in Seq(Frame),
         Cancel(o, c, s, keys, base)
  PROVE  /\ \A p \in Ops : p # o => /\ cookie'[p] = cookie[p] /\ heard'[p] = heard[p]
                                    /\ failed'[p] = failed[p]
         /\ s.kind \in {"plain", "observe"} =>
              /\ cookie'[o].st = c.st /\ cookie'[o].remaining = c.remaining
              /\ cookie'[o].results = c.results /\ cookie'[o].hasError = c.hasError
              /\ cookie'[o].isCancelled
              /\ heard'[o] = heard[o] /\ failed'[o] = failed[o]
              /\ stack' = Append(base, [fn |-> "cancel", op |-> o, keys |-> keys])
         /\ s.kind \notin {"plain", "observe"} =>
              /\ cookie'[o] = c
              /\ heard'[o].calls = heard[o].calls + 1 /\ heard'[o].keys = c.results
              /\ heard'[o].err
              /\ failed'[o] = failed[o] \cup {NoKey}
              /\ stack' = Append(base, Call("final", o))
<1>1. CASE s.kind \in {"plain", "observe"}
  <2> DEFINE d == [c EXCEPT !.isCancelled = TRUE]
  <2>1. /\ cookie' = [cookie EXCEPT ![o] = d] /\ heard' = heard /\ failed' = failed
        /\ stack' = Append(base, [fn |-> "cancel", op |-> o, keys |-> keys])
    BY <1>1 DEF Cancel
  <2>2. /\ d.st = c.st /\ d.remaining = c.remaining /\ d.results = c.results
        /\ d.hasError = c.hasError /\ d.isCancelled
    BY DEF CookieRec
  <2> HIDE DEF d
  <2>3. cookie'[o] = d /\ \A p \in Ops : p # o => cookie'[p] = cookie[p]
    BY <2>1 DEF TypeOK
  <2>4. QED
    BY <1>1, <2>1, <2>2, <2>3
<1>2. CASE s.kind \notin {"plain", "observe"}
  <2>1. Answer(o, c, TRUE, FALSE, base)
    BY <1>2 DEF Cancel
  <2>2. /\ \A p \in Ops : p # o => /\ cookie'[p] = cookie[p] /\ heard'[p] = heard[p]
                                   /\ failed'[p] = failed[p]
        /\ cookie'[o] = c
        /\ failed'[o] = failed[o] \cup {NoKey}
        /\ heard'[o].calls = heard[o].calls + 1 /\ heard'[o].keys = c.results
        /\ heard'[o].err
        /\ stack' = Append(base, Call("final", o))
    BY <2>1 DEF TypeOK, Answer, Fail
  <2>3. QED
    BY <1>2, <2>2
<1>3. QED
  BY <1>1, <1>2

\* The two frames of a Cookie's callbacks.
LEMMA CallbackFrames ==
  ASSUME NEW o \in Ops, NEW fn \in {"progress", "final"}
  PROVE  /\ Call(fn, o) \in Frame /\ Call(fn, o).fn = fn /\ Call(fn, o).op = o
         /\ \A p \in Ops : p # o => Foreign(Call(fn, o), p)
<1>1. Call(fn, o) \in Frame
  BY CallType DEF AppFrames, CookieFrames
<1>2. Call(fn, o).fn = fn /\ Call(fn, o).op = o
  BY DEF Call
<1>3. QED
  BY <1>1, <1>2 DEF Foreign

\* The frame of Cookie::cancel.
LEMMA CancelFrame ==
  ASSUME NEW o \in Ops, NEW keys \in Seq(Nat)
  PROVE  /\ [fn |-> "cancel", op |-> o, keys |-> keys] \in Frame
         /\ \A p \in Ops : p # o => Foreign([fn |-> "cancel", op |-> o, keys |-> keys], p)
<1>1. [fn |-> "cancel", op |-> o, keys |-> keys] \in Frame
  BY DEF Frame, NativeFrames, CookieFrames
<1>2. QED
  BY <1>1 DEF Foreign

\* A reply, to a Cookie that is answered through markProgress, ...
LEMMA DeliverPlain ==
  ASSUME TypeOK, NEW o \in Ops, NEW k \in inflight[o], NEW ok \in BOOLEAN,
         NEW base \in Seq(Frame),
         Deliver(o, k, ok, base), shape[o].kind = "plain"
  PROVE  /\ Progress(o, k, TRUE, ok, base)
         /\ inflight' = [inflight EXCEPT ![o] = @ \ {k}]
         /\ UNCHANGED <<pending, shape, nops, viaQueue, handed, primary>>
<1>1. HandleReply(o, k, ok, base)
  BY DEF Deliver, Streams
<1>2. UNCHANGED <<pending, shape, nops, viaQueue, handed, primary>>
  BY DEF Deliver, handle
<1>3. QED
  BY <1>1, <1>2 DEF HandleReply

\* ... to a stream, before its last one, ...
LEMMA DeliverData ==
  ASSUME TypeOK, NEW o \in Ops, NEW k \in inflight[o], NEW ok \in BOOLEAN,
         NEW base \in Seq(Frame),
         Deliver(o, k, ok, base), Streams(shape[o]), k # NoKey
  PROVE  /\ \A p \in Ops : p # o => cookie'[p] = cookie[p] /\ failed'[p] = failed[p]
         /\ cookie'[o] = Updated(cookie[o], k, ok)
         /\ ok => failed'[o] = failed[o]
         /\ ~ok => failed'[o] = failed[o] \cup {k}
         /\ heard' = heard /\ stack' = base
         /\ inflight' = [inflight EXCEPT ![o] = @ \ {k}]
         /\ UNCHANGED <<pending, shape, nops, viaQueue, handed, primary>>
<1>1. HandleData(o, k, ok, base)
  BY DEF Deliver, Streams
<1>2. UNCHANGED <<pending, shape, nops, viaQueue, handed, primary>>
  BY DEF Deliver, handle
<1>3. QED
  BY <1>1, <1>2 DEF HandleData, TypeOK, Fail

\* ... and the last one, or that of an HTTP request.
LEMMA DeliverLast ==
  ASSUME TypeOK, NEW o \in Ops, NEW k \in inflight[o], NEW ok \in BOOLEAN,
         NEW base \in Seq(Frame),
         Deliver(o, k, ok, base), shape[o].kind # "plain",
         ~(Streams(shape[o]) /\ k # NoKey)
  PROVE  /\ \E err \in BOOLEAN, good \in BOOLEAN :
              /\ Answer(o, cookie[o], err, good, base)
              /\ good <=> ok \/ shape[o].kind = "observe"
              /\ err <=> cookie[o].hasError \/ ~good
         /\ shape[o].kind = "http" \/ (Streams(shape[o]) /\ inflight[o] = {NoKey})
         /\ inflight' = [inflight EXCEPT ![o] = @ \ {k}]
         /\ UNCHANGED <<pending, shape, nops, viaQueue, handed, primary>>
<1>1. shape[o].kind \in Kinds
  BY ShapesAssumption DEF TypeOK
<1>2. /\ HandleLast(o, k, ok, base)
      /\ shape[o].kind = "http" \/ (Streams(shape[o]) /\ inflight[o] = {NoKey})
  BY <1>1 DEF Deliver, Streams, Kinds
<1>3. UNCHANGED <<pending, shape, nops, viaQueue, handed, primary>>
  BY DEF Deliver, handle
<1> DEFINE good == ok \/ shape[o].kind = "observe"
           err == IF shape[o].kind = "observe" THEN cookie[o].hasError
                                               ELSE cookie[o].hasError \/ ~ok
<1>4. Answer(o, cookie[o], err, good, base) /\ inflight' = [inflight EXCEPT ![o] = @ \ {k}]
  BY <1>2 DEF HandleLast
<1>5. cookie[o].hasError \in BOOLEAN
  BY DEF TypeOK, CookieRec
<1>6. good \in BOOLEAN /\ err \in BOOLEAN /\ (err <=> cookie[o].hasError \/ ~good)
  BY <1>5
<1> HIDE DEF good, err
<1>7. good <=> ok \/ shape[o].kind = "observe"
  BY DEF good
<1>8. QED
  BY <1>2, <1>3, <1>4, <1>6, <1>7
-----------------------------------------------------------------------------
(* The other operations. *)

\* A reply touches its own operation only.
LEMMA DeliverOthers ==
  ASSUME TypeOK, TypeOK', NEW o \in Ops, NEW k \in inflight[o], NEW ok \in BOOLEAN,
         Deliver(o, k, ok, stack), NEW p \in Ops, p # o
  PROVE  Untouched(p) /\ UNCHANGED <<nops, pending, handed, viaQueue, shape, primary>>
<1>1. k \in Nat
  BY DEF TypeOK
<1>0. stack \in Seq(Frame) /\ cookie[o] \in CookieRec /\ cookie[o].hasError \in BOOLEAN
  BY DEF TypeOK, CookieRec
<1>2. /\ cookie'[p] = cookie[p] /\ heard'[p] = heard[p] /\ failed'[p] = failed[p]
      /\ inflight' = [inflight EXCEPT ![o] = @ \ {k}]
      /\ UNCHANGED <<pending, shape, nops, viaQueue, handed, primary>>
      /\ \/ stack' = stack
         \/ stack' = Append(stack, Call("progress", o))
         \/ stack' = Append(stack, Call("final", o))
  <2>1. CASE shape[o].kind = "plain"
    <3>1. /\ Progress(o, k, TRUE, ok, stack)
          /\ inflight' = [inflight EXCEPT ![o] = @ \ {k}]
          /\ UNCHANGED <<pending, shape, nops, viaQueue, handed, primary>>
      BY <1>0, <2>1, DeliverPlain
    <3>2. /\ cookie'[p] = cookie[p] /\ heard'[p] = heard[p] /\ failed'[p] = failed[p]
          /\ stack' = stack \/ stack' = Append(stack, Call("progress", o))
      BY <1>0, <1>1, <3>1, ProgressEffect
    <3>3. QED
      BY <3>1, <3>2
  <2>2. CASE shape[o].kind # "plain" /\ Streams(shape[o]) /\ k # NoKey
    <3>1. /\ cookie'[p] = cookie[p] /\ failed'[p] = failed[p]
          /\ heard' = heard /\ stack' = stack
          /\ inflight' = [inflight EXCEPT ![o] = @ \ {k}]
          /\ UNCHANGED <<pending, shape, nops, viaQueue, handed, primary>>
      BY <1>0, <2>2, DeliverData
    <3>2. QED
      BY <3>1
  <2>3. CASE shape[o].kind # "plain" /\ ~(Streams(shape[o]) /\ k # NoKey)
    <3>1. PICK err \in BOOLEAN, good \in BOOLEAN : Answer(o, cookie[o], err, good, stack)
      BY <1>0, <2>3, DeliverLast
    <3>2. /\ inflight' = [inflight EXCEPT ![o] = @ \ {k}]
          /\ UNCHANGED <<pending, shape, nops, viaQueue, handed, primary>>
      BY <1>0, <2>3, DeliverLast
    <3>3. /\ cookie'[p] = cookie[p] /\ heard'[p] = heard[p] /\ failed'[p] = failed[p]
          /\ stack' = Append(stack, Call("final", o))
      BY <1>0, <3>1, AnswerEffect
    <3>4. QED
      BY <3>2, <3>3
  <2>4. QED
    BY <2>1, <2>2, <2>3
<1>3. SameFrames(p)
  BY <1>2, CallbackFrames, StackStays, PushForeign
<1>4. inflight'[p] = inflight[p] /\ (InQueue(p)' <=> InQueue(p))
  BY <1>2 DEF InQueue, TypeOK
<1>5. QED
  BY <1>2, <1>3, <1>4 DEF Untouched

\* So does the start of an operation, which nothing knew before.
LEMMA StartOthers ==
  ASSUME TypeOK, TypeOK', CookieInv, NEW o \in Ops, NEW s \in Shapes,
         Bail(o, s) \/ Enqueue(o, s) \/ Schedule(o, s) \/ ScheduleFail(o, s),
         NEW p \in Ops, p # o
  PROVE  Untouched(p) /\ primary' = primary
<1>1. Start(o, s) /\ shape'[p] = shape[p] /\ ~InQueue(o)
  <2>1. Start(o, s)
    BY DEF Bail, Enqueue, Schedule, ScheduleFail
  <2>2. QED
    BY <2>1, StartFacts
<1>2. Call("bailOut", o) \in Frame /\ Foreign(Call("bailOut", o), p)
  <2>1. Call("bailOut", o) \in Frame
    BY CallType DEF AppFrames, CookieFrames
  <2>2. QED
    BY <2>1 DEF Call, Foreign
<1>3. CASE Bail(o, s)
  <2>1. SameFrames(p)
    BY <1>2, <1>3, PushForeign DEF Bail
  <2>2. heard'[p] = heard[p]
    BY <1>3 DEF Bail, TypeOK
  <2>3. InQueue(p)' <=> InQueue(p)
    BY <1>3 DEF Bail, handle, InQueue
  <2>4. QED
    BY <1>1, <1>3, <2>1, <2>2, <2>3 DEF Bail, Untouched, handle, library
<1>4. CASE Enqueue(o, s)
  <2>1. SameFrames(p)
    BY <1>4, StackStays DEF Enqueue
  <2>2. cookie'[p] = cookie[p] /\ (p \in viaQueue' <=> p \in viaQueue)
    BY <1>4 DEF Enqueue, TypeOK
  <2>3. InQueue(p)' <=> InQueue(p)
    <3>1. pending \in Seq(Ops) /\ pending' = Append(pending, o) /\ Len(pending) \in Nat
      BY <1>4, FrameFacts DEF Enqueue, TypeOK
    <3>2. /\ Len(pending') = Len(pending) + 1 /\ pending'[Len(pending) + 1] = o
          /\ \A i \in 1..Len(pending) : pending'[i] = pending[i]
      BY <3>1, AppendProperties
    <3>3. InQueue(p)' <=> \E i \in 1..Len(pending') : pending'[i] = p
      <4>1. DOMAIN pending' = 1..Len(pending')
        BY LenProperties DEF TypeOK
      <4>2. QED
        BY <4>1 DEF InQueue
    <3>4. 1..Len(pending') = 1..Len(pending) \cup {Len(pending) + 1}
      BY <3>1, <3>2
    <3>5. QED
      BY <3>2, <3>3, <3>4, FrameFacts
  <2>4. QED
    BY <1>1, <1>4, <2>1, <2>2, <2>3 DEF Enqueue, Untouched, library
<1>5. CASE Schedule(o, s)
  <2>1. SameFrames(p)
    BY <1>5, StackStays DEF Schedule
  <2>2. cookie'[p] = cookie[p] /\ inflight'[p] = inflight[p]
    BY <1>5 DEF Schedule, TypeOK
  <2>3. InQueue(p)' <=> InQueue(p)
    BY <1>5 DEF Schedule, handle, InQueue
  <2>4. QED
    BY <1>1, <1>5, <2>1, <2>2, <2>3 DEF Schedule, Untouched
<1>6. CASE ScheduleFail(o, s)
  <2>1. Cancel(o, NewCookie(s), s, AllKeys(s), stack) /\ NewCookie(s) \in CookieRec
    BY <1>6, NewFacts DEF ScheduleFail
  <2>2. AllKeys(s) \in Seq(Nat)
    <3>1. s.nkeys \in Nat
      BY ShapesAssumption
    <3>2. QED
      BY <3>1 DEF AllKeys
  <2> stack \in Seq(Frame)
    BY DEF TypeOK
  <2>3. /\ cookie'[p] = cookie[p] /\ heard'[p] = heard[p] /\ failed'[p] = failed[p]
        /\ \/ stack' = Append(stack, [fn |-> "cancel", op |-> o, keys |-> AllKeys(s)])
           \/ stack' = Append(stack, Call("final", o))
    <3>1. \A q \in Ops : q # o => /\ cookie'[q] = cookie[q] /\ heard'[q] = heard[q]
                                  /\ failed'[q] = failed[q]
      BY <2>1, <2>2, CancelBegins
    <3>2. \/ stack' = Append(stack, [fn |-> "cancel", op |-> o, keys |-> AllKeys(s)])
          \/ stack' = Append(stack, Call("final", o))
      BY <2>1, <2>2, CancelBegins
    <3>3. QED
      BY <3>1, <3>2
  <2>4. SameFrames(p)
    BY <2>2, <2>3, CallbackFrames, CancelFrame, PushForeign
  <2>5. InQueue(p)' <=> InQueue(p)
    BY <1>6 DEF ScheduleFail, handle, InQueue
  <2>6. QED
    BY <1>1, <1>6, <2>3, <2>4, <2>5 DEF ScheduleFail, Untouched, handle, library
<1>7. QED
  BY <1>3, <1>4, <1>5, <1>6
\* A frame of a Cookie is one of its operation.
LEMMA TopOfCookie ==
  ASSUME TypeOK, stack # <<>>, OfCookie(Top)
  PROVE  Top.op \in Ops /\ Len(stack) \in Depth /\ stack[Len(stack)] = Top
BY StackFacts

\* Removing the front of the queue leaves the other operations in it.
LEMMA TailOthers ==
  ASSUME TypeOK, TypeOK', pending # <<>>, pending' = Tail(pending),
         NEW p \in Ops, p # Head(pending)
  PROVE  InQueue(p)' <=> InQueue(p)
<1>1. /\ pending \in Seq(Ops) /\ Len(pending) \in Nat \ {0} /\ Head(pending) = pending[1]
      /\ Len(pending') = Len(pending) - 1
      /\ \A i \in 1..Len(pending') : pending'[i] = pending[i + 1]
  <2>1. pending \in Seq(Ops) /\ pending # <<>>
    BY DEF TypeOK
  <2>2. QED
    BY <2>1, TailType
<1>2. InQueue(p)' <=> \E i \in 1..Len(pending') : pending'[i] = p
  <2>1. DOMAIN pending' = 1..Len(pending')
    BY LenProperties DEF TypeOK
  <2>2. QED
    BY <2>1 DEF InQueue
<1>3. InQueue(p) <=> \E i \in 1..Len(pending) : pending[i] = p
  BY FrameFacts
<1>5. ASSUME NEW i \in 1..Len(pending')
      PROVE  i + 1 \in 1..Len(pending)
  BY <1>1, <1>5
<1>6. ASSUME InQueue(p) PROVE InQueue(p)'
  <2>1. PICK i \in 1..Len(pending) : pending[i] = p
    BY <1>3, <1>6
  <2>2. i # 1
    BY <1>1, <2>1
  <2>3. i - 1 \in 1..Len(pending') /\ (i - 1) + 1 = i
    BY <1>1, <2>2
  <2>4. QED
    BY <1>1, <1>2, <2>1, <2>3
<1>7. ASSUME InQueue(p)' PROVE InQueue(p)
  BY <1>1, <1>2, <1>3, <1>5, <1>7
<1>8. QED
  BY <1>6, <1>7

\* The queue runs: only its front is touched.
LEMMA RunOthers ==
  ASSUME TypeOK, TypeOK', CookieInv, RunNext \/ RunNextFail \/ RunPop,
         NEW o \in Ops, o = Head(pending), NEW p \in Ops, p # o
  PROVE  Untouched(p) /\ UNCHANGED <<nops, viaQueue, shape, primary>>
<1>1. OnTop("runScheduled") /\ pending # <<>> /\ stack # <<>> /\ Top.fn = "runScheduled"
  BY DEF RunNext, RunNextFail, RunPop, OnTop
<1>2. Len(stack) = 1 /\ stack[1] = Top /\ Top \in Frame /\ Head(pending) = pending[1]
  BY <1>1, DrainFacts
<1>3. Foreign(Top, p)
  <2>1. CancelsFront(Top) => Top.op = o
    BY <1>2 DEF CookieInv, LoopOutermost, Depth
  <2>2. QED
    BY <1>1, <2>1 DEF Foreign, OfCookie, CookieFrames
<1>4. \A q \in {o, NoOp} : /\ Call("runScheduled", q) \in Frame
                           /\ Foreign(Call("runScheduled", q), p)
  <2>1. \A q \in {o, NoOp} : Call("runScheduled", q) \in Frame
    BY CallType DEF NativeFrames, CookieFrames
  <2>2. QED
    BY <2>1 DEF Foreign, Call, OfCookie, CookieFrames, CancelsFront, Ops
<1>5. CASE RunNext
  <2>1. SameFrames(p)
    BY <1>5, StackStays DEF RunNext
  <2>2. inflight'[p] = inflight[p]
    BY <1>5 DEF RunNext, TypeOK
  <2>3. InQueue(p)' <=> InQueue(p)
    BY <1>1, <1>5, TailOthers DEF RunNext
  <2>4. QED
    BY <1>5, <2>1, <2>2, <2>3 DEF RunNext, Untouched, answers
<1>6. CASE RunNextFail
  <2> DEFINE base == Append(Callers, Call("runScheduled", o))
  <2>1. /\ Cancel(o, cookie[o], shape[o], <<NoKey>>, base)
        /\ UNCHANGED <<handle, library, nops, shape, viaQueue>>
    BY <1>6 DEF RunNextFail
  <2>2. base \in Seq(Frame) /\ <<NoKey>> \in Seq(Nat)
    BY <1>1, <1>4, CallersType, AppendProperties DEF TypeOK
  <2>3. cookie[o] \in CookieRec /\ shape[o] \in Shapes
    BY DEF TypeOK
  <2>4. \A q \in Ops : q # o => /\ cookie'[q] = cookie[q] /\ heard'[q] = heard[q]
                                /\ failed'[q] = failed[q]
    BY <2>1, <2>2, <2>3, CancelBegins
  <2>5. PICK g \in Frame : stack' = Append(base, g) /\ Foreign(g, p)
    <3>1. \/ stack' = Append(base, [fn |-> "cancel", op |-> o, keys |-> <<NoKey>>])
          \/ stack' = Append(base, Call("final", o))
      BY <2>1 DEF Cancel, Answer
    <3> DEFINE g == [fn |-> "cancel", op |-> o, keys |-> <<NoKey>>]
    <3>2. g \in Frame /\ Foreign(g, p)
      BY <2>2, CancelFrame
    <3>3. Call("final", o) \in Frame /\ Foreign(Call("final", o), p)
      BY CallbackFrames
    <3> HIDE DEF base
    <3>4. QED
      BY <3>1, <3>2, <3>3
  <2>6. SameFrames(p)
    BY <1>1, <1>3, <1>4, <2>5, ReplacePushForeign
  <2>7. InQueue(p)' <=> InQueue(p)
    BY <2>1 DEF handle, InQueue
  <2>8. QED
    BY <2>1, <2>4, <2>6, <2>7 DEF Untouched, library
<1>7. CASE RunPop
  <2>1. SameFrames(p)
    BY <1>1, <1>3, <1>4, <1>7, ReplaceForeign DEF RunPop
  <2>2. InQueue(p)' <=> InQueue(p)
    BY <1>1, <1>7, TailOthers DEF RunPop
  <2>3. QED
    BY <1>7, <2>1, <2>2 DEF RunPop, Untouched, library, answers
<1>8. QED
  BY <1>5, <1>6, <1>7

\* The functions of a Cookie touch its own operation only.
LEMMA CookieOthers ==
  ASSUME TypeOK, TypeOK', CookieInv,
         CancelKey \/ CancelDone \/ ReturnProgress \/ ReturnFinal,
         NEW o \in Ops, o = Top.op, NEW p \in Ops, p # o
  PROVE  Untouched(p) /\ UNCHANGED <<nops, pending, handed, viaQueue, shape, primary>>
<1>1. stack # <<>> /\ OfCookie(Top) /\ ~CancelsFront(Top) /\ Foreign(Top, p)
  BY DEF CancelKey, CancelDone, ReturnProgress, ReturnFinal, OnTop, OfCookie, CookieFrames,
         CancelsFront, Foreign
<1>2. UNCHANGED <<nops, pending, handed, viaQueue, shape, primary, inflight>>
  BY DEF CancelKey, CancelDone, ReturnProgress, ReturnFinal, handle, library
<1>3. InQueue(p)' <=> InQueue(p)
  BY <1>2 DEF InQueue
<1>4. CASE CancelKey
  <2> DEFINE k == Head(Top.keys)
             f == [Top EXCEPT !.keys = Tail(@)]
             base == Append(Callers, f)
  <2>1. Top.keys # <<>> /\ Top.fn = "cancel" /\ Progress(o, k, FALSE, FALSE, base)
    BY <1>4 DEF CancelKey, OnTop
  <2>2. Top \in Frame /\ Top.keys \in Seq(Nat) /\ Callers \in Seq(Frame)
    BY <1>1, CallersType, FrameFacts, TopOfCookie DEF TypeOK
  <2>3. k \in Nat /\ Tail(Top.keys) \in Seq(Nat)
    BY <2>1, <2>2, TailType
  <2>4. f \in Frame /\ f.fn = "cancel" /\ f.op = o /\ Foreign(f, p)
    BY <2>1, <2>2, <2>3 DEF Frame, CookieFrames, Foreign
  <2> HIDE DEF f
  <2>5. base \in Seq(Frame)
    BY <2>2, <2>4, AppendProperties
  <2> HIDE DEF k
  <2>6. /\ cookie'[p] = cookie[p] /\ heard'[p] = heard[p] /\ failed'[p] = failed[p]
        /\ stack' = base \/ stack' = Append(base, Call("progress", o))
    <3>1. PICK no \in BOOLEAN : ~no /\ Progress(o, k, no, no, base)
      BY <2>1
    <3> HIDE DEF base
    <3>2. QED
      BY <2>3, <2>5, <3>1, ProgressEffect
  <2>7. SameFrames(p)
    BY <1>1, <2>4, <2>6, CallbackFrames, ReplaceForeign, ReplacePushForeign
  <2>8. QED
    BY <1>2, <1>3, <2>6, <2>7 DEF Untouched
<1>5. CASE CancelDone \/ ReturnProgress \/ ReturnFinal
  <2>1. stack' = Callers /\ UNCHANGED <<heard, failed>>
    BY <1>5 DEF CancelDone, ReturnProgress, ReturnFinal, answers
  <2>2. SameFrames(p)
    BY <1>1, <2>1, PopForeign
  <2>3. cookie'[p] = cookie[p]
    BY <1>5 DEF CancelDone, ReturnProgress, ReturnFinal, answers, Delete, TypeOK
  <2>4. QED
    BY <1>2, <1>3, <2>1, <2>2, <2>3 DEF Untouched
<1>6. QED
  BY <1>4, <1>5
-----------------------------------------------------------------------------
(* Where frames come from. *)

\* A frame of a Cookie comes from a Cookie; of the others few matter.
LEMMA NewFrames ==
  ASSUME TypeOK, TypeOK', CookieInv, [Next]_vars, NEW i \in Depth'
  PROVE  \/ i \in Depth /\ stack'[i] = stack[i]
         \/ OfCookie(stack'[i])
         \/ stack'[i].fn \in {"bailOut", "errorCb", "errorEvent"}
         \/ stack'[i].fn = "destroy" /\ IdleRuns
         \/ stack'[i].fn = "connectCb" /\ ConfigArrives /\ connected'
         \/ stack'[i].fn = "runScheduled" /\ (ReturnConnect \/ RunNextFail \/ RunPop)
<1>0. /\ stack \in Seq(Frame)
      /\ \A fn \in AppFrames \cup NativeFrames :
           /\ \A o \in Ops \cup {NoOp} : Call(fn, o).fn = fn /\ Call(fn, o).op = o
           /\ \A o \in Ops : Call(fn, o) \in Frame
           /\ fn \notin CookieFrames => Call(fn, NoOp) \in Frame
  <2>1. ASSUME NEW fn \in AppFrames \cup NativeFrames
        PROVE  /\ \A o \in Ops : Call(fn, o) \in Frame
               /\ fn \notin CookieFrames => Call(fn, NoOp) \in Frame
    BY CallType
  <2>2. QED
    BY <2>1 DEF TypeOK, Call
<1>1. ASSUME stack' = stack
      PROVE  i \in Depth /\ stack'[i] = stack[i]
  BY <1>1 DEF Depth
<1>2. ASSUME NEW f \in Frame, stack' = Append(stack, f)
      PROVE  (i \in Depth /\ stack'[i] = stack[i]) \/ stack'[i] = f
  BY <1>2, Pushed
<1>3. ASSUME stack # <<>>, stack' = Callers
      PROVE  i \in Depth /\ stack'[i] = stack[i]
  BY <1>3, Popped
<1>4. ASSUME NEW f \in Frame, stack # <<>>, stack' = Append(Callers, f)
      PROVE  (i \in Depth /\ stack'[i] = stack[i]) \/ stack'[i] = f
  BY <1>4, Replaced
<1>5. ASSUME NEW f \in Frame, NEW g \in Frame, stack # <<>>,
             stack' = Append(Append(Callers, f), g)
      PROVE  (i \in Depth /\ stack'[i] = stack[i]) \/ stack'[i] \in {f, g}
  BY <1>5, ReplacedPushed
<1>6. ASSUME NEW o \in Ops, NEW k \in inflight[o], NEW ok \in BOOLEAN, Deliver(o, k, ok, stack)
      PROVE  (i \in Depth /\ stack'[i] = stack[i]) \/ OfCookie(stack'[i])
  <2>1. \/ stack' = stack \/ stack' = Append(stack, Call("progress", o))
        \/ stack' = Append(stack, Call("final", o))
    BY <1>6, DeliverEffect
  <2>2. \A fn \in {"progress", "final"} : Call(fn, o) \in Frame /\ OfCookie(Call(fn, o))
    BY CallbackFrames DEF OfCookie, CookieFrames
  <2>3. CASE stack' = stack
    BY <1>1, <2>3
  <2>4. ASSUME NEW fn \in {"progress", "final"}, stack' = Append(stack, Call(fn, o))
        PROVE  (i \in Depth /\ stack'[i] = stack[i]) \/ OfCookie(stack'[i])
    BY <1>2, <2>2, <2>4
  <2>5. QED
    BY <2>1, <2>3, <2>4
<1>7. CASE Connect \/ On \/ Shutdown \/ UNCHANGED vars
  BY <1>1, <1>7 DEF Connect, On, Shutdown, vars
<1>8. CASE ConfigArrives
  <2>1. stack' = stack \/ (stack' = Append(stack, Call("connectCb", NoOp)) /\ connected')
    BY <1>8 DEF ConfigArrives
  <2>2. Call("connectCb", NoOp) \in Frame /\ Call("connectCb", NoOp).fn = "connectCb"
    BY <1>0 DEF AppFrames, CookieFrames
  <2>3. QED
    BY <1>1, <1>2, <1>8, <2>1, <2>2
<1>9. CASE ErrorArrives
  <2>1. \/ stack' = stack \/ stack' = Append(stack, Call("errorCb", NoOp))
        \/ stack' = Append(stack, Call("errorEvent", NoOp))
    BY <1>9 DEF ErrorArrives
  <2>2. \A fn \in {"errorCb", "errorEvent"} : Call(fn, NoOp) \in Frame /\ Call(fn, NoOp).fn = fn
    BY <1>0 DEF AppFrames, CookieFrames
  <2>3. QED
    BY <1>1, <1>2, <2>1, <2>2
<1>10. CASE IdleRuns
  <2>1. stack' = Append(stack, Call("destroy", NoOp))
    BY <1>10 DEF IdleRuns
  <2>2. Call("destroy", NoOp) \in Frame /\ Call("destroy", NoOp).fn = "destroy"
    BY <1>0 DEF NativeFrames, CookieFrames
  <2>3. QED
    BY <1>2, <1>10, <2>1, <2>2
<1>11. ASSUME NEW o \in Ops, NEW s \in Shapes,
              Bail(o, s) \/ Enqueue(o, s) \/ Schedule(o, s) \/ ScheduleFail(o, s)
       PROVE  \/ i \in Depth /\ stack'[i] = stack[i]
              \/ OfCookie(stack'[i]) \/ stack'[i].fn = "bailOut"
  <2>1. CASE Bail(o, s)
    <3>1. stack' = Append(stack, Call("bailOut", o))
      BY <2>1 DEF Bail
    <3>2. Call("bailOut", o) \in Frame /\ Call("bailOut", o).fn = "bailOut"
      BY <1>0 DEF AppFrames, CookieFrames
    <3>3. QED
      BY <1>2, <3>1, <3>2
  <2>2. CASE Enqueue(o, s) \/ Schedule(o, s)
    <3>1. stack' = stack
      BY <2>2 DEF Enqueue, Schedule
    <3>2. QED
      BY <1>1, <3>1
  <2>3. CASE ScheduleFail(o, s)
    <3>1. PICK f \in Frame : stack' = Append(stack, f) /\ OfCookie(f)
      <4> DEFINE g == [fn |-> "cancel", op |-> o, keys |-> AllKeys(s)]
      <4>1. stack' = Append(stack, g) \/ stack' = Append(stack, Call("final", o))
        BY <2>3 DEF ScheduleFail, Cancel, Answer
      <4>2. AllKeys(s) \in Seq(Nat)
        <5>1. s.nkeys \in Nat
          BY ShapesAssumption
        <5>2. QED
          BY <5>1 DEF AllKeys
      <4>3. g \in Frame /\ OfCookie(g)
        BY <4>2, CancelFrame DEF OfCookie, CookieFrames
      <4>4. Call("final", o) \in Frame /\ OfCookie(Call("final", o))
        BY CallbackFrames DEF OfCookie, CookieFrames
      <4>5. QED
        BY <4>1, <4>3, <4>4
    <3>2. QED
      BY <1>2, <3>1
  <2>4. QED
    BY <1>11, <2>1, <2>2, <2>3
<1>12. CASE ReturnConnect
  <2>1. Call("runScheduled", NoOp) \in Frame /\ Call("runScheduled", NoOp).fn = "runScheduled"
    BY <1>0 DEF NativeFrames, CookieFrames
  <2>2. QED
    BY <1>4, <1>12, <2>1 DEF ReturnConnect, OnTop
<1>13. CASE ReturnConnectError
  <2>1. Call("errorEvent", NoOp) \in Frame /\ Call("errorEvent", NoOp).fn = "errorEvent"
    BY <1>0 DEF AppFrames, CookieFrames
  <2>2. QED
    BY <1>3, <1>4, <1>13, <2>1 DEF ReturnConnectError, OnTop
<1>14. CASE ReturnOther \/ RunDone \/ CancelDone \/ DestroyDone \/ ReturnProgress \/ ReturnFinal
  BY <1>3, <1>14 DEF ReturnOther, RunDone, CancelDone, DestroyDone, ReturnProgress,
                     ReturnFinal, OnTop
<1>15. CASE RunNext
  BY <1>1, <1>15 DEF RunNext
<1>16. CASE RunNextFail
  <2> DEFINE o == Head(pending)
             f == Call("runScheduled", o)
             g == [fn |-> "cancel", op |-> o, keys |-> <<NoKey>>]
  <2>1. stack # <<>> /\ o \in Ops
    BY <1>16, DrainFacts DEF RunNextFail, OnTop
  <2>2. \/ stack' = Append(Append(Callers, f), g)
        \/ stack' = Append(Append(Callers, f), Call("final", o))
    BY <1>16 DEF RunNextFail, Cancel, Answer
  <2> HIDE DEF o
  <2>3. f \in Frame /\ f.fn = "runScheduled"
    BY <1>0, <2>1 DEF NativeFrames, CookieFrames
  <2>4. g \in Frame /\ OfCookie(g)
    <3>1. <<NoKey>> \in Seq(Nat)
      OBVIOUS
    <3>2. QED
      BY <2>1, <3>1, CancelFrame DEF OfCookie, CookieFrames
  <2>5. Call("final", o) \in Frame /\ OfCookie(Call("final", o))
    BY <2>1, CallbackFrames DEF OfCookie, CookieFrames
  <2> HIDE DEF f, g
  <2>6. QED
    BY <1>5, <1>16, <2>1, <2>2, <2>3, <2>4, <2>5
<1>17. CASE RunPop
  <2>1. Call("runScheduled", NoOp) \in Frame /\ Call("runScheduled", NoOp).fn = "runScheduled"
    BY <1>0 DEF NativeFrames, CookieFrames
  <2>2. QED
    BY <1>4, <1>17, <2>1 DEF RunPop, OnTop
<1>18. CASE CancelKey
  <2> DEFINE o == Top.op
             f == [Top EXCEPT !.keys = Tail(@)]
  <2>1. stack # <<>> /\ Top.fn = "cancel" /\ Top.keys # <<>> /\ OfCookie(Top)
    BY <1>18 DEF CancelKey, OnTop, OfCookie, CookieFrames
  <2>2. o \in Ops /\ Top \in Frame /\ Top.keys \in Seq(Nat)
    BY <2>1, TopOfCookie, FrameFacts
  <2>3. f \in Frame /\ f.fn = "cancel" /\ OfCookie(f)
    <3>1. Tail(Top.keys) \in Seq(Nat)
      BY <2>1, <2>2, TailType
    <3>2. QED
      BY <2>1, <2>2, <3>1 DEF Frame, CookieFrames, OfCookie
  <2>4. \/ stack' = Append(Callers, f)
        \/ stack' = Append(Append(Callers, f), Call("progress", o))
    BY <1>18 DEF CancelKey, Progress
  <2> HIDE DEF f, o
  <2>5. Call("progress", o) \in Frame /\ OfCookie(Call("progress", o))
    BY <2>2, CallbackFrames DEF OfCookie, CookieFrames
  <2>6. QED
    BY <1>4, <1>5, <2>1, <2>3, <2>4, <2>5
<1>19. ASSUME NEW o \in Ops, NEW k \in inflight[o], DestroyNext(o, k)
       PROVE  (i \in Depth /\ stack'[i] = stack[i]) \/ OfCookie(stack'[i])
  <2>1. Deliver(o, k, FALSE, stack) /\ FALSE \in BOOLEAN
    BY <1>19 DEF DestroyNext
  <2>2. QED
    BY <1>6, <2>1
<1>20. ASSUME NEW o \in Ops, NEW k \in inflight[o], NEW ok \in BOOLEAN, Reply(o, k, ok)
       PROVE  (i \in Depth /\ stack'[i] = stack[i]) \/ OfCookie(stack'[i])
  <2>1. Deliver(o, k, ok, stack)
    BY <1>20 DEF Reply
  <2>2. QED
    BY <1>6, <2>1
<1>21. QED
  BY <1>7, <1>8, <1>9, <1>10, <1>11, <1>12, <1>13, <1>14, <1>15, <1>16, <1>17, <1>18, <1>19,
     <1>20 DEF Next, Application, NativeSteps, Replies
-----------------------------------------------------------------------------
(* The connect handler. *)

\* Only three steps are about the connection; the others at most destroy the
\* instance.
LEMMA ConnectEffect ==
  ASSUME [Next]_vars
  PROVE  \/ Connect \/ ConfigArrives \/ ErrorArrives
         \/ /\ UNCHANGED <<connected, connectCalls>>
            /\ primary' = primary \/ primary' = "destroyed"
            /\ handed' = handed \/ connected \/ OnTop("runScheduled")
<1>1. CASE UNCHANGED vars
  BY <1>1 DEF vars, handle, library
<1>2. CASE Application
  <2>1. CASE On \/ Shutdown
    BY <2>1 DEF On, Shutdown, library
  <2>2. ASSUME NEW o \in Ops, NEW s \in Shapes,
               Bail(o, s) \/ Enqueue(o, s) \/ Schedule(o, s) \/ ScheduleFail(o, s)
        PROVE  /\ UNCHANGED <<connected, connectCalls, primary>>
               /\ handed' = handed \/ connected
    BY <2>2 DEF Bail, Enqueue, Schedule, ScheduleFail, handle, library
  <2>3. QED
    BY <1>2, <2>1, <2>2 DEF Application
<1>3. CASE \/ ReturnConnect \/ ReturnConnectError \/ ReturnProgress \/ ReturnFinal
           \/ ReturnOther \/ RunDone \/ CancelKey \/ CancelDone \/ DestroyDone
  BY <1>3 DEF ReturnConnect, ReturnConnectError, ReturnProgress, ReturnFinal, ReturnOther,
              RunDone, CancelKey, CancelDone, DestroyDone, handle, library
<1>4. CASE RunNext \/ RunNextFail \/ RunPop
  BY <1>4 DEF RunNext, RunNextFail, RunPop, handle, library
<1>5. ASSUME NEW o \in Ops, NEW k, NEW ok, NEW base, Deliver(o, k, ok, base)
      PROVE  UNCHANGED <<connected, connectCalls, primary, handed>>
  BY <1>5 DEF Deliver, handle
<1>6. CASE Replies
  BY <1>5, <1>6 DEF Replies, Reply
<1>7. CASE \E o \in Ops : \E k \in inflight[o] : DestroyNext(o, k)
  BY <1>5, <1>7 DEF DestroyNext
<1>8. CASE IdleRuns
  BY <1>8 DEF IdleRuns, handle
<1>9. QED
  BY <1>1, <1>2, <1>3, <1>4, <1>6, <1>7, <1>8 DEF Next, NativeSteps

\* A frame that runs the queue stands on a connected handle.
LEMMA OnlyConnectedRun ==
  ASSUME TypeOK, ConnectInv, OnTop("connectCb") \/ OnTop("runScheduled")
  PROVE  connected
BY StackFacts DEF OnTop, ConnectInv

\* Every step keeps ConnectInv, ...
LEMMA ConnectInvStep ==
  ASSUME TypeOK, TypeOK', CookieInv, ConnectInv, [Next]_vars
  PROVE  ConnectInv'
<1>1. connected \in BOOLEAN /\ connected' \in BOOLEAN /\ connectCalls \in Nat
  BY DEF TypeOK
<1>2. connected => connected'
  <2>1. Connect \/ ConfigArrives \/ ErrorArrives => (connected => connected')
    BY DEF Connect, ConfigArrives, ErrorArrives, handle
  <2>2. QED
    BY <2>1, ConnectEffect
<1>3. \A i \in Depth' : stack'[i].fn \in {"connectCb", "runScheduled"} => connected'
  <2> SUFFICES ASSUME NEW i \in Depth', stack'[i].fn \in {"connectCb", "runScheduled"}
               PROVE  connected'
    OBVIOUS
  <2>1. ~OfCookie(stack'[i]) /\ stack'[i].fn \notin {"bailOut", "errorCb", "errorEvent", "destroy"}
    BY DEF OfCookie, CookieFrames
  <2>2. \/ i \in Depth /\ stack'[i] = stack[i]
        \/ connected'
        \/ ReturnConnect \/ RunNextFail \/ RunPop
    BY <2>1, NewFrames
  <2>3. CASE i \in Depth /\ stack'[i] = stack[i]
    BY <1>2, <2>3 DEF ConnectInv
  <2>4. CASE ReturnConnect \/ RunNextFail \/ RunPop
    BY <1>2, <2>4, OnlyConnectedRun DEF ReturnConnect, RunNextFail, RunPop
  <2>5. QED
    BY <2>2, <2>3, <2>4
<1>4. CASE Connect
  <2>1. /\ primary = "created" /\ connected' = connected /\ handed' = handed
        /\ \/ primary' = "connecting" /\ connectCalls' = connectCalls
           \/ primary' = "failed" /\ connectCalls' = connectCalls + 1
    BY <1>4 DEF Connect, handle
  <2>2. ~connected /\ connectCalls = 0
    BY <2>1 DEF ConnectInv
  <2>3. QED
    BY <1>1, <1>3, <2>1, <2>2 DEF ConnectInv
<1>5. CASE ConfigArrives
  <2>1. /\ primary = "connecting" /\ primary' = "ready" /\ handed' = handed
        /\ \/ ~connected /\ connected' /\ connectCalls' = connectCalls + 1
           \/ /\ connected' = connected /\ connectCalls' = connectCalls
    BY <1>5 DEF ConfigArrives
  <2>2. QED
    BY <1>1, <1>2, <1>3, <2>1 DEF ConnectInv
<1>6. CASE ErrorArrives
  <2>1. /\ primary \in {"connecting", "ready"} /\ primary' \in {primary, "failed"}
        /\ handed' = handed
        /\ \/ ~connected /\ connected' /\ connectCalls' = connectCalls + 1
           \/ connected /\ connected' = connected /\ connectCalls' = connectCalls
    BY <1>6 DEF ErrorArrives
  <2>2. QED
    BY <1>1, <1>2, <1>3, <2>1 DEF ConnectInv
<1>7. CASE /\ UNCHANGED <<connected, connectCalls>>
           /\ primary' = primary \/ primary' = "destroyed"
           /\ handed' = handed \/ connected \/ OnTop("runScheduled")
  BY <1>1, <1>3, <1>7, OnlyConnectedRun DEF ConnectInv
<1>8. QED
  BY <1>4, <1>5, <1>6, <1>7, ConnectEffect

\* ... which holds at the start.
LEMMA ConnectInvInit ==
  ASSUME Init
  PROVE  ConnectInv
<1>1. /\ connectCalls = 0 /\ handed = <<>> /\ primary = "created" /\ connected = FALSE
      /\ Depth = {}
  <2>1. stack = <<>> /\ Len(stack) = 0
    BY DEF Init
  <2>2. QED
    BY <2>1 DEF Init, Depth
<1>2. QED
  BY <1>1 DEF ConnectInv

\* The connect handler is called once at most, and before any operation is
\* executed.
THEOREM ConnectOnceCorrect == Spec => []ConnectOnce
<1>1. Init => ConnectInv
  BY ConnectInvInit
<1>2. TypeOK /\ TypeOK' /\ CookieInv /\ ConnectInv /\ [Next]_vars => ConnectInv'
  BY ConnectInvStep
<1>3. ConnectInv => ConnectOnce
  BY DEF ConnectInv, ConnectOnce
<1>4. QED
  BY <1>1, <1>2, <1>3, TypeCorrect, CookieInvCorrect, PTL DEF Spec
-----------------------------------------------------------------------------
(* The kinds of steps. *)

\* Every step is a quiet one, starts an operation, runs the queue, is one of a
\* Cookie's functions or of a callback it has called, delivers a reply, or ends
\* the destruction of the instance.
LEMMA StepKinds ==
  ASSUME [Next]_vars
  PROVE  \/ QuietSteps
         \/ \E o \in Ops, s \in Shapes :
              Bail(o, s) \/ Enqueue(o, s) \/ Schedule(o, s) \/ ScheduleFail(o, s)
         \/ RunNext \/ RunNextFail \/ RunPop
         \/ CancelKey \/ CancelDone \/ ReturnProgress \/ ReturnFinal
         \/ DestroyDone
         \/ \E o \in Ops : \E k \in inflight[o], ok \in BOOLEAN :
              Deliver(o, k, ok, stack) /\ (stack = <<>> \/ OnTop("destroy"))
<1>1. ASSUME NEW o \in Ops, NEW k \in inflight[o], DestroyNext(o, k)
      PROVE  \E ok \in BOOLEAN : Deliver(o, k, ok, stack) /\ OnTop("destroy")
  <2>1. Deliver(o, k, FALSE, stack) /\ OnTop("destroy") /\ FALSE \in BOOLEAN
    BY <1>1 DEF DestroyNext
  <2>2. QED
    BY <2>1
<1>2. ASSUME NEW o \in Ops, NEW k \in inflight[o], NEW ok \in BOOLEAN, Reply(o, k, ok)
      PROVE  Deliver(o, k, ok, stack) /\ stack = <<>>
  BY <1>2 DEF Reply, InLoop
<1>3. QED
  BY <1>1, <1>2 DEF Next, Application, NativeSteps, Replies, QuietSteps

\* A function of the event loop that is on top is alone on the stack.
LEMMA LoopAlone ==
  ASSUME TypeOK, CookieInv, stack # <<>>, Top.fn \in LoopFrames
  PROVE  Len(stack) = 1 /\ \A i \in Depth : i = 1 /\ stack[i] = Top
<1>1. Len(stack) \in Depth /\ Top = stack[Len(stack)]
  BY StackFacts
<1>2. Len(stack) = 1
  BY <1>1 DEF CookieInv, LoopOutermost
<1>3. QED
  BY <1>1, <1>2 DEF Depth

\* The queue cancels its front until RunPop.
LEMMA CancelGoesOn ==
  ASSUME TypeOK, TypeOK', CookieInv, [Next]_vars, ~RunPop, Cancelling
  PROVE  Cancelling' /\ ~RunNext /\ ~RunNextFail
<1>1. PICK i \in Depth : CancelsFront(stack[i])
  BY DEF Cancelling
<1>0. PICK q : q = stack[i].op
  OBVIOUS
<1>2. q \in Ops /\ InQueue(q) /\ i = 1 /\ pending # <<>>
  <2>1. i = 1 /\ pending # <<>> /\ q = pending[1] /\ Len(pending) \in Nat
    BY <1>0, <1>1, FrameFacts DEF CookieInv, LoopOutermost, CancelsFront, LoopFrames
  <2>2. 1 \in 1..Len(pending)
    BY <2>1, FrameFacts
  <2>3. QED
    BY <2>1, <2>2, FrameFacts DEF InQueue
<1>3. Running(q)
  BY <1>0, <1>1, <1>2, StackFacts
<1>4. Running(q)' => Cancelling'
  <2>1. stack' \in Seq(Frame)
    BY DEF TypeOK
  <2>2. DOMAIN stack' = Depth'
    BY <2>1, LenProperties DEF Depth
  <2>3. QED
    BY <1>2, <2>2 DEF Running, CancelsFront, Cancelling, Ops
<1>5. ASSUME Untouched(q) PROVE Cancelling'
  BY <1>3, <1>4, <1>5 DEF Untouched, SameFrames
<1>6. ~RunNext /\ ~RunNextFail
  <2>1. RunNext \/ RunNextFail => OnTop("runScheduled") /\ Top.op = NoOp
    BY DEF RunNext, RunNextFail
  <2>2. QED
    BY <1>2, <2>1, DrainFacts
<1>7. CASE QuietSteps
  BY <1>2, <1>5, <1>6, <1>7, QuietUntouched
<1>8. ASSUME NEW o \in Ops, NEW s \in Shapes,
             Bail(o, s) \/ Enqueue(o, s) \/ Schedule(o, s) \/ ScheduleFail(o, s)
      PROVE  Cancelling'
  <2>1. Start(o, s)
    BY <1>8 DEF Bail, Enqueue, Schedule, ScheduleFail
  <2>2. q # o
    BY <1>2, <2>1, StartFacts
  <2>3. QED
    BY <1>2, <1>5, <1>8, <2>2, StartOthers
<1>9. CASE CancelKey \/ CancelDone \/ ReturnProgress \/ ReturnFinal
  <2>1. stack # <<>> /\ Top.fn \in CookieFrames
    BY <1>9 DEF CancelKey, CancelDone, ReturnProgress, ReturnFinal, OnTop, CookieFrames
  <2>2. Top = stack[Len(stack)] /\ i # Len(stack) /\ OfCookie(Top)
    BY <1>1, <2>1, StackFacts DEF CancelsFront, CookieFrames, OfCookie
  <2>3. i \in Depth' /\ stack'[i] = stack[i]
    <3>1. CASE stack' = Callers
      BY <2>1, <2>2, <3>1, Popped
    <3>2. CASE CancelKey
      <4> DEFINE f == [Top EXCEPT !.keys = Tail(@)]
      <4>1. /\ Top.keys # <<>> /\ Top.fn = "cancel"
            /\ \/ stack' = Append(Callers, f)
               \/ stack' = Append(Append(Callers, f), Call("progress", Top.op))
        BY <3>2 DEF CancelKey, Progress, OnTop
      <4>2. Top \in Frame /\ Top.keys \in Seq(Nat) /\ Top.op \in Ops
        BY <2>1, <2>2, FrameFacts, TopOfCookie
      <4>3. f \in Frame
        <5>1. Tail(Top.keys) \in Seq(Nat)
          BY <4>1, <4>2, TailType
        <5>2. QED
          BY <4>1, <4>2, <5>1 DEF Frame, CookieFrames
      <4> HIDE DEF f
      <4>4. Call("progress", Top.op) \in Frame
        BY <4>2, CallbackFrames
      <4>5. QED
        BY <2>1, <2>2, <4>1, <4>3, <4>4, Replaced, ReplacedPushed
    <3>3. QED
      BY <1>9, <3>1, <3>2 DEF CancelDone, ReturnProgress, ReturnFinal
  <2>4. QED
    BY <1>1, <1>6, <2>3 DEF Cancelling, CancelsFront
<1>10. CASE DestroyDone
  <2>1. stack # <<>> /\ Top.fn = "destroy"
    BY <1>10 DEF DestroyDone, OnTop
  <2>2. QED
    BY <1>1, <2>1, LoopAlone DEF LoopFrames, CancelsFront
<1>11. ASSUME NEW o \in Ops, NEW k \in inflight[o], NEW ok \in BOOLEAN,
              Deliver(o, k, ok, stack)
       PROVE  Cancelling'
  <2>1. q # o
    BY <1>2 DEF CookieInv, Owed, OwedTo
  <2>2. QED
    BY <1>2, <1>5, <1>11, <2>1, DeliverOthers
<1>12. QED
  BY <1>6, <1>7, <1>8, <1>9, <1>10, <1>11, StepKinds
-----------------------------------------------------------------------------
(* The order of the operations. *)

\* What was handed over and what waits are sequences of operations.
LEMMA HandedFacts ==
  ASSUME TypeOK
  PROVE  /\ Len(handed) \in Nat /\ DOMAIN handed = 1..Len(handed)
         /\ \A i \in 1..Len(handed) : handed[i] \in Ops /\ handed[i] \in Int
         /\ Len(pending) \in Nat
         /\ \A i \in 1..Len(pending) : pending[i] \in Ops /\ pending[i] \in Int
         /\ \A p \in viaQueue : p \in Ops
         /\ \A p \in Ops : p \in Int
         /\ nops \in Int
<1>1. handed \in Seq(Ops) /\ pending \in Seq(Ops) /\ nops \in Int /\ viaQueue \subseteq Ops
  BY BoundsAssumption DEF TypeOK
<1>2. \A p \in Ops : p \in Int
  BY DEF Ops
<1>3. /\ Len(handed) \in Nat /\ DOMAIN handed = 1..Len(handed)
      /\ \A i \in 1..Len(handed) : handed[i] \in Ops
  BY <1>1, LenProperties, ElementOfSeq
<1>4. Len(pending) \in Nat /\ \A i \in 1..Len(pending) : pending[i] \in Ops
  BY <1>1, LenProperties, ElementOfSeq
<1>5. QED
  BY <1>1, <1>2, <1>3, <1>4

\* An operation is handed over.
LEMMA HandedOver ==
  ASSUME TypeOK, TypeOK', NEW o \in Ops, handed' = Append(handed, o)
  PROVE  /\ Len(handed') = Len(handed) + 1 /\ Len(handed) \in Nat
         /\ \A i \in 1..Len(handed) : i \in 1..Len(handed') /\ handed'[i] = handed[i]
         /\ \A i \in 1..Len(handed') : \/ i \in 1..Len(handed) /\ handed'[i] = handed[i]
                                       \/ i = Len(handed) + 1 /\ handed'[i] = o
<1>1. handed \in Seq(Ops) /\ Len(handed) \in Nat
  BY HandedFacts DEF TypeOK
<1>2. /\ Len(handed') = Len(handed) + 1 /\ handed'[Len(handed) + 1] = o
      /\ \A i \in 1..Len(handed) : handed'[i] = handed[i]
  BY <1>1, AppendProperties
<1>3. QED
  BY <1>1, <1>2

\* The order as a property of positions.
LEMMA OrderFacts ==
  ASSUME TypeOK
  PROVE  HandedInOrder <=>
           \A i, j \in 1..Len(handed) :
             i < j => \/ handed[i] < handed[j]
                      \/ handed[i] \notin viaQueue /\ handed[j] \in viaQueue
BY HandedFacts DEF HandedInOrder

\* A step that hands nothing over and leaves the queue alone.
LEMMA HandedStays ==
  ASSUME TypeOK, TypeOK', HandedInv, UNCHANGED <<pending, handed, viaQueue>>,
         nops' = nops \/ nops' = nops + 1, Cancelling => Cancelling'
  PROVE  HandedInv'
<1>1. /\ \A i \in 1..Len(handed) : handed[i] <= nops'
      /\ \A p \in viaQueue : p <= nops'
  BY HandedFacts DEF HandedInv
<1>2. HandedInOrder'
  BY DEF HandedInv, HandedInOrder
<1>3. QED
  BY <1>1, <1>2 DEF HandedInv

\* An operation that starts joins the queue, if nothing was handed over yet, ...
LEMMA EnqueueHanded ==
  ASSUME TypeOK, TypeOK', CookieInv, ConnectInv, HandedInv,
         NEW o \in Ops, NEW s \in Shapes, Enqueue(o, s), Cancelling => Cancelling'
  PROVE  HandedInv'
<1>1. /\ nops' = o /\ o = nops + 1 /\ handed' = handed /\ ~connected
      /\ pending' = Append(pending, o) /\ viaQueue' = viaQueue \cup {o}
  BY DEF Enqueue, Start
<1>2. handed = <<>> /\ Len(handed') = 0
  BY <1>1 DEF ConnectInv
<1>3. /\ Len(pending') = Len(pending) + 1 /\ pending'[Len(pending) + 1] = o
      /\ \A i \in 1..Len(pending) : pending'[i] = pending[i]
  <2>1. pending \in Seq(Ops)
    BY DEF TypeOK
  <2>2. QED
    BY <1>1, <2>1, AppendProperties
<1>4. \A i \in 1..Len(pending') : \/ i \in 1..Len(pending) /\ pending'[i] = pending[i]
                                  \/ i = Len(pending) + 1 /\ pending'[i] = o
  BY <1>3, HandedFacts
<1>5. \A i \in 1..Len(pending) : pending[i] \in viaQueue /\ pending[i] < o
  BY <1>1, HandedFacts DEF HandedInv
<1>6. \A i \in 1..Len(pending') : pending'[i] \in viaQueue'
  BY <1>1, <1>4, <1>5
<1>7. \A i, j \in 1..Len(pending') : i < j => pending'[i] < pending'[j]
  <2> SUFFICES ASSUME NEW i \in 1..Len(pending'), NEW j \in 1..Len(pending'), i < j
               PROVE  pending'[i] < pending'[j]
    OBVIOUS
  <2>1. i \in 1..Len(pending) /\ pending'[i] = pending[i]
    BY <1>3, <1>4, HandedFacts
  <2>2. CASE j \in 1..Len(pending) /\ pending'[j] = pending[j]
    BY <2>1, <2>2 DEF HandedInv
  <2>3. CASE pending'[j] = o
    BY <1>5, <2>1, <2>3
  <2>4. (j \in 1..Len(pending) /\ pending'[j] = pending[j]) \/ pending'[j] = o
    BY <1>4
  <2>5. QED
    BY <2>2, <2>3, <2>4
<1>8. \A p \in viaQueue' : p <= nops'
  <2>1. ASSUME NEW p \in Ops, p <= nops PROVE p <= o
    BY <1>1, <2>1, HandedFacts
  <2>2. \A p \in viaQueue : p \in Ops /\ p <= nops
    BY HandedFacts DEF HandedInv
  <2>3. o <= o
    BY HandedFacts
  <2>4. QED
    BY <1>1, <2>1, <2>2, <2>3
<1>9. HandedInOrder'
  BY <1>2, <1>1 DEF HandedInOrder
<1>10. 1..Len(handed') = {}
  BY <1>2
<1>11. QED
  BY <1>6, <1>7, <1>8, <1>9, <1>10 DEF HandedInv

\* ... or is handed over at once.
LEMMA TakenHanded ==
  ASSUME TypeOK, TypeOK', CookieInv, HandedInv, NEW o \in Ops, NEW s \in Shapes,
         Schedule(o, s) \/ ScheduleFail(o, s), Cancelling => Cancelling'
  PROVE  HandedInv'
<1>1. /\ nops' = o /\ o = nops + 1 /\ handed' = Append(handed, o)
      /\ pending' = pending /\ viaQueue' = viaQueue
  BY DEF Schedule, ScheduleFail, Start, handle
<1>2. /\ \A p \in viaQueue : p < o
      /\ \A i \in 1..Len(handed) : handed[i] < o
      /\ o \notin viaQueue
  <2>1. ASSUME NEW p \in Ops, p <= nops PROVE p < o /\ p # o
    BY <1>1, <2>1, HandedFacts
  <2>2. \A p \in viaQueue : p \in Ops /\ p <= nops
    BY HandedFacts DEF HandedInv
  <2>3. \A i \in 1..Len(handed) : handed[i] \in Ops /\ handed[i] <= nops
    BY HandedFacts DEF HandedInv
  <2>4. QED
    BY <2>1, <2>2, <2>3
<1>3. /\ Len(handed) \in Nat
      /\ \A i \in 1..Len(handed') : \/ i \in 1..Len(handed) /\ handed'[i] = handed[i]
                                    \/ i = Len(handed) + 1 /\ handed'[i] = o
  BY <1>1, HandedOver
<1>4. \A i \in 1..Len(handed') : handed'[i] <= nops'
  <2>1. \A i \in 1..Len(handed) : handed[i] <= o
    BY <1>2, HandedFacts
  <2>2. o <= o
    BY HandedFacts
  <2>3. ASSUME NEW i \in 1..Len(handed') PROVE handed'[i] <= o
    <3>1. (i \in 1..Len(handed) /\ handed'[i] = handed[i]) \/ handed'[i] = o
      BY <1>3
    <3>2. QED
      BY <2>1, <2>2, <3>1
  <2>4. QED
    BY <1>1, <2>3
<1>5. \A p \in viaQueue' : p <= nops'
  <2>1. \A p \in viaQueue : p <= o
    BY <1>2, HandedFacts
  <2>2. QED
    BY <1>1, <2>1
<1>6. \A i \in 1..Len(handed'), j \in 1..Len(pending') :
         handed'[i] \in viaQueue' => \/ handed'[i] < pending'[j]
                                    \/ (handed'[i] = pending'[j] /\ j = 1 /\ Cancelling')
  BY <1>1, <1>2, <1>3 DEF HandedInv
<1>7. \A i \in 1..Len(handed') : handed'[i] \notin viaQueue' =>
                                  \A p \in viaQueue' : p < handed'[i]
  BY <1>1, <1>2, <1>3 DEF HandedInv
<1>8. \A i, j \in 1..Len(handed') :
         i < j => \/ handed'[i] < handed'[j]
                  \/ handed'[i] \notin viaQueue' /\ handed'[j] \in viaQueue'
  <2> SUFFICES ASSUME NEW i \in 1..Len(handed'), NEW j \in 1..Len(handed'), i < j
               PROVE  \/ handed'[i] < handed'[j]
                      \/ handed'[i] \notin viaQueue' /\ handed'[j] \in viaQueue'
    OBVIOUS
  <2>1. i \in 1..Len(handed) /\ handed'[i] = handed[i]
    BY <1>1, HandedOver
  <2>2. CASE j \in 1..Len(handed) /\ handed'[j] = handed[j]
    BY <1>1, <2>1, <2>2, OrderFacts DEF HandedInv
  <2>3. CASE handed'[j] = o
    BY <1>2, <2>1, <2>3
  <2>4. QED
    BY <1>3, <2>2, <2>3
<1>9. HandedInOrder'
  <2>1. DOMAIN handed' = 1..Len(handed')
    BY LenProperties DEF TypeOK
  <2>2. QED
    BY <1>8, <2>1 DEF HandedInOrder
<1>10. QED
  BY <1>1, <1>4, <1>5, <1>6, <1>7, <1>9 DEF HandedInv

\* The front of the queue is handed over: it is later than all that went
\* through the queue before, and earlier than what still waits.
LEMMA FrontHanded ==
  ASSUME TypeOK, TypeOK', CookieInv, HandedInv, ~Cancelling,
         NEW o \in Ops, pending # <<>>, o = pending[1],
         handed' = Append(handed, o), UNCHANGED <<viaQueue, nops>>
  PROVE  /\ o \in viaQueue /\ o <= nops
         /\ \A i \in 1..Len(handed') : handed'[i] <= nops'
         /\ \A i \in 1..Len(handed'), j \in 2..Len(pending) :
              handed'[i] \in viaQueue => handed'[i] < pending[j]
         /\ \A i \in 1..Len(handed') :
              handed'[i] \in viaQueue => handed'[i] <= pending[1]
         /\ \A i \in 1..Len(handed') : handed'[i] \notin viaQueue' =>
                                         \A p \in viaQueue' : p < handed'[i]
         /\ HandedInOrder'
<1>1. 1 \in 1..Len(pending) /\ \A j \in 2..Len(pending) : j \in 1..Len(pending) /\ 1 < j
  BY FrameFacts
<1>2. o \in viaQueue /\ o <= nops
  BY <1>1 DEF HandedInv
<1>3. /\ Len(handed) \in Nat
      /\ \A i \in 1..Len(handed') : \/ i \in 1..Len(handed) /\ handed'[i] = handed[i]
                                    \/ i = Len(handed) + 1 /\ handed'[i] = o
  BY HandedOver
<1>4. \A i \in 1..Len(handed), j \in 1..Len(pending) :
         handed[i] \in viaQueue => handed[i] < pending[j]
  BY DEF HandedInv
<1>5. \A j \in 2..Len(pending) : o < pending[j]
  BY <1>1 DEF HandedInv
<1>6. \A i \in 1..Len(handed') : handed'[i] <= nops'
  BY <1>2, <1>3 DEF HandedInv
<1>7. \A i \in 1..Len(handed'), j \in 2..Len(pending) :
         handed'[i] \in viaQueue => handed'[i] < pending[j]
  BY <1>1, <1>3, <1>4, <1>5
<1>8. \A i \in 1..Len(handed') : handed'[i] \in viaQueue => handed'[i] <= pending[1]
  BY <1>1, <1>3, <1>4, HandedFacts
<1>9. \A i \in 1..Len(handed') : handed'[i] \notin viaQueue' =>
                                  \A p \in viaQueue' : p < handed'[i]
  BY <1>2, <1>3 DEF HandedInv
<1>10. HandedInOrder'
  <2>1. DOMAIN handed' = 1..Len(handed')
    BY LenProperties DEF TypeOK
  <2> SUFFICES ASSUME NEW i \in 1..Len(handed'), NEW j \in 1..Len(handed'), i < j
               PROVE  \/ handed'[i] < handed'[j]
                      \/ handed'[i] \notin viaQueue' /\ handed'[j] \in viaQueue'
    BY <2>1 DEF HandedInOrder
  <2>2. i \in 1..Len(handed) /\ handed'[i] = handed[i]
    BY HandedOver
  <2>3. CASE j \in 1..Len(handed) /\ handed'[j] = handed[j]
    BY <2>2, <2>3, OrderFacts DEF HandedInv
  <2>4. CASE handed'[j] = o
    BY <1>1, <1>2, <1>4, <2>2, <2>4
  <2>5. QED
    BY <1>3, <2>3, <2>4
<1>11. QED
  BY <1>2, <1>6, <1>7, <1>8, <1>9, <1>10

\* The queue without its front.
LEMMA TailHanded ==
  ASSUME TypeOK, TypeOK', CookieInv, HandedInv, pending # <<>>, pending' = Tail(pending)
  PROVE  /\ \A j \in 1..Len(pending') : j + 1 \in 2..Len(pending) /\ j + 1 \in 1..Len(pending)
                                        /\ pending'[j] = pending[j + 1]
         /\ \A j \in 1..Len(pending') : pending'[j] \in viaQueue
         /\ \A i, j \in 1..Len(pending') : i < j => pending'[i] < pending'[j]
<1>1. \A j \in 1..Len(pending') : j + 1 \in 2..Len(pending) /\ pending'[j] = pending[j + 1]
  BY TailFacts
<1>2. \A j \in 1..Len(pending') : j + 1 \in 1..Len(pending)
  BY <1>1
<1>3. \A j \in 1..Len(pending') : pending'[j] \in viaQueue
  BY <1>1, <1>2 DEF HandedInv
<1>4. ASSUME NEW i \in 1..Len(pending'), NEW j \in 1..Len(pending'), i < j
      PROVE  pending'[i] < pending'[j]
  <2>1. i + 1 < j + 1
    BY <1>4
  <2>2. QED
    BY <1>1, <1>2, <2>1 DEF HandedInv
<1>5. QED
  BY <1>1, <1>2, <1>3, <1>4

\* The queue runs.
LEMMA RunHanded ==
  ASSUME TypeOK, TypeOK', CookieInv, HandedInv, RunNext \/ RunNextFail \/ RunPop
  PROVE  HandedInv'
<1>1. /\ pending # <<>> /\ Head(pending) = pending[1] /\ Head(pending) \in Ops
      /\ UNCHANGED <<viaQueue, nops>>
      /\ Top.op = NoOp => ~Cancelling
  <2>1. OnTop("runScheduled") /\ pending # <<>> /\ UNCHANGED <<viaQueue, nops>>
    BY DEF RunNext, RunNextFail, RunPop
  <2>2. QED
    BY <2>1, DrainFacts
<1>2. PICK o \in Ops : o = pending[1] /\ o = Head(pending)
  BY <1>1
<1>3. \A p \in viaQueue' : p <= nops'
  BY <1>1 DEF HandedInv
<1>4. CASE RunNext
  <2>1. ~Cancelling /\ handed' = Append(handed, o) /\ pending' = Tail(pending)
    BY <1>1, <1>2, <1>4 DEF RunNext
  <2>2. \A i \in 1..Len(handed'), j \in 1..Len(pending') :
           handed'[i] \in viaQueue' => handed'[i] < pending'[j]
    BY <1>1, <1>2, <2>1, FrontHanded, TailHanded
  <2>3. /\ \A i \in 1..Len(handed') : handed'[i] <= nops'
        /\ \A i \in 1..Len(handed') : handed'[i] \notin viaQueue' =>
                                        \A p \in viaQueue' : p < handed'[i]
        /\ HandedInOrder'
    BY <1>1, <1>2, <2>1, FrontHanded
  <2>4. /\ \A i \in 1..Len(pending') : pending'[i] \in viaQueue'
        /\ \A i, j \in 1..Len(pending') : i < j => pending'[i] < pending'[j]
    BY <1>1, <2>1, TailHanded
  <2>5. QED
    BY <1>3, <2>2, <2>3, <2>4 DEF HandedInv
<1>5. CASE RunNextFail
  <2>1. /\ ~Cancelling /\ handed' = Append(handed, o) /\ pending' = pending
        /\ stack # <<>>
        /\ \E g \in Frame : stack' = Append(Append(Callers, Call("runScheduled", o)), g)
    <3>1. /\ ~Cancelling /\ handed' = Append(handed, o) /\ pending' = pending
          /\ stack # <<>>
      BY <1>1, <1>2, <1>5 DEF RunNextFail, OnTop, handle
    <3> DEFINE f == Call("runScheduled", o)
               g == [fn |-> "cancel", op |-> o, keys |-> <<NoKey>>]
    <3>2. \/ stack' = Append(Append(Callers, f), g)
          \/ stack' = Append(Append(Callers, f), Call("final", o))
      BY <1>2, <1>5 DEF RunNextFail, Cancel, Answer
    <3>3. g \in Frame /\ Call("final", o) \in Frame
      <4>1. <<NoKey>> \in Seq(Nat)
        OBVIOUS
      <4>2. QED
        BY <4>1, CancelFrame, CallbackFrames
    <3> HIDE DEF g
    <3>4. QED
      BY <3>1, <3>2, <3>3
  <2>2. Cancelling'
    <3>1. PICK g \in Frame : stack' = Append(Append(Callers, Call("runScheduled", o)), g)
      BY <2>1
    <3>2. Call("runScheduled", o) \in Frame /\ CancelsFront(Call("runScheduled", o))
      <4>1. Call("runScheduled", o) \in Frame
        BY CallType DEF NativeFrames, CookieFrames
      <4>2. QED
        BY <4>1 DEF Call, CancelsFront, Ops
    <3>3. Len(stack) \in Depth' /\ stack'[Len(stack)] = Call("runScheduled", o)
      BY <2>1, <3>1, <3>2, ReplacedPushed
    <3>4. QED
      BY <3>2, <3>3 DEF Cancelling
  <2>3. \A i \in 1..Len(handed'), j \in 1..Len(pending') :
           handed'[i] \in viaQueue' => \/ handed'[i] < pending'[j]
                                      \/ (handed'[i] = pending'[j] /\ j = 1 /\ Cancelling')
    <3> SUFFICES ASSUME NEW i \in 1..Len(handed'), NEW j \in 1..Len(pending),
                        handed'[i] \in viaQueue
                 PROVE  handed'[i] < pending[j] \/ (handed'[i] = pending[j] /\ j = 1)
      BY <1>1, <2>1, <2>2
    <3>1. CASE j = 1
      <4>1. handed'[i] <= pending[1] /\ handed'[i] \in Int /\ pending[1] \in Int
        <5>1. handed' \in Seq(Ops)
          BY DEF TypeOK
        <5>2. handed'[i] \in Ops
          BY <5>1, ElementOfSeq
        <5>3. QED
          BY <1>1, <1>2, <2>1, <5>2, FrontHanded, HandedFacts
      <4>2. QED
        BY <3>1, <4>1
    <3>2. CASE j # 1
      <4>1. j \in 2..Len(pending)
        BY <3>2, HandedFacts
      <4>2. QED
        BY <1>1, <1>2, <2>1, <4>1, FrontHanded
    <3>3. QED
      BY <3>1, <3>2
  <2>4. /\ \A i \in 1..Len(handed') : handed'[i] <= nops'
        /\ \A i \in 1..Len(handed') : handed'[i] \notin viaQueue' =>
                                        \A p \in viaQueue' : p < handed'[i]
        /\ HandedInOrder'
    BY <1>1, <1>2, <2>1, FrontHanded
  <2>5. /\ \A i \in 1..Len(pending') : pending'[i] \in viaQueue'
        /\ \A i, j \in 1..Len(pending') : i < j => pending'[i] < pending'[j]
    BY <1>1, <2>1 DEF HandedInv
  <2>6. QED
    BY <1>3, <2>3, <2>4, <2>5 DEF HandedInv
<1>6. CASE RunPop
  <2>1. handed' = handed /\ pending' = Tail(pending)
    BY <1>6 DEF RunPop
  <2>2. \A i \in 1..Len(handed'), j \in 1..Len(pending') :
           handed'[i] \in viaQueue' => handed'[i] < pending'[j]
    <3> SUFFICES ASSUME NEW i \in 1..Len(handed), NEW j \in 1..Len(pending'),
                        handed[i] \in viaQueue
                 PROVE  handed[i] < pending'[j]
      BY <1>1, <2>1
    <3>1. j + 1 \in 1..Len(pending) /\ j + 1 # 1 /\ pending'[j] = pending[j + 1]
      BY <1>1, <2>1, TailHanded
    <3>2. QED
      BY <3>1 DEF HandedInv
  <2>3. /\ \A i \in 1..Len(pending') : pending'[i] \in viaQueue'
        /\ \A i, j \in 1..Len(pending') : i < j => pending'[i] < pending'[j]
    BY <1>1, <2>1, TailHanded
  <2>4. HandedInOrder'
    BY <1>1, <2>1 DEF HandedInv, HandedInOrder
  <2>5. /\ \A i \in 1..Len(handed') : handed'[i] <= nops'
        /\ \A i \in 1..Len(handed') : handed'[i] \notin viaQueue' =>
                                        \A p \in viaQueue' : p < handed'[i]
    BY <1>1, <2>1 DEF HandedInv
  <2>6. QED
    BY <1>3, <2>2, <2>3, <2>4, <2>5 DEF HandedInv
<1>7. QED
  BY <1>4, <1>5, <1>6

\* Every step keeps HandedInv, ...
LEMMA HandedInvStep ==
  ASSUME TypeOK, TypeOK', CookieInv, ConnectInv, HandedInv, [Next]_vars
  PROVE  HandedInv'
<1>1. CASE RunNext \/ RunNextFail \/ RunPop
  BY <1>1, RunHanded
<1>2. CASE ~(RunNext \/ RunNextFail \/ RunPop)
  <2>1. Cancelling => Cancelling'
    BY <1>2, CancelGoesOn
  <2>2. ASSUME UNCHANGED <<nops, pending, handed, viaQueue>>
        PROVE  HandedInv'
    BY <2>1, <2>2, HandedStays
  <2>3. CASE QuietSteps
    <3>1. UNCHANGED <<nops, pending, handed, viaQueue>>
      BY <2>3 DEF QuietSteps, Connect, ConfigArrives, ErrorArrives, IdleRuns, On, Shutdown,
                  ReturnConnect, ReturnConnectError, ReturnOther, RunDone, vars, handle
    <3>2. QED
      BY <2>2, <3>1
  <2>4. ASSUME NEW o \in Ops, NEW s \in Shapes,
               Bail(o, s) \/ Enqueue(o, s) \/ Schedule(o, s) \/ ScheduleFail(o, s)
        PROVE  HandedInv'
    <3>1. CASE Bail(o, s)
      <4>1. UNCHANGED <<pending, handed, viaQueue>> /\ nops' = nops + 1
        BY <3>1 DEF Bail, Start, handle
      <4>2. QED
        BY <2>1, <4>1, HandedStays
    <3>2. CASE Enqueue(o, s)
      BY <2>1, <3>2, EnqueueHanded
    <3>3. CASE Schedule(o, s) \/ ScheduleFail(o, s)
      BY <2>1, <3>3, TakenHanded
    <3>4. QED
      BY <2>4, <3>1, <3>2, <3>3
  <2>5. CASE CancelKey \/ CancelDone \/ ReturnProgress \/ ReturnFinal \/ DestroyDone
    <3>1. UNCHANGED <<nops, pending, handed, viaQueue>>
      BY <2>5 DEF CancelKey, CancelDone, ReturnProgress, ReturnFinal, DestroyDone, handle
    <3>2. QED
      BY <2>2, <3>1
  <2>6. ASSUME NEW o \in Ops, NEW k \in inflight[o], NEW ok \in BOOLEAN,
               Deliver(o, k, ok, stack)
        PROVE  HandedInv'
    <3>1. UNCHANGED <<nops, pending, handed, viaQueue>>
      BY <2>6 DEF Deliver, handle
    <3>2. QED
      BY <2>2, <3>1
  <2>7. QED
    BY <1>2, <2>3, <2>4, <2>5, <2>6, StepKinds
<1>3. QED
  BY <1>1, <1>2

\* ... which holds at the start.
LEMMA HandedInvInit ==
  ASSUME Init
  PROVE  HandedInv
<1>1. handed = <<>> /\ pending = <<>> /\ viaQueue = {}
  BY DEF Init
<1>2. 1..Len(handed) = {} /\ 1..Len(pending) = {} /\ DOMAIN handed = {}
  BY <1>1
<1>3. QED
  BY <1>1, <1>2 DEF HandedInv, HandedInOrder

\* Operations reach libcouchbase in the order they were started, but for what
\* a callback starts while onConfig runs the queue.
THEOREM HandedInOrderCorrect == Spec => []HandedInOrder
<1>1. Init => ConnectInv /\ HandedInv
  BY ConnectInvInit, HandedInvInit
<1>2. /\ TypeOK /\ TypeOK' /\ CookieInv /\ ConnectInv /\ HandedInv /\ [Next]_vars
      => ConnectInv' /\ HandedInv'
  BY ConnectInvStep, HandedInvStep
<1>3. HandedInv => HandedInOrder
  BY DEF HandedInv
<1>4. QED
  BY <1>1, <1>2, <1>3, TypeCorrect, CookieInvCorrect, PTL DEF Spec
-----------------------------------------------------------------------------
(* After shutdown. *)

\* Only Schedule and RunNext make libcouchbase owe more, and they need the
\* connected instance.
LEMMA OwesLess ==
  ASSUME TypeOK, [Next]_vars, isShutdown, NEW p \in Ops
  PROVE  inflight'[p] \subseteq inflight[p]
<1>1. ~Usable
  BY DEF Usable
<1>2. CASE QuietSteps
  BY <1>2 DEF QuietSteps, Connect, ConfigArrives, ErrorArrives, IdleRuns, On, Shutdown,
              ReturnConnect, ReturnConnectError, ReturnOther, RunDone, vars, library
<1>3. ASSUME NEW o \in Ops, NEW s \in Shapes,
             Bail(o, s) \/ Enqueue(o, s) \/ Schedule(o, s) \/ ScheduleFail(o, s)
      PROVE  inflight' = inflight
  BY <1>1, <1>3 DEF Bail, Enqueue, Schedule, ScheduleFail, library
<1>4. CASE RunNext \/ RunNextFail \/ RunPop
  BY <1>1, <1>4 DEF RunNext, RunNextFail, RunPop, library
<1>5. CASE CancelKey \/ CancelDone \/ ReturnProgress \/ ReturnFinal
  BY <1>5 DEF CancelKey, CancelDone, ReturnProgress, ReturnFinal, library
<1>6. CASE DestroyDone
  BY <1>6 DEF DestroyDone
<1>7. ASSUME NEW o \in Ops, NEW k \in inflight[o], NEW ok \in BOOLEAN,
             Deliver(o, k, ok, stack)
      PROVE  inflight'[p] \subseteq inflight[p]
  <2>1. inflight' = [inflight EXCEPT ![o] = @ \ {k}]
    <3>1. stack \in Seq(Frame)
      BY DEF TypeOK
    <3>2. CASE shape[o].kind = "plain"
      BY <1>7, <3>1, <3>2, DeliverPlain
    <3>3. CASE Streams(shape[o]) /\ k # NoKey
      BY <1>7, <3>1, <3>3, DeliverData
    <3>4. CASE shape[o].kind # "plain" /\ ~(Streams(shape[o]) /\ k # NoKey)
      BY <1>7, <3>1, <3>4, DeliverLast
    <3>5. QED
      BY <3>2, <3>3, <3>4
  <2>2. QED
    BY <2>1 DEF TypeOK
<1>8. QED
  BY <1>2, <1>3, <1>4, <1>5, <1>6, <1>7, StepKinds

\* After shutdown no operation reaches the cluster any more.
THEOREM NothingAfterShutdownCorrect == Spec => NothingAfterShutdown
<1>1. TypeOK /\ [Next]_vars =>
        [isShutdown => \A o \in Ops : inflight'[o] \subseteq inflight[o]]_vars
  BY OwesLess
<1>2. QED
  BY <1>1, TypeCorrect, PTL DEF Spec, NothingAfterShutdown
-----------------------------------------------------------------------------
(* Who will still use a Cookie. *)

\* A destroyed instance stays destroyed.
LEMMA DestroyedStays ==
  ASSUME [Next]_vars, primary = "destroyed"
  PROVE  primary' = "destroyed"
<1>1. ~Connect /\ ~ConfigArrives /\ ~ErrorArrives
  BY DEF Connect, ConfigArrives, ErrorArrives
<1>2. QED
  BY <1>1, ConnectEffect

\* What an untouched operation says of itself.
LEMMA UntouchedFacts ==
  ASSUME TypeOK, TypeOK', NEW p \in Ops, Untouched(p)
  PROVE  /\ Live(p)' <=> Live(p)
         /\ Cancelled(p)' <=> Cancelled(p)
         /\ Waiting(p)' <=> Waiting(p)
         /\ InFrame(p)' <=> InFrame(p)
         /\ HasFrame("progress", p)' <=> HasFrame("progress", p)
         /\ HasFrame("cancel", p)' <=> HasFrame("cancel", p)
         /\ HasFrame("final", p)' <=> HasFrame("final", p)
         /\ \A i \in Depth' : stack'[i].fn = "cancel" /\ stack'[i].op = p =>
                                i \in Depth /\ stack'[i] = stack[i]
<1>1. /\ Live(p)' <=> Live(p)
      /\ Cancelled(p)' <=> Cancelled(p)
      /\ Waiting(p)' <=> Waiting(p)
  BY DEF Untouched, SameFrames, Live, Cancelled, Waiting
<1>2. SameFrames(p) /\ {"progress", "cancel", "final"} \subseteq CookieFrames
  BY DEF Untouched, CookieFrames
<1>3. /\ InFrame(p)' <=> InFrame(p)
      /\ HasFrame("progress", p)' <=> HasFrame("progress", p)
      /\ HasFrame("cancel", p)' <=> HasFrame("cancel", p)
      /\ HasFrame("final", p)' <=> HasFrame("final", p)
  BY <1>2, SameFramesFacts
<1>4. \A i \in Depth' : stack'[i].fn = "cancel" /\ stack'[i].op = p =>
                          i \in Depth /\ stack'[i] = stack[i]
  BY <1>2 DEF SameFrames, OfCookie
<1>5. QED
  BY <1>1, <1>3, <1>4

\* An untouched operation stays lost, or not lost, in the last two ways.
LEMMA UntouchedLost ==
  ASSUME TypeOK, TypeOK', [Next]_vars, NEW p \in Ops, Untouched(p)
  PROVE  (CutShort(p) => CutShort(p)') /\ (Forgotten(p) => Forgotten(p)')
<1>1. CutShort(p) => CutShort(p)'
  BY UntouchedFacts DEF CutShort, Cancelled, Untouched
<1>2. Forgotten(p) => Forgotten(p)'
  BY UntouchedFacts, DestroyedStays DEF Forgotten, Cancelled, Untouched
<1>3. QED
  BY <1>1, <1>2

\* It keeps who will use it.
LEMMA UntouchedKept ==
  ASSUME TypeOK, TypeOK', [Next]_vars, NEW p \in Ops, KeptOne(p), Untouched(p)
  PROVE  KeptOne(p)'
<1>1. cookie'[p] = cookie[p] /\ inflight'[p] = inflight[p] /\ shape'[p] = shape[p]
  BY DEF Untouched
<1>2. Live(p)' => \/ Waiting(p)' \/ inflight'[p] # {} \/ InFrame(p)'
                  \/ CutShort(p)' \/ Forgotten(p)'
  BY <1>1, UntouchedFacts, UntouchedLost DEF KeptOne
<1>3. (/\ shape'[p].kind = "plain" /\ Live(p)' /\ ~Cancelled(p)' /\ ~Waiting(p)'
       /\ inflight'[p] = {}) => cookie'[p].remaining = 0 \/ Forgotten(p)'
  <2> SUFFICES ASSUME shape'[p].kind = "plain", Live(p)', ~Cancelled(p)', ~Waiting(p)',
                      inflight'[p] = {}
               PROVE  cookie'[p].remaining = 0 \/ Forgotten(p)'
    OBVIOUS
  <2>1. /\ shape[p].kind = "plain" /\ Live(p) /\ ~Cancelled(p) /\ ~Waiting(p)
        /\ inflight[p] = {}
    BY <1>1, UntouchedFacts
  <2>2. cookie[p].remaining = 0 \/ Forgotten(p)
    BY <2>1 DEF KeptOne
  <2>3. QED
    BY <1>1, <2>2, UntouchedLost
<1>4. Streams(shape[p])' /\ inflight'[p] # {} => NoKey \in inflight'[p]
  BY <1>1 DEF KeptOne, Streams
<1>5. Live(p)' /\ Cancelled(p)' /\ cookie'[p].remaining = 0 => HasFrame("progress", p)'
  BY <1>1, UntouchedFacts DEF KeptOne
<1>6. HasFrame("progress", p)' /\ Cancelled(p)' => HasFrame("cancel", p)'
  BY UntouchedFacts DEF KeptOne
<1>7. LeftOver(p)' <=> LeftOver(p)
  BY <1>1 DEF LeftOver, Untouched
<1>8. \A i \in Depth' : stack'[i].fn = "cancel" /\ stack'[i].op = p /\ Live(p)' =>
                          LeftOver(p)' \/ cookie'[p].remaining = Len(stack'[i].keys)
  BY <1>1, <1>7, UntouchedFacts DEF KeptOne
<1>9. QED
  BY <1>2, <1>3, <1>4, <1>5, <1>6, <1>8 DEF KeptOne

\* An operation without a frame of its Cookie.
LEMMA NoFrameFacts ==
  ASSUME TypeOK, NEW o \in Ops, \A i \in Depth : OfCookie(stack[i]) => stack[i].op # o
  PROVE  /\ ~InFrame(o)
         /\ \A fn \in CookieFrames : ~HasFrame(fn, o)
         /\ \A i \in Depth : ~(stack[i].fn = "cancel" /\ stack[i].op = o)
BY StackFacts DEF HasFrame, OfCookie, CookieFrames

\* An operation is started: it is used by the queue, by libcouchbase or by its
\* cancellation.
LEMMA StartKept ==
  ASSUME TypeOK, TypeOK', CookieInv, NEW o \in Ops, NEW s \in Shapes,
         Bail(o, s) \/ Enqueue(o, s) \/ Schedule(o, s) \/ ScheduleFail(o, s)
  PROVE  KeptOne(o)'
<1>1. /\ Start(o, s) /\ inflight[o] = {} /\ cookie[o].st = "none" /\ shape'[o] = s
      /\ \A i \in Depth : stack[i].op # o
      /\ cookie \in [Ops -> CookieRec] /\ stack \in Seq(Frame) /\ nops' = o
  <2>1. Start(o, s)
    BY DEF Bail, Enqueue, Schedule, ScheduleFail
  <2>2. QED
    BY <2>1, StartFacts DEF TypeOK
<1>2. CASE stack' = stack
  <2>1. \A i \in Depth' : stack'[i].op # o
    BY <1>1, <1>2 DEF Depth
  <2>2. \A i \in DOMAIN stack' : stack'[i].op # o
    <3>1. DOMAIN stack' = Depth'
      BY LenProperties DEF TypeOK, Depth
    <3>2. QED
      BY <2>1, <3>1
  <2>3. ~Running(o)' /\ ~HasFrame("progress", o)'
    BY <2>1, <2>2 DEF Running, HasFrame
  <2>4. CASE Enqueue(o, s)
    <3>1. /\ pending' = Append(pending, o) /\ pending \in Seq(Ops)
          /\ inflight' = inflight /\ cookie'[o] = NewCookie(s)
      BY <1>1, <2>4 DEF Enqueue, TypeOK, library
    <3>2. InQueue(o)'
      <4>1. /\ Len(pending) + 1 \in 1..Len(pending') /\ pending'[Len(pending) + 1] = o
            /\ DOMAIN pending' = 1..Len(pending')
        BY <3>1, AppendProperties, LenProperties DEF TypeOK
      <4>2. QED
        BY <4>1 DEF InQueue
    <3>3. Waiting(o)' /\ ~Cancelled(o)' /\ inflight'[o] = {}
      BY <1>1, <2>3, <3>1, <3>2, NewFacts DEF Waiting, Cancelled
    <3>4. QED
      BY <1>1, <2>1, <2>3, <3>3 DEF KeptOne
  <2>5. CASE Schedule(o, s)
    <3>1. inflight'[o] = Outstanding(s) /\ cookie'[o] = NewCookie(s)
      BY <1>1, <2>5 DEF Schedule, TypeOK
    <3>2. Outstanding(s) # {} /\ (Streams(s) => NoKey \in Outstanding(s))
      <4>1. 1 \in 1..s.nkeys
        BY NewFacts
      <4>2. QED
        BY <4>1 DEF Outstanding
    <3>3. ~Cancelled(o)'
      BY <3>1, NewFacts DEF Cancelled
    <3>4. Streams(shape[o])' => NoKey \in inflight'[o]
      BY <1>1, <3>1, <3>2 DEF Streams
    <3>5. QED
      BY <2>1, <2>3, <3>1, <3>2, <3>3, <3>4 DEF KeptOne
  <2>6. CASE Bail(o, s) \/ ScheduleFail(o, s)
    <3>1. \E f : stack' = Append(stack, f)
      BY <2>6 DEF Bail, ScheduleFail, Cancel, Answer
    <3>2. stack' # stack
      BY <1>1, <3>1, AppendProperties
    <3>3. QED
      BY <1>2, <3>2
  <2>7. QED
    BY <2>4, <2>5, <2>6
<1>3. ASSUME NEW f \in Frame, stack' = Append(stack, f)
      PROVE  \A i \in Depth' : stack'[i].op = o => stack'[i] = f
  BY <1>1, <1>3, Pushed
<1>4. CASE Bail(o, s)
  <2>1. /\ cookie' = cookie /\ inflight' = inflight
        /\ stack' = Append(stack, Call("bailOut", o))
    BY <1>4 DEF Bail, library
  <2>2. Call("bailOut", o) \in Frame /\ Call("bailOut", o).fn = "bailOut"
    <3>1. Call("bailOut", o) \in Frame
      BY CallType DEF AppFrames, CookieFrames
    <3>2. QED
      BY <3>1 DEF Call
  <2>3. ~Live(o)' /\ inflight'[o] = {} /\ ~HasFrame("progress", o)'
    BY <1>1, <1>3, <2>1, <2>2 DEF Live, HasFrame
  <2>4. QED
    BY <2>3 DEF KeptOne
<1>5. CASE ScheduleFail(o, s)
  <2>1. /\ Cancel(o, NewCookie(s), s, AllKeys(s), stack) /\ inflight' = inflight
        /\ NewCookie(s) \in CookieRec /\ s.nkeys \in Nat \ {0}
    BY <1>5, NewFacts DEF ScheduleFail, library
  <2>2. AllKeys(s) \in Seq(Nat) /\ Len(AllKeys(s)) = s.nkeys
    BY <2>1 DEF AllKeys
  <2>3. CASE s.kind \in {"plain", "observe"}
    <3> DEFINE g == [fn |-> "cancel", op |-> o, keys |-> AllKeys(s)]
    <3>1. /\ cookie'[o].remaining = s.nkeys /\ cookie'[o].isCancelled
          /\ stack' = Append(stack, g)
      BY <1>1, <2>1, <2>2, <2>3, CancelBegins, NewFacts
    <3>2. g \in Frame /\ g.fn = "cancel" /\ g.op = o /\ Len(g.keys) = s.nkeys
      BY <2>2, CancelFrame
    <3> HIDE DEF g
    <3>3. Len(stack) + 1 \in Depth' /\ stack'[Len(stack) + 1] = g
      BY <3>1, <3>2, Pushed
    <3>4. InFrame(o)'
      <4>1. DOMAIN stack' = Depth'
        BY LenProperties DEF TypeOK, Depth
      <4>2. QED
        BY <3>2, <3>3, <4>1 DEF InFrame, CookieFrames
    <3>5. \A i \in Depth' : stack'[i].op = o => stack'[i] = g
      BY <1>3, <3>1, <3>2
    <3>6. ~HasFrame("progress", o)'
      BY <3>2, <3>5 DEF HasFrame
    <3>7. Cancelled(o)' /\ cookie'[o].remaining # 0 /\ inflight'[o] = {}
      BY <1>1, <2>1, <3>1 DEF Cancelled
    <3>8. \A i \in Depth' : stack'[i].op = o => Len(stack'[i].keys) = cookie'[o].remaining
      BY <3>1, <3>2, <3>5
    <3>9. QED
      BY <3>4, <3>6, <3>7, <3>8 DEF KeptOne
  <2>4. CASE s.kind \notin {"plain", "observe"}
    <3>1. cookie'[o] = NewCookie(s) /\ stack' = Append(stack, Call("final", o))
      <4>1. /\ cookie' = [cookie EXCEPT ![o] = NewCookie(s)]
            /\ stack' = Append(stack, Call("final", o))
        BY <2>1, <2>4 DEF Cancel, Answer
      <4>2. QED
        BY <1>1, <4>1
    <3>2. Call("final", o) \in Frame /\ Call("final", o).fn = "final" /\ Call("final", o).op = o
      BY CallbackFrames
    <3>3. Len(stack) + 1 \in Depth' /\ stack'[Len(stack) + 1] = Call("final", o)
      BY <3>1, <3>2, Pushed
    <3>4. InFrame(o)'
      <4>1. DOMAIN stack' = Depth'
        BY LenProperties DEF TypeOK, Depth
      <4>2. QED
        BY <3>2, <3>3, <4>1 DEF InFrame, CookieFrames
    <3>5. \A i \in Depth' : stack'[i].op = o => stack'[i].fn = "final"
      BY <1>3, <3>1, <3>2
    <3>6. ~HasFrame("progress", o)'
      BY <3>5 DEF HasFrame
    <3>7. ~Cancelled(o)' /\ inflight'[o] = {} /\ shape'[o].kind # "plain"
      BY <1>1, <2>1, <2>4, <3>1, NewFacts DEF Cancelled
    <3>8. QED
      BY <3>4, <3>5, <3>6, <3>7 DEF KeptOne
  <2>5. QED
    BY <2>3, <2>4
<1>6. CASE Enqueue(o, s) \/ Schedule(o, s)
  BY <1>2, <1>6 DEF Enqueue, Schedule
<1>7. QED
  BY <1>4, <1>5, <1>6

\* An operation in the queue, as it is when the queue runs.
LEMMA FrontFacts ==
  ASSUME TypeOK, CookieInv, RunNext \/ RunNextFail, NEW o \in Ops, o = Head(pending)
  PROVE  /\ Live(o) /\ ~Cancelled(o) /\ inflight[o] = {} /\ o = pending[1]
         /\ Counted(o) => cookie[o].remaining = shape[o].nkeys
         /\ \A i \in Depth : ~OfCookie(stack[i]) /\ stack[i] = Top
         /\ shape[o] \in Shapes /\ shape[o].kind \in Kinds /\ shape[o].nkeys \in Nat \ {0}
         /\ cookie[o] \in CookieRec /\ stack # <<>> /\ Top.fn = "runScheduled"
<1>1. OnTop("runScheduled") /\ Top.op = NoOp /\ pending # <<>>
  BY DEF RunNext, RunNextFail
<1>2. Waits(o) /\ o = pending[1] /\ Len(pending) \in Nat \ {0}
  BY <1>1, DrainFacts
<1>3. InQueue(o)
  BY <1>2, FrameFacts DEF InQueue
<1>4. inflight[o] = {}
  BY <1>3 DEF CookieInv, Owed, OwedTo
<1>5. stack # <<>> /\ Top.fn = "runScheduled"
  BY <1>1 DEF OnTop
<1>6. \A i \in Depth : stack[i] = Top
  BY <1>5, LoopAlone DEF LoopFrames
<1>7. ~OfCookie(Top)
  BY <1>5 DEF OfCookie, CookieFrames
<1>8. shape[o] \in Shapes /\ shape[o].kind \in Kinds /\ shape[o].nkeys \in Nat \ {0}
  BY ShapesAssumption DEF TypeOK
<1>9. QED
  BY <1>2, <1>4, <1>5, <1>6, <1>7, <1>8 DEF Waits, TypeOK

\* libcouchbase takes the front of the queue.
LEMMA RunNextKept ==
  ASSUME TypeOK, TypeOK', CookieInv, RunNext, NEW o \in Ops, o = Head(pending)
  PROVE  KeptOne(o)'
<1>1. /\ inflight'[o] = Outstanding(shape[o]) /\ cookie' = cookie /\ shape' = shape
      /\ stack' = stack
  BY DEF RunNext, TypeOK, answers
<1>2. Outstanding(shape[o]) # {} /\ (Streams(shape[o]) => NoKey \in Outstanding(shape[o]))
  <2>1. 1 \in 1..shape[o].nkeys
    BY FrontFacts
  <2>2. QED
    BY <2>1 DEF Outstanding
<1>3. ~Cancelled(o)'
  BY <1>1, FrontFacts DEF Cancelled
<1>4. \A i \in Depth' : stack'[i].fn = "runScheduled"
  BY <1>1, FrontFacts DEF Depth
<1>5. ~HasFrame("progress", o)'
  BY <1>4 DEF HasFrame
<1>6. Streams(shape[o])' => NoKey \in inflight'[o]
  BY <1>1, <1>2 DEF Streams
<1>7. QED
  BY <1>1, <1>2, <1>3, <1>4, <1>5, <1>6 DEF KeptOne

\* The front of the queue is cancelled for one key.
LEMMA RunNextFailKept ==
  ASSUME TypeOK, TypeOK', CookieInv, HandedInv, RunNextFail, NEW o \in Ops, o = Head(pending)
  PROVE  KeptOne(o)'
<1> DEFINE f == Call("runScheduled", o)
           base == Append(Callers, f)
<1>1. /\ Cancel(o, cookie[o], shape[o], <<NoKey>>, base) /\ pending # <<>>
      /\ UNCHANGED <<inflight, shape, viaQueue>>
  BY DEF RunNextFail, library
<1>2. f \in Frame /\ f.fn = "runScheduled"
  <2>1. f \in Frame
    BY CallType DEF NativeFrames, CookieFrames
  <2>2. QED
    BY <2>1 DEF Call
<1>3. base \in Seq(Frame) /\ <<NoKey>> \in Seq(Nat) /\ Len(<<NoKey>>) = 1
  BY <1>2, FrontFacts, CallersType, AppendProperties DEF TypeOK
<1>4. o \in viaQueue
  <2>1. 1 \in 1..Len(pending)
    BY <1>1, FrameFacts
  <2>2. QED
    BY <2>1, FrontFacts DEF HandedInv
<1>5. ASSUME NEW g \in Frame, stack' = Append(base, g), g.op = o, OfCookie(g)
      PROVE  /\ InFrame(o)'
             /\ \A i \in Depth' : stack'[i].fn = "runScheduled" \/ stack'[i] = g
  <2>1. /\ Len(stack) + 1 \in Depth' /\ stack'[Len(stack) + 1] = g
        /\ \A i \in Depth' : \/ i \in Depth /\ stack'[i] = stack[i]
                             \/ stack'[i] = f
                             \/ stack'[i] = g
    BY <1>2, <1>5, FrontFacts, ReplacedPushed
  <2>2. DOMAIN stack' = Depth'
    BY LenProperties DEF TypeOK, Depth
  <2>3. InFrame(o)'
    BY <1>5, <2>1, <2>2 DEF InFrame, OfCookie
  <2>4. \A i \in Depth : stack[i].fn = "runScheduled"
    BY FrontFacts
  <2>5. QED
    BY <1>2, <2>1, <2>3, <2>4
<1> HIDE DEF base
<1>6. CASE Counted(o)
  <2> DEFINE g == [fn |-> "cancel", op |-> o, keys |-> <<NoKey>>]
  <2>1. /\ cookie'[o].remaining = shape[o].nkeys /\ cookie'[o].isCancelled
        /\ stack' = Append(base, g)
    <3>1. /\ cookie' = [cookie EXCEPT ![o] = [cookie[o] EXCEPT !.isCancelled = TRUE]]
          /\ stack' = Append(base, g)
      BY <1>1, <1>6 DEF Cancel, Counted
    <3>2. cookie'[o] = [cookie[o] EXCEPT !.isCancelled = TRUE]
      BY <3>1 DEF TypeOK
    <3>3. cookie[o] \in CookieRec /\ cookie[o].remaining = shape[o].nkeys
      BY <1>6, FrontFacts
    <3>4. QED
      BY <3>1, <3>2, <3>3 DEF CookieRec
  <2>2. g \in Frame /\ g.fn = "cancel" /\ g.op = o /\ OfCookie(g) /\ Len(g.keys) = 1
    BY <1>3, CancelFrame DEF OfCookie, CookieFrames
  <2> HIDE DEF g
  <2>3. InFrame(o)' /\ \A i \in Depth' : stack'[i].fn = "runScheduled" \/ stack'[i] = g
    BY <1>5, <2>1, <2>2
  <2>4. ~HasFrame("progress", o)'
    BY <2>2, <2>3 DEF HasFrame
  <2>5. Cancelled(o)' /\ cookie'[o].remaining # 0 /\ inflight'[o] = {}
    BY <1>1, <2>1, FrontFacts DEF Cancelled
  <2>6. LeftOver(o)' \/ cookie'[o].remaining = 1
    <3>1. o \in viaQueue' /\ shape'[o].nkeys = shape[o].nkeys /\ shape[o].nkeys \in Nat \ {0}
      BY <1>1, <1>4, FrontFacts
    <3>2. QED
      BY <2>1, <3>1 DEF LeftOver
  <2>7. \A i \in Depth' : stack'[i].fn = "cancel" => Len(stack'[i].keys) = 1
    BY <2>2, <2>3
  <2>8. QED
    BY <2>3, <2>4, <2>5, <2>6, <2>7 DEF KeptOne
<1>7. CASE ~Counted(o)
  <2>1. cookie'[o] = cookie[o] /\ stack' = Append(base, Call("final", o))
    <3>1. /\ cookie' = [cookie EXCEPT ![o] = cookie[o]]
          /\ stack' = Append(base, Call("final", o))
      BY <1>1, <1>7 DEF Cancel, Answer, Counted
    <3>2. QED
      BY <3>1 DEF TypeOK
  <2>2. /\ Call("final", o) \in Frame /\ Call("final", o).fn = "final"
        /\ Call("final", o).op = o /\ OfCookie(Call("final", o))
    BY CallbackFrames DEF OfCookie, CookieFrames
  <2>3. /\ InFrame(o)'
        /\ \A i \in Depth' : stack'[i].fn = "runScheduled" \/ stack'[i] = Call("final", o)
    BY <1>5, <2>1, <2>2
  <2>4. \A i \in Depth' : stack'[i].fn \in {"runScheduled", "final"}
    BY <2>2, <2>3
  <2>5. ~HasFrame("progress", o)'
    BY <2>4 DEF HasFrame
  <2>6. ~Cancelled(o)' /\ inflight'[o] = {} /\ shape'[o].kind # "plain"
    BY <1>1, <1>7, <2>1, FrontFacts DEF Cancelled, Counted
  <2>7. QED
    BY <2>3, <2>4, <2>5, <2>6 DEF KeptOne
<1>8. QED
  BY <1>6, <1>7

\* The front leaves the queue after its cancellation: it has ended, or was cut
\* short.
LEMMA RunPopKept ==
  ASSUME TypeOK, TypeOK', CookieInv, KeptInv, RunPop, NEW o \in Ops, o = Head(pending)
  PROVE  KeptOne(o)'
<1>1. /\ OnTop("runScheduled") /\ Top.op # NoOp /\ pending # <<>> /\ pending' = Tail(pending)
      /\ stack' = Append(Callers, Call("runScheduled", NoOp))
      /\ UNCHANGED <<cookie, inflight, shape, viaQueue>>
  BY DEF RunPop, library, answers
<1>2. /\ stack # <<>> /\ Top.fn = "runScheduled" /\ \A i \in Depth : stack[i] = Top
      /\ 1 \in Depth
  <2>1. stack # <<>> /\ Top.fn = "runScheduled"
    BY <1>1 DEF OnTop
  <2>2. QED
    BY <2>1, LoopAlone, StackFacts DEF LoopFrames
<1>3. CancelsFront(Top) /\ o = pending[1] /\ Top.op = o
  <2>1. CancelsFront(Top)
    BY <1>1, <1>2 DEF CancelsFront
  <2>2. Top.op = pending[1]
    BY <1>2, <2>1 DEF CookieInv, LoopOutermost
  <2>3. QED
    BY <1>1, <2>1, <2>2, DrainFacts
<1>4. Running(o) /\ ~Waiting(o)
  BY <1>2, <1>3, StackFacts DEF Waiting
<1>5. InQueue(o)
  <2>1. 1 \in 1..Len(pending)
    BY <1>1, FrameFacts
  <2>2. QED
    BY <1>3, <2>1, FrameFacts DEF InQueue
<1>6. inflight[o] = {} /\ ~Forgotten(o)
  BY <1>5 DEF CookieInv, Owed, OwedTo, Forgotten
<1>7. \A i \in Depth : ~OfCookie(stack[i])
  BY <1>2 DEF OfCookie, CookieFrames
<1>8. \A i \in Depth' : stack'[i].fn = "runScheduled"
  <2>1. Call("runScheduled", NoOp) \in Frame /\ Call("runScheduled", NoOp).fn = "runScheduled"
    <3>1. Call("runScheduled", NoOp) \in Frame
      BY CallType DEF NativeFrames, CookieFrames
    <3>2. QED
      BY <3>1 DEF Call
  <2>2. \A i \in Depth' : \/ i \in Depth /\ stack'[i] = stack[i]
                          \/ stack'[i] = Call("runScheduled", NoOp)
    BY <1>1, <1>2, <2>1, Replaced
  <2>3. QED
    BY <1>2, <2>1, <2>2
<1>9. ~InFrame(o) /\ ~HasFrame("progress", o)
  BY <1>7, NoFrameFacts DEF CookieFrames
<1>10. ~InFrame(o)' /\ ~HasFrame("progress", o)'
  <2>1. DOMAIN stack' = Depth'
    BY LenProperties DEF TypeOK, Depth
  <2>2. QED
    BY <1>8, <2>1 DEF InFrame, HasFrame, CookieFrames
<1>11. KeptOne(o)
  BY DEF KeptInv
<1>12. Live(o) => CutShort(o)
  BY <1>4, <1>6, <1>9, <1>11 DEF KeptOne
<1>13. CutShort(o) => CutShort(o)' /\ Cancelled(o)'
  BY <1>1, <1>10 DEF CutShort, Live, Cancelled
<1>14. Live(o)' => Live(o)
  BY <1>1 DEF Live
<1>15. ~(Live(o)' /\ Cancelled(o)' /\ cookie'[o].remaining = 0)
  BY <1>1, <1>9, <1>11 DEF KeptOne, Live, Cancelled
<1>16. QED
  BY <1>1, <1>6, <1>8, <1>10, <1>12, <1>13, <1>14, <1>15 DEF KeptOne

\* Below the frame of a Cookie there is, of its operation, at most the
\* Cookie::cancel that called it.
LEMMA BelowTop ==
  ASSUME TypeOK, CookieInv, stack # <<>>, OfCookie(Top), NEW o \in Ops, o = Top.op
  PROVE  /\ \A i \in Depth : i # Len(stack) /\ OfCookie(stack[i]) /\ stack[i].op = o =>
                               stack[i].fn = "cancel" /\ Top.fn # "cancel"
         /\ Len(stack) \in Depth /\ stack[Len(stack)] = Top /\ Top \in Frame
         /\ Holds(Top)
<1>1. Len(stack) \in Depth /\ stack[Len(stack)] = Top /\ Top \in Frame /\ Len(stack) \in Nat
  BY TopOfCookie, FrameFacts
<1>2. \A i \in Depth : i # Len(stack) => i < Len(stack)
  BY StackFacts
<1>3. \A i \in Depth : i # Len(stack) /\ OfCookie(stack[i]) /\ stack[i].op = o =>
                         stack[i].fn = "cancel" /\ Top.fn # "cancel"
  BY <1>1, <1>2 DEF CookieInv, FramesNest
<1>4. Holds(Top)
  BY <1>1 DEF CookieInv, FramesHold
<1>5. QED
  BY <1>1, <1>3, <1>4

\* What Cookie::cancel does with its next key.
LEMMA CancelKeyEffect ==
  ASSUME TypeOK, CookieInv, CancelKey, NEW o \in Ops, o = Top.op
  PROVE  \E f \in Frame, k \in Nat :
           /\ f.fn = "cancel" /\ f.op = o /\ f.keys \in Seq(Nat)
           /\ k = Head(Top.keys) /\ f.keys = Tail(Top.keys)
           /\ Top.keys \in Seq(Nat) /\ Top.keys # <<>>
           /\ cookie'[o] = Noted(cookie[o], Spooled(o), k, FALSE)
           /\ failed'[o] = failed[o] \cup {k}
           /\ IF Spooled(o) /\ cookie'[o].remaining # 0
                THEN stack' = Append(Callers, f) /\ heard'[o] = heard[o]
                ELSE /\ stack' = Append(Append(Callers, f), Call("progress", o))
                     /\ heard'[o] = Told(heard[o], cookie'[o], Spooled(o), k, FALSE)
<1> DEFINE k == Head(Top.keys)
           f == [Top EXCEPT !.keys = Tail(@)]
           base == Append(Callers, f)
<1>1. /\ Top.keys # <<>> /\ Top.fn = "cancel" /\ stack # <<>> /\ OfCookie(Top)
      /\ Progress(o, k, FALSE, FALSE, base)
  BY DEF CancelKey, OnTop, OfCookie, CookieFrames
<1>2. Top \in Frame /\ Top.keys \in Seq(Nat) /\ Callers \in Seq(Frame)
  BY <1>1, CallersType, FrameFacts, TopOfCookie DEF TypeOK
<1>3. k \in Nat /\ Tail(Top.keys) \in Seq(Nat)
  BY <1>1, <1>2, TailType
<1>4. f \in Frame /\ f.fn = "cancel" /\ f.op = o /\ f.keys = Tail(Top.keys)
  BY <1>1, <1>2, <1>3 DEF Frame, CookieFrames
<1> HIDE DEF f
<1>5. base \in Seq(Frame)
  BY <1>2, <1>4, AppendProperties
<1> HIDE DEF base
<1>6. /\ cookie'[o] = Noted(cookie[o], Spooled(o), k, FALSE)
      /\ failed'[o] = failed[o] \cup {k}
      /\ IF Spooled(o) /\ cookie'[o].remaining # 0
           THEN stack' = base /\ heard'[o] = heard[o]
           ELSE /\ stack' = Append(base, Call("progress", o))
                /\ heard'[o] = Told(heard[o], cookie'[o], Spooled(o), k, FALSE)
  <2> HIDE DEF k
  <2>1. PICK no \in BOOLEAN : no = FALSE /\ Progress(o, k, no, no, base)
    BY <1>1
  <2>2. /\ cookie'[o] = Noted(cookie[o], Spooled(o), k, no)
        /\ failed'[o] = failed[o] \cup {k}
        /\ IF Spooled(o) /\ cookie'[o].remaining # 0
             THEN stack' = base /\ heard'[o] = heard[o]
             ELSE /\ stack' = Append(base, Call("progress", o))
                  /\ heard'[o] = Told(heard[o], cookie'[o], Spooled(o), k, no)
    BY <1>3, <1>5, <2>1, ProgressEffect
  <2>3. QED
    BY <2>1, <2>2
<1>7. QED
  BY <1>1, <1>2, <1>3, <1>4, <1>6 DEF base

\* A turn of the loop in Cookie::cancel: there is a callback to come, or a key.
LEMMA CancelKeyKept ==
  ASSUME TypeOK, TypeOK', CookieInv, KeptInv, CancelKey, NEW o \in Ops, o = Top.op
  PROVE  KeptOne(o)'
<1>1. PICK f \in Frame, k \in Nat :
           /\ f.fn = "cancel" /\ f.op = o /\ f.keys \in Seq(Nat)
           /\ k = Head(Top.keys) /\ f.keys = Tail(Top.keys)
           /\ Top.keys \in Seq(Nat) /\ Top.keys # <<>>
           /\ cookie'[o] = Noted(cookie[o], Spooled(o), k, FALSE)
           /\ IF Spooled(o) /\ cookie'[o].remaining # 0
                THEN stack' = Append(Callers, f)
                ELSE stack' = Append(Append(Callers, f), Call("progress", o))
  <2>1. PICK f \in Frame, k \in Nat :
           /\ f.fn = "cancel" /\ f.op = o /\ f.keys \in Seq(Nat)
           /\ k = Head(Top.keys) /\ f.keys = Tail(Top.keys)
           /\ Top.keys \in Seq(Nat) /\ Top.keys # <<>>
           /\ cookie'[o] = Noted(cookie[o], Spooled(o), k, FALSE)
           /\ failed'[o] = failed[o] \cup {k}
           /\ IF Spooled(o) /\ cookie'[o].remaining # 0
                THEN stack' = Append(Callers, f) /\ heard'[o] = heard[o]
                ELSE /\ stack' = Append(Append(Callers, f), Call("progress", o))
                     /\ heard'[o] = Told(heard[o], cookie'[o], Spooled(o), k, FALSE)
    BY CancelKeyEffect
  <2>2. IF Spooled(o) /\ cookie'[o].remaining # 0
          THEN stack' = Append(Callers, f)
          ELSE stack' = Append(Append(Callers, f), Call("progress", o))
    BY <2>1
  <2>3. QED
    BY <2>1, <2>2
<1>2. /\ stack # <<>> /\ OfCookie(Top) /\ Top.fn = "cancel"
      /\ inflight' = inflight /\ shape' = shape /\ viaQueue' = viaQueue
  BY DEF CancelKey, OnTop, OfCookie, CookieFrames, library
<1>3. /\ \A i \in Depth : i = Len(stack) \/ ~OfCookie(stack[i]) \/ stack[i].op # o
      /\ Len(stack) \in Depth /\ stack[Len(stack)] = Top
      /\ Counted(o) /\ Cancelled(o) /\ Live(o)
  <2>1. Counted(o) /\ Cancelled(o) /\ Live(o)
    BY <1>1, <1>2, BelowTop DEF Holds
  <2>2. QED
    BY <1>2, <2>1, BelowTop
<1>4. inflight[o] = {}
  BY <1>3 DEF CookieInv, Owed, OwedTo
<1>5. /\ cookie[o] \in CookieRec
      /\ cookie'[o].remaining = cookie[o].remaining - 1 /\ cookie[o].remaining \in Int
      /\ Cancelled(o)' /\ Live(o)'
  <2>1. cookie[o] \in CookieRec /\ cookie[o].remaining \in Int
    BY DEF TypeOK, CookieRec
  <2>2. QED
    BY <1>1, <1>3, <2>1 DEF Cancelled, Live, Noted, CookieRec
<1>6. LeftOver(o) \/ cookie[o].remaining = Len(Top.keys)
  BY <1>2, <1>3 DEF KeptInv, KeptOne
<1>7. Len(f.keys) = Len(Top.keys) - 1 /\ Len(Top.keys) \in Nat
  BY <1>1, TailType
<1>8. LeftOver(o)' \/ cookie'[o].remaining = Len(f.keys)
  <2>1. LeftOver(o)' <=> LeftOver(o)
    BY <1>2 DEF LeftOver
  <2>2. QED
    BY <1>5, <1>6, <1>7, <2>1
<1>9. Call("progress", o) \in Frame /\ Call("progress", o).fn = "progress" /\ Call("progress", o).op = o
  BY CallbackFrames
<1>10. /\ Len(stack) \in Depth' /\ stack'[Len(stack)] = f
       /\ \A i \in Depth' : \/ i \in Depth /\ i < Len(stack) /\ stack'[i] = stack[i]
                            \/ stack'[i] = f
                            \/ stack'[i] = Call("progress", o)
       /\ cookie'[o].remaining # 0 \/ HasFrame("progress", o)'
  <2>1. CASE cookie'[o].remaining # 0 /\ stack' = Append(Callers, f)
    BY <1>1, <1>2, <2>1, Replaced
  <2>2. CASE stack' = Append(Append(Callers, f), Call("progress", o))
    <3>1. /\ Len(stack) \in Depth' /\ stack'[Len(stack)] = f
          /\ Len(stack) + 1 \in Depth' /\ stack'[Len(stack) + 1] = Call("progress", o)
          /\ \A i \in Depth' : \/ i \in Depth /\ i < Len(stack) /\ stack'[i] = stack[i]
                               \/ stack'[i] = f
                               \/ stack'[i] = Call("progress", o)
      BY <1>1, <1>2, <1>9, <2>2, ReplacedPushed
    <3>2. HasFrame("progress", o)'
      BY <1>9, <3>1 DEF HasFrame
    <3>3. QED
      BY <3>1, <3>2
  <2>3. QED
    BY <1>1, <2>1, <2>2
<1>11. HasFrame("cancel", o)' /\ InFrame(o)'
  <2>1. DOMAIN stack' = Depth'
    BY LenProperties DEF TypeOK, Depth
  <2>2. QED
    BY <1>1, <1>10, <2>1 DEF HasFrame, InFrame, CookieFrames
<1>12. \A i \in Depth' : stack'[i].fn = "cancel" /\ stack'[i].op = o => stack'[i] = f
  <2>1. \A i \in Depth : stack[i].fn = "cancel" => OfCookie(stack[i])
    BY DEF OfCookie, CookieFrames
  <2>2. \A i \in Depth : i < Len(stack) => i # Len(stack)
    BY StackFacts
  <2>3. QED
    BY <1>3, <1>9, <1>10, <2>1, <2>2
<1>13. \A i \in Depth' : stack'[i].fn = "cancel" /\ stack'[i].op = o =>
                           LeftOver(o)' \/ cookie'[o].remaining = Len(stack'[i].keys)
  BY <1>8, <1>12
<1>14. inflight'[o] = {}
  BY <1>2, <1>4
<1>15. QED
  BY <1>5, <1>10, <1>11, <1>13, <1>14 DEF KeptOne

\* Cookie::cancel returns: all that remained was cancelled, or the queue cut
\* the operation short.
LEMMA CancelDoneKept ==
  ASSUME TypeOK, TypeOK', CookieInv, KeptInv, CancelDone, NEW o \in Ops, o = Top.op
  PROVE  KeptOne(o)'
<1>1. /\ stack # <<>> /\ Top.fn = "cancel" /\ Top.keys = <<>> /\ OfCookie(Top)
      /\ stack' = Callers
      /\ UNCHANGED <<cookie, inflight, shape, viaQueue>>
  BY DEF CancelDone, OnTop, OfCookie, CookieFrames, library, answers
<1>2. /\ \A i \in Depth : i = Len(stack) \/ ~OfCookie(stack[i]) \/ stack[i].op # o
      /\ Len(stack) \in Depth /\ stack[Len(stack)] = Top
      /\ Counted(o) /\ Cancelled(o)
  <2>1. Counted(o) /\ Cancelled(o)
    BY <1>1, BelowTop DEF Holds
  <2>2. QED
    BY <1>1, <2>1, BelowTop
<1>3. \A i \in Depth' : ~OfCookie(stack'[i]) \/ stack'[i].op # o
  <2>1. \A i \in Depth : i < Len(stack) => i # Len(stack)
    BY StackFacts
  <2>2. QED
    BY <1>1, <1>2, <2>1, Popped
<1>4. /\ ~InFrame(o)' /\ ~HasFrame("progress", o)'
      /\ \A i \in Depth' : ~(stack'[i].fn = "cancel" /\ stack'[i].op = o)
  <2>1. DOMAIN stack' = Depth'
    BY LenProperties DEF TypeOK, Depth
  <2>2. QED
    BY <1>3, <2>1 DEF InFrame, HasFrame, OfCookie, CookieFrames
<1>5. ~HasFrame("progress", o)
  BY <1>1, <1>2 DEF HasFrame, OfCookie, CookieFrames
<1>6. inflight[o] = {}
  BY <1>2 DEF CookieInv, Owed, OwedTo
<1>7. KeptOne(o)
  BY DEF KeptInv
<1>8. Live(o) => cookie[o].remaining # 0 /\ LeftOver(o)
  <2>1. Live(o) => cookie[o].remaining # 0
    BY <1>2, <1>5, <1>7 DEF KeptOne
  <2>2. Len(Top.keys) = 0
    BY <1>1
  <2>3. QED
    BY <1>1, <1>2, <1>7, <2>1, <2>2 DEF KeptOne
<1>9. Live(o)' => CutShort(o)'
  BY <1>1, <1>2, <1>4, <1>8 DEF CutShort, Live, Cancelled, LeftOver
<1>10. Cancelled(o)' /\ inflight'[o] = {} /\ (Live(o)' => cookie'[o].remaining # 0)
  BY <1>1, <1>2, <1>6, <1>8 DEF Cancelled, Live
<1>11. QED
  BY <1>4, <1>9, <1>10 DEF KeptOne

\* A callback returns to a Cookie that ends, or that has more to come.
LEMMA ReturnKept ==
  ASSUME TypeOK, TypeOK', CookieInv, KeptInv, ReturnProgress \/ ReturnFinal,
         NEW o \in Ops, o = Top.op
  PROVE  KeptOne(o)'
<1>1. /\ stack # <<>> /\ Top.fn \in {"progress", "final"} /\ OfCookie(Top)
      /\ stack' = Callers
      /\ UNCHANGED <<inflight, shape, viaQueue, pending>>
  BY DEF ReturnProgress, ReturnFinal, OnTop, OfCookie, CookieFrames, library, handle
<1>2. /\ \A i \in Depth : i = Len(stack) \/ ~OfCookie(stack[i]) \/ stack[i].op # o
                          \/ stack[i].fn = "cancel"
      /\ Len(stack) \in Depth /\ stack[Len(stack)] = Top
      /\ Holds(Top) /\ Live(o)
  <2>1. Holds(Top) /\ Live(o)
    BY <1>1, BelowTop DEF Holds
  <2>2. QED
    BY <1>1, <2>1, BelowTop
<1>3. /\ \A i \in Depth' : i \in Depth /\ i # Len(stack) /\ stack'[i] = stack[i]
      /\ \A i \in Depth : i = Len(stack) \/ (i \in Depth' /\ stack'[i] = stack[i])
  <2>1. \A i \in Depth : i < Len(stack) => i # Len(stack)
    BY StackFacts
  <2>2. QED
    BY <1>1, <2>1, Popped
<1>4. ~HasFrame("progress", o)'
  BY <1>2, <1>3 DEF HasFrame, OfCookie, CookieFrames
<1>5. KeptOne(o) /\ InFrame(o)
  <2>1. KeptOne(o)
    BY DEF KeptInv
  <2>2. QED
    BY <1>1, <1>2, <2>1, StackFacts
<1>6. Streams(shape[o])' /\ inflight'[o] # {} => NoKey \in inflight'[o]
  BY <1>1, <1>5 DEF KeptOne, Streams
<1>7. CASE cookie'[o].st = "deleted"
  <2>1. ~Live(o)'
    BY <1>7 DEF Live
  <2>2. QED
    BY <1>4, <1>6, <2>1 DEF KeptOne
<1>8. CASE ReturnProgress /\ cookie' = cookie /\ cookie[o].remaining # 0
  <2>1. Top.fn = "progress" /\ HasFrame("progress", o)
    <3>1. Top.fn = "progress"
      BY <1>8 DEF ReturnProgress, OnTop
    <3>2. QED
      BY <1>2, <3>1 DEF HasFrame
  <2>2. shape[o].kind = "plain" \/ Cancelled(o)
    BY <1>2, <2>1 DEF Holds
  <2>3. Waiting(o)' <=> Waiting(o)
    <3>1. stack' \in Seq(Frame) /\ DOMAIN stack' = Depth'
      BY LenProperties DEF TypeOK, Depth
    <3>2. Running(o)' <=> \E i \in Depth' : stack'[i].op = o /\ stack'[i].fn = "runScheduled"
      BY <3>1 DEF Running
    <3>3. Running(o) <=> \E i \in Depth : stack[i].op = o /\ stack[i].fn = "runScheduled"
      <4>1. DOMAIN stack = Depth
        BY StackFacts
      <4>2. QED
        BY <4>1 DEF Running
    <3>4. Running(o)' <=> Running(o)
      BY <1>2, <1>3, <2>1, <3>2, <3>3
    <3>5. QED
      BY <1>1, <3>4 DEF Waiting, InQueue
  <2>4. \A i \in Depth' : stack'[i].fn = "cancel" /\ stack'[i].op = o /\ Live(o)' =>
                            LeftOver(o)' \/ cookie'[o].remaining = Len(stack'[i].keys)
    <3>1. Live(o) /\ (LeftOver(o)' <=> LeftOver(o))
      BY <1>1, <1>2 DEF LeftOver
    <3>2. \A i \in Depth : stack[i].fn = "cancel" /\ stack[i].op = o =>
                             LeftOver(o) \/ cookie[o].remaining = Len(stack[i].keys)
      BY <1>5, <3>1 DEF KeptOne
    <3>3. QED
      BY <1>3, <1>8, <3>1, <3>2
  <2>5. CASE Cancelled(o)
    <3>1. HasFrame("cancel", o)
      BY <1>5, <2>1, <2>5 DEF KeptOne
    <3>2. PICK i \in Depth : stack[i].fn = "cancel" /\ stack[i].op = o
      BY <3>1 DEF HasFrame
    <3>3. i \in Depth' /\ stack'[i] = stack[i]
      BY <1>2, <1>3, <2>1, <3>2
    <3>4. InFrame(o)'
      <4>1. DOMAIN stack' = Depth'
        BY LenProperties DEF TypeOK, Depth
      <4>2. QED
        BY <3>2, <3>3, <4>1 DEF InFrame, CookieFrames
    <3>5. Cancelled(o)' /\ cookie'[o].remaining # 0
      BY <1>8, <2>5 DEF Cancelled
    <3>6. QED
      BY <1>4, <1>6, <2>4, <3>4, <3>5 DEF KeptOne
  <2>6. CASE ~Cancelled(o)
    <3>1. ~Cancelled(o)' /\ shape[o].kind = "plain"
      BY <1>8, <2>2, <2>6 DEF Cancelled
    <3>2. ~Forgotten(o)
      BY <1>5 DEF Forgotten
    <3>3. Waiting(o) \/ inflight[o] # {}
      BY <1>2, <1>5, <1>8, <2>6, <3>1, <3>2 DEF KeptOne
    <3>4. Waiting(o)' \/ inflight'[o] # {}
      BY <1>1, <2>3, <3>3
    <3>5. QED
      BY <1>4, <1>6, <2>4, <3>1, <3>4 DEF KeptOne
  <2>7. QED
    BY <2>5, <2>6
<1>9. QED
  <2>1. CASE ReturnFinal
    <3>1. cookie'[o].st = "deleted"
      BY <2>1 DEF ReturnFinal, Delete, TypeOK, CookieRec
    <3>2. QED
      BY <1>7, <3>1
  <2>2. CASE ReturnProgress
    <3>1. CASE cookie[o].remaining = 0
      <4>1. cookie'[o].st = "deleted"
        BY <2>2, <3>1 DEF ReturnProgress, Delete, TypeOK, CookieRec
      <4>2. QED
        BY <1>7, <4>1
    <3>2. CASE cookie[o].remaining # 0
      BY <1>8, <2>2, <3>2 DEF ReturnProgress
    <3>3. QED
      BY <3>1, <3>2
  <2>3. QED
    BY <2>1, <2>2

\* What a reply finds: libcouchbase answers a Cookie that is alive, has not
\* been cancelled and is not in the queue.
LEMMA OwedFacts ==
  ASSUME TypeOK, CookieInv, NEW o \in Ops, NEW k \in inflight[o]
  PROVE  /\ Live(o) /\ ~Cancelled(o) /\ ~InQueue(o) /\ k \in Nat
         /\ cookie[o] \in CookieRec /\ stack \in Seq(Frame) /\ shape[o] \in Shapes
         /\ shape[o].kind \in Kinds /\ shape[o].nkeys \in Nat \ {0}
         /\ shape[o].kind = "plain" =>
              IsFiniteSet(inflight[o]) /\ cookie[o].remaining = Cardinality(inflight[o])
         /\ shape[o].kind = "http" => inflight[o] = {1} /\ k = 1
         /\ \A i \in Depth : ~(stack[i].fn \in {"cancel", "final"} /\ stack[i].op = o)
<1>1. /\ Live(o) /\ ~Cancelled(o) /\ ~InQueue(o)
      /\ shape[o].kind = "plain" =>
              IsFiniteSet(inflight[o]) /\ cookie[o].remaining = Cardinality(inflight[o])
      /\ shape[o].kind = "http" => inflight[o] \subseteq {1}
  BY DEF CookieInv, Owed, OwedTo
<1>2. shape[o] \in Shapes /\ shape[o].kind \in Kinds /\ shape[o].nkeys \in Nat \ {0}
  BY ShapesAssumption DEF TypeOK
<1>3. \A i \in Depth : ~(stack[i].fn \in {"cancel", "final"} /\ stack[i].op = o)
  BY <1>1 DEF CookieInv, FramesHold, Holds
<1>4. k \in Nat /\ cookie[o] \in CookieRec /\ stack \in Seq(Frame)
  BY DEF TypeOK
<1>5. shape[o].kind = "http" => inflight[o] = {1} /\ k = 1
  BY <1>1
<1>6. QED
  BY <1>1, <1>2, <1>3, <1>4, <1>5

\* One reply less.
LEMMA OneLess ==
  ASSUME NEW S, IsFiniteSet(S), NEW k \in S
  PROVE  /\ IsFiniteSet(S \ {k}) /\ Cardinality(S \ {k}) = Cardinality(S) - 1
         /\ Cardinality(S) \in Nat \ {0}
         /\ Cardinality(S) - 1 = 0 <=> S \ {k} = {}
<1>1. /\ IsFiniteSet(S \ {k}) /\ Cardinality(S \ {k}) = Cardinality(S) - 1
      /\ Cardinality(S) \in Nat /\ Cardinality(S \ {k}) \in Nat
  BY FS_RemoveElement, FS_CardinalityType
<1>2. Cardinality(S \ {k}) = 0 <=> S \ {k} = {}
  BY <1>1, FS_EmptySet
<1>3. QED
  BY <1>1, <1>2

\* A reply: more is to come, or the callback has been called.
LEMMA DeliverKept ==
  ASSUME TypeOK, TypeOK', CookieInv, KeptInv, NEW o \in Ops, NEW k \in inflight[o],
         NEW ok \in BOOLEAN, Deliver(o, k, ok, stack)
  PROVE  KeptOne(o)'
<1>0. /\ ~Cancelled(o) /\ k \in Nat /\ cookie[o] \in CookieRec /\ stack \in Seq(Frame)
      /\ cookie[o].remaining \in Int
  BY OwedFacts DEF CookieRec
<1>1. KeptOne(o)
  BY DEF KeptInv
<1>2. \A i \in Depth : ~(stack[i].fn = "cancel" /\ stack[i].op = o)
  BY OwedFacts
<1>3. ASSUME NEW fn \in {"progress", "final"}, stack' = Append(stack, Call(fn, o))
      PROVE  /\ InFrame(o)'
             /\ \A i \in Depth' : ~(stack'[i].fn = "cancel" /\ stack'[i].op = o)
  <2>1. Call(fn, o) \in Frame /\ Call(fn, o).fn = fn /\ Call(fn, o).op = o
    BY CallbackFrames
  <2>2. /\ Len(stack) + 1 \in Depth' /\ stack'[Len(stack) + 1] = Call(fn, o)
        /\ \A i \in Depth' : (i \in Depth /\ stack'[i] = stack[i]) \/ stack'[i] = Call(fn, o)
    BY <1>3, <2>1, Pushed
  <2>3. DOMAIN stack' = Depth'
    BY LenProperties DEF TypeOK, Depth
  <2>4. QED
    BY <1>2, <2>1, <2>2, <2>3 DEF InFrame, CookieFrames
<1>4. CASE shape[o].kind = "plain"
  <2>1. /\ Progress(o, k, TRUE, ok, stack)
        /\ inflight' = [inflight EXCEPT ![o] = @ \ {k}] /\ shape' = shape
    BY <1>0, <1>4, DeliverPlain
  <2>2. /\ cookie'[o] = Noted(cookie[o], Spooled(o), k, ok)
        /\ IF Spooled(o) /\ cookie'[o].remaining # 0
             THEN stack' = stack
             ELSE stack' = Append(stack, Call("progress", o))
    <3>1. PICK yes \in BOOLEAN : Progress(o, k, yes, ok, stack)
      BY <2>1
    <3>2. /\ cookie'[o] = Noted(cookie[o], Spooled(o), k, ok)
          /\ IF Spooled(o) /\ cookie'[o].remaining # 0
               THEN stack' = stack /\ heard'[o] = heard[o]
               ELSE /\ stack' = Append(stack, Call("progress", o))
                    /\ heard'[o] = Told(heard[o], cookie'[o], Spooled(o), k, ok)
      BY <1>0, <3>1, ProgressEffect
    <3>3. QED
      BY <3>2
  <2>3. inflight'[o] = inflight[o] \ {k} /\ shape'[o].kind = "plain"
    BY <1>4, <2>1 DEF TypeOK
  <2>4. cookie'[o].remaining = cookie[o].remaining - 1 /\ ~Cancelled(o)'
    BY <1>0, <2>2 DEF Noted, CookieRec, Cancelled
  <2>5. cookie'[o].remaining = 0 <=> inflight'[o] = {}
    <3>1. IsFiniteSet(inflight[o]) /\ cookie[o].remaining = Cardinality(inflight[o])
      BY <1>4, OwedFacts
    <3>2. Cardinality(inflight[o]) - 1 = 0 <=> inflight[o] \ {k} = {}
      BY <3>1, OneLess
    <3>3. QED
      BY <2>3, <2>4, <3>1, <3>2
  <2>6. ~Streams(shape[o])'
    BY <2>3 DEF Streams
  <2>7. CASE stack' = stack /\ cookie'[o].remaining # 0
    <3>1. \A i \in Depth' : ~(stack'[i].fn = "cancel" /\ stack'[i].op = o)
      BY <1>2, <2>7 DEF Depth
    <3>2. QED
      BY <2>4, <2>5, <2>6, <2>7, <3>1 DEF KeptOne
  <2>8. CASE stack' = Append(stack, Call("progress", o))
    BY <1>3, <2>4, <2>5, <2>6, <2>8 DEF KeptOne
  <2>9. QED
    BY <2>2, <2>7, <2>8
<1>5. CASE Streams(shape[o]) /\ k # NoKey
  <2>1. /\ cookie'[o] = Updated(cookie[o], k, ok) /\ stack' = stack
        /\ inflight' = [inflight EXCEPT ![o] = @ \ {k}] /\ shape' = shape
    BY <1>0, <1>5, DeliverData
  <2>2. inflight'[o] = inflight[o] \ {k} /\ shape'[o].kind # "plain"
    BY <1>5, <2>1 DEF TypeOK, Streams
  <2>3. NoKey \in inflight'[o]
    BY <1>1, <1>5, <2>2 DEF KeptOne
  <2>4. ~Cancelled(o)'
    BY <1>0, <2>1 DEF Updated, CookieRec, Cancelled
  <2>5. \A i \in Depth' : ~(stack'[i].fn = "cancel" /\ stack'[i].op = o)
    BY <1>2, <2>1 DEF Depth
  <2>6. QED
    BY <2>2, <2>3, <2>4, <2>5 DEF KeptOne
<1>6. CASE shape[o].kind # "plain" /\ ~(Streams(shape[o]) /\ k # NoKey)
  <2>1. /\ \E err \in BOOLEAN, good \in BOOLEAN : Answer(o, cookie[o], err, good, stack)
        /\ shape[o].kind = "http" \/ (Streams(shape[o]) /\ inflight[o] = {NoKey})
        /\ inflight' = [inflight EXCEPT ![o] = @ \ {k}] /\ shape' = shape
    BY <1>0, <1>6, DeliverLast
  <2>2. cookie'[o] = cookie[o] /\ stack' = Append(stack, Call("final", o))
    BY <1>0, <2>1, AnswerEffect
  <2>3. inflight'[o] = {} /\ shape'[o].kind # "plain" /\ ~Cancelled(o)'
    <3>1. inflight'[o] = inflight[o] \ {k}
      BY <2>1 DEF TypeOK
    <3>2. inflight[o] = {k}
      BY <2>1, OwedFacts
    <3>3. QED
      BY <1>0, <1>6, <2>1, <2>2, <3>1, <3>2 DEF Cancelled
  <2>4. QED
    BY <1>3, <2>2, <2>3 DEF KeptOne
<1>7. QED
  BY <1>4, <1>5, <1>6

\* lcb_destroy returns: what was in flight is forgotten.
LEMMA DestroyKept ==
  ASSUME TypeOK, TypeOK', CookieInv, KeptInv, [Next]_vars, DestroyDone, NEW p \in Ops
  PROVE  KeptOne(p)' /\ (inflight[p] # {} => ~DestroyPurges)
<1>1. /\ stack # <<>> /\ Top.fn = "destroy" /\ inflight'[p] = {} /\ stack' = Callers
      /\ UNCHANGED <<cookie, shape, viaQueue, heard, failed, pending, primary>>
      /\ inflight[p] # {} => ~DestroyPurges
  BY DEF DestroyDone, OnTop, handle, answers
<1>2. Foreign(Top, p) /\ \A i \in Depth : i = 1 /\ stack[i] = Top
  BY <1>1, LoopAlone DEF Foreign, OfCookie, CookieFrames, CancelsFront, LoopFrames
<1>3. KeptOne(p) /\ primary = "destroyed"
  <2>1. Len(stack) \in Depth /\ stack[Len(stack)] = Top
    BY <1>1, StackFacts
  <2>2. QED
    BY <1>1, <2>1 DEF KeptInv
<1>4. CASE inflight[p] = {}
  <2>1. Untouched(p)
    <3>1. SameFrames(p)
      BY <1>1, <1>2, PopForeign
    <3>2. InQueue(p)' <=> InQueue(p)
      BY <1>1 DEF InQueue
    <3>3. QED
      BY <1>1, <1>4, <3>1, <3>2 DEF Untouched
  <2>2. QED
    BY <1>1, <1>3, <2>1, UntouchedKept
<1>5. CASE inflight[p] # {}
  <2>1. Live(p) /\ ~Cancelled(p) /\ ~InQueue(p)
    BY <1>5 DEF CookieInv, Owed, OwedTo
  <2>2. stack' = <<>> /\ Depth' = {}
    <3>1. Len(stack) = 1
      BY <1>1, LoopAlone DEF LoopFrames
    <3>2. Len(Callers) = 0 /\ Callers \in Seq(Frame)
      BY <1>1, <3>1, CallersType DEF TypeOK
    <3>3. QED
      BY <1>1, <3>2, EmptySeq DEF Depth
  <2>3. Forgotten(p)'
    <3>1. ~InFrame(p)'
      BY <2>2 DEF InFrame
    <3>2. Live(p)' /\ ~Cancelled(p)' /\ ~InQueue(p)'
      BY <1>1, <2>1 DEF Live, Cancelled, InQueue
    <3>3. QED
      BY <1>1, <1>3, <1>5, <3>1, <3>2 DEF Forgotten, Cancelled
  <2>4. ~Cancelled(p)' /\ ~HasFrame("progress", p)'
    BY <1>1, <2>1, <2>2 DEF Cancelled, HasFrame
  <2>5. QED
    BY <1>1, <2>2, <2>3, <2>4 DEF KeptOne
<1>6. QED
  BY <1>1, <1>4, <1>5

\* Every operation keeps who will use its Cookie.
LEMMA KeptOneStep ==
  ASSUME TypeOK, TypeOK', CookieInv, HandedInv, KeptInv, [Next]_vars, NEW p \in Ops
  PROVE  KeptOne(p)'
<1>1. ASSUME Untouched(p) PROVE KeptOne(p)'
  BY <1>1, UntouchedKept DEF KeptInv
<1>2. CASE QuietSteps
  BY <1>1, <1>2, QuietUntouched
<1>3. ASSUME NEW o \in Ops, NEW s \in Shapes,
             Bail(o, s) \/ Enqueue(o, s) \/ Schedule(o, s) \/ ScheduleFail(o, s)
      PROVE  KeptOne(p)'
  <2>1. CASE p = o
    BY <1>3, <2>1, StartKept
  <2>2. CASE p # o
    BY <1>1, <1>3, <2>2, StartOthers
  <2>3. QED
    BY <2>1, <2>2
<1>4. CASE RunNext \/ RunNextFail \/ RunPop
  <2>1. PICK o \in Ops : o = Head(pending)
    BY <1>4, DrainFacts DEF RunNext, RunNextFail, RunPop
  <2>2. CASE p = o
    BY <1>4, <2>1, <2>2, RunNextKept, RunNextFailKept, RunPopKept
  <2>3. CASE p # o
    BY <1>1, <1>4, <2>1, <2>3, RunOthers
  <2>4. QED
    BY <2>2, <2>3
<1>5. CASE CancelKey \/ CancelDone \/ ReturnProgress \/ ReturnFinal
  <2>1. PICK o \in Ops : o = Top.op
    <3>1. stack # <<>> /\ OfCookie(Top)
      BY <1>5 DEF CancelKey, CancelDone, ReturnProgress, ReturnFinal, OnTop, OfCookie,
                  CookieFrames
    <3>2. QED
      BY <3>1, TopOfCookie
  <2>2. CASE p = o
    BY <1>5, <2>1, <2>2, CancelKeyKept, CancelDoneKept, ReturnKept
  <2>3. CASE p # o
    BY <1>1, <1>5, <2>1, <2>3, CookieOthers
  <2>4. QED
    BY <2>2, <2>3
<1>6. CASE DestroyDone
  BY <1>6, DestroyKept
<1>7. ASSUME NEW o \in Ops, NEW k \in inflight[o], NEW ok \in BOOLEAN,
             Deliver(o, k, ok, stack)
      PROVE  KeptOne(p)'
  <2>1. CASE p = o
    BY <1>7, <2>1, DeliverKept
  <2>2. CASE p # o
    BY <1>1, <1>7, <2>2, DeliverOthers
  <2>3. QED
    BY <2>1, <2>2
<1>8. QED
  BY <1>2, <1>3, <1>4, <1>5, <1>6, <1>7, StepKinds

\* Every step keeps KeptInv, ...
LEMMA KeptInvStep ==
  ASSUME TypeOK, TypeOK', CookieInv, HandedInv, KeptInv, [Next]_vars
  PROVE  KeptInv'
<1>1. \A o \in Ops : KeptOne(o)'
  BY KeptOneStep
<1>2. ASSUME NEW i \in Depth', stack'[i].fn = "destroy"
      PROVE  primary' = "destroyed"
  <2>1. ~OfCookie(stack'[i])
    BY <1>2 DEF OfCookie, CookieFrames
  <2>2. (i \in Depth /\ stack'[i] = stack[i]) \/ IdleRuns
    BY <1>2, <2>1, NewFrames
  <2>3. CASE i \in Depth /\ stack'[i] = stack[i]
    BY <1>2, <2>3, DestroyedStays DEF KeptInv
  <2>4. CASE IdleRuns
    BY <2>4 DEF IdleRuns
  <2>5. QED
    BY <2>2, <2>3, <2>4
<1>3. QED
  BY <1>1, <1>2 DEF KeptInv

\* ... which holds at the start.
LEMMA KeptInvInit ==
  ASSUME Init
  PROVE  KeptInv
<1>1. stack = <<>> /\ Len(stack) = 0 /\ \A o \in Ops : cookie[o].st = "none" /\ inflight[o] = {}
  BY DEF Init, NoCookie
<1>2. Depth = {}
  BY <1>1 DEF Depth
<1>3. QED
  BY <1>1, <1>2 DEF KeptInv, KeptOne, Live, HasFrame

\* No Cookie is left without anyone to use it, but those of operations that
\* were cut short or forgotten.
THEOREM NoLeakedCookieCorrect == Spec => []NoLeakedCookie
<1>1. Init => ConnectInv /\ HandedInv /\ KeptInv
  BY ConnectInvInit, HandedInvInit, KeptInvInit
<1>2. /\ TypeOK /\ TypeOK' /\ CookieInv /\ ConnectInv /\ HandedInv /\ KeptInv /\ [Next]_vars
      => ConnectInv' /\ HandedInv' /\ KeptInv'
  BY ConnectInvStep, HandedInvStep, KeptInvStep
<1>3. KeptInv => NoLeakedCookie
  BY DEF KeptInv, KeptOne, NoLeakedCookie, Waiting
<1>4. QED
  BY <1>1, <1>2, <1>3, TypeCorrect, CookieInvCorrect, PTL DEF Spec
-----------------------------------------------------------------------------
(* What is lost stays lost. *)

\* Nothing runs the queue of a stranded operation again.
LEMMA StaysStranded ==
  ASSUME TypeOK, TypeOK', CookieInv, [Next]_vars, NEW p \in Ops, Stranded(p)
  PROVE  Stranded(p)'
<1>1. /\ InQueue(p) /\ (connected \/ primary \in {"failed", "destroyed"})
      /\ \A i \in Depth : stack[i].fn \notin {"connectCb", "runScheduled"}
      /\ ~OnTop("connectCb") /\ ~OnTop("runScheduled")
  <2>1. DOMAIN stack = Depth /\ (stack # <<>> => Len(stack) \in Depth /\ Top = stack[Len(stack)])
    BY StackFacts
  <2>2. QED
    BY <2>1 DEF Stranded, OnTop
<1>2. ~(RunNext \/ RunNextFail \/ RunPop \/ ReturnConnect)
  BY <1>1 DEF RunNext, RunNextFail, RunPop, ReturnConnect
<1>3. connected' \/ primary' \in {"failed", "destroyed"}
  <2>1. CASE Connect
    BY <1>1, <2>1 DEF Connect, handle
  <2>2. CASE ConfigArrives
    BY <1>1, <2>2 DEF ConfigArrives
  <2>3. CASE ErrorArrives
    BY <1>1, <2>3 DEF ErrorArrives
  <2>4. CASE UNCHANGED connected /\ (primary' = primary \/ primary' = "destroyed")
    BY <1>1, <2>4
  <2>5. QED
    BY <2>1, <2>2, <2>3, <2>4, ConnectEffect
<1>4. ASSUME NEW i \in Depth', stack'[i].fn \in {"connectCb", "runScheduled"}
      PROVE  FALSE
  <2>1. /\ ~OfCookie(stack'[i])
        /\ stack'[i].fn \notin {"bailOut", "errorCb", "errorEvent", "destroy"}
    BY <1>4 DEF OfCookie, CookieFrames
  <2>2. (i \in Depth /\ stack'[i] = stack[i]) \/ ConfigArrives
    BY <1>2, <2>1, NewFrames
  <2>3. CASE ConfigArrives
    <3>1. connected
      BY <1>1, <2>3 DEF ConfigArrives
    <3>2. stack' = stack
      BY <2>3, <3>1 DEF ConfigArrives
    <3>3. QED
      BY <1>1, <1>4, <3>2 DEF Depth
  <2>4. QED
    BY <1>1, <1>4, <2>2, <2>3
<1>5. InQueue(p)'
  <2>1. CASE pending' = pending
    BY <1>1, <2>1 DEF InQueue
  <2>2. ASSUME NEW o \in Ops, NEW s \in Shapes, Enqueue(o, s)
        PROVE  InQueue(p)'
    <3>1. p # o
      <4>1. Start(o, s)
        BY <2>2 DEF Enqueue
      <4>2. ~InQueue(o)
        BY <4>1, StartFacts
      <4>3. QED
        BY <1>1, <4>2
    <3>2. Untouched(p)
      BY <2>2, <3>1, StartOthers
    <3>3. QED
      BY <1>1, <3>2 DEF Untouched
  <2>3. \/ pending' = pending
        \/ \E o \in Ops, s \in Shapes : Enqueue(o, s)
    <3>1. CASE QuietSteps
      BY <3>1 DEF QuietSteps, Connect, ConfigArrives, ErrorArrives, IdleRuns, On, Shutdown,
                  ReturnConnect, ReturnConnectError, ReturnOther, RunDone, vars, handle
    <3>2. ASSUME NEW o \in Ops, NEW s \in Shapes,
                 Bail(o, s) \/ Enqueue(o, s) \/ Schedule(o, s) \/ ScheduleFail(o, s)
          PROVE  pending' = pending \/ Enqueue(o, s)
      BY <3>2 DEF Bail, Schedule, ScheduleFail, handle
    <3>3. CASE CancelKey \/ CancelDone \/ ReturnProgress \/ ReturnFinal \/ DestroyDone
      BY <3>3 DEF CancelKey, CancelDone, ReturnProgress, ReturnFinal, DestroyDone, handle
    <3>4. ASSUME NEW o \in Ops, NEW k \in inflight[o], NEW ok \in BOOLEAN,
                 Deliver(o, k, ok, stack)
          PROVE  pending' = pending
      BY <3>4 DEF Deliver, handle
    <3>5. QED
      BY <1>2, <3>1, <3>2, <3>3, <3>4, StepKinds
  <2>4. QED
    BY <2>1, <2>2, <2>3
<1>6. DOMAIN stack' = Depth'
  BY LenProperties DEF TypeOK, Depth
<1>7. QED
  BY <1>3, <1>4, <1>5, <1>6 DEF Stranded

\* Nothing touches an operation that was cut short or forgotten.
LEMMA StaysLost ==
  ASSUME TypeOK, TypeOK', CookieInv, [Next]_vars, NEW p \in Ops
  PROVE  /\ CutShort(p) => CutShort(p)'
         /\ Forgotten(p) => Forgotten(p)'
<1> SUFFICES ASSUME CutShort(p) \/ Forgotten(p)
             PROVE  (CutShort(p) => CutShort(p)') /\ (Forgotten(p) => Forgotten(p)')
  OBVIOUS
<1>1. /\ Live(p) /\ ~InFrame(p)
      /\ CutShort(p) => Cancelled(p)
      /\ Forgotten(p) => inflight[p] = {} /\ ~InQueue(p)
  BY DEF CutShort, Forgotten, Cancelled
<1>2. ASSUME Untouched(p)
      PROVE  (CutShort(p) => CutShort(p)') /\ (Forgotten(p) => Forgotten(p)')
  BY <1>2, UntouchedLost
<1>3. CASE QuietSteps
  BY <1>2, <1>3, QuietUntouched
<1>4. ASSUME NEW o \in Ops, NEW s \in Shapes,
             Bail(o, s) \/ Enqueue(o, s) \/ Schedule(o, s) \/ ScheduleFail(o, s)
      PROVE  Untouched(p)
  <2>1. Start(o, s)
    BY <1>4 DEF Bail, Enqueue, Schedule, ScheduleFail
  <2>2. cookie[o].st = "none"
    BY <2>1, StartFacts
  <2>3. p # o
    BY <1>1, <2>2 DEF Live
  <2>4. QED
    BY <1>4, <2>3, StartOthers
<1>5. CASE RunNext \/ RunNextFail \/ RunPop
  <2>1. PICK o \in Ops : o = Head(pending)
    BY <1>5, DrainFacts DEF RunNext, RunNextFail, RunPop
  <2>2. CASE p # o
    BY <1>2, <1>5, <2>1, <2>2, RunOthers
  <2>3. CASE p = o
    <3>1. InQueue(p)
      <4>1. pending # <<>> /\ OnTop("runScheduled")
        BY <1>5 DEF RunNext, RunNextFail, RunPop
      <4>2. 1 \in 1..Len(pending) /\ pending[1] = o
        BY <2>1, <4>1, DrainFacts, FrameFacts
      <4>3. QED
        BY <2>3, <4>2, FrameFacts DEF InQueue
    <3>2. CASE RunPop
      <4>1. /\ stack # <<>> /\ Top.fn = "runScheduled"
            /\ stack' = Append(Callers, Call("runScheduled", NoOp))
            /\ UNCHANGED <<cookie, shape, viaQueue>>
        BY <3>2 DEF RunPop, OnTop, answers
      <4>2. Call("runScheduled", NoOp) \in Frame /\ Call("runScheduled", NoOp).fn = "runScheduled"
        <5>1. Call("runScheduled", NoOp) \in Frame
          BY CallType DEF NativeFrames, CookieFrames
        <5>2. QED
          BY <5>1 DEF Call
      <4>3. \A i \in Depth' : stack'[i].fn = "runScheduled"
        <5>1. \A i \in Depth : stack[i].fn = "runScheduled"
          BY <4>1, LoopAlone DEF LoopFrames
        <5>2. QED
          BY <4>1, <4>2, <5>1, Replaced
      <4>4. DOMAIN stack' = Depth'
        BY LenProperties DEF TypeOK, Depth
      <4>5. ~InFrame(p)'
        BY <4>3, <4>4 DEF InFrame, CookieFrames
      <4>6. QED
        BY <1>1, <3>1, <4>1, <4>5 DEF CutShort, Live
    <3>3. CASE RunNext \/ RunNextFail
      <4>1. ~Cancelled(p)
        BY <2>1, <2>3, <3>3, FrontFacts
      <4>2. QED
        BY <1>1, <3>1, <4>1
    <3>4. QED
      BY <1>5, <3>2, <3>3
  <2>4. QED
    BY <2>2, <2>3
<1>6. CASE CancelKey \/ CancelDone \/ ReturnProgress \/ ReturnFinal
  <2>1. stack # <<>> /\ OfCookie(Top)
    BY <1>6 DEF CancelKey, CancelDone, ReturnProgress, ReturnFinal, OnTop, OfCookie,
                CookieFrames
  <2>2. PICK o \in Ops : o = Top.op
    BY <2>1, TopOfCookie
  <2>3. p # o
    BY <1>1, <2>1, <2>2, StackFacts
  <2>4. QED
    BY <1>2, <1>6, <2>2, <2>3, CookieOthers
<1>7. CASE DestroyDone
  <2>1. /\ stack # <<>> /\ Top.fn = "destroy" /\ stack' = Callers /\ inflight'[p] = {}
        /\ UNCHANGED <<cookie, shape, viaQueue, heard, failed, pending, primary>>
    BY <1>7 DEF DestroyDone, OnTop, handle, answers
  <2>2. Foreign(Top, p)
    BY <2>1 DEF Foreign, OfCookie, CookieFrames, CancelsFront
  <2>3. SameFrames(p)
    BY <2>1, <2>2, PopForeign
  <2>4. ~InFrame(p)'
    BY <1>1, <2>3, SameFramesFacts
  <2>5. CutShort(p) => CutShort(p)'
    BY <2>1, <2>4 DEF CutShort, Live
  <2>6. Forgotten(p) => Forgotten(p)'
    BY <2>1, <2>4, DestroyedStays DEF Forgotten, Live, InQueue
  <2>7. QED
    BY <2>5, <2>6
<1>8. ASSUME NEW o \in Ops, NEW k \in inflight[o], NEW ok \in BOOLEAN,
             Deliver(o, k, ok, stack)
      PROVE  Untouched(p)
  <2>1. ~Cancelled(o) /\ inflight[o] # {}
    BY OwedFacts
  <2>2. p # o
    BY <1>1, <2>1
  <2>3. QED
    BY <1>8, <2>2, DeliverOthers
<1>9. QED
  BY <1>2, <1>3, <1>4, <1>5, <1>6, <1>7, <1>8, StepKinds

\* An operation that is lost stays lost.
THEOREM LostForGoodCorrect == Spec => LostForGood
<1>1. /\ TypeOK /\ TypeOK' /\ CookieInv /\ [Next]_vars =>
         [\A o \in Ops : Lost(o) => Lost(o)']_vars
  <2> SUFFICES ASSUME TypeOK, TypeOK', CookieInv, [Next]_vars, NEW o \in Ops, Lost(o)
               PROVE  Lost(o)'
    OBVIOUS
  <2>1. Stranded(o)' \/ CutShort(o)' \/ Forgotten(o)'
    BY StaysStranded, StaysLost DEF Lost
  <2>2. QED
    BY <2>1 DEF Lost
<1>2. QED
  BY <1>1, TypeCorrect, CookieInvCorrect, PTL DEF Spec, LostForGood
=============================================================================
