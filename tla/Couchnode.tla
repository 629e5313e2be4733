----------------------------- MODULE Couchnode -----------------------------
(***************************************************************************)
(* The core of couchnode: one CouchbaseImpl handle, the queue of commands  *)
(* it keeps until the cluster's configuration arrives, the Cookie of every *)
(* operation in progress, and the libcouchbase instance behind the handle. *)
(*                                                                         *)
(* Everything runs on one thread, and still there are interleavings:       *)
(* couchnode calls the application's callbacks synchronously, and a        *)
(* callback may call any entry point before it returns.  The native call   *)
(* stack is therefore a variable.  A frame is either native code that      *)
(* has called out (it goes on only when it is on top again) or             *)
(* application code (which may start operations while it is on top).       *)
(* An empty stack is the event loop: application code started by a timer,  *)
(* and the events of libcouchbase and libuv, run from there.               *)
(*                                                                         *)
(* Outside the repository, modelled from how src/ uses it: a libcouchbase  *)
(* call schedules all its commands or none; each scheduled key gets one    *)
(* reply; observe and stats end with one more reply, without a key; an     *)
(* instance that has no configuration refuses commands.                    *)
(***************************************************************************)
EXTENDS Integers, Sequences, FiniteSets

CONSTANTS
  MaxOps,         \* bound: how many operations the application starts
  MaxErrors,      \* bound: how many errors libcouchbase reports on its own
  Shapes,         \* the operations the application may start
  Faults,         \* what may go wrong in this instance, a subset of AllFaults
  DestroyPurges   \* does lcb_destroy fail the commands still in flight?

AllFaults == {"bail", "connect", "error", "execute", "reply", "shutdown"}

Kinds == {"plain", "observe", "stats", "http"}
Modes == {"single", "spooled"}

ASSUME BoundsAssumption == MaxOps \in Nat /\ MaxErrors \in Nat

\* initCookie and the createCookie of each Command class: stats are always
\* spooled, HTTP requests never, and neither has more than one command.
ASSUME ShapesAssumption ==
  /\ Shapes \subseteq [kind: Kinds, mode: Modes, nkeys: Nat \ {0}]
  /\ Shapes # {}
  /\ \A s \in Shapes : /\ s.kind = "stats" => s.mode = "spooled" /\ s.nkeys = 1
                       /\ s.kind = "http" => s.mode = "single" /\ s.nkeys = 1

ASSUME FaultsAssumption == Faults \subseteq AllFaults /\ DestroyPurges \in BOOLEAN

Ops == 1..MaxOps      \* operations, numbered in the order they are started
NoOp == 0
NoKey == 0            \* a reply without a key; the key `undefined` of a cancel

VARIABLES
  connected,     \* CouchbaseImpl::connected
  isShutdown,    \* CouchbaseImpl::isShutdown
  errorHandler,  \* is a handler for "error" in CouchbaseImpl::events?
  pending,       \* CouchbaseImpl::pendingCommands
  primary,       \* the instance New created and Connect connects
  configCb,      \* is that instance's configuration callback still set?
  idle,          \* is the idle handle that destroys that instance active?
  inflight,      \* what libcouchbase has yet to answer, per operation
  nerr,          \* how many errors it has reported on its own
  nops,          \* how many operations were started
  shape,         \* the kind, callback mode and number of keys of each
  cookie,        \* the Cookie of each
  stack,         \* the native call stack, innermost frame last
  heard,         \* history: what each operation's callback was given
  failed,        \* history: the keys of each operation that failed
  viaQueue,      \* history: the operations that went through the queue
  handed,        \* history: the operations in the order they were executed
  connectCalls,  \* history: calls of the connect handler
  misused        \* history: operations whose Cookie was used after its end

handle == <<connected, isShutdown, errorHandler, pending>>
library == <<primary, configCb, idle, inflight, nerr>>
answers == <<cookie, heard, failed, misused>>
vars == <<handle, library, nops, shape, answers, stack, viaQueue, handed,
          connectCalls>>

-----------------------------------------------------------------------------
(* The call stack. *)

\* Frames of application code: a callback of bailOut, of Cookie::markProgress,
\* of a Cookie's last answer, the connect handler called with and without an
\* error, and the error handler.
AppFrames == {"bailOut", "progress", "final", "connectCb", "errorCb",
              "errorEvent"}
\* Frames of native code: Cookie::cancel, runScheduledOperations under
\* onConfig, and lcb_destroy under libuv_shutdown_cb.
NativeFrames == {"cancel", "runScheduled", "destroy"}

\* Frames of a function of a Cookie, or of the callback it has called.
CookieFrames == {"progress", "final", "cancel"}

Frame == [fn: CookieFrames, op: Ops, keys: Seq(Nat)] \cup
         [fn: (AppFrames \cup NativeFrames) \ CookieFrames, op: Ops \cup {NoOp},
          keys: Seq(Nat)]
Call(fn, o) == [fn |-> fn, op |-> o, keys |-> <<>>]

InLoop == stack = <<>>
Top == stack[Len(stack)]
OnTop(fn) == stack # <<>> /\ Top.fn = fn
Callers == SubSeq(stack, 1, Len(stack) - 1)
InApp == ~InLoop => Top.fn \in AppFrames

-----------------------------------------------------------------------------
(* Cookies. *)

\* Wrong on purpose, as are all definitions named Bad...: the count is of the
\* keys that follow the first.
BadNewCookie(s) ==
  [st |-> "live", remaining |-> IF s.kind \in {"plain", "observe"} THEN s.nkeys - 1 ELSE -1,
   isCancelled |-> FALSE, hasError |-> FALSE, results |-> {}]

\* `new Cookie(keys.size())`; a StatsCookie or HttpCookie has -1 for a count
\* it never uses.
NewCookie(s) ==
  [st |-> "live", remaining |-> IF s.kind \in {"plain", "observe"} THEN s.nkeys ELSE -1,
   isCancelled |-> FALSE, hasError |-> FALSE, results |-> {}]

NoCookie == [st |-> "none", remaining |-> 0, isCancelled |-> FALSE,
             hasError |-> FALSE, results |-> {}]

AllKeys(s) == [i \in 1..s.nkeys |-> i]
Streams(s) == s.kind \in {"observe", "stats"}

\* What libcouchbase owes once it has scheduled an operation.
Outstanding(s) == (1..s.nkeys) \cup (IF Streams(s) THEN {NoKey} ELSE {})

Live(o) == cookie[o].st = "live"
Spooled(o) == shape[o].mode = "spooled"

\* The status of the last response is kept instead of any failure.
BadNotedStatus(c, spooled, k, ok) ==
  [c EXCEPT !.remaining = c.remaining - 1, !.hasError = ~ok,
            !.results = IF spooled THEN c.results \cup {k} ELSE c.results]

\* What markProgress notes of one response: one less remains, and the status
\* and, in a spooled cookie, the result are kept.
Noted(c, spooled, k, ok) ==
  [c EXCEPT !.remaining = c.remaining - 1,
            !.hasError = c.hasError \/ ~ok,
            !.results = IF spooled THEN c.results \cup {k} ELSE c.results]

\* What the callback of markProgress is given.
Told(h, c, spooled, k, ok) ==
  [calls |-> h.calls + 1,
   keys |-> IF spooled THEN c.results ELSE h.keys \cup {k},
   err |-> IF spooled THEN c.hasError ELSE h.err \/ ~ok]

\* Using a Cookie that is not alive, or no longer will be, is recorded.
Use(o, fine) == misused' = IF fine THEN misused ELSE misused \cup {o}
Fail(o, k, ok) == failed' = IF ok THEN failed ELSE [failed EXCEPT ![o] = @ \cup {k}]

\* Cookie::markProgress for a response of key k, called by a function that
\* leaves `base` on the stack.  A response without a key that is no
\* cancellation makes a spooled cookie delete itself and then go on using
\* itself.
Progress(o, k, hasKey, ok, base) ==
  LET c == Noted(cookie[o], Spooled(o), k, ok)
  IN /\ Use(o, Live(o) /\ (hasKey \/ c.isCancelled \/ ~Spooled(o)))
     /\ cookie' = [cookie EXCEPT ![o] = c]
     /\ Fail(o, k, ok)
     /\ IF Spooled(o) /\ c.remaining # 0
          THEN /\ stack' = base
               /\ UNCHANGED heard
          ELSE /\ stack' = Append(base, Call("progress", o))
               /\ heard' = [heard EXCEPT ![o] = Told(@, c, Spooled(o), k, ok)]

\* The last answer of a StatsCookie (invoke), an HttpCookie or an
\* ObserveCookie (update): the callback is called and the cookie deleted
\* when it returns.  c is the cookie as it was.
Answer(o, c, err, ok, base) ==
  /\ Use(o, c.st = "live")
  /\ cookie' = [cookie EXCEPT ![o] = c]
  /\ Fail(o, NoKey, ok)
  /\ heard' = [heard EXCEPT ![o] = [calls |-> @.calls + 1, keys |-> c.results, err |-> err]]
  /\ stack' = Append(base, Call("final", o))

\* Cookie::cancel, which StatsCookie and HttpCookie override.
Cancel(o, c, s, keys, base) ==
  IF s.kind \in {"plain", "observe"}
    THEN /\ cookie' = [cookie EXCEPT ![o] = [c EXCEPT !.isCancelled = TRUE]]
         /\ Use(o, c.st = "live")
         /\ stack' = Append(base, [fn |-> "cancel", op |-> o, keys |-> keys])
         /\ UNCHANGED <<heard, failed>>
    ELSE Answer(o, c, TRUE, FALSE, base)

Delete(o) == cookie' = [cookie EXCEPT ![o].st = "deleted"]

-----------------------------------------------------------------------------
(* Connecting. *)

\* The Connection constructor's _connect.  If lcb_connect refuses, the
\* constructor calls the application's callback with the exception.
Connect ==
  /\ InLoop /\ primary = "created"
  /\ \/ /\ primary' = "connecting"
        /\ UNCHANGED connectCalls
     \/ /\ "connect" \in Faults
        /\ primary' = "failed"
        /\ connectCalls' = connectCalls + 1
  /\ UNCHANGED <<handle, configCb, idle, inflight, nerr, nops, shape, answers,
                 stack, viaQueue, handed>>

\* onConfig does not look at `connected`.
BadConfigArrives ==
  /\ InLoop /\ primary = "connecting"
  /\ primary' = "ready"
  /\ IF configCb
       THEN /\ connected' = TRUE
            /\ connectCalls' = connectCalls + 1
            /\ stack' = Append(stack, Call("connectCb", NoOp))
       ELSE UNCHANGED <<connected, connectCalls, stack>>
  /\ UNCHANGED <<isShutdown, errorHandler, pending, configCb, idle, inflight,
                 nerr, nops, shape, answers, viaQueue, handed>>

\* The configuration arrives and configuration_callback runs onConfig.  Its
\* first half ends with the call of the connect handler.
ConfigArrives ==
  /\ InLoop /\ primary = "connecting"
  /\ primary' = "ready"
  /\ IF configCb /\ ~connected
       THEN /\ connected' = TRUE
            /\ connectCalls' = connectCalls + 1
            /\ stack' = Append(stack, Call("connectCb", NoOp))
       ELSE UNCHANGED <<connected, connectCalls, stack>>
  /\ UNCHANGED <<isShutdown, errorHandler, pending, configCb, idle, inflight,
                 nerr, nops, shape, answers, viaQueue, handed>>

\* The connect handler returns to onConfig, which runs the queue.
ReturnConnect ==
  /\ OnTop("connectCb")
  /\ stack' = Append(Callers, Call("runScheduled", NoOp))
  /\ UNCHANGED <<handle, library, nops, shape, answers, viaQueue, handed,
                 connectCalls>>

\* libcouchbase reports an error that belongs to no operation, while it
\* connects (it may then give up or not) or later.
ErrorArrives ==
  /\ InLoop /\ "error" \in Faults /\ nerr < MaxErrors
  /\ primary \in {"connecting", "ready"}
  /\ nerr' = nerr + 1
  /\ \/ UNCHANGED primary
     \/ primary = "connecting" /\ primary' = "failed"
  /\ \/ /\ ~connected
        /\ connected' = TRUE
        /\ connectCalls' = connectCalls + 1
        /\ stack' = Append(stack, Call("errorCb", NoOp))
     \/ /\ connected
        /\ stack' = IF errorHandler THEN Append(stack, Call("errorEvent", NoOp)) ELSE stack
        /\ UNCHANGED <<connected, connectCalls>>
  /\ UNCHANGED <<isShutdown, errorHandler, pending, configCb, idle, inflight,
                 nops, shape, answers, viaQueue, handed>>

\* The connect handler, called with the error, returns to errorCallback,
\* which only now looks for a handler of "error".
ReturnConnectError ==
  /\ OnTop("errorCb")
  /\ stack' = IF errorHandler THEN Append(Callers, Call("errorEvent", NoOp)) ELSE Callers
  /\ UNCHANGED <<handle, library, nops, shape, answers, viaQueue, handed,
                 connectCalls>>

-----------------------------------------------------------------------------
(* The application starts operations. *)

\* shutdown leaves the handle its instance.
BadUsable == primary = "ready"

\* The commands go to the instance of the handle: the connected one, or
\* after shutdown a bare one that refuses everything.
Usable == primary = "ready" /\ ~isShutdown
MayFail == ~Usable \/ "execute" \in Faults

Start(o, s) ==
  /\ InApp /\ primary # "created" /\ nops < MaxOps
  /\ o = nops + 1
  /\ nops' = o
  /\ shape' = [shape EXCEPT ![o] = s]

\* CouchbaseImpl::on registers a handler for "error".
On ==
  /\ "error" \in Faults /\ InApp /\ primary # "created" /\ ~errorHandler
  /\ errorHandler' = TRUE
  /\ UNCHANGED <<connected, isShutdown, pending, library, nops, shape, answers,
                 stack, viaQueue, handed, connectCalls>>

\* makeOperation finds the arguments wrong: bailOut calls the callback
\* before the entry point returns.
Bail(o, s) ==
  /\ "bail" \in Faults
  /\ Start(o, s)
  /\ heard' = [heard EXCEPT ![o] = [@ EXCEPT !.calls = 1, !.err = TRUE]]
  /\ stack' = Append(stack, Call("bailOut", o))
  /\ UNCHANGED <<handle, library, cookie, failed, misused, viaQueue, handed,
                 connectCalls>>

\* The queue is a stack.
BadEnqueue(o, s) ==
  /\ Start(o, s)
  /\ ~connected
  /\ cookie' = [cookie EXCEPT ![o] = NewCookie(s)]
  /\ pending' = <<o>> \o pending
  /\ viaQueue' = viaQueue \cup {o}
  /\ UNCHANGED <<connected, isShutdown, errorHandler, library, heard, failed,
                 misused, stack, handed, connectCalls>>

\* The copy of the command that waits in the queue has not got its cookie.
BadEnqueueCopy(o, s) ==
  /\ Start(o, s)
  /\ ~connected
  /\ cookie' = [cookie EXCEPT ![o] = NewCookie(s)]
  /\ pending' = Append(pending, NoOp)
  /\ viaQueue' = viaQueue \cup {o}
  /\ UNCHANGED <<connected, isShutdown, errorHandler, library, heard, failed,
                 misused, stack, handed, connectCalls>>

\* makeOperation before the handle is connected.
Enqueue(o, s) ==
  /\ Start(o, s)
  /\ ~connected
  /\ cookie' = [cookie EXCEPT ![o] = NewCookie(s)]
  /\ pending' = Append(pending, o)
  /\ viaQueue' = viaQueue \cup {o}
  /\ UNCHANGED <<connected, isShutdown, errorHandler, library, heard, failed,
                 misused, stack, handed, connectCalls>>

\* makeOperation on a connected handle, when libcouchbase takes the commands.
Schedule(o, s) ==
  /\ Start(o, s)
  /\ connected /\ Usable
  /\ cookie' = [cookie EXCEPT ![o] = NewCookie(s)]
  /\ inflight' = [inflight EXCEPT ![o] = Outstanding(s)]
  /\ handed' = Append(handed, o)
  /\ UNCHANGED <<handle, primary, configCb, idle, nerr, heard, failed, misused,
                 stack, viaQueue, connectCalls>>

\* makeOperation on a connected handle, when libcouchbase refuses them.
ScheduleFail(o, s) ==
  /\ Start(o, s)
  /\ connected /\ MayFail
  /\ Cancel(o, NewCookie(s), s, AllKeys(s), stack)
  /\ handed' = Append(handed, o)
  /\ UNCHANGED <<handle, library, viaQueue, connectCalls>>

-----------------------------------------------------------------------------
(* runScheduledOperations and the rest of onConfig. *)

RunNext ==
  /\ OnTop("runScheduled") /\ Top.op = NoOp /\ pending # <<>>
  /\ Usable
  /\ inflight' = [inflight EXCEPT ![Head(pending)] = Outstanding(shape[Head(pending)])]
  /\ handed' = Append(handed, Head(pending))
  /\ pending' = Tail(pending)
  /\ UNCHANGED <<connected, isShutdown, errorHandler, primary, configCb, idle,
                 nerr, nops, shape, answers, stack, viaQueue, connectCalls>>

\* The status of execute is not looked at.
BadRunNextFail ==
  /\ OnTop("runScheduled") /\ Top.op = NoOp /\ pending # <<>>
  /\ MayFail
  /\ stack' = Append(Callers, Call("runScheduled", Head(pending)))
  /\ handed' = Append(handed, Head(pending))
  /\ UNCHANGED <<handle, library, nops, shape, answers, viaQueue, connectCalls>>

\* The cookie is cancelled for one key too many.
BadRunNextFailKeys ==
  /\ OnTop("runScheduled") /\ Top.op = NoOp /\ pending # <<>>
  /\ MayFail
  /\ LET o == Head(pending)
     IN /\ Cancel(o, cookie[o], shape[o], Append(AllKeys(shape[o]), NoKey),
                  Append(Callers, Call("runScheduled", o)))
        /\ handed' = Append(handed, o)
  /\ UNCHANGED <<handle, library, nops, shape, viaQueue, connectCalls>>

\* execute fails.  The queued copy of the command has lost the keys it was
\* called with, so that its getKeyList is the one key `undefined`.
RunNextFail ==
  /\ OnTop("runScheduled") /\ Top.op = NoOp /\ pending # <<>>
  /\ MayFail
  /\ LET o == Head(pending)
     IN /\ Cancel(o, cookie[o], shape[o], <<NoKey>>,
                  Append(Callers, Call("runScheduled", o)))
        /\ handed' = Append(handed, o)
  /\ UNCHANGED <<handle, library, nops, shape, viaQueue, connectCalls>>

\* A command that failed stays at the front.
BadRunPop ==
  /\ OnTop("runScheduled") /\ Top.op # NoOp /\ pending # <<>>
  /\ stack' = Append(Callers, Call("runScheduled", NoOp))
  /\ UNCHANGED <<handle, library, nops, shape, answers, viaQueue, handed,
                 connectCalls>>

\* After the cancellation the command is deleted and leaves the queue.
RunPop ==
  /\ OnTop("runScheduled") /\ Top.op # NoOp /\ pending # <<>>
  /\ pending' = Tail(pending)
  /\ stack' = Append(Callers, Call("runScheduled", NoOp))
  /\ UNCHANGED <<connected, isShutdown, errorHandler, library, nops, shape,
                 answers, viaQueue, handed, connectCalls>>

\* The queue is empty: onConfig unsets the configuration callback, but of the
\* bare instance if a callback has called shutdown.
RunDone ==
  /\ OnTop("runScheduled") /\ Top.op = NoOp /\ pending = <<>>
  /\ stack' = Callers
  /\ configCb' = (configCb /\ isShutdown)
  /\ UNCHANGED <<handle, primary, idle, inflight, nerr, nops, shape, answers,
                 viaQueue, handed, connectCalls>>

-----------------------------------------------------------------------------
(* Replies, cancellations, and the return of the application's callbacks. *)

\* The handlers of all replies but those of observe, stats and HTTP requests.
HandleReply(o, k, ok, base) ==
  /\ Progress(o, k, TRUE, ok, base)
  /\ inflight' = [inflight EXCEPT ![o] = @ \ {k}]

Updated(c, k, ok) ==
  [c EXCEPT !.hasError = c.hasError \/ ~ok, !.results = c.results \cup {k}]

\* ObserveCookie::update and StatsCookie::update for a reply that is not the
\* last one.
HandleData(o, k, ok, base) ==
  /\ cookie' = [cookie EXCEPT ![o] = Updated(cookie[o], k, ok)]
  /\ Use(o, Live(o))
  /\ Fail(o, k, ok)
  /\ inflight' = [inflight EXCEPT ![o] = @ \ {k}]
  /\ stack' = base
  /\ UNCHANGED heard

\* The last reply of a stream, and the only one of an HTTP request.  Observe
\* ignores the status of its terminator.
HandleLast(o, k, ok, base) ==
  /\ Answer(o, cookie[o],
            IF shape[o].kind = "observe" THEN cookie[o].hasError
                                         ELSE cookie[o].hasError \/ ~ok,
            ok \/ shape[o].kind = "observe", base)
  /\ inflight' = [inflight EXCEPT ![o] = @ \ {k}]

\* libcouchbase passes a reply on to couchnode's handler for its command.
\* The terminator of a stream comes last.
Deliver(o, k, ok, base) ==
  /\ k \in inflight[o]
  /\ CASE shape[o].kind = "plain" -> HandleReply(o, k, ok, base)
       [] Streams(shape[o]) /\ k # NoKey -> HandleData(o, k, ok, base)
       [] Streams(shape[o]) /\ k = NoKey -> /\ inflight[o] = {NoKey}
                                            /\ HandleLast(o, k, ok, base)
       [] shape[o].kind = "http" -> HandleLast(o, k, ok, base)
  /\ UNCHANGED <<handle, primary, configCb, idle, nerr, nops, shape, viaQueue,
                 handed, connectCalls>>

Reply(o, k, ok) ==
  /\ InLoop /\ primary = "ready"
  /\ ok \/ "reply" \in Faults
  /\ Deliver(o, k, ok, stack)

\* One turn of the loop in Cookie::cancel.
CancelKey ==
  /\ OnTop("cancel") /\ Top.keys # <<>>
  /\ Progress(Top.op, Head(Top.keys), FALSE, FALSE,
              Append(Callers, [Top EXCEPT !.keys = Tail(@)]))
  /\ UNCHANGED <<handle, library, nops, shape, viaQueue, handed, connectCalls>>

\* The loop is over, and cancel returns.
CancelDone ==
  /\ OnTop("cancel") /\ Top.keys = <<>>
  /\ stack' = Callers
  /\ UNCHANGED <<handle, library, nops, shape, answers, viaQueue, handed,
                 connectCalls>>

\* markProgress deletes the cookie one response too early.
BadReturnProgress ==
  /\ OnTop("progress")
  /\ stack' = Callers
  /\ IF cookie[Top.op].remaining <= 1 THEN Delete(Top.op) ELSE UNCHANGED cookie
  /\ UNCHANGED <<handle, library, nops, shape, heard, failed, misused, viaQueue,
                 handed, connectCalls>>

\* markProgress never deletes the cookie.
BadReturnProgressKeeps ==
  /\ OnTop("progress")
  /\ stack' = Callers
  /\ UNCHANGED <<handle, library, nops, shape, answers, viaQueue, handed,
                 connectCalls>>

\* The callback called by markProgress returns; the cookie deletes itself if
\* nothing remains.
ReturnProgress ==
  /\ OnTop("progress")
  /\ stack' = Callers
  /\ IF cookie[Top.op].remaining = 0 THEN Delete(Top.op) ELSE UNCHANGED cookie
  /\ UNCHANGED <<handle, library, nops, shape, heard, failed, misused, viaQueue,
                 handed, connectCalls>>

\* The callback that got the last answer returns; the cookie deletes itself.
ReturnFinal ==
  /\ OnTop("final")
  /\ stack' = Callers
  /\ Delete(Top.op)
  /\ UNCHANGED <<handle, library, nops, shape, heard, failed, misused, viaQueue,
                 handed, connectCalls>>

\* The callback of bailOut or the handler of "error" returns.
ReturnOther ==
  /\ OnTop("bailOut") \/ OnTop("errorEvent")
  /\ stack' = Callers
  /\ UNCHANGED <<handle, library, nops, shape, answers, viaQueue, handed,
                 connectCalls>>

-----------------------------------------------------------------------------
(* Shutting down. *)

\* CouchbaseImpl::shutdown: the handle gets a bare instance, and an idle
\* handle will destroy the old one from the event loop.
Shutdown ==
  /\ "shutdown" \in Faults
  /\ InApp /\ primary # "created" /\ ~isShutdown
  /\ isShutdown' = TRUE
  /\ idle' = TRUE
  /\ UNCHANGED <<connected, errorHandler, pending, primary, configCb, inflight,
                 nerr, nops, shape, answers, stack, viaQueue, handed, connectCalls>>

\* libuv_shutdown_cb calls lcb_destroy, ...
IdleRuns ==
  /\ InLoop /\ idle
  /\ idle' = FALSE
  /\ primary' = "destroyed"
  /\ stack' = Append(stack, Call("destroy", NoOp))
  /\ UNCHANGED <<handle, configCb, inflight, nerr, nops, shape, answers, viaQueue,
                 handed, connectCalls>>

\* ... which fails the commands in flight ...
DestroyNext(o, k) ==
  /\ OnTop("destroy") /\ DestroyPurges
  /\ Deliver(o, k, FALSE, stack)

\* ... or forgets them.
DestroyDone ==
  /\ OnTop("destroy")
  /\ DestroyPurges => \A o \in Ops : inflight[o] = {}
  /\ inflight' = [o \in Ops |-> {}]
  /\ stack' = Callers
  /\ UNCHANGED <<handle, primary, configCb, idle, nerr, nops, shape, answers,
                 viaQueue, handed, connectCalls>>

-----------------------------------------------------------------------------

Init ==
  /\ connected = FALSE /\ isShutdown = FALSE /\ errorHandler = FALSE
  /\ pending = <<>>
  /\ primary = "created" /\ configCb = TRUE /\ idle = FALSE
  /\ inflight = [o \in Ops |-> {}]
  /\ nerr = 0 /\ nops = 0
  /\ shape = [o \in Ops |-> CHOOSE s \in Shapes : TRUE]
  /\ cookie = [o \in Ops |-> NoCookie]
  /\ stack = <<>>
  /\ heard = [o \in Ops |-> [calls |-> 0, keys |-> {}, err |-> FALSE]]
  /\ failed = [o \in Ops |-> {}]
  /\ viaQueue = {} /\ handed = <<>> /\ connectCalls = 0 /\ misused = {}

\* What the application does of its own accord, and what it need never do.
Application ==
  \/ On \/ Shutdown
  \/ \E o \in Ops, s \in Shapes :
       Bail(o, s) \/ Enqueue(o, s) \/ Schedule(o, s) \/ ScheduleFail(o, s)

\* Native code that has called out goes on when the callback returns, and
\* callbacks do return.
NativeSteps ==
  \/ ReturnConnect \/ ReturnConnectError \/ ReturnProgress \/ ReturnFinal
  \/ ReturnOther
  \/ RunNext \/ RunNextFail \/ RunPop \/ RunDone
  \/ CancelKey \/ CancelDone \/ DestroyDone
  \/ \E o \in Ops : \E k \in inflight[o] : DestroyNext(o, k)

Replies == \E o \in Ops : \E k \in inflight[o], ok \in BOOLEAN : Reply(o, k, ok)

Next ==
  \/ Application \/ NativeSteps \/ Replies
  \/ Connect \/ ConfigArrives \/ ErrorArrives \/ IdleRuns

\* The event loop goes on: callbacks return, libcouchbase answers what it has
\* scheduled and ends its attempt to connect one way or the other, and an
\* active idle handle runs.  Nothing obliges the application.
Fairness ==
  /\ WF_vars(NativeSteps) /\ WF_vars(Replies) /\ WF_vars(Connect)
  /\ WF_vars(ConfigArrives \/ (ErrorArrives /\ primary = "connecting"))
  /\ WF_vars(IdleRuns)

Spec == Init /\ [][Next]_vars /\ Fairness

-----------------------------------------------------------------------------
(* Properties. *)

CookieRec == [st: {"none", "live", "deleted"}, remaining: Int,
              isCancelled: BOOLEAN, hasError: BOOLEAN, results: SUBSET Nat]
HeardRec == [calls: Nat, keys: SUBSET Nat, err: BOOLEAN]

\* The type of every variable.
TypeOK ==
  /\ connected \in BOOLEAN /\ isShutdown \in BOOLEAN /\ errorHandler \in BOOLEAN
  /\ pending \in Seq(Ops)
  /\ primary \in {"created", "connecting", "ready", "failed", "destroyed"}
  /\ configCb \in BOOLEAN /\ idle \in BOOLEAN
  /\ inflight \in [Ops -> SUBSET Nat]
  /\ nerr \in Nat /\ nops \in 0..MaxOps
  /\ shape \in [Ops -> Shapes]
  /\ cookie \in [Ops -> CookieRec]
  /\ stack \in Seq(Frame)
  /\ heard \in [Ops -> HeardRec]
  /\ failed \in [Ops -> SUBSET Nat]
  /\ viaQueue \subseteq Ops /\ handed \in Seq(Ops)
  /\ connectCalls \in Nat /\ misused \subseteq Ops

InQueue(o) == \E i \in DOMAIN pending : pending[i] = o
Running(o) == \E i \in DOMAIN stack : stack[i].fn = "runScheduled" /\ stack[i].op = o
InFrame(o) == \E i \in DOMAIN stack :
                 stack[i].op = o /\ stack[i].fn \in CookieFrames

\* No function of a Cookie (markProgress, cancel, update, invoke) runs on one
\* that has deleted itself, whatever callbacks do in between.
NoUseAfterDelete == misused = {}

\* Whatever still holds a pointer to a Cookie (a command in the queue or one
\* libcouchbase has scheduled, a function of the cookie on the stack) finds
\* it alive when it comes to use it.
CookieOutlivesUse ==
  /\ \A o \in Ops : (InQueue(o) /\ ~Running(o)) \/ inflight[o] # {} => Live(o)
  /\ \A i \in DOMAIN stack :
       /\ stack[i].fn \in {"progress", "final"} => Live(stack[i].op)
       /\ stack[i].fn = "cancel" /\ stack[i].keys # <<>> => Live(stack[i].op)

\* The three ways to lose an operation for good.  It stays in the queue that
\* nothing will run again: the handle "connected" with an error, or its
\* instance gave up or was destroyed before it was connected.
Stranded(o) ==
  /\ InQueue(o)
  /\ connected \/ primary \in {"failed", "destroyed"}
  /\ \A i \in DOMAIN stack : stack[i].fn \notin {"connectCb", "runScheduled"}

\* It had several keys, was refused when the queue ran, and was cancelled for
\* one key only.
CutShort(o) ==
  /\ Live(o) /\ cookie[o].isCancelled /\ o \in viaQueue
  /\ shape[o].nkeys > 1 /\ ~InFrame(o)

\* It was in flight when an instance that forgets its commands was destroyed.
\* (An operation started after that is refused: its Cookie is cancelled, or its
\* last answer is on the stack.)
Forgotten(o) ==
  /\ primary = "destroyed" /\ ~DestroyPurges
  /\ Live(o) /\ inflight[o] = {} /\ ~cookie[o].isCancelled
  /\ ~InQueue(o) /\ ~InFrame(o)

Lost(o) == Stranded(o) \/ CutShort(o) \/ Forgotten(o)

\* A Cookie that is alive will still be heard of: it is in the queue, in
\* flight or on the stack.  Only the last two ways of losing an operation
\* leak its Cookie.
NoLeakedCookie ==
  \A o \in Ops : Live(o) => \/ InQueue(o) \/ inflight[o] # {} \/ InFrame(o)
                            \/ CutShort(o) \/ Forgotten(o)

\* When a Cookie is deleted its callback has had the whole answer: once for
\* all keys, or once per key, and about every key, except that the one key of
\* a queued operation that was refused is called `undefined`.
WholeAnswer ==
  \A o \in Ops : cookie[o].st = "deleted" =>
    LET s == shape[o]
        stopped == failed[o] = {NoKey}
        perKey == s.mode = "single" /\ (s.kind = "plain" \/ cookie[o].isCancelled)
    IN /\ heard[o].calls = IF perKey THEN s.nkeys ELSE 1
       /\ CASE s.kind = "http" -> heard[o].keys = {}
            [] s.kind = "stats" -> heard[o].keys = 1..s.nkeys \/ NoKey \in failed[o]
            [] OTHER -> \/ heard[o].keys = 1..s.nkeys
                        \/ /\ heard[o].keys = {NoKey} /\ stopped
                           /\ o \in viaQueue /\ s.nkeys = 1

\* The callback of an operation that has ended was given an error if and only
\* if one of its keys failed (couchbase.js says so of MultiCallback).
ErrorIffFailure ==
  \A o \in Ops : cookie[o].st = "deleted" => (heard[o].err <=> failed[o] # {})

\* Operations reach libcouchbase in the order they were started, with one
\* exception: what a callback starts while onConfig runs the queue overtakes
\* the operations still in it.
HandedInOrder ==
  \A i, j \in DOMAIN handed :
    i < j => \/ handed[i] < handed[j]
             \/ handed[i] \notin viaQueue /\ handed[j] \in viaQueue

\* The connect handler is called once at most, and before any operation is
\* executed.
ConnectOnce == connectCalls <= 1 /\ (handed # <<>> => connectCalls = 1)

\* Once an operation has ended nothing more is heard of it.
EndIsFinal ==
  [][\A o \in Ops : cookie[o].st = "deleted" =>
       cookie'[o] = cookie[o] /\ heard'[o] = heard[o]]_vars

\* After shutdown no operation reaches the cluster any more, not even one that
\* was queued before or is started while the old instance still lives.
NothingAfterShutdown ==
  [][isShutdown => \A o \in Ops : inflight'[o] \subseteq inflight[o]]_vars

\* An operation that is lost stays lost.
LostForGood == [][\A o \in Ops : Lost(o) => Lost(o)']_vars

\* Every operation ends or is lost in one of the three ways.
Ended(o) == cookie[o].st = "deleted" \/ (cookie[o].st = "none" /\ heard[o].calls = 1)
EveryOpEnds == \A o \in Ops : (nops >= o) ~> (Ended(o) \/ Lost(o))

\* couchbase.js:731-733 says of MultiCallback that all keys of the operation
\* have their results in the dictionary it is given.
ResultsHaveAllKeys ==
  \A o \in Ops :
    (shape[o].kind = "plain" /\ shape[o].mode = "spooled" /\ heard[o].calls > 0
       /\ cookie[o].st # "none") => heard[o].keys = 1..shape[o].nkeys

\* couchbase.js:45-47: operations are queued until the connection is ready or
\* an unrecoverable error has taken place.
QueueEndsWithConnection == connected ~> pending = <<>>
=============================================================================
