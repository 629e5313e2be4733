------------------------------ MODULE Handles ------------------------------
(***************************************************************************)
(* The life of one connection: the constructor of Connection in            *)
(* couchbase.js, the CouchbaseImpl it wraps, the libcouchbase instances    *)
(* behind that, and the garbage collector that ends it.                    *)
(*                                                                         *)
(* V8 deletes a CouchbaseImpl when nothing refers to its JavaScript object *)
(* any more.  What counts is the application's own reference, the parent   *)
(* of every Cookie, and handlers that refer to the connection.  The        *)
(* cookie of an instance is a plain pointer to its CouchbaseImpl and does  *)
(* not count.                                                              *)
(*                                                                         *)
(* Couchnode has the callbacks, keys and answers of operations; here an    *)
(* operation is what its Cookie keeps alive.                               *)
(***************************************************************************)
EXTENDS Integers, Sequences, FiniteSets

CONSTANTS
  Ops,        \* the operations the application may start
  Callbacks,  \* the callbacks it may give the constructor
  Faults,     \* what may go wrong in this instance
  MaxErrors   \* bound: how many errors libcouchbase reports on its own

\* A callback refers to the connection, or does not, or it is the one the
\* constructor makes if there is none, which throws; or it is no function.
AllCallbacks == {"captures", "plain", "default", "notFunction"}
AllFaults == {"options", "new", "create", "connect", "error", "bare", "refuse"}

ASSUME HandlesAssumption ==
  /\ Callbacks \subseteq AllCallbacks /\ Faults \subseteq AllFaults
  /\ MaxErrors \in Nat

VARIABLES
  alive,       \* does the process still run, in a state that is defined?
  ctor,        \* where the constructor is
  callback,    \* the callback it was given
  held,        \* does the application refer to the Connection?
  handle,      \* the CouchbaseImpl
  wraps,       \* CouchbaseImpl::instance
  inst,        \* what has become of the instances
  idle,        \* those that libuv_shutdown_cb will destroy
  connected,   \* CouchbaseImpl::connected
  isShutdown,  \* CouchbaseImpl::isShutdown
  events,      \* CouchbaseImpl::events
  op,          \* the operations
  nerr,        \* how many errors libcouchbase has reported
  stack,       \* the functions that wait for a callback of the application
  told,        \* history: how often the application was told how connecting went
  misuse       \* history: what was used that must not be

object == <<handle, wraps, connected, isShutdown, events>>
vars == <<alive, ctor, callback, held, object, inst, idle, op, nerr, stack, told, misuse>>

\* "wild" is what New finds in `instance` if lcb_create has not set it;
\* "first" is the instance New created, "bare" the one of shutdown.
Instances == {"first", "bare"}

Frame(fn, cb) == [fn |-> fn, cb |-> cb]
Top == stack[Len(stack)]
OnTop(fn) == stack # <<>> /\ Top.fn = fn
Callers == SubSeq(stack, 1, Len(stack) - 1)

Constructing == ctor \in {"idle", "new", "on", "connect"}
InApp == alive /\ ~Constructing
InLoop == InApp /\ stack = <<>>

\* Ends the model: from here on anything might happen.
Undefined(what) == misuse' = misuse \cup {what} /\ alive' = FALSE

\* The application can get at the connection.
Access == InApp /\ ctor = "done" /\ (held \/ (stack # <<>> /\ Top.cb = "captures"))

OpAlive(o) == op[o] \in {"queued", "inflight", "leaked"}

\* The parent of no Cookie was set.
BadReachable ==
  \/ held
  \/ \E e \in DOMAIN events : events[e] = "captures"
  \/ \E i \in DOMAIN stack : stack[i].cb = "captures"

\* What keeps the garbage collector from the handle.
Reachable ==
  \/ held
  \/ \E o \in Ops : OpAlive(o)
  \/ \E e \in DOMAIN events : events[e] = "captures"
  \/ \E i \in DOMAIN stack : stack[i].cb = "captures"

-----------------------------------------------------------------------------
(* The constructor. *)

CallsBack == told' = IF callback = "notFunction" THEN told ELSE told + 1

\* callback(new Error(...)) for options that are wrong, and it ends there.
RefuseOptions ==
  /\ alive /\ ctor = "idle" /\ "options" \in Faults
  /\ CallsBack
  /\ ctor' = IF callback = "plain" \/ callback = "captures" THEN "refused" ELSE "threw"
  /\ UNCHANGED <<alive, callback, held, object, inst, idle, op, nerr, stack, misuse>>

Construct ==
  /\ alive /\ ctor = "idle"
  /\ ctor' = "new"
  /\ UNCHANGED <<alive, callback, held, object, inst, idle, op, nerr, stack, told, misuse>>

\* New throws before it has created anything.  The constructor passes the
\* exception to the callback and goes on with a `_cb` that is undefined, which
\* throws.
NewThrows ==
  /\ alive /\ ctor = "new" /\ "new" \in Faults
  /\ CallsBack
  /\ ctor' = "threw"
  /\ UNCHANGED <<alive, callback, held, object, inst, idle, op, nerr, stack, misuse>>

\* lcb_create fails.  New throws, and makes a handle of an instance that was
\* not set, which the constructor of CouchbaseImpl already uses.
CreateFails ==
  /\ alive /\ ctor = "new" /\ "create" \in Faults
  /\ misuse' = misuse \cup {"wild"}
  /\ \/ alive' = FALSE /\ UNCHANGED <<handle, wraps, told, ctor>>
     \/ /\ handle' = "live" /\ wraps' = "wild"
        /\ CallsBack
        /\ ctor' = "threw"
        /\ UNCHANGED alive
  /\ UNCHANGED <<callback, held, connected, isShutdown, events, inst, idle, op, nerr, stack>>

New ==
  /\ alive /\ ctor = "new"
  /\ handle' = "live" /\ wraps' = "first"
  /\ inst' = [inst EXCEPT !.first = "created"]
  /\ held' = TRUE
  /\ ctor' = "on"
  /\ UNCHANGED <<alive, callback, connected, isShutdown, events, idle, op, nerr, stack, told,
                 misuse>>

\* this._cb.on('connect', callback), which throws if that is not a function.
OnConnect ==
  /\ alive /\ ctor = "on"
  /\ IF callback = "notFunction"
       THEN ctor' = "threw" /\ held' = FALSE /\ UNCHANGED events
       ELSE ctor' = "connect" /\ events' = [events EXCEPT !.connect = callback] /\ UNCHANGED held
  /\ UNCHANGED <<alive, callback, handle, wraps, connected, isShutdown, inst, idle, op, nerr,
                 stack, told, misuse>>

\* this._cb._connect(), whose exception the callback gets.
Connect ==
  /\ alive /\ ctor = "connect"
  /\ \/ /\ inst' = [inst EXCEPT !.first = "connecting"]
        /\ ctor' = "done"
        /\ UNCHANGED <<held, told>>
     \/ /\ "connect" \in Faults
        /\ inst' = [inst EXCEPT !.first = "failed"]
        /\ CallsBack
        /\ held' = (callback # "default")
        /\ ctor' = IF callback = "default" THEN "threw" ELSE "done"
  /\ UNCHANGED <<alive, callback, object, idle, op, nerr, stack, misuse>>

-----------------------------------------------------------------------------
(* The application, and the garbage collector. *)

\* CouchbaseImpl::on.  The handler there was is disposed of.
On(event, cb) ==
  /\ Access
  /\ events' = [events EXCEPT ![event] = cb]
  /\ UNCHANGED <<alive, ctor, callback, held, handle, wraps, connected, isShutdown, inst, idle,
                 op, nerr, stack, told, misuse>>

\* The application forgets the connection.
Drop ==
  /\ InApp /\ held
  /\ held' = FALSE
  /\ UNCHANGED <<alive, ctor, callback, object, inst, idle, op, nerr, stack, told, misuse>>

\* makeOperation.  Its Cookie gets the handle as its parent.  An operation that
\* is refused on a connected handle is over when makeOperation returns.
Start(o) ==
  /\ Access /\ op[o] = "none"
  /\ IF ~connected
       THEN op' = [op EXCEPT ![o] = "queued"] /\ UNCHANGED <<alive, misuse>>
       ELSE IF inst[wraps] = "destroyed"
         THEN Undefined("dangling") /\ UNCHANGED op
         ELSE /\ \/ /\ wraps = "first" /\ inst.first = "ready"
                    /\ op' = [op EXCEPT ![o] = "inflight"]
                 \/ /\ wraps = "bare" \/ inst.first # "ready" \/ "refuse" \in Faults
                    /\ op' = [op EXCEPT ![o] = "done"]
              /\ UNCHANGED <<alive, misuse>>
  /\ UNCHANGED <<ctor, callback, held, object, inst, idle, nerr, stack, told>>

\* The idle handle gets the new instance.
BadShutdown ==
  /\ Access /\ ~isShutdown
  /\ isShutdown' = TRUE
  /\ idle' = idle \cup {"bare"}
  /\ wraps' = "bare" /\ inst' = [inst EXCEPT !.bare = "created"]
  /\ UNCHANGED <<alive, ctor, callback, held, handle, connected, events, op, nerr, stack, told,
                 misuse>>

\* CouchbaseImpl::shutdown.  It does not look whether lcb_create has failed,
\* and left the handle the instance that is going to be destroyed.
Shutdown ==
  /\ Access /\ ~isShutdown
  /\ isShutdown' = TRUE
  /\ idle' = idle \cup {wraps}
  /\ \/ wraps' = "bare" /\ inst' = [inst EXCEPT !.bare = "created"]
     \/ "bare" \in Faults /\ UNCHANGED <<wraps, inst>>
  /\ UNCHANGED <<alive, ctor, callback, held, handle, connected, events, op, nerr, stack, told,
                 misuse>>

\* The destructor does not destroy the instance.
BadCollect ==
  /\ InApp /\ handle = "live" /\ ~Reachable
  /\ handle' = "deleted"
  /\ events' = [e \in DOMAIN events |-> "none"]
  /\ UNCHANGED <<alive, ctor, callback, held, wraps, connected, isShutdown, inst, idle, op, nerr,
                 stack, told, misuse>>

\* The garbage collector finds the handle, and ~CouchbaseImpl destroys its
\* instance: perhaps one that does not exist, or no longer, or one that is in
\* the middle of a callback.
Collect ==
  /\ InApp /\ handle = "live" /\ ~Reachable
  /\ handle' = "deleted"
  /\ events' = [e \in DOMAIN events |-> "none"]
  /\ IF wraps = "wild" THEN Undefined("wild") /\ UNCHANGED inst
     ELSE IF inst[wraps] = "destroyed" THEN Undefined("twice") /\ UNCHANGED inst
     ELSE /\ inst' = [inst EXCEPT ![wraps] = "destroyed"]
          /\ misuse' = IF wraps = "first" /\ stack # <<>> THEN misuse \cup {"reentered"}
                                                           ELSE misuse
          /\ UNCHANGED alive
  /\ UNCHANGED <<ctor, callback, held, wraps, connected, isShutdown, idle, op, nerr, stack, told>>

-----------------------------------------------------------------------------
(* What libcouchbase and libuv do.  Only the first instance has callbacks,   *)
(* and its cookie is the handle, deleted or not.                             *)

\* onConnect: the handler of "connect" is called.
TellConnected(fn, base) ==
  /\ connected' = TRUE
  /\ stack' = Append(base, Frame(fn, events.connect))
  /\ told' = told + 1

\* onConfig does not look whether the handle is connected.
BadConfigArrives ==
  /\ InLoop /\ inst.first = "connecting"
  /\ inst' = [inst EXCEPT !.first = "ready"]
  /\ IF handle = "deleted"
       THEN Undefined("stale") /\ UNCHANGED <<connected, stack, told>>
       ELSE TellConnected("onConfig", stack) /\ UNCHANGED <<alive, misuse>>
  /\ UNCHANGED <<ctor, callback, held, handle, wraps, isShutdown, events, idle, op, nerr>>

\* configuration_callback, and onConfig until it calls the handler.
ConfigArrives ==
  /\ InLoop /\ inst.first = "connecting"
  /\ inst' = [inst EXCEPT !.first = "ready"]
  /\ IF handle = "deleted"
       THEN Undefined("stale") /\ UNCHANGED <<connected, stack, told>>
       ELSE /\ IF connected THEN UNCHANGED <<connected, stack, told>>
                            ELSE TellConnected("onConfig", stack)
            /\ UNCHANGED <<alive, misuse>>
  /\ UNCHANGED <<ctor, callback, held, handle, wraps, isShutdown, events, idle, op, nerr>>

\* What becomes of the queue: libcouchbase takes a command, or refuses it and
\* its Cookie is cancelled, for all of its keys or only for some.  The Cookies
\* still in the queue keep the handle while it runs.
RunScheduled(after) ==
  \A o \in Ops :
    IF op[o] # "queued" THEN after[o] = op[o]
    ELSE \/ wraps = "first" /\ after[o] = "inflight"
         \/ (wraps = "bare" \/ "refuse" \in Faults) /\ after[o] \in {"done", "leaked"}

\* The handler returns to onConfig.
ReturnConfig ==
  /\ alive /\ OnTop("onConfig")
  /\ IF handle = "deleted"
       THEN Undefined("stale") /\ UNCHANGED <<op, stack>>
       ELSE /\ \E after \in [Ops -> {"none", "queued", "inflight", "leaked", "done"}] :
                 RunScheduled(after) /\ op' = after
            /\ stack' = Callers
            /\ UNCHANGED <<alive, misuse>>
  /\ UNCHANGED <<ctor, callback, held, object, inst, idle, nerr, told>>

\* It does not look whether there is a handler.
BadTellError(base) == stack' = Append(base, Frame("errorEvent", events.error))

\* errorCallback's second half.
TellError(base) ==
  stack' = IF events.error = "none" THEN base ELSE Append(base, Frame("errorEvent", events.error))

\* An error while it connects is not reported as the end of connecting.
BadErrorArrives ==
  /\ InLoop /\ "error" \in Faults /\ nerr < MaxErrors
  /\ inst.first \in {"connecting", "ready"}
  /\ nerr' = nerr + 1
  /\ \/ UNCHANGED inst
     \/ inst.first = "connecting" /\ inst' = [inst EXCEPT !.first = "failed"]
  /\ IF handle = "deleted"
       THEN Undefined("stale") /\ UNCHANGED <<connected, stack, told>>
       ELSE TellError(stack) /\ UNCHANGED <<connected, told, alive, misuse>>
  /\ UNCHANGED <<ctor, callback, held, handle, wraps, isShutdown, events, idle, op>>

\* error_callback, and errorCallback until it calls a handler.  The callback
\* that the constructor makes throws when it is told of an error, and nobody
\* catches that.
ErrorArrives ==
  /\ InLoop /\ "error" \in Faults /\ nerr < MaxErrors
  /\ inst.first \in {"connecting", "ready"}
  /\ nerr' = nerr + 1
  /\ \/ UNCHANGED inst
     \/ inst.first = "connecting" /\ inst' = [inst EXCEPT !.first = "failed"]
  /\ IF handle = "deleted"
       THEN Undefined("stale") /\ UNCHANGED <<connected, stack, told>>
       ELSE IF connected
         THEN TellError(stack) /\ UNCHANGED <<connected, told, alive, misuse>>
         ELSE /\ TellConnected("errorCallback", stack)
              /\ alive' = (events.connect # "default")
              /\ UNCHANGED misuse
  /\ UNCHANGED <<ctor, callback, held, handle, wraps, isShutdown, events, idle, op>>

\* The handler of "connect" returns to errorCallback.
ReturnConnectError ==
  /\ alive /\ OnTop("errorCallback")
  /\ IF handle = "deleted"
       THEN Undefined("stale") /\ UNCHANGED stack
       ELSE TellError(Callers) /\ UNCHANGED <<alive, misuse>>
  /\ UNCHANGED <<ctor, callback, held, object, inst, idle, op, nerr, told>>

\* The handler of "error" returns.
ReturnError ==
  /\ alive /\ OnTop("errorEvent")
  /\ stack' = Callers
  /\ UNCHANGED <<alive, ctor, callback, held, object, inst, idle, op, nerr, told, misuse>>

\* The answer to an operation, which ends its Cookie.
Reply(o) ==
  /\ InLoop /\ op[o] = "inflight" /\ inst.first = "ready"
  /\ op' = [op EXCEPT ![o] = "done"]
  /\ UNCHANGED <<alive, ctor, callback, held, object, inst, idle, nerr, stack, told, misuse>>

\* libuv_shutdown_cb.  lcb_destroy answers what is in flight, or forgets it.
IdleRuns ==
  /\ InLoop
  /\ \E i \in idle :
       /\ idle' = idle \ {i}
       /\ IF inst[i] = "destroyed"
            THEN Undefined("twice") /\ UNCHANGED <<inst, op>>
            ELSE /\ inst' = [inst EXCEPT ![i] = "destroyed"]
                 /\ \E purged \in {"done", "leaked"} :
                      op' = [o \in Ops |-> IF op[o] = "inflight" THEN purged ELSE op[o]]
                 /\ UNCHANGED <<alive, misuse>>
  /\ UNCHANGED <<ctor, callback, held, object, nerr, stack, told>>

-----------------------------------------------------------------------------

Init ==
  /\ alive = TRUE /\ ctor = "idle" /\ callback \in Callbacks /\ held = FALSE
  /\ handle = "none" /\ wraps = "none"
  /\ inst = [i \in Instances |-> "none"] /\ idle = {}
  /\ connected = FALSE /\ isShutdown = FALSE
  /\ events = [connect |-> "none", error |-> "none"]
  /\ op = [o \in Ops |-> "none"] /\ nerr = 0 /\ stack = <<>>
  /\ told = 0 /\ misuse = {}

Constructor ==
  \/ RefuseOptions \/ Construct \/ NewThrows \/ CreateFails \/ New \/ OnConnect \/ Connect

Application ==
  \/ Drop \/ Shutdown
  \/ \E event \in {"connect", "error"}, cb \in {"captures", "plain"} : On(event, cb)
  \/ \E o \in Ops : Start(o)

Returns == ReturnConfig \/ ReturnConnectError \/ ReturnError

Next ==
  \/ Constructor \/ Application \/ Collect \/ Returns
  \/ ConfigArrives \/ ErrorArrives \/ IdleRuns
  \/ \E o \in Ops : Reply(o)

\* The constructor and the callbacks go on, libcouchbase ends its attempt to
\* connect, and an active idle handle runs.  Nothing obliges the garbage
\* collector.
Spec ==
  /\ Init /\ [][Next]_vars
  /\ WF_vars(Constructor) /\ WF_vars(Returns) /\ WF_vars(IdleRuns)
  /\ WF_vars(ConfigArrives \/ (ErrorArrives /\ inst.first = "connecting"))

-----------------------------------------------------------------------------
(* Properties. *)

\* The type of every variable.
TypeOK ==
  /\ alive \in BOOLEAN /\ held \in BOOLEAN /\ connected \in BOOLEAN /\ isShutdown \in BOOLEAN
  /\ ctor \in {"idle", "new", "on", "connect", "done", "refused", "threw"}
  /\ callback \in Callbacks
  /\ handle \in {"none", "live", "deleted"}
  /\ wraps \in {"none", "wild"} \cup Instances
  /\ inst \in [Instances -> {"none", "created", "connecting", "ready", "failed", "destroyed"}]
  /\ idle \subseteq Instances
  /\ events \in [{"connect", "error"} -> AllCallbacks \cup {"none"}]
  /\ op \in [Ops -> {"none", "queued", "inflight", "leaked", "done"}]
  /\ nerr \in 0..MaxErrors /\ told \in Nat
  /\ \A i \in DOMAIN stack : stack[i].cb \in {"captures", "plain", "default"}
  /\ misuse \subseteq {"wild", "stale", "twice", "dangling", "reentered"}

\* The handle outlives its operations, whoever else has forgotten it: what is
\* in the queue has a handle to run it, and what is in flight an instance to
\* answer it.
OpsKeepHandle ==
  alive => \A o \in Ops :
             /\ OpAlive(o) => handle = "live"
             /\ op[o] = "inflight" => inst.first = "ready"

\* Every instance is destroyed in the end, once, and none that a handle still
\* has, unless shutdown could not create the bare one.
BareFailed == isShutdown /\ wraps = "first"
InstancesFreed ==
  alive =>
    /\ handle = "deleted" => \A i \in Instances : inst[i] \in {"none", "destroyed"} \/ i \in idle
    /\ handle = "live" /\ wraps \in Instances /\ ~BareFailed => /\ inst[wraps] # "destroyed"
                                                               /\ wraps \notin idle

\* Nothing is used after its end or before its beginning, but in these cases:
\* an instance that could not be created is wrapped (couchbase_impl.cc:228);
\* the handle is collected while a handler runs that was called by it; it is
\* collected after shutdown, and its old instance calls it once more before
\* it is destroyed; and shutdown could not create the bare instance.
MisuseHasCause ==
  /\ "wild" \in misuse => "create" \in Faults /\ inst.first = "none"
  /\ "reentered" \in misuse => /\ handle = "deleted" /\ (isShutdown => BareFailed)
                                /\ \A o \in Ops : ~OpAlive(o)
  /\ "stale" \in misuse => handle = "deleted" /\ (isShutdown \/ "reentered" \in misuse)
  /\ misuse \cap {"twice", "dangling"} # {} => BareFailed

\* The callback given to the constructor, or the handler set instead of it, is
\* called once at most, whichever of the constructor, the configuration and an
\* error comes to call it.
ToldOnce == told <= 1

\* It is called in the end, or the constructor threw, unless the handle was
\* collected first, which the application does not notice, or shut down.
CallbackCalled ==
  (ctor # "idle") ~>
    told = 1 \/ ctor = "threw" \/ ~alive \/ handle = "deleted" \/ isShutdown
=============================================================================
