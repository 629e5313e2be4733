--------------------------- MODULE HandlesProofs ---------------------------
(***************************************************************************)
(* Theorems about Handles: for any operations, callbacks, faults and       *)
(* number of errors.  HandleInv is inductive; each action has a lemma that *)
(* first says what the action does to each part of the state, and then     *)
(* that HandleInv follows of what it has become.                           *)
(***************************************************************************)
EXTENDS Handles, TLAPS

Handlers == {"captures", "plain", "default"}

\* Callbacks are called from the event loop only, one at a time.
Stacks ==
  {<<>>} \cup {<<Frame(fn, cb)>> : fn \in {"onConfig", "errorCallback", "errorEvent"},
                                   cb \in Handlers}

\* Before there is a handle nothing has happened.
Unborn ==
  /\ ctor \in {"idle", "new", "refused"} => handle = "none"
  /\ ctor \in {"idle", "new"} => told = 0
  /\ handle = "none" =>
       /\ inst.first = "none" /\ stack = <<>> /\ idle = {}
       /\ ~held /\ ~connected /\ ~isShutdown
       /\ \A e \in DOMAIN events : events[e] = "none"
       /\ \A o \in Ops : op[o] = "none"
  /\ handle = "none" <=> wraps = "none"

\* While the constructor runs nobody else does.
Fresh ==
  ctor \in {"on", "connect"} =>
    /\ handle = "live" /\ wraps = "first" /\ inst.first = "created" /\ told = 0
    /\ stack = <<>> /\ idle = {} /\ held /\ ~connected /\ ~isShutdown
    /\ ctor = "connect" => events.connect \in Handlers

\* An instance that was not set is never used but by the destructor.
Wild ==
  wraps = "wild" =>
    /\ "create" \in Faults /\ inst.first = "none" /\ ctor = "threw"
    /\ stack = <<>> /\ idle = {} /\ ~held /\ ~isShutdown
    /\ \A e \in DOMAIN events : events[e] = "none"
    /\ \A o \in Ops : op[o] = "none"

\* What refers to the handle keeps it.
Kept ==
  /\ held => handle = "live"
  /\ (\E e \in DOMAIN events : events[e] = "captures") => handle = "live"
  /\ (\E i \in DOMAIN stack : stack[i].cb = "captures") => handle = "live"
  /\ \A o \in Ops : OpAlive(o) => handle = "live"
  /\ \A o \in Ops : op[o] = "inflight" => inst.first = "ready"

\* The end of connecting is told once, and when the instance can report it
\* there is a handler.
Told ==
  /\ told \in {0, 1}
  /\ inst.first \in {"connecting", "ready"} =>
       /\ ctor = "done"
       /\ ~connected => told = 0
       /\ handle = "live" => events.connect \in Handlers
  /\ inst.first = "failed" => ctor \in {"done", "threw"}
  /\ OnTop("onConfig") /\ handle = "live" => inst.first = "ready"

\* Which instance is whose.
Owners ==
  /\ wraps = "bare" => isShutdown
  /\ wraps = "bare" <=> inst.bare # "none"
  /\ inst.bare \in {"none", "created", "destroyed"}
  /\ isShutdown => inst.first = "destroyed" \/ "first" \in idle
  /\ idle # {} => isShutdown /\ idle = {"first"}
  /\ inst.first = "destroyed" => wraps = "bare" \/ handle = "deleted" \/ BareFailed
  /\ "first" \in idle /\ inst.first = "destroyed" => BareFailed
  /\ inst.bare = "destroyed" => handle = "deleted"
  /\ handle = "deleted" /\ wraps \in Instances => inst[wraps] = "destroyed"

\* What else explains a misuse.
Causes ==
  /\ alive /\ "wild" \in misuse => wraps = "wild"
  /\ handle = "deleted" =>
       ~alive \/ isShutdown \/ "reentered" \in misuse \/ (inst.first = "destroyed" /\ stack = <<>>)

HandleInv ==
  /\ TypeOK /\ stack \in Stacks /\ events.error \in {"none", "captures", "plain"}
  /\ Unborn /\ Fresh /\ Wild /\ Kept /\ Told /\ Owners /\ Causes
  /\ MisuseHasCause /\ InstancesFreed

Kinds == {"wild", "stale", "twice", "dangling", "reentered"}
InstStates == {"none", "created", "connecting", "ready", "failed", "destroyed"}
OpStates == {"none", "queued", "inflight", "leaked", "done"}

-----------------------------------------------------------------------------
(* What a step does to a variable that has a structure. *)

\* A stack of one frame.
LEMMA OneFrame ==
  ASSUME NEW fn, NEW cb, NEW s, s = <<Frame(fn, cb)>>
  PROVE  /\ s # <<>> /\ DOMAIN s = {1} /\ Len(s) = 1 /\ s[1] = Frame(fn, cb)
         /\ s[1].fn = fn /\ s[1].cb = cb /\ SubSeq(s, 1, 0) = <<>>
BY DEF Frame

\* The function on top of a stack is the only one on it, and returning empties
\* the stack.
LEMMA OnTopAlone ==
  ASSUME stack \in Stacks, NEW fn, OnTop(fn)
  PROVE  \E cb \in Handlers : stack = <<Frame(fn, cb)>> /\ Callers = <<>>
<1>1. PICK f \in {"onConfig", "errorCallback", "errorEvent"}, cb \in Handlers :
        stack = <<Frame(f, cb)>>
  BY DEF Stacks, OnTop
<1>2. f = fn /\ Callers = <<>>
  BY <1>1, OneFrame DEF OnTop, Top, Callers
<1> QED BY <1>1, <1>2

\* A misuse is added to those before it.
LEMMA Blame ==
  ASSUME TypeOK, NEW w \in Kinds, misuse' = misuse \cup {w}
  PROVE  misuse' \subseteq Kinds /\ \A x : x \in misuse' <=> x \in misuse \/ x = w
BY DEF TypeOK, Kinds

\* The first instance changes its state, and the bare one does not.
LEMMA FirstBecomes ==
  ASSUME TypeOK, NEW s \in InstStates, inst' = [inst EXCEPT !.first = s]
  PROVE  inst' \in [Instances -> InstStates] /\ inst'.first = s /\ inst'.bare = inst.bare
BY DEF TypeOK, Instances, InstStates

\* The bare instance changes its state, and the first one does not.
LEMMA BareBecomes ==
  ASSUME TypeOK, NEW s \in InstStates, inst' = [inst EXCEPT !.bare = s]
  PROVE  inst' \in [Instances -> InstStates] /\ inst'.bare = s /\ inst'.first = inst.first
BY DEF TypeOK, Instances, InstStates

\* One event gets a handler.
LEMMA EventGets ==
  ASSUME TypeOK, NEW e \in {"connect", "error"}, NEW cb \in AllCallbacks,
         events' = [events EXCEPT ![e] = cb]
  PROVE  /\ events' \in [{"connect", "error"} -> AllCallbacks \cup {"none"}]
         /\ events'[e] = cb
         /\ \A d \in {"connect", "error"} : d # e => events'[d] = events[d]
BY DEF TypeOK

\* One operation changes its state.
LEMMA OpBecomes ==
  ASSUME TypeOK, NEW o \in Ops, NEW s \in OpStates, op' = [op EXCEPT ![o] = s]
  PROVE  /\ op' \in [Ops -> OpStates] /\ op'[o] = s
         /\ \A p \in Ops : p # o => op'[p] = op[p]
BY DEF TypeOK, OpStates

\* The callback is called at most once more.
LEMMA CalledBack ==
  ASSUME told = 0, CallsBack PROVE told' \in {0, 1}
BY DEF CallsBack

-----------------------------------------------------------------------------
(* The constructor. *)

\* The options are refused before there is a handle.
LEMMA RefuseOptionsKeeps ==
  ASSUME HandleInv, RefuseOptions PROVE HandleInv'
<1> USE DEF HandleInv, TypeOK, Stacks, Handlers, Unborn, Fresh, Wild, Kept, Told, Owners, Causes,
            MisuseHasCause, InstancesFreed, BareFailed, Instances, OpAlive, Kinds, InstStates,
            OpStates, AllCallbacks
<1>1. told = 0 /\ ctor = "idle"
  BY DEF RefuseOptions
<1>2. /\ told' \in {0, 1} /\ ctor' \in {"refused", "threw"}
      /\ UNCHANGED <<alive, callback, held, object, inst, idle, op, nerr, stack, misuse>>
  BY <1>1, CalledBack DEF RefuseOptions
<1> QED BY <1>1, <1>2 DEF object, OnTop, Top

\* Construct only goes on.
LEMMA ConstructKeeps ==
  ASSUME HandleInv, Construct PROVE HandleInv'
<1> USE DEF HandleInv, TypeOK, Stacks, Handlers, Unborn, Fresh, Wild, Kept, Told, Owners, Causes,
            MisuseHasCause, InstancesFreed, BareFailed, Instances, OpAlive, Kinds, InstStates,
            OpStates, AllCallbacks
<1> QED BY DEF Construct, object, OnTop, Top

\* New throws before there is a handle.
LEMMA NewThrowsKeeps ==
  ASSUME HandleInv, NewThrows PROVE HandleInv'
<1> USE DEF HandleInv, TypeOK, Stacks, Handlers, Unborn, Fresh, Wild, Kept, Told, Owners, Causes,
            MisuseHasCause, InstancesFreed, BareFailed, Instances, OpAlive, Kinds, InstStates,
            OpStates, AllCallbacks
<1>1. told = 0 /\ ctor = "new"
  BY DEF NewThrows
<1>2. /\ told' \in {0, 1} /\ ctor' = "threw"
      /\ UNCHANGED <<alive, callback, held, object, inst, idle, op, nerr, stack, misuse>>
  BY <1>1, CalledBack DEF NewThrows
<1> QED BY <1>1, <1>2 DEF object, OnTop, Top

\* The instance that was not set belongs to a handle the application never gets.
LEMMA CreateFailsKeeps ==
  ASSUME HandleInv, CreateFails PROVE HandleInv'
<1> USE DEF HandleInv, TypeOK, Stacks, Handlers, Unborn, Fresh, Wild, Kept, Told, Owners, Causes,
            MisuseHasCause, InstancesFreed, BareFailed, Instances, OpAlive, Kinds, InstStates,
            OpStates, AllCallbacks
<1>1. /\ alive /\ ctor = "new" /\ "create" \in Faults /\ handle = "none" /\ told = 0
      /\ UNCHANGED <<callback, held, connected, isShutdown, events, inst, idle, op, nerr, stack>>
  BY DEF CreateFails
<1>2. misuse' \subseteq Kinds /\ \A x : x \in misuse' <=> x \in misuse \/ x = "wild"
  BY Blame DEF CreateFails
<1>3. CASE alive' = FALSE /\ UNCHANGED <<handle, wraps, told, ctor>>
  <2>1. ~alive' /\ alive' \in BOOLEAN
    BY <1>3
  <2> QED BY <1>1, <1>2, <1>3, <2>1 DEF OnTop, Top
<1>4. CASE handle' = "live" /\ wraps' = "wild" /\ CallsBack /\ ctor' = "threw" /\ UNCHANGED alive
  <2>1. told' \in {0, 1}
    BY <1>1, <1>4, CalledBack
  <2> QED BY <1>1, <1>2, <1>4, <2>1 DEF OnTop, Top
<1> HIDE DEF HandleInv
<1> QED BY <1>3, <1>4 DEF CreateFails

\* New makes the handle and its instance.
LEMMA NewKeeps ==
  ASSUME HandleInv, New PROVE HandleInv'
<1> USE DEF HandleInv, TypeOK, Stacks, Handlers, Unborn, Fresh, Wild, Kept, Told, Owners, Causes,
            MisuseHasCause, InstancesFreed, BareFailed, Instances, OpAlive, Kinds, InstStates,
            OpStates, AllCallbacks
<1>1. /\ alive /\ ctor = "new" /\ ctor' = "on" /\ handle = "none" /\ told = 0
      /\ handle' = "live" /\ wraps' = "first" /\ held' /\ held' \in BOOLEAN
      /\ UNCHANGED <<alive, callback, connected, isShutdown, events, idle, op, nerr, stack, told,
                     misuse>>
  BY DEF New
<1>2. inst' \in [Instances -> InstStates] /\ inst'.first = "created" /\ inst'.bare = inst.bare
  BY FirstBecomes DEF New
<1> QED BY <1>1, <1>2 DEF OnTop, Top

\* The handler of "connect" is one that can be called, or the constructor threw.
LEMMA OnConnectKeeps ==
  ASSUME HandleInv, OnConnect, HandlesAssumption PROVE HandleInv'
<1> USE DEF HandleInv, TypeOK, Stacks, Handlers, Unborn, Fresh, Wild, Kept, Told, Owners, Causes,
            MisuseHasCause, InstancesFreed, BareFailed, Instances, OpAlive, Kinds, InstStates,
            OpStates, AllCallbacks
<1>1. /\ alive /\ ctor = "on"
      /\ UNCHANGED <<alive, callback, handle, wraps, connected, isShutdown, inst, idle, op, nerr,
                     stack, told, misuse>>
  BY DEF OnConnect
<1>2. CASE callback = "notFunction"
  <2>1. ctor' = "threw" /\ ~held' /\ held' \in BOOLEAN /\ UNCHANGED events
    BY <1>2 DEF OnConnect
  <2> QED BY <1>1, <2>1 DEF OnTop, Top
<1>3. CASE callback # "notFunction"
  <2>1. callback \in Handlers
    BY <1>3 DEF HandlesAssumption
  <2>2. ctor' = "connect" /\ UNCHANGED held /\ events' = [events EXCEPT !.connect = callback]
    BY <1>3 DEF OnConnect
  <2>3. /\ events' \in [{"connect", "error"} -> AllCallbacks \cup {"none"}]
        /\ events'.connect = callback /\ events'.error = events.error
    BY <2>1, <2>2, EventGets
  <2> QED BY <1>1, <2>1, <2>2, <2>3 DEF OnTop, Top
<1> QED BY <1>2, <1>3

\* The instance starts to connect, or the callback is told that it cannot.
LEMMA ConnectKeeps ==
  ASSUME HandleInv, Connect PROVE HandleInv'
<1> USE DEF HandleInv, TypeOK, Stacks, Handlers, Unborn, Fresh, Wild, Kept, Told, Owners, Causes,
            MisuseHasCause, InstancesFreed, BareFailed, Instances, OpAlive, Kinds, InstStates,
            OpStates, AllCallbacks
<1>1. /\ alive /\ ctor = "connect" /\ told = 0
      /\ UNCHANGED <<alive, callback, object, idle, op, nerr, stack, misuse>>
  BY DEF Connect
<1>2. CASE /\ inst' = [inst EXCEPT !.first = "connecting"] /\ ctor' = "done"
           /\ UNCHANGED <<held, told>>
  <2>1. inst' \in [Instances -> InstStates] /\ inst'.first = "connecting" /\ inst'.bare = inst.bare
    BY <1>2, FirstBecomes
  <2> QED BY <1>1, <1>2, <2>1 DEF object, OnTop, Top
<1>3. CASE /\ inst' = [inst EXCEPT !.first = "failed"] /\ CallsBack
           /\ held' = (callback # "default")
           /\ ctor' = IF callback = "default" THEN "threw" ELSE "done"
  <2>1. inst' \in [Instances -> InstStates] /\ inst'.first = "failed" /\ inst'.bare = inst.bare
    BY <1>3, FirstBecomes
  <2>2. told' \in {0, 1} /\ held' \in BOOLEAN /\ ctor' \in {"done", "threw"}
    BY <1>1, <1>3, CalledBack
  <2> QED BY <1>1, <2>1, <2>2 DEF object, OnTop, Top
<1> HIDE DEF HandleInv
<1> QED BY <1>2, <1>3 DEF Connect

-----------------------------------------------------------------------------
(* The application, and the garbage collector. *)

\* The application gets at no handle but a live one.
LEMMA AccessIsLive ==
  ASSUME HandleInv, Access PROVE alive /\ ctor = "done" /\ handle = "live"
<1>1. alive /\ ctor = "done"
  BY DEF Access, InApp
<1>2. CASE held
  BY <1>1, <1>2 DEF HandleInv, Kept
<1>3. CASE stack # <<>> /\ Top.cb = "captures"
  <2>1. PICK f \in {"onConfig", "errorCallback", "errorEvent"}, c \in Handlers :
          stack = <<Frame(f, c)>>
    BY <1>3 DEF HandleInv, Stacks
  <2> QED BY <1>1, <1>3, <2>1, OneFrame DEF HandleInv, Kept, Top
<1> QED BY <1>2, <1>3 DEF Access

\* A handler is replaced by one that can be called, through a handle that is live.
LEMMA OnKeeps ==
  ASSUME HandleInv, NEW e \in {"connect", "error"},
         NEW cb \in {"captures", "plain"}, On(e, cb) PROVE HandleInv'
<1> USE DEF HandleInv, TypeOK, Stacks, Handlers, Unborn, Fresh, Wild, Kept, Told, Owners, Causes,
            MisuseHasCause, InstancesFreed, BareFailed, Instances, OpAlive, Kinds, InstStates,
            OpStates, AllCallbacks
<1>1. /\ alive /\ ctor = "done" /\ handle = "live"
      /\ UNCHANGED <<alive, ctor, callback, held, handle, wraps, connected, isShutdown, inst, idle,
                     op, nerr, stack, told, misuse>>
  BY AccessIsLive DEF On
<1>2. /\ events' \in [{"connect", "error"} -> AllCallbacks \cup {"none"}]
      /\ events'[e] = cb
      /\ \A d \in {"connect", "error"} : d # e => events'[d] = events[d]
  BY EventGets DEF On
<1> QED BY <1>1, <1>2 DEF OnTop, Top

\* A reference less keeps less.
LEMMA DropKeeps ==
  ASSUME HandleInv, Drop PROVE HandleInv'
<1> USE DEF HandleInv, TypeOK, Stacks, Handlers, Unborn, Fresh, Wild, Kept, Told, Owners, Causes,
            MisuseHasCause, InstancesFreed, BareFailed, Instances, OpAlive, Kinds, InstStates,
            OpStates, AllCallbacks
<1>1. ~held' /\ held' \in BOOLEAN
      /\ UNCHANGED <<alive, ctor, callback, object, inst, idle, op, nerr, stack, told, misuse>>
  BY DEF Drop
<1>2. ctor \notin {"idle", "new", "on", "connect"}
  BY DEF Drop, InApp, Constructing
<1> QED BY <1>1, <1>2 DEF object, OnTop, Top

\* An operation starts on a live handle, whose instance answers what it has taken.
LEMMA StartKeeps ==
  ASSUME HandleInv, NEW o \in Ops, Start(o) PROVE HandleInv'
<1> USE DEF HandleInv, TypeOK, Stacks, Handlers, Unborn, Fresh, Wild, Kept, Told, Owners, Causes,
            MisuseHasCause, InstancesFreed, BareFailed, Instances, OpAlive, Kinds, InstStates,
            OpStates, AllCallbacks
<1>1. /\ alive /\ ctor = "done" /\ handle = "live" /\ op[o] = "none"
      /\ UNCHANGED <<ctor, callback, held, object, inst, idle, nerr, stack, told>>
  BY AccessIsLive DEF Start
<1>2. CASE inst[wraps] = "destroyed" /\ connected
  <2>1. UNCHANGED op /\ ~alive' /\ alive' \in BOOLEAN
    BY <1>2 DEF Start, Undefined
  <2>2. misuse' \subseteq Kinds /\ \A x : x \in misuse' <=> x \in misuse \/ x = "dangling"
    BY <1>2, Blame DEF Start, Undefined
  <2>3. BareFailed
    BY <1>1, <1>2
  <2> QED BY <1>1, <2>1, <2>2, <2>3 DEF object, OnTop, Top
<1>3. CASE ~(inst[wraps] = "destroyed" /\ connected)
  <2>1. PICK s \in OpStates : /\ op' = [op EXCEPT ![o] = s]
                              /\ s = "inflight" => inst.first = "ready"
                              /\ UNCHANGED <<alive, misuse>>
    BY <1>3 DEF Start
  <2>2. /\ op' \in [Ops -> OpStates] /\ op'[o] = s
        /\ \A p \in Ops : p # o => op'[p] = op[p]
    BY <2>1, OpBecomes
  <2>3. "reentered" \notin misuse
    BY <1>1
  <2> QED BY <1>1, <2>1, <2>2, <2>3 DEF object, OnTop, Top
<1> QED BY <1>2, <1>3

\* The instance goes to the idle handle, whether or not there is another one.
LEMMA ShutdownKeeps ==
  ASSUME HandleInv, Shutdown PROVE HandleInv'
<1> USE DEF HandleInv, TypeOK, Stacks, Handlers, Unborn, Fresh, Wild, Kept, Told, Owners, Causes,
            MisuseHasCause, InstancesFreed, BareFailed, Instances, OpAlive, Kinds, InstStates,
            OpStates, AllCallbacks
<1>1. /\ alive /\ ctor = "done" /\ handle = "live" /\ ~isShutdown
      /\ isShutdown' /\ isShutdown' \in BOOLEAN /\ idle' = idle \cup {wraps}
      /\ UNCHANGED <<alive, ctor, callback, held, handle, connected, events, op, nerr, stack, told,
                     misuse>>
  BY AccessIsLive DEF Shutdown
<1>2. wraps = "first" /\ idle' = {"first"} /\ inst.first # "destroyed"
  BY <1>1
<1>3. CASE wraps' = "bare" /\ inst' = [inst EXCEPT !.bare = "created"]
  <2>1. inst' \in [Instances -> InstStates] /\ inst'.bare = "created" /\ inst'.first = inst.first
    BY <1>3, BareBecomes
  <2> QED BY <1>1, <1>2, <1>3, <2>1 DEF OnTop, Top
<1>4. CASE UNCHANGED <<wraps, inst>>
  BY <1>1, <1>2, <1>4 DEF OnTop, Top
<1> QED BY <1>3, <1>4 DEF Shutdown

\* The handle dies with everything that kept it, and its instance with it.
LEMMA CollectKeeps ==
  ASSUME HandleInv, Collect PROVE HandleInv'
<1> USE DEF HandleInv, TypeOK, Stacks, Handlers, Unborn, Fresh, Wild, Kept, Told, Owners, Causes,
            MisuseHasCause, InstancesFreed, BareFailed, Instances, OpAlive, Kinds, InstStates,
            OpStates, AllCallbacks
<1>1. /\ alive /\ ctor \in {"done", "refused", "threw"} /\ handle = "live" /\ handle' = "deleted"
      /\ ~held /\ \A o \in Ops : ~OpAlive(o)
      /\ \A i \in DOMAIN stack : stack[i].cb # "captures"
      /\ UNCHANGED <<ctor, callback, held, wraps, connected, isShutdown, idle, op, nerr, stack, told>>
  BY DEF Collect, InApp, Constructing, Reachable
<1>2. /\ events' \in [{"connect", "error"} -> AllCallbacks \cup {"none"}]
      /\ events'.connect = "none" /\ events'.error = "none"
      /\ \A e \in DOMAIN events' : events'[e] = "none"
  BY DEF Collect
<1>3. CASE wraps = "wild"
  <2>1. UNCHANGED inst /\ ~alive' /\ alive' \in BOOLEAN
    BY <1>3 DEF Collect, Undefined
  <2>2. misuse' \subseteq Kinds /\ \A x : x \in misuse' <=> x \in misuse \/ x = "wild"
    BY <1>3, Blame DEF Collect, Undefined
  <2> QED BY <1>1, <1>2, <1>3, <2>1, <2>2 DEF OnTop, Top
<1>4. CASE wraps # "wild" /\ inst[wraps] = "destroyed"
  <2>1. UNCHANGED inst /\ ~alive' /\ alive' \in BOOLEAN
    BY <1>4 DEF Collect, Undefined
  <2>2. misuse' \subseteq Kinds /\ \A x : x \in misuse' <=> x \in misuse \/ x = "twice"
    BY <1>4, Blame DEF Collect, Undefined
  <2>3. BareFailed
    BY <1>1, <1>4
  <2> QED BY <1>1, <1>2, <1>4, <2>1, <2>2, <2>3 DEF OnTop, Top
<1>5. CASE wraps = "first" /\ inst[wraps] # "destroyed"
  <2>1. inst' = [inst EXCEPT !.first = "destroyed"] /\ UNCHANGED alive
    BY <1>5 DEF Collect
  <2>2. inst' \in [Instances -> InstStates] /\ inst'.first = "destroyed" /\ inst'.bare = inst.bare
    BY <2>1, FirstBecomes
  <2>3. CASE stack # <<>>
    <3>1. misuse' \subseteq Kinds /\ \A x : x \in misuse' <=> x \in misuse \/ x = "reentered"
      BY <1>5, <2>3, Blame DEF Collect
    <3> QED BY <1>1, <1>2, <1>5, <2>1, <2>2, <3>1 DEF OnTop, Top
  <2>4. CASE stack = <<>>
    <3>1. UNCHANGED misuse
      BY <1>5, <2>4 DEF Collect
    <3> QED BY <1>1, <1>2, <1>5, <2>1, <2>2, <2>4, <3>1 DEF OnTop, Top
  <2> QED BY <2>3, <2>4
<1>6. CASE wraps = "bare" /\ inst[wraps] # "destroyed"
  <2>1. inst' = [inst EXCEPT !.bare = "destroyed"] /\ UNCHANGED <<alive, misuse>>
    BY <1>6 DEF Collect
  <2>2. inst' \in [Instances -> InstStates] /\ inst'.bare = "destroyed" /\ inst'.first = inst.first
    BY <2>1, BareBecomes
  <2> QED BY <1>1, <1>2, <1>6, <2>1, <2>2 DEF OnTop, Top
<1> QED BY <1>1, <1>3, <1>4, <1>5, <1>6

-----------------------------------------------------------------------------
(* What libcouchbase and libuv do. *)

\* The configuration is told once.  An instance whose handle is gone has seen shutdown.
LEMMA ConfigArrivesKeeps ==
  ASSUME HandleInv, ConfigArrives PROVE HandleInv'
<1> USE DEF HandleInv, TypeOK, Stacks, Handlers, Unborn, Fresh, Wild, Kept, Told, Owners, Causes,
            MisuseHasCause, InstancesFreed, BareFailed, Instances, OpAlive, Kinds, InstStates,
            OpStates, AllCallbacks
<1>1. /\ alive /\ ctor \notin {"idle", "new", "on", "connect"} /\ stack = <<>>
      /\ inst.first = "connecting"
      /\ UNCHANGED <<ctor, callback, held, handle, wraps, isShutdown, events, idle, op, nerr>>
  BY DEF ConfigArrives, InLoop, InApp, Constructing
<1>2. inst' \in [Instances -> InstStates] /\ inst'.first = "ready" /\ inst'.bare = inst.bare
  BY FirstBecomes DEF ConfigArrives
<1>3. CASE handle = "deleted"
  <2>1. ~alive' /\ alive' \in BOOLEAN /\ UNCHANGED <<connected, stack, told>>
    BY <1>3 DEF ConfigArrives, Undefined
  <2>2. misuse' \subseteq Kinds /\ \A x : x \in misuse' <=> x \in misuse \/ x = "stale"
    BY <1>3, Blame DEF ConfigArrives, Undefined
  <2> QED BY <1>1, <1>2, <1>3, <2>1, <2>2 DEF OnTop, Top
<1>4. CASE handle # "deleted" /\ connected
  <2>1. UNCHANGED <<alive, misuse, connected, stack, told>>
    BY <1>4 DEF ConfigArrives
  <2> QED BY <1>1, <1>2, <1>4, <2>1 DEF OnTop, Top
<1>5. CASE handle # "deleted" /\ ~connected
  <2>1. told = 0 /\ events.connect \in Handlers
    BY <1>1, <1>5
  <2>2. /\ UNCHANGED <<alive, misuse>> /\ connected' /\ connected' \in BOOLEAN
        /\ told' = 1 /\ stack' = <<Frame("onConfig", events.connect)>>
    BY <1>1, <1>5, <2>1 DEF ConfigArrives, TellConnected
  <2> QED BY <1>1, <1>2, <1>5, <2>1, <2>2, OneFrame DEF OnTop, Top
<1> QED BY <1>3, <1>4, <1>5

\* What was in the queue is taken by an instance that is ready, or refused.
LEMMA ReturnConfigKeeps ==
  ASSUME HandleInv, ReturnConfig PROVE HandleInv'
<1> USE DEF HandleInv, TypeOK, Stacks, Handlers, Unborn, Fresh, Wild, Kept, Told, Owners, Causes,
            MisuseHasCause, InstancesFreed, BareFailed, Instances, OpAlive, Kinds, InstStates,
            OpStates, AllCallbacks
<1>1. PICK cb \in Handlers : stack = <<Frame("onConfig", cb)>> /\ Callers = <<>>
  BY OnTopAlone DEF ReturnConfig
<1>2. /\ alive /\ OnTop("onConfig")
      /\ UNCHANGED <<ctor, callback, held, object, inst, idle, nerr, told>>
  BY DEF ReturnConfig
<1>3. CASE handle = "deleted"
  <2>1. ~alive' /\ alive' \in BOOLEAN /\ UNCHANGED <<op, stack>>
    BY <1>3 DEF ReturnConfig, Undefined
  <2>2. misuse' \subseteq Kinds /\ \A x : x \in misuse' <=> x \in misuse \/ x = "stale"
    BY <1>3, Blame DEF ReturnConfig, Undefined
  <2> QED BY <1>1, <1>2, <1>3, <2>1, <2>2 DEF object, OnTop, Top
<1>4. CASE handle # "deleted"
  <2>1. stack' = <<>> /\ UNCHANGED <<alive, misuse>>
    BY <1>1, <1>4 DEF ReturnConfig
  <2>2. op' \in [Ops -> OpStates] /\ RunScheduled(op')
    BY <1>4 DEF ReturnConfig
  <2>3. handle = "live" /\ inst.first = "ready" /\ "reentered" \notin misuse
    BY <1>1, <1>2, <1>4, OneFrame
  <2>4. \A o \in Ops : op'[o] = "inflight" => inst.first = "ready"
    BY <2>3
  <2> QED BY <1>2, <1>4, <2>1, <2>2, <2>3, <2>4 DEF object, OnTop, Top
<1> QED BY <1>3, <1>4

\* An error ends connecting at most once.  An instance whose handle is gone has seen shutdown.
LEMMA ErrorArrivesKeeps ==
  ASSUME HandleInv, ErrorArrives, HandlesAssumption PROVE HandleInv'
<1> USE DEF HandleInv, TypeOK, Stacks, Handlers, Unborn, Fresh, Wild, Kept, Told, Owners, Causes,
            MisuseHasCause, InstancesFreed, BareFailed, Instances, OpAlive, Kinds, InstStates,
            OpStates, AllCallbacks
<1>1. /\ alive /\ ctor = "done" /\ stack = <<>> /\ inst.first \in {"connecting", "ready"}
      /\ nerr' \in 0..MaxErrors
      /\ UNCHANGED <<ctor, callback, held, handle, wraps, isShutdown, events, idle, op>>
  BY DEF ErrorArrives, InLoop, InApp, Constructing, HandlesAssumption
<1>2. /\ inst' \in [Instances -> InstStates] /\ inst'.bare = inst.bare
      /\ \/ inst'.first = inst.first
         \/ inst.first = "connecting" /\ inst'.first = "failed"
  BY FirstBecomes DEF ErrorArrives
<1>3. CASE handle = "deleted"
  <2>1. ~alive' /\ alive' \in BOOLEAN /\ UNCHANGED <<connected, stack, told>>
    BY <1>3 DEF ErrorArrives, Undefined
  <2>2. misuse' \subseteq Kinds /\ \A x : x \in misuse' <=> x \in misuse \/ x = "stale"
    BY <1>3, Blame DEF ErrorArrives, Undefined
  <2> QED BY <1>1, <1>2, <1>3, <2>1, <2>2 DEF OnTop, Top
<1>4. CASE handle # "deleted" /\ connected
  <2>1. UNCHANGED <<alive, misuse, connected, told>>
    BY <1>4 DEF ErrorArrives
  <2>2. \/ stack' = <<>>
        \/ events.error \in Handlers /\ stack' = <<Frame("errorEvent", events.error)>>
    BY <1>1, <1>4 DEF ErrorArrives, TellError
  <2> QED BY <1>1, <1>2, <1>4, <2>1, <2>2, OneFrame DEF OnTop, Top
<1>5. CASE handle # "deleted" /\ ~connected
  <2>1. told = 0 /\ events.connect \in Handlers
    BY <1>1, <1>5
  <2>2. /\ UNCHANGED misuse /\ alive' \in BOOLEAN /\ connected' /\ connected' \in BOOLEAN
        /\ told' = 1 /\ stack' = <<Frame("errorCallback", events.connect)>>
    BY <1>1, <1>5, <2>1 DEF ErrorArrives, TellConnected
  <2> QED BY <1>1, <1>2, <1>5, <2>1, <2>2, OneFrame DEF OnTop, Top
<1> QED BY <1>3, <1>4, <1>5

\* errorCallback goes on if it still has its handle.
LEMMA ReturnConnectErrorKeeps ==
  ASSUME HandleInv, ReturnConnectError PROVE HandleInv'
<1> USE DEF HandleInv, TypeOK, Stacks, Handlers, Unborn, Fresh, Wild, Kept, Told, Owners, Causes,
            MisuseHasCause, InstancesFreed, BareFailed, Instances, OpAlive, Kinds, InstStates,
            OpStates, AllCallbacks
<1>1. PICK cb \in Handlers : stack = <<Frame("errorCallback", cb)>> /\ Callers = <<>>
  BY OnTopAlone DEF ReturnConnectError
<1>2. alive /\ UNCHANGED <<ctor, callback, held, object, inst, idle, op, nerr, told>>
  BY DEF ReturnConnectError
<1>3. CASE handle = "deleted"
  <2>1. ~alive' /\ alive' \in BOOLEAN /\ UNCHANGED stack
    BY <1>3 DEF ReturnConnectError, Undefined
  <2>2. misuse' \subseteq Kinds /\ \A x : x \in misuse' <=> x \in misuse \/ x = "stale"
    BY <1>3, Blame DEF ReturnConnectError, Undefined
  <2> QED BY <1>1, <1>2, <1>3, <2>1, <2>2 DEF object, OnTop, Top
<1>4. CASE handle # "deleted"
  <2>1. /\ UNCHANGED <<alive, misuse>>
        /\ \/ stack' = <<>>
           \/ events.error \in Handlers /\ stack' = <<Frame("errorEvent", events.error)>>
    BY <1>1, <1>4 DEF ReturnConnectError, TellError
  <2> QED BY <1>1, <1>2, <1>4, <2>1, OneFrame DEF object, OnTop, Top
<1> QED BY <1>3, <1>4

\* The handler of "error" returns to libcouchbase.
LEMMA ReturnErrorKeeps ==
  ASSUME HandleInv, ReturnError PROVE HandleInv'
<1> USE DEF HandleInv, TypeOK, Stacks, Handlers, Unborn, Fresh, Wild, Kept, Told, Owners, Causes,
            MisuseHasCause, InstancesFreed, BareFailed, Instances, OpAlive, Kinds, InstStates,
            OpStates, AllCallbacks
<1>1. PICK cb \in Handlers : stack = <<Frame("errorEvent", cb)>> /\ Callers = <<>>
  BY OnTopAlone DEF ReturnError
<1>2. /\ alive /\ stack' = <<>>
      /\ UNCHANGED <<alive, ctor, callback, held, object, inst, idle, op, nerr, told, misuse>>
  BY <1>1 DEF ReturnError
<1> QED BY <1>1, <1>2 DEF object, OnTop, Top

\* An operation that is answered keeps nothing.
LEMMA ReplyKeeps ==
  ASSUME HandleInv, NEW o \in Ops, Reply(o) PROVE HandleInv'
<1> USE DEF HandleInv, TypeOK, Stacks, Handlers, Unborn, Fresh, Wild, Kept, Told, Owners, Causes,
            MisuseHasCause, InstancesFreed, BareFailed, Instances, OpAlive, Kinds, InstStates,
            OpStates, AllCallbacks
<1>1. /\ alive
      /\ UNCHANGED <<alive, ctor, callback, held, object, inst, idle, nerr, stack, told, misuse>>
  BY DEF Reply, InLoop, InApp
<1>2. /\ op' \in [Ops -> OpStates] /\ op'[o] = "done"
      /\ \A p \in Ops : p # o => op'[p] = op[p]
  BY OpBecomes DEF Reply
<1>3. \A p \in Ops : /\ op'[p] = "inflight" => op[p] = "inflight"
                     /\ OpAlive(p)' => OpAlive(p)
  BY <1>2
<1>4. handle = "live" /\ inst.first = "ready"
  BY DEF Reply
<1> QED BY <1>1, <1>2, <1>3, <1>4 DEF object, OnTop, Top

\* The instance that was shut down is destroyed, and nothing is in flight any more.
LEMMA IdleRunsKeeps ==
  ASSUME HandleInv, IdleRuns PROVE HandleInv'
<1> USE DEF HandleInv, TypeOK, Stacks, Handlers, Unborn, Fresh, Wild, Kept, Told, Owners, Causes,
            MisuseHasCause, InstancesFreed, BareFailed, Instances, OpAlive, Kinds, InstStates,
            OpStates, AllCallbacks
<1>1. /\ alive /\ ctor \notin {"idle", "new", "on", "connect"} /\ stack = <<>>
      /\ UNCHANGED <<ctor, callback, held, object, nerr, stack, told>>
  BY DEF IdleRuns, InLoop, InApp, Constructing
<1>2. isShutdown /\ idle = {"first"} /\ idle' = {}
  BY DEF IdleRuns
<1>3. CASE inst.first = "destroyed"
  <2>1. ~alive' /\ alive' \in BOOLEAN /\ UNCHANGED <<inst, op>>
    BY <1>2, <1>3 DEF IdleRuns, Undefined
  <2>2. misuse' \subseteq Kinds /\ \A x : x \in misuse' <=> x \in misuse \/ x = "twice"
    BY <1>2, <1>3, Blame DEF IdleRuns, Undefined
  <2> QED BY <1>1, <1>2, <1>3, <2>1, <2>2 DEF object, OnTop, Top
<1>4. CASE inst.first # "destroyed"
  <2>1. UNCHANGED <<alive, misuse>> /\ inst' = [inst EXCEPT !.first = "destroyed"]
    BY <1>2, <1>4 DEF IdleRuns
  <2>2. inst' \in [Instances -> InstStates] /\ inst'.first = "destroyed" /\ inst'.bare = inst.bare
    BY <2>1, FirstBecomes
  <2>3. PICK purged \in {"done", "leaked"} :
          op' = [o \in Ops |-> IF op[o] = "inflight" THEN purged ELSE op[o]]
    BY <1>2, <1>4 DEF IdleRuns
  <2>4. /\ op' \in [Ops -> OpStates]
        /\ \A o \in Ops : op'[o] # "inflight" /\ (OpAlive(o)' => OpAlive(o))
    BY <2>3
  <2> QED BY <1>1, <1>2, <1>4, <2>1, <2>2, <2>4 DEF object, OnTop, Top
<1> QED BY <1>3, <1>4

-----------------------------------------------------------------------------
(* HandleInv is inductive. *)

\* Nothing has happened yet.
LEMMA InitHolds ==
  ASSUME Init, HandlesAssumption PROVE HandleInv
<1> USE DEF Init, HandlesAssumption, Instances
<1>1. TypeOK
  <2>1. /\ inst \in [Instances -> InstStates] /\ op \in [Ops -> OpStates]
        /\ events \in [{"connect", "error"} -> AllCallbacks \cup {"none"}]
    BY DEF InstStates, OpStates
  <2>2. alive \in BOOLEAN /\ held \in BOOLEAN /\ connected \in BOOLEAN /\ isShutdown \in BOOLEAN
    BY Zenon
  <2> QED BY <2>1, <2>2 DEF TypeOK, InstStates, OpStates
<1>2. stack \in Stacks /\ events.error \in {"none", "captures", "plain"}
  BY DEF Stacks
<1>3. Unborn /\ Fresh /\ Wild /\ Kept /\ Owners /\ Causes
  BY DEF Unborn, Fresh, Wild, Kept, OpAlive, Owners, Causes
<1>4. Told
  BY DEF Told, OnTop
<1>5. MisuseHasCause /\ InstancesFreed
  BY DEF MisuseHasCause, InstancesFreed
<1> QED BY <1>1, <1>2, <1>3, <1>4, <1>5 DEF HandleInv

\* A step that changes nothing.
LEMMA StutterKeeps ==
  ASSUME HandleInv, UNCHANGED vars PROVE HandleInv'
BY DEF vars, object, HandleInv, TypeOK, Unborn, Fresh, Wild, Kept, OpAlive, Told, OnTop, Top,
       Owners, Causes, MisuseHasCause, InstancesFreed, BareFailed

\* Every step keeps the invariant.
LEMMA NextKeeps ==
  ASSUME HandleInv, [Next]_vars, HandlesAssumption PROVE HandleInv'
<1>1. CASE Constructor
  BY <1>1, RefuseOptionsKeeps, ConstructKeeps, NewThrowsKeeps, CreateFailsKeeps, NewKeeps,
     OnConnectKeeps, ConnectKeeps DEF Constructor
<1>2. CASE Application
  BY <1>2, DropKeeps, ShutdownKeeps, OnKeeps, StartKeeps DEF Application
<1>3. CASE Returns
  BY <1>3, ReturnConfigKeeps, ReturnConnectErrorKeeps, ReturnErrorKeeps DEF Returns
<1>4. CASE Collect
  BY <1>4, CollectKeeps
<1>5. CASE ConfigArrives
  BY <1>5, ConfigArrivesKeeps
<1>6. CASE ErrorArrives
  BY <1>6, ErrorArrivesKeeps
<1>7. CASE IdleRuns
  BY <1>7, IdleRunsKeeps
<1>8. CASE \E o \in Ops : Reply(o)
  BY <1>8, ReplyKeeps
<1>9. CASE UNCHANGED vars
  BY <1>9, StutterKeeps
<1> QED BY <1>1, <1>2, <1>3, <1>4, <1>5, <1>6, <1>7, <1>8, <1>9 DEF Next

\* HandleInv holds in every state of a connection's life.
THEOREM HandleInvariant == Spec => []HandleInv
<1>1. Init => HandleInv
  BY InitHolds, HandlesAssumption
<1>2. HandleInv /\ [Next]_vars => HandleInv'
  BY NextKeeps, HandlesAssumption
<1> QED BY <1>1, <1>2, PTL DEF Spec

-----------------------------------------------------------------------------
(* What follows of it. *)

\* Every variable of a connection has its type, however many errors arrive.
THEOREM HandlesTypeCorrect == Spec => []TypeOK
<1>1. HandleInv => TypeOK
  BY DEF HandleInv
<1> QED BY <1>1, HandleInvariant, PTL

\* The garbage collector never takes the handle of an operation that is queued
\* or in flight, and what is in flight has an instance that can answer it.
THEOREM OpsKeepHandleCorrect == Spec => []OpsKeepHandle
<1>1. HandleInv => OpsKeepHandle
  BY DEF HandleInv, Kept, OpsKeepHandle
<1> QED BY <1>1, HandleInvariant, PTL

\* The constructor, onConfig and errorCallback tell the application at most
\* once how connecting went.
THEOREM ToldOnceCorrect == Spec => []ToldOnce
<1>1. HandleInv => ToldOnce
  BY DEF HandleInv, Told, ToldOnce
<1> QED BY <1>1, HandleInvariant, PTL

\* An instance or a handle is used out of its life only after lcb_create has
\* failed, in New or in shutdown, after shutdown, or under a handler that the
\* handle called.
THEOREM MisuseHasCauseCorrect == Spec => []MisuseHasCause
<1>1. HandleInv => MisuseHasCause
  BY DEF HandleInv
<1> QED BY <1>1, HandleInvariant, PTL

\* The destructor and the idle handle between them destroy every instance, and
\* none that a live handle still has.
THEOREM InstancesFreedCorrect == Spec => []InstancesFreed
<1>1. HandleInv => InstancesFreed
  BY DEF HandleInv
<1> QED BY <1>1, HandleInvariant, PTL

-----------------------------------------------------------------------------
(* The application is not left untold. *)

\* If the application was not told how connecting went, the constructor still
\* runs or has thrown, or the handle was collected or shut down; or else it is
\* connecting, and whatever libcouchbase reports next will be told.
StillToBeTold ==
  alive /\ told = 0 =>
    \/ Constructing \/ ctor = "threw" \/ handle = "deleted" \/ isShutdown
    \/ inst.first = "connecting" /\ ~connected

\* What has been told when is known of each way to leave the constructor, and
\* of a handle that is connected.
ToldInv ==
  /\ ctor = "connect" => callback # "notFunction"
  /\ ctor = "refused" => told > 0
  /\ connected => told > 0
  /\ StillToBeTold

\* The callback is told, if it is one.
LEMMA CallsBackTells ==
  ASSUME HandleInv, CallsBack PROVE told' \in Nat /\ (callback # "notFunction" => told' > 0)
BY DEF HandleInv, Told, CallsBack

\* The constructor.
LEMMA ConstructorTells ==
  ASSUME HandleInv, ToldInv, Constructor PROVE ToldInv'
<1>1. CASE RefuseOptions
  <2>1. CallsBack /\ connected = FALSE /\ UNCHANGED <<callback, object, alive>>
        /\ ctor = "idle"
        /\ ctor' = IF callback = "plain" \/ callback = "captures" THEN "refused" ELSE "threw"
    BY <1>1 DEF RefuseOptions, HandleInv, Unborn, Constructing, TypeOK
  <2> QED
    BY <2>1, CallsBackTells DEF ToldInv, StillToBeTold, object
<1>2. CASE Construct \/ New
  <2>1. ctor' \in {"new", "on"} /\ UNCHANGED <<told, connected>>
    BY <1>2 DEF Construct, New, object
  <2> QED
    BY <2>1 DEF ToldInv, StillToBeTold, Constructing
<1>3. CASE NewThrows \/ CreateFails
  <2>1. ~connected /\ connected' = connected
    BY <1>3 DEF NewThrows, CreateFails, object, HandleInv, Unborn
  <2>2. ctor' = "threw" \/ (~alive' /\ UNCHANGED ctor /\ ctor = "new")
    BY <1>3 DEF NewThrows, CreateFails
  <2> QED
    BY <2>1, <2>2 DEF ToldInv, StillToBeTold
<1>4. CASE OnConnect
  <2>1. /\ ctor' \in {"threw", "connect"} /\ UNCHANGED <<told, connected, callback>>
        /\ ctor' = "connect" => callback # "notFunction"
    BY <1>4 DEF OnConnect
  <2> QED
    BY <2>1 DEF ToldInv, StillToBeTold, Constructing
<1>5. CASE Connect
  <2>1. /\ ctor = "connect" /\ ~connected /\ UNCHANGED <<callback, object, alive>>
        /\ ctor' \in {"done", "threw"} /\ callback # "notFunction"
    BY <1>5 DEF Connect, HandleInv, Fresh, ToldInv
  <2>2. (inst' = [inst EXCEPT !.first = "connecting"] /\ UNCHANGED told) \/ CallsBack
    BY <1>5 DEF Connect
  <2>3. told' > 0 \/ inst'.first = "connecting"
    BY <2>1, <2>2, CallsBackTells DEF HandleInv, TypeOK, Instances
  <2> QED
    BY <2>1, <2>3 DEF ToldInv, StillToBeTold, object
<1> QED
  BY <1>1, <1>2, <1>3, <1>4, <1>5 DEF Constructor

\* The end of connecting: whoever reports it tells of it.
LEMMA EndOfConnectingTells ==
  ASSUME HandleInv, ToldInv, ConfigArrives \/ ErrorArrives PROVE ToldInv'
<1>1. /\ told \in {0, 1} /\ ctor \notin {"connect", "refused"} /\ UNCHANGED <<ctor, callback>>
      /\ handle' = handle
  BY DEF HandleInv, Told, ConfigArrives, ErrorArrives, object
<1>2. CASE handle = "deleted"
  <2>1. ~alive' /\ UNCHANGED <<connected, told>>
    BY <1>2 DEF ConfigArrives, ErrorArrives, Undefined
  <2> QED
    BY <1>1, <2>1 DEF ToldInv, StillToBeTold
<1>3. CASE handle # "deleted" /\ connected
  <2>1. UNCHANGED <<connected, told>>
    BY <1>3 DEF ConfigArrives, ErrorArrives
  <2> QED
    BY <1>1, <1>3, <2>1 DEF ToldInv, StillToBeTold
<1>4. CASE handle # "deleted" /\ ~connected
  <2>1. told' = told + 1
    BY <1>4 DEF ConfigArrives, ErrorArrives, TellConnected
  <2> QED
    BY <1>1, <2>1 DEF ToldInv, StillToBeTold
<1> QED
  BY <1>2, <1>3, <1>4

\* Nothing else ends the waiting but the end of the handle.
LEMMA OthersTellNothing ==
  ASSUME HandleInv, ToldInv,
         UNCHANGED <<ctor, callback, told, connected>>,
         alive' => alive,
         handle' = "deleted" \/ isShutdown' \/ (UNCHANGED <<handle, isShutdown, inst>>)
  PROVE  ToldInv'
BY DEF ToldInv, StillToBeTold, Constructing

\* The callback of the constructor is never forgotten: whatever the order of
\* configuration, errors and the application's own calls, one who was told
\* nothing has an exception, no handle any more, or an instance whose next
\* report onConfig or errorCallback will pass on.
THEOREM StillToBeToldCorrect == Spec => []StillToBeTold
<1>1. Init => ToldInv
  BY DEF Init, ToldInv, StillToBeTold, Constructing
<1>2. HandleInv /\ ToldInv /\ [Next]_vars => ToldInv'
  <2> SUFFICES ASSUME HandleInv, ToldInv, [Next]_vars
               PROVE  ToldInv'
    OBVIOUS
  <2>1. CASE Constructor
    BY <2>1, ConstructorTells
  <2>2. CASE ConfigArrives \/ ErrorArrives
    BY <2>2, EndOfConnectingTells
  <2>3. CASE Application
    <3>1. /\ UNCHANGED <<ctor, callback, told, connected>> /\ (alive' => alive)
          /\ isShutdown' \/ UNCHANGED <<handle, isShutdown, inst>>
      BY <2>3 DEF Application, Drop, Shutdown, On, Start, Access, InApp, object
    <3> QED
      BY <3>1, OthersTellNothing
  <2>4. CASE Collect
    BY <2>4, OthersTellNothing DEF Collect, InApp
  <2>5. CASE Returns
    <3>1. /\ UNCHANGED <<ctor, callback, told, connected>> /\ (alive' => alive)
          /\ UNCHANGED <<handle, isShutdown, inst>>
      BY <2>5 DEF Returns, ReturnConfig, ReturnConnectError, ReturnError, object
    <3> QED
      BY <3>1, OthersTellNothing
  <2>6. CASE IdleRuns
    <3>1. isShutdown
      BY <2>6 DEF IdleRuns, HandleInv, Owners
    <3>2. UNCHANGED <<ctor, callback, told, connected, isShutdown>> /\ (alive' => alive)
      BY <2>6 DEF IdleRuns, InLoop, InApp, object
    <3> QED
      BY <3>1, <3>2, OthersTellNothing
  <2>7. CASE \E o \in Ops : Reply(o)
    BY <2>7, OthersTellNothing DEF Reply, object
  <2>8. CASE UNCHANGED vars
    BY <2>8, OthersTellNothing DEF vars, object
  <2> QED
    BY <2>1, <2>2, <2>3, <2>4, <2>5, <2>6, <2>7, <2>8 DEF Next
<1>3. ToldInv => StillToBeTold
  BY DEF ToldInv
<1> QED
  BY <1>1, <1>2, <1>3, HandleInvariant, PTL DEF Spec
=============================================================================
