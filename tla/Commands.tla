------------------------------ MODULE Commands ------------------------------
(***************************************************************************)
(* Commands: what becomes of the arguments of a call on their way to       *)
(* libcouchbase.                                                           *)
(*                                                                         *)
(* A Command is built on the stack of the entry point.  It parses the      *)
(* options of the whole call, then each key with its own options, and      *)
(* writes one libcouchbase command per key; their strings are in a         *)
(* BufferList.  A connected handle executes the Command at once.  Else it  *)
(* is copied to the heap, to be executed when the configuration arrives,   *)
(* long after the arguments, and the Command on the stack, are gone.       *)
(*                                                                         *)
(* Several calls follow one another here; Couchnode has their callbacks    *)
(* and the order in which they are executed.  The cluster (external) keeps *)
(* what is stored, to see it come back.                                    *)
(***************************************************************************)
EXTENDS BufferList, ValueFormat, SequencesExt

CONSTANT Plans     \* sequences of calls the application may make

Kinds == {"get", "lock", "store", "arithmetic", "remove", "unlock", "touch",
          "observe", "endure", "stats", "http"}

\* The options each Command class parses for the whole call and, if the keys
\* are an object, for each key: the parseObject of its Parameters.
Parameters ==
  [get |-> {"expiry", "locktime", "format"}, lock |-> {"expiry", "locktime", "format"},
   store |-> {"cas", "expiry", "format", "value", "flags"},
   arithmetic |-> {"expiry", "initial", "offset"},
   remove |-> {"cas"}, unlock |-> {"cas"}, touch |-> {"expiry"}, observe |-> {},
   endure |-> {"persist_to", "replicate_to", "is_delete", "timeout"}, stats |-> {},
   http |-> {"path", "data", "content_type", "method", "lcb_http_type"}]

KeyParameters ==
  [Parameters EXCEPT !.endure = {"cas"}, !.http = {}]

HttpMethodMax == 3
HttpTypeMax == 2

\* A call: keys is a sequence of values, and params has the options of each
\* key if the keys were given as an object (None otherwise).
Dicts(call) == Range(call.params) \cup {call.options}
Values(call) ==
  Range(call.keys) \cup UNION {Range(d.f) : d \in {d \in Dicts(call) : "f" \in DOMAIN d}}

\* Lengths are no less than 0, there is one empty string, and a number's text
\* is not empty.
WellFormed(v) ==
  /\ v.n \in Int /\ (v.t # "number" => v.n \in Nat)
  /\ v.t = "string" /\ v.n = 0 => v = EmptyText
  /\ v.t = "number" => Len(ToString(v.n)) \in Nat \ {0}

\* A call that the program survives, and JavaScript can make.
Sensible(call) ==
  /\ call.kind \in Kinds
  /\ call.keys \in Seq(Range(call.keys)) /\ call.params \in Seq(Range(call.params))
  /\ Len(call.params) = Len(call.keys)
  /\ \A d \in Dicts(call) : "f" \in DOMAIN d => d.t \in ObjectTypes
  /\ \A v \in Values(call) : WellFormed(v)
  \* couchbase.js asks for statistics by one key, for HTTP by none
  /\ call.kind \in {"stats", "http"} => call.keys # <<>>
  \* a call that has no value to store, or no path, crashes or aborts
  /\ call.kind = "store" =>
       \A k \in DOMAIN call.keys : "value" \in Properties(call.params[k])
  /\ call.kind = "http" => "path" \in Properties(call.options)

ASSUME PlansAssumption ==
  \A plan \in Plans : plan \in Seq(Range(plan)) /\ \A i \in DOMAIN plan : Sensible(plan[i])

VARIABLES
  plan,       \* the calls of this run
  made,       \* how many of them were made
  connected,  \* CouchbaseImpl::connected
  cmd,        \* the Command on the stack, or NoCommand
  pending,    \* the copies that wait for the configuration
  heap,       \* the memory that new gave them
  item,       \* external: what the cluster keeps under each key
  sent,       \* history: what libcouchbase was given, call by call
  rejected,   \* history: the calls that were bailed out
  got         \* history: the values that gets returned, and to which call

vars == <<plan, made, connected, cmd, pending, heap, item, sent, rejected, got>>

NoCommand == [at |-> "nowhere"]

-----------------------------------------------------------------------------
(* CommandList. *)

\* The memset of a libcouchbase command.  One record has the fields of all
\* classes; strings are pointers.
ZeroCmd ==
  [key |-> NULL, hashkey |-> NULL, exptime |-> 0, lock |-> 0, flags |-> 0,
   bytes |-> NULL, cas |-> 0, delta |-> 0, initial |-> 0, create |-> 0,
   method |-> 0, path |-> NULL, content_type |-> NULL, body |-> NULL]

\* A list of one command holds it itself, and `points` to the Command it is a
\* part of; a longer one has an array in the heap.
NewCommandList == [ncmds |-> 0, points |-> "nowhere", single |-> ZeroCmd, array |-> NoBlock]

\* CommandList::initialize for a Command on the stack.
InitList(h, n) ==
  CASE n = 0 -> [ok |-> FALSE, list |-> NewCommandList, heap |-> h]
    [] n = 1 -> [ok |-> TRUE, heap |-> h,
                 list |-> [NewCommandList EXCEPT !.ncmds = 1, !.points = "stack"]]
    [] n > 1 -> [ok |-> TRUE, heap |-> Allocate(h, [i \in 1..n |-> ZeroCmd]),
                 list |-> [NewCommandList EXCEPT !.ncmds = n, !.points = "array",
                                                 !.array = h.last + 1]]

\* Writes the command getAt(ix) has returned.
SetAt(c, h, ix, lcb) ==
  IF c.list.ncmds = 1
    THEN [cmd |-> [c EXCEPT !.list.single = lcb], heap |-> h]
    ELSE [cmd |-> c, heap |-> [h EXCEPT !.mem[c.list.array][ix] = lcb]]

\* The copied list still points to the command of the original.
BadCopyList(list) == list

\* CommandList(CommandList&), of a Command on the stack to one on the heap.
CopyList(list) == IF list.ncmds < 2 THEN [list EXCEPT !.points = "copy"] ELSE list

\* The original keeps its array, and will free it.
BadListMovedFrom(list) == list

ListMovedFrom(list) == [list EXCEPT !.ncmds = 0, !.points = "nowhere", !.array = NoBlock]

\* What libcouchbase finds at getList(): the commands, or nothing it may use.
GetList(c, h) ==
  CASE c.list.points = c.at -> <<c.list.single>>
    [] c.list.points = "array" /\ c.list.array \in DOMAIN h.mem -> h.mem[c.list.array]
    [] OTHER -> <<>>

\* The blocks ~BufferList and ~CommandList free.
Owned(c) == c.bufs.blocks \cup (IF c.list.ncmds >= 2 THEN {c.list.array} ELSE {})

-----------------------------------------------------------------------------
(* Strings. *)

HasDefaultString(c) == c.call.kind \in {"stats", "http"}

\* The outcome of a step on a Command that may fail.
Result(ok, c, h, ptr) == [ok |-> ok, cmd |-> c, heap |-> h, ptr |-> ptr]

\* The error is set, and nobody returns.
BadFails(c, h) == Result(TRUE, [c EXCEPT !.err = TRUE], h, NULL)

Fails(c, h) == Result(FALSE, [c EXCEPT !.err = TRUE], h, NULL)

\* getBufBackedString; nul is 1 for a string that ends with a NUL byte.
BackedString(c, h, v, nul) ==
  IF AsText(v).n > 0
    THEN LET put == PutText(h, c.bufs, AsText(v).n + nul, AsText(v))
         IN Result(TRUE, [c EXCEPT !.bufs = put.list], put.heap,
                   [put.ptr EXCEPT !.len = AsText(v).n])
    ELSE IF HasDefaultString(c) THEN Result(TRUE, c, h, StaticEmpty) ELSE Fails(c, h)

\* The same for a string that need not be there.
OptionalString(c, h, slot, nul) ==
  IF IsFound(slot) /\ ~IsFalsy(slot.v) THEN BackedString(c, h, slot.v, nul)
                                      ELSE Result(TRUE, c, h, NULL)

-----------------------------------------------------------------------------
(* The handleSingle of each Command class.  lcb is the libcouchbase command  *)
(* with its key (setKeyV0), own the key's own options, ix its place.         *)

Put(c, h, ix, lcb) ==
  LET set == SetAt(c, h, ix, lcb) IN Result(TRUE, set.cmd, set.heap, NULL)

\* Each key replaces the options there are.
BadWithFormat(options, k, spec) == [x \in {k} |-> spec]

\* setCookieKeyOption: the cookie's options are an object, by key.
WithFormat(options, k, spec) ==
  [x \in DOMAIN options \cup {k} |-> IF x = k THEN spec ELSE options[x]]

HandleGet(c, h, lcb, own, ix, key) ==
  LET opt == Merge(own, c.global)
      spec == ToSpec(opt.format.v)
      noted == IF IsFound(opt.format) /\ spec # AUTO
                 THEN [c EXCEPT !.keyOptions = WithFormat(@, AsText(key), spec),
                                !.err = @ \/ spec = INVALID]
                 ELSE c
  IN Put(noted, h, ix,
         [lcb EXCEPT !.exptime = opt.locktime.v,
                     !.lock = IF IsFound(opt.locktime) THEN 1 ELSE 0])

HandleStore(c, h, lcb, own, ix) ==
  LET spec == ToSpec(IF IsFound(own.format) THEN own.format.v ELSE c.global.format.v)
      value == Encode(own.value.v, spec)
      put == PutText(h, c.bufs, value.bytes.n, value.bytes)
      kept == IF value.literal THEN c ELSE [c EXCEPT !.bufs = put.list]
      where == IF value.literal THEN StaticEmpty ELSE put.ptr
  IN IF ~value.ok \/ where = NULL
       THEN Fails(c, h)
       ELSE Put(kept, IF value.literal THEN h ELSE put.heap, ix,
                [lcb EXCEPT !.bytes = where,
                            !.cas = own.cas.v,
                            !.exptime = IF IsFound(own.expiry) THEN own.expiry.v
                                                               ELSE c.global.expiry.v,
                            !.flags = IF IsFound(own.flags) THEN own.flags.v
                                                            ELSE value.flags])

HandleArithmetic(c, h, lcb, own, ix) ==
  LET opt == Merge(own, c.global)
  IN Put(c, h, ix,
         [lcb EXCEPT !.delta = opt.offset.v, !.initial = opt.initial.v,
                     !.create = IF IsFound(opt.initial) THEN 1 ELSE 0,
                     !.exptime = opt.expiry.v])

\* The options of the call do not count for a key that has any of its own.
OwnOrGlobal(c, own, params) == IF params = None THEN c.global ELSE own

HandleRemove(c, h, lcb, own, ix, params) ==
  Put(c, h, ix, [lcb EXCEPT !.cas = OwnOrGlobal(c, own, params).cas.v])

HandleTouch(c, h, lcb, own, ix, params) ==
  Put(c, h, ix, [lcb EXCEPT !.exptime = OwnOrGlobal(c, own, params).expiry.v])

HandleUnlock(c, h, lcb, own, ix, params) ==
  IF params = None \/ ~IsFound(own.cas) THEN Fails(c, h)
                                        ELSE Put(c, h, ix, [lcb EXCEPT !.cas = own.cas.v])

HandleObserve(c, h, lcb, ix) == Put(c, h, ix, lcb)

HandleEndure(c, h, lcb, own, ix) == Put(c, h, ix, [lcb EXCEPT !.cas = own.cas.v])

HandleStats(c, h, lcb, ix) ==
  IF ix # 1 THEN Fails(c, h) ELSE Put(c, h, ix, [ZeroCmd EXCEPT !.key = lcb.key])

HandleHttp(c, h, ix) ==
  LET opt == c.global
      path == BackedString(c, h, opt.path.v, 0)
      type == OptionalString(path.cmd, path.heap, opt.content_type, 1)
      body == OptionalString(type.cmd, type.heap, opt.data, 0)
      wrong == \/ ix # 1
               \/ IsFound(opt.method) /\ opt.method.v > HttpMethodMax
               \/ ~IsFound(opt.lcb_http_type) \/ opt.lcb_http_type.v > HttpTypeMax
               \/ IsFalsy(opt.path.v)
  IN IF wrong \/ ~path.ok \/ ~type.ok \/ ~body.ok
       THEN Fails(c, h)
       ELSE Put(body.cmd, body.heap, ix,
                [ZeroCmd EXCEPT !.path = path.ptr, !.content_type = type.ptr,
                                !.body = body.ptr, !.method = opt.method.v])

HandleSingle(c, h, lcb, own, ix, key, params) ==
  LET kind == c.call.kind
  IN CASE kind \in {"get", "lock"} -> HandleGet(c, h, lcb, own, ix, key)
       [] kind = "store" -> IF params = None THEN Fails(c, h)
                                             ELSE HandleStore(c, h, lcb, own, ix)
       [] kind = "arithmetic" -> HandleArithmetic(c, h, lcb, own, ix)
       [] kind = "remove" -> HandleRemove(c, h, lcb, own, ix, params)
       [] kind = "unlock" -> HandleUnlock(c, h, lcb, own, ix, params)
       [] kind = "touch" -> HandleTouch(c, h, lcb, own, ix, params)
       [] kind = "observe" -> HandleObserve(c, h, lcb, ix)
       [] kind = "endure" -> HandleEndure(c, h, lcb, own, ix)
       [] kind = "stats" -> HandleStats(c, h, lcb, ix)
       [] kind = "http" -> HandleHttp(c, h, ix)

\* Command::processSingle for the key at place ix.
ProcessSingle(c, h, ix) ==
  LET params == c.call.params[ix]
      key == c.call.keys[ix]
      own == ParseAll(params, KeyParameters[c.call.kind])
      hk == ParseAll(params, {"hashkey"})
      chosen == IF IsFound(hk.slots.hashkey) THEN hk.slots.hashkey ELSE c.hashkey
      hash == IF IsFound(chosen) THEN BackedString(c, h, chosen.v, 0)
                                 ELSE Result(TRUE, c, h, NULL)
      name == BackedString(hash.cmd, hash.heap, key, 0)
  IN IF ~hk.ok \/ ~hash.ok \/ ~name.ok \/ ~own.ok
       THEN Fails(name.cmd, name.heap)
       ELSE HandleSingle(name.cmd, name.heap,
                         [ZeroCmd EXCEPT !.key = name.ptr, !.hashkey = hash.ptr],
                         own.slots, ix, key, params)

-----------------------------------------------------------------------------
(* A call. *)

InLoop == cmd = NoCommand

\* Command::initialize, and LockCommand's.
Initialize(call) ==
  LET list == InitList(heap, IF call.kind \in {"stats", "http"} THEN 1 ELSE Len(call.keys))
      global == ParseAll(call.options, Parameters[call.kind])
      common == ParseAll(call.options, {"spooled", "hashkey"})
      slots == IF call.kind = "lock" THEN [global.slots EXCEPT !.locktime.status = "found"]
                                     ELSE global.slots
      ok == list.ok /\ global.ok /\ common.ok /\ ParseCallback(call.callback) = "found"
  IN Result(ok, [at |-> "stack", number |-> made + 1, call |-> call, next |-> 1,
                 global |-> slots, hashkey |-> common.slots.hashkey,
                 list |-> list.list, bufs |-> NewBufferList, keyOptions |-> <<>>,
                 err |-> ~ok, cookie |-> <<>>],
            list.heap, NULL)

\* bailOut, and the end of the Command.
BailOut(c, h) ==
  /\ rejected' = rejected \cup {c.number}
  /\ cmd' = NoCommand
  /\ heap' = Free(h, Owned(c))

\* An entry point is called, and initializes its Command.
MakeCall ==
  /\ InLoop /\ made < Len(plan) /\ (connected => pending = <<>>)
  /\ made' = made + 1
  /\ LET begun == Initialize(plan[made + 1])
     IN IF begun.ok
          THEN /\ cmd' = begun.cmd
               /\ heap' = begun.heap
               /\ UNCHANGED rejected
          ELSE BailOut(begun.cmd, begun.heap)
  /\ UNCHANGED <<plan, connected, pending, item, sent, got>>

Processed == ~InLoop /\ cmd.next > Len(cmd.call.keys)

\* One turn of the loop in process.
ProcessKey ==
  /\ ~InLoop /\ ~Processed
  /\ LET done == ProcessSingle(cmd, heap, cmd.next)
     IN IF done.ok
          THEN /\ cmd' = [done.cmd EXCEPT !.next = @ + 1]
               /\ heap' = done.heap
               /\ UNCHANGED rejected
          ELSE BailOut(done.cmd, done.heap)
  /\ UNCHANGED <<plan, made, connected, pending, item, sent, got>>

\* A libcouchbase command as libcouchbase reads it.
AsRead(lcb, h) ==
  [lcb EXCEPT !.key = Read(h, @), !.hashkey = Read(h, @), !.bytes = Read(h, @),
              !.path = Read(h, @), !.content_type = Read(h, @), !.body = Read(h, @)]

\* EndureCommand::execute.
PollOptions(global) ==
  [check_delete |-> global.is_delete.v, persist_to |-> global.persist_to.v,
   replicate_to |-> global.replicate_to.v,
   cap_max |-> global.persist_to.v < 1 \/ global.replicate_to.v < 1]

NoPoll == [check_delete |-> FALSE, persist_to |-> 0, replicate_to |-> 0, cap_max |-> FALSE]

\* What the handler of a get makes of an item, for a cookie with these options.
Returned(key, options) ==
  LET i == item[key]
  IN Decode(i.bytes, IF key \in DOMAIN options THEN options[key] ELSE i.flags)

\* The execute of a Command, the end of it, and (external) what the cluster does.
Execute(c) ==
  LET list == [i \in DOMAIN GetList(c, heap) |-> AsRead(GetList(c, heap)[i], heap)]
      keys == [i \in DOMAIN list |-> list[i].key]
      stored(k) == list[CHOOSE i \in DOMAIN list :
                          keys[i] = k /\ \A j \in DOMAIN list : keys[j] = k => j <= i]
  IN /\ sent' = Append(sent, [number |-> c.number, list |-> list, err |-> c.err,
                              poll |-> IF c.call.kind = "endure" THEN PollOptions(c.global)
                                                                 ELSE NoPoll])
     /\ heap' = Free(heap, Owned(c))
     /\ item' = IF c.call.kind = "store"
                  THEN [k \in DOMAIN item \cup Range(keys) |->
                          IF k \in Range(keys)
                            THEN [bytes |-> stored(k).bytes, flags |-> stored(k).flags]
                            ELSE item[k]]
                  ELSE item
     /\ got' = IF c.call.kind \in {"get", "lock"}
                 THEN got \cup {[number |-> c.number, key |-> k, value |-> Returned(k, c.cookie)]
                                : k \in Range(keys) \cap DOMAIN item}
                 ELSE got

\* createCookie: the options of the keys go to the cookie.
WithCookie(c) == [c EXCEPT !.cookie = c.keyOptions]

\* makeOperation on a connected handle.
ExecuteNow ==
  /\ Processed /\ connected
  /\ Execute(WithCookie(cmd))
  /\ cmd' = NoCommand
  /\ UNCHANGED <<plan, made, connected, pending, rejected>>

\* makeOperation before the handle is connected: makePersistent copies the
\* Command, and the original goes with the stack.  Of the copy, only what
\* execute needs is used again.
Enqueue ==
  /\ Processed /\ ~connected
  /\ LET original == [cmd EXCEPT !.bufs = MovedFrom(@), !.list = ListMovedFrom(@)]
         copy == [WithCookie(cmd) EXCEPT !.at = "copy", !.list = CopyList(@),
                                         !.keyOptions = <<>>, !.hashkey = EmptySlot("hashkey")]
     IN /\ pending' = Append(pending, copy)
        /\ heap' = Free(heap, Owned(original))
  /\ cmd' = NoCommand
  /\ UNCHANGED <<plan, made, connected, item, sent, rejected, got>>

\* The configuration arrives, ...
Connect ==
  /\ InLoop /\ ~connected
  /\ connected' = TRUE
  /\ UNCHANGED <<plan, made, cmd, pending, heap, item, sent, rejected, got>>

\* ... and runScheduledOperations executes and deletes what is in the queue.
RunNext ==
  /\ InLoop /\ connected /\ pending # <<>>
  /\ Execute(Head(pending))
  /\ pending' = Tail(pending)
  /\ UNCHANGED <<plan, made, connected, cmd, rejected>>

Init ==
  /\ plan \in Plans /\ made = 0
  /\ connected = FALSE /\ cmd = NoCommand /\ pending = <<>>
  /\ heap = EmptyHeap /\ item = <<>>
  /\ sent = <<>> /\ rejected = {} /\ got = {}

Next == MakeCall \/ ProcessKey \/ ExecuteNow \/ Enqueue \/ Connect \/ RunNext

Spec == Init /\ [][Next]_vars

-----------------------------------------------------------------------------
(* What a call asks for, read off its arguments alone. *)

Given(dict, name) == name \in Properties(dict) /\ ~SetsFalse(dict.f[name])

\* Where option `name` of key i comes from: the key has it, else the call,
\* whose options are for all keys (couchbase.js:745-750), else nobody.
OfKey(call, i, name) == Given(call.params[i], name) /\ call.kind # "http"
Giver(call, i, name) ==
  CASE OfKey(call, i, name) -> call.params[i]
    [] OTHER -> IF Given(call.options, name) THEN call.options ELSE None

\* But not all options of the call are heeded for a key that does not have
\* them: those of a store are expiry and format only, a key of a remove or a
\* touch that comes with an object has nothing but that, and unlock and endure
\* never look at the call for a cas.
Ignored(call, i, name) ==
  CASE call.kind = "store" -> name \notin {"expiry", "format"}
    [] call.kind \in {"remove", "touch"} -> call.params[i] # None
    [] OTHER -> call.kind \in {"unlock", "endure"}

Heeded(call, i, name) ==
  IF Ignored(call, i, name) /\ ~OfKey(call, i, name) THEN None ELSE Giver(call, i, name)

Number(giver, name) == IF giver # None THEN giver.f[name].n ELSE 0

Wants(call, i, name) == Heeded(call, i, name) # None
Wanted(call, i, name) == Number(Heeded(call, i, name), name)

\* The options that are to become fields of a libcouchbase command.  The expiry
\* of a get is the item's new expiration time, that of a lock its duration
\* (couchbase.js:394-396, 453-458).
FieldOptions ==
  [get |-> [exptime |-> "expiry"], lock |-> [exptime |-> "expiry"],
   store |-> [cas |-> "cas", exptime |-> "expiry"],
   arithmetic |-> [delta |-> "offset", initial |-> "initial", exptime |-> "expiry"],
   remove |-> [cas |-> "cas"], unlock |-> [cas |-> "cas"], endure |-> [cas |-> "cas"],
   touch |-> [exptime |-> "expiry"], http |-> [method |-> "method"],
   observe |-> <<>>, stats |-> <<>>]

\* And those that do: of a get and a lock it is locktime, never expiry.
Written == [FieldOptions EXCEPT !.get.exptime = "locktime", !.lock.exptime = "locktime"]

As(name, n) == IF OptionType[name] = "cas" THEN n ELSE Narrow(OptionType[name], n)

Call(s) == plan[s.number]

\* The format a key is to be stored or returned in.
FormatOf(call, i) ==
  ToSpec(IF "format" \in Properties(call.params[i]) THEN call.params[i].f.format
         ELSE IF "format" \in Properties(call.options) THEN call.options.f.format
         ELSE None)

-----------------------------------------------------------------------------
(* Properties. *)

Commands == ({cmd} \ {NoCommand}) \cup Range(pending)

\* The types of the variables, as far as the checks tell them apart.
TypeOK ==
  /\ made \in 0..Len(plan) /\ connected \in BOOLEAN
  /\ \A c \in Commands : /\ c.call \in Range(plan) /\ c.list.ncmds \in Nat
                          /\ c.list.points \in {c.at, "array"}
                          /\ c.bufs.blocks \subseteq Nat /\ c.bufs.used \in Nat
  /\ DOMAIN heap.mem \subseteq 1..heap.last
  /\ rejected \subseteq 1..made
  /\ \A i \in DOMAIN sent : sent[i].number \in 1..made

\* Each option reaches libcouchbase as the key gives it, else as the call
\* does, else as its default, except for those that the code never hands on:
\* the Ignored ones of the call, and the expiry of a get or a lock, in whose
\* place is locktime (Written).  No key gets another key's options, whether the
\* Command is executed at once or as a copy, later (commands.cc).
OptionsHonoured ==
  \A x \in DOMAIN sent :
    LET s == sent[x]
        call == Call(s)
        kind == call.kind
        field == Written[kind]
    IN /\ Len(s.list) = Len(call.keys)
       /\ \A i \in DOMAIN s.list :
            /\ \A f \in DOMAIN field : s.list[i][f] = As(field[f], Wanted(call, i, field[f]))
            /\ kind = "get" => s.list[i].lock = IF Wants(call, i, "locktime") THEN 1 ELSE 0
            /\ kind = "lock" => s.list[i].lock = 1
            /\ kind = "arithmetic" =>
                 s.list[i].create = IF Wants(call, i, "initial") THEN 1 ELSE 0
            /\ kind = "store" /\ Wants(call, i, "flags") =>
                 s.list[i].flags = Wanted(call, i, "flags")
       /\ kind = "endure" =>
            LET node(name) == IF Given(call.options, name) THEN call.options.f[name].n ELSE 0
            IN s.poll = [check_delete |-> /\ "is_delete" \in Properties(call.options)
                                          /\ ~IsFalsy(call.options.f.is_delete),
                         persist_to |-> node("persist_to"),
                         replicate_to |-> node("replicate_to"),
                         cap_max |-> node("persist_to") < 1 \/ node("replicate_to") < 1]

\* A number is handed over as it is or its call is rejected, except that the
\* check of options.h:78-83 does not see a negative number become a large one
\* in a 64-bit unsigned option.
NumbersArrive ==
  \A x \in DOMAIN sent :
    LET call == Call(sent[x])
        field == Written[call.kind]
    IN \A i \in DOMAIN sent[x].list : \A f \in DOMAIN field :
         LET n == Wanted(call, i, field[f])
         IN sent[x].list[i][f] = n \/ (OptionType[field[f]] = "uint64" /\ n < 0)

\* libcouchbase reads the keys, hash keys, values and paths that the
\* application passed, though it may do so long after the call, out of memory
\* shared by all strings of a Command and handed on to its copy.
TextIntact ==
  \A x \in DOMAIN sent :
    LET call == Call(sent[x])
        hash(i) == IF Given(call.params[i], "hashkey") THEN AsText(call.params[i].f.hashkey)
                   ELSE IF Given(call.options, "hashkey") THEN AsText(call.options.f.hashkey)
                   ELSE EmptyText
        part(name) == IF Given(call.options, name) THEN AsText(call.options.f[name])
                                                   ELSE EmptyText
    IN \A i \in DOMAIN sent[x].list :
         LET lcb == sent[x].list[i]
         IN IF call.kind = "http"
              THEN /\ lcb.path = part("path") /\ lcb.body = part("data")
                   /\ lcb.content_type = part("content_type")
              ELSE /\ lcb.key = AsText(call.keys[i])
                   /\ call.kind # "stats" => lcb.hashkey = hash(i)
                   /\ call.kind = "store" /\ lcb.bytes # EmptyText =>
                        lcb.bytes.of = call.params[i].f.value
                   /\ call.kind = "store" /\ lcb.bytes = EmptyText =>
                        call.params[i].f.value = EmptyText

\* Every block of memory belongs to exactly one Command that is alive: none is
\* freed twice or under its owner, and none is left when all are gone, however
\* a call ends.
OneOwner ==
  /\ \A b \in DOMAIN heap.mem : \E c \in Commands : b \in Owned(c)
  /\ \A c \in Commands : Owned(c) \subseteq DOMAIN heap.mem
  /\ \A c, d \in Commands : c # d => Owned(c) \cap Owned(d) = {}

\* The pointers in the libcouchbase commands of a Command, and the promise of
\* its BufferList about them.
Pointers(c) ==
  LET list == GetList(c, heap)
  IN (UNION {{list[i].key, list[i].hashkey, list[i].bytes, list[i].path,
              list[i].body, list[i].content_type} : i \in DOMAIN list}) \ {NULL, StaticEmpty}

BuffersSound ==
  \A c \in Commands :
    ListSound(c.bufs, [b \in DOMAIN heap.mem |-> Len(heap.mem[b])], Pointers(c))

\* A call for which an error was recorded on the way reaches the cluster only
\* if it is a get whose unknown format toSpec complained of: HandleGet goes on.
ErrorsReject ==
  \A x \in DOMAIN sent :
    sent[x].err => /\ Call(sent[x]).kind \in {"get", "lock"}
                   /\ \E i \in DOMAIN Call(sent[x]).keys :
                        FormatOf(Call(sent[x]), i) = INVALID

\* The form in which a value comes back that was stored in a format.
InForm(v, spec) ==
  CASE spec \in {AUTO, UTF8} -> v
    [] spec = JSON -> FromJson(v)
    [] spec = RAW -> IF v.t = "Buffer" THEN v ELSE Value("Buffer", v.n, v.s)

\* s is the last store of a key that the application asked for before call
\* `number` and that was sent, and gives it place i, or the last of its places.
LastStore(s, key, i, number) ==
  LET stores(z) == Call(z).kind = "store" /\ z.number < number
      places(z) == {j \in DOMAIN Call(z).keys : AsText(Call(z).keys[j]) = key}
  IN /\ stores(s) /\ i \in places(s) /\ \A j \in places(s) : j <= i
     /\ \A z \in Range(sent) : stores(z) /\ places(z) # {} => z.number <= s.number

\* A get returns what the application stored last under its key, in the order
\* of its calls and though they may have waited in the queue, if it is read in
\* the format it was encoded in.  That is the one the get asks for, whatever the
\* flags say, which the Command and its cookie carry to the answer; or, if it
\* asks for none, the one the flags tell, unless the store sets other flags.
StoredComesBack ==
  \A g \in got : \A s \in Range(sent) :
    \A i \in DOMAIN Call(s).keys :
      LET spec == FormatOf(Call(s), i)
          get == Call(g)
          asked == {FormatOf(get, j) : j \in {j \in DOMAIN get.keys : AsText(get.keys[j]) = g.key}}
      IN /\ LastStore(s, g.key, i, g.number)
         /\ asked \subseteq {AUTO, spec}
         /\ Given(Call(s).params[i], "flags") => spec \in asked \ {AUTO}
         => g.value = InForm(Call(s).params[i].f.value, spec)

\* couchbase.js:745-750 says that the options of a call affect all its keys
\* unless they conflict with a key's own, 394-396 that an expiry makes a get a
\* get-and-touch, and 453-458 that it is the duration of a lock.  So once all
\* calls are through, each has been given what the documents say.
OptionsAsDocumented ==
  InLoop /\ pending = <<>> /\ made = Len(plan) /\ rejected = {} =>
    \A x \in DOMAIN sent :
      LET call == Call(sent[x])
          field == FieldOptions[call.kind]
      IN \A i \in DOMAIN sent[x].list :
           /\ Giver(call, i, "locktime") = None =>
                \A f \in DOMAIN field :
                  sent[x].list[i][f] = Number(Giver(call, i, field[f]), field[f])
           /\ call.kind = "store" /\ Giver(call, i, "flags") # None =>
                sent[x].list[i].flags = Number(Giver(call, i, "flags"), "flags")
=============================================================================
