# A verification project for couchnode

couchnode is the node.js client of Couchbase: JavaScript (`lib/`) over a C++
addon (`src/`) over the C library libcouchbase.  This directory holds TLA+
modules that model it, configurations with which TLC checks them on small
instances, and proofs that TLAPS checks.

    tlasany M.tla                       # parse a module
    tlc -config X.cfg M                 # model-check (see "Runs")
    tlapm M.tla                         # check the proofs of a module

## 1. The system

### Components

| Component | State it keeps | Operations | What is hard about it |
|---|---|---|---|
| Connection handle, `couchbase_impl.cc` | `connected`, `isShutdown`, the handlers in `events`, the queue `pendingCommands`, the libcouchbase `instance` | `New`, `on`, `_connect`, `onConfig`, `onConnect`, `errorCallback`, `makeOperation` (behind 15 entry points), `runScheduledOperations`, `shutdown` and the idle callback after it | callbacks of the application run in the middle of native functions and call back in; three ways to leave the connecting state; the instance is swapped under a loop that uses it |
| Cookies, `cookie.cc` | per operation: how many responses remain, whether one failed or it was cancelled, the results so far, the callback | `markProgress`, `cancel`, `update`, `invoke`; libcouchbase's callbacks | a cookie deletes itself; libcouchbase, the queue and the call stack hold raw pointers to it |
| Commands, `commandbase.cc`, `commands.cc` | arguments, keys, the libcouchbase structures, the cookie | `initialize`, `process`, `createCookie`, `makePersistent`, `execute` | a command on the stack is copied when it is queued, and the copy must stand for it |
| Lists, `commandlist.h`, `buflist.h` | arrays and blocks of memory | `initialize`, `getAt`, `getBuffer` | boundaries; pointers that must survive a move |
| Options, `options.cc`, `commandoptions.h` | parsed parameters | `parseValue`, `parseAll`, `merge` | precedence, narrowing of numbers |
| Value formats, `valueformat.cc` | none | `toSpec`, `encode`, `decode` | flags that do not match the bytes |
| CAS, control, constants, names, errors, logging | next to none | conversions | little |
| Connection, `couchbase.js` | the handle, default options | operations on one and on many keys, durability requirements | two native operations behind one callback |
| HTTP and design documents, `http.js` | none | `makeRestHandler`, `view`, design documents | errors at three levels: transport, HTTP, body |
| View queries, `viewQuery.js` | the keys of the current page and of those before | `query`, `firstPage`, `next`, `prev` | overlapping calls, empty pages, keys that are null or falsy, keys put into a query as they are |

### Interaction

An entry point such as `setMulti` builds a `Command` from its arguments
(`initialize`, `process`), which creates a `Cookie`.  If the handle is connected
the command is executed at once: its structures and the address of its cookie go
to libcouchbase.  Otherwise a copy is queued until libcouchbase delivers its
first configuration and `onConfig` runs the queue.  libcouchbase answers key by
key, from the event loop; each answer comes back with the cookie's address, and
the cookie calls the application once per key ("single") or once when nothing
remains ("spooled"), and deletes itself.  If libcouchbase refuses a command, the
cookie is cancelled, which calls the application before the entry point returns.

All of this is one thread.  What makes it hard is that `node::MakeCallback` runs
application code in the middle of native functions, and that code may start
operations, register handlers or shut the handle down.

### What makes each component correct

* Cookie: it is alive whenever someone uses it; its callback hears the whole
  answer, and nothing after the last part of it; the error it is given says
  whether a key failed; it is deleted in the end.
* Handle: one call of the connect handler, before any operation runs; operations
  reach libcouchbase in order; nothing reaches the cluster after shutdown; every
  operation is answered in the end.
* The handle's life: it outlives its operations, its instances are destroyed
  once, and whoever waits to be connected is told once.
* Command: the queued copy does what the original would have done; every option
  arrives at its key, every text as it was given, every number as it was or not
  at all.
* Lists: no two strings share memory, no pointer dangles, nothing is freed twice.
* Formats: what is stored comes back.
* Durability: success means every key was stored and met the requirement.
* HTTP and views: the callback is called once, with an error if there was one;
  walking the pages forth and back shows every row once.  The code keeps the last
  only for rows that have ids and keys it can go on from (`pager_walk`).

The hazards, with their lines, are in `PROJECT.json`.

## 2. Plan

In the order in which they were written, the most important behaviour first:

1. `Couchnode`: handle, queue, cookies and libcouchbase together, for they
   share the hard behaviour; its inductive invariant `CouchnodeInv`; the proofs
   `CouchnodeInvProofs` and `CouchnodeQueueProofs`.
2. `DurableOps`: storing and then polling for durability, one key and many;
   the proofs `DurableProofs`.
3. `ViewPager`: HTTP answers and walks over view pages, with overlapping calls;
   the proofs `ViewPagerProofs`.
4. `OpService`: what an operation promises the application, and
   `CouchnodeService`, by which `Couchnode` implements it; the proofs
   `CouchnodeAnswerProofs`.
5. `BufferList`, `Options`, `ValueFormat`, and `Commands`, which composes them:
   from the arguments of a call to the memory libcouchbase reads, and back; the
   proofs `BufferProofs` and `CommandsProofs`.
6. `Handles`: the life of the handle from its constructor to the garbage
   collector, with its instances; the proofs `HandlesProofs`.

How they hang together:

    OpService <- CouchnodeService -> Couchnode <- CouchnodeInv <- ...Proofs
    CommandsProofs -> Commands -> BufferList <- BufferProofs <- CommandsProofs
    Commands -> ValueFormat -> Options
    Handles <- HandlesProofs    DurableOps <- DurableProofs
    ViewPager <- ViewPagerProofs

The proofs about `Couchnode` build on each other: `CouchnodeInvProofs`,
`CouchnodeQueueProofs`, and `CouchnodeAnswerProofs`, which takes in
`CouchnodeService`.

`Couchnode`, `Commands` and `Handles` are three views of the same functions:
`makeOperation` starts an operation with a callback in the first, turns arguments
into a libcouchbase command in the second, and keeps the handle alive in the
third.  Their product is out of TLC's reach, and their hazards are apart: the
callbacks of operations see neither options nor memory, and memory is freed
neither by callbacks nor by the garbage collector.

Every invariant and every safety property of a step that the runs check is a
theorem now, and so is the safety half of every liveness property.  Worth doing next: the merging of parameters in `couchbase.js` and
`viewQuery.js`.

## 3. `Couchnode`: how it corresponds to the code

**The call stack.**  `stack` holds a frame for each native function that has
called the application, and for the application's callback.  A step belongs to
the frame on top, or to the event loop when the stack is empty.  That gives
exactly the interleavings of the program: any operation inside any callback, to
any depth the number of operations allows, and nothing else.  The frames:

| Frame | Who runs |
|---|---|
| `bailOut` | the callback of an operation with wrong arguments |
| `progress` | a callback called by `Cookie::markProgress`, which will look at `remaining` when it returns |
| `final` | the callback called by `StatsCookie::invoke`, `HttpCookie::update` or `ObserveCookie::update`, which then delete the cookie |
| `connectCb`, `errorCb`, `errorEvent` | the handler of "connect", called with or without an error, and that of "error" |
| `cancel` | `Cookie::cancel` with the keys still to go |
| `runScheduled` | `runScheduledOperations` under `onConfig`; its operation is the front of the queue while that is being cancelled |
| `destroy` | `lcb_destroy` under `libuv_shutdown_cb` |

**Actions** are named after the functions.  A function that calls out is split
there, and only there: `ConfigArrives`, `ReturnConnect`, `RunNext`,
`RunNextFail`, `RunPop`, `RunDone` are `onConfig`; `CancelKey`,
`ReturnProgress`, `CancelDone` are `Cookie::cancel` with `markProgress`.

**Abstractions.**  A key is a number, a response is its key and whether it
succeeded.  An operation has a *shape*: its kind (`plain` for get, store, remove,
touch, arithmetic, unlock and endure, which share `markProgress`; `observe`;
`stats`; `http`), its callback mode and its number of keys.  Keys of one call are
distinct.  `heard`, `failed`, `viaQueue`, `handed`, `connectCalls` and `misused`
are history: the first two record what the application was told and what
happened; `misused` collects operations whose cookie was touched when it was not
alive, so that a use after delete is a state and not an end of the model.

**libcouchbase** is not part of the repository.  Assumed of it: it reports a
configuration or gives up; it takes all commands of a call or refuses them all;
it answers each key once and ends observe and stats with a reply without a key;
an instance that was never connected refuses everything; `lcb_destroy` either
fails what is in flight (`DestroyPurges`) or forgets it.  Both are checked.

## 4. `DurableOps`: how it corresponds to the code

With `persist_to` or `replicate_to`, `set`, `remove` and their multi forms put
`_interceptEndure` between the native operation and the application's callback
(`couchbase.js:168-345`, `697-709`).  Each key of a call walks through `stage`:

    sent -> changed | refused -> stored | failed            the operation
                                 stored -> polling -> met | unmet   the poll

`Change` is the cluster, `Answer` the interceptor called with a result,
`PollAnswer` the callback of the poll.  A spooled call moves on when its last key
is answered; any other moves key by key.  What the interceptor decides
in one go (drop the failed keys, start the poll, or answer at once) is one step:
`InterceptSpooled` and `InterceptOne`.

**Abstractions.**  The CAS of an item is the call that changed it last
(`item[k].by`): CAS values are unique per change, and the model compares them only
for equality.  Whether the change has reached enough nodes is one flag.  The form
of a call is whether it is multi, spooled, and a removal.  `PolledKey` is the key the
interceptor asks about, the key "null" included; `ChecksDelete` the
`check_delete` it asks with.

**The cluster** is not part of the repository.  Assumed of it: a poll succeeds
only if the item has the CAS asked for, exists or not as `check_delete` says, and
is durable; it fails if that can no longer be, or after a timeout, which can
happen at any time.  A native operation answers as `Couchnode` says it does.

## 5. `ViewPager`: how it corresponds to the code

`firstPage` asks for the first page, and its callback gets the `Paginator`;
`next` and `prev` ask for others (`viewQuery.js`).  `prevkey`, `nextkey` and
`prevpages` are the paginator's.  A page is requested with one row more than it
shows, and that row is where the next one starts.  `prev` pops the stack when it
is called, and clears `prevkey` when it is answered, before `_paginate` looks at
it; so `Pushed` depends on which of the two asked.

`Answer` is `makeRestHandler` (`http.js:11-63`) with the callback it
calls: `Heard`, `HeardError` and `Throws` say for each kind of reply whether that
callback is called, whether it is given an error, and whether the handler throws.  A
handler that throws ends the model (`crashed`), as an uncaught exception ends a
node process.

The three places where the code looks at a key do not agree, and each is modelled
by itself:

* `HasNext` (`viewQuery.js:222`) compares with null: the only rows that make
  `hasNext()` false are those whose key is null.
* `GoesOn` (231) wants a key and an id that are true: `next()` also stops at 0,
  false, the empty string and, whatever the key, at a row without an id.
* `Named` (198) compares both with null: a page whose first row has a null key or
  no id is not pushed.

`From` is the row the server answers from.  `next` and `prev` put the key into
`startkey` as it is (231-235, 265-267), without the `JSON.stringify` of
`normalizeQuery` (290-297), so that only a key that reads the same as JSON, as
numbers and booleans do, names its own row.

**Abstractions.**  A row is its place in the order of the view, and `keys` says
what the rows' keys are like: which are null, which are 0, false or the empty
string, whether rows have ids, and in `starts` from which place the server answers
when a row's key is sent as it is, or that it refuses (`Refused`).  It is chosen
once, from `Views`.  The server returns the first `Limit + 1` rows from there, as
of the time it answers.  A request has a caller, a start and a kind, and
requests are answered in any order.  The limit is that of the query: one given to
`firstPage` alone is left out (hazard at `viewQuery.js:125`).  `page`, `steady`,
`trail`, `halt`, `failed` and `overlapped` are history: `steady` are the rows that
have been there since the current page was shown, `trail` the first rows of the
pages that lead to the current one, `halt` the row at which the walk broke off,
`overlapped` whether two requests were ever under way at a time.

## 6. `Commands`, `BufferList`, `Options`, `ValueFormat`

A run of `Commands` makes the calls of a *plan*, one after the other.  The steps
are those of an entry point: `MakeCall` is `Command::initialize`, `ProcessKey`
one turn of the loop in `process` (`processSingle` and the `handleSingle` of the
class), and then `ExecuteNow`, or `Enqueue` before the handle is connected and
`RunNext` later.  `BailOut` is the way out of every error.  Only the queue lets
anything come between two steps of a call; the loop is cut into turns so that
each state between them is checked.

| Definition | Code |
|---|---|
| `OptionType`, `Parameters`, `KeyParameters` | the option structures of `commandoptions.h`, with the type of each slot |
| `ParseNumber`, `ParseCas`, `ParseCallback`, `ParseValue`, `ParseAll` | the `parseValue` functions and `ParamSlot::parseAll` |
| `Merge`, `OwnOrGlobal` | the three ways in which options of the call count for a key |
| `GetBuffer` by `OwnBlock`, `CurrentBlock`, `NextBlock` | `BufferList::getBuffer`, one operator for each place where it finds room |
| `MovedFrom`, `CopyList`, `ListMovedFrom` | the copy constructors of `BufferList` and `CommandList`, which move |
| `BackedString` | `getBufBackedString` with `handleBadString` |
| `HandleGet` ... `HandleHttp` | the `handleSingle` of each class |
| `ToSpec`, `AutoSpec`, `Encode`, `Decode` | the functions of `ValueFormat` |
| `WithFormat`, `WithCookie` | `setCookieKeyOption`, and `createCookie`, which gives the cookie what was set |
| `Returned` | `ResponseInfo` of a get, with the cookie's options of keys |

**Memory** is a function from blocks to cells, and a cell holds the text that
was written over it.  A text is read back only if all its cells still hold it and
its block is still allocated; so an overlap, a dangling pointer and a block freed
too early all show as `Garbage` in what libcouchbase reads, without a definition
of any of them.

**Abstractions.**  A JavaScript value is a type, a number and a name; a string is
a name and a length, bytes are a value and the way it was encoded.  Numbers are
integers of `Width32` and `Width64` bits, narrowed as the code does; there are no
fractions.  Keys are a sequence, each with its options if they came as an object.
A plan says what the application passed; getters that run application code while
options are read are left out, and so are the code of a storage operation and the
REST type, which nothing looks at.  Two calls crash or abort the process and are
kept out of the plans: a store without a value and a REST request without a path.

**The cluster** is external: it takes the Commands in the order in which they are
executed, and keeps what was stored last under each key.  So is V8: the options of
the keys are a map by the text of the key, with nothing inherited.

## 7. `Handles`: how it corresponds to the code

One connection: the constructor of `couchbase.js` (`Construct`, `OnConnect`,
`Connect` and the ways in which it fails), the handle it wraps (`New`,
`CreateFails`, `On`, `Start`, `Shutdown`), what libcouchbase and libuv do
(`ConfigArrives`, `ErrorArrives`, `Reply`, `IdleRuns`, and `Return...` when a
handler comes back), and `Collect`: V8 finds that nothing refers to the handle,
and its destructor runs.

`Reachable` says what V8 counts: the application's reference, the parent of a
live cookie (`OpAlive`), and handlers that refer to the connection, kept in
`events` or running.  The pointer that an instance has to its handle does not
count.  An operation is here only what its cookie keeps alive; a `leaked` one is
never answered and its cookie never deleted.

Where the program does what C++ does not define (a deleted handle is called, an
instance is destroyed twice, an instance that was never set is used), `misuse`
records it and the model ends (`alive`).  A destroyed instance that is still
in the middle of its own callback, "reentered", is recorded, and the model goes
on.

**Abstractions.**  The callback given to the constructor refers to the
connection, or does not, or is the default, which throws when it is given an
error, or is no function.  An operation's callback runs as a part of its step, for
its cookie keeps the handle until the callback has returned.  Errors come as often
as `MaxErrors` says.  What may fail is in `Faults`.

## 8. `OpService`: what is implemented

`OpService` says of an operation, as the documentation of `KeyCallback` and
`MultiCallback` does (`couchbase.js:363-386`, `712-735`): the callback is told once
of everything (`"all"`), or of each key (`"each"`), or, for an observe that is not
spooled, in one of the two ways, which only bounds how often (`"either"`: answered,
it is told once; cancelled, once per key; `couchbase.js:755-758` promises the
latter of every operation); it is given an error exactly
if, by then, a part of the operation has failed; the operation ends when there is
nothing left to tell, and after that nothing follows.  There are no cookies,
queues or stacks in it.  `CouchnodeService` maps `Couchnode` to it: `Asked` is what
the callback mode and the keys promise, `Stage` whether the cookie lives.  A step
of `Couchnode` that does not reach the application is a stutter.  `core` checks
that every behaviour of `Couchnode` is one of `OpService`
(`ImplementsService`).  An operation that is lost stays open, which
`OpService` allows: it has no fairness.  What is lost is the matter of
`EveryOpEnds`.

## 9. Runs

| Run | Checks | Bounds |
|---|---|---|
| `core` | all safety properties of `Couchnode`, its inductive invariant `Inductive`, and that it implements `OpService` | 2 operations, each of 6 shapes; 1 spontaneous error; all faults |
| `live` | `EveryOpEnds`, what is lost stays lost | 2 operations of 2 shapes; all faults; a libcouchbase that forgets |
| `lostkeys` | refutes "all keys have their results" | 1 operation, 1 or 2 keys; refusals only |
| `stranded` | refutes "queued until ... an unrecoverable error has taken place" | 1 operation, 1 error |
| `durable` | all properties of `DurableOps`, liveness included | 2 calls on the same 2 keys; single remove, spooled multi store, multi store answered key by key; all faults |
| `durable_multi` | refutes `NoFalseAlarm`, for `spooled: false` and for `removeMulti` | 2 calls, one of each form, on 1 key, no faults |
| `pager` | all properties of `ViewPager` | 3 views of up to 4 rows; limit 1; 5 calls, 2 at a time; 1 change of the view |
| `rest_errors` | refutes "if it is set, then the request failed" read backwards: its absence says that the response is ok | 1 request |
| `pager_walk` | refutes that `next` and `hasNext` navigate within the result set | 1 view of 5 rows with the keys "abc", "8", 9, 7 and null; one request at a time; no faults, no change |
| `commands` | all properties of `Commands` | 4378 plans of one call, of a store and a get, or of two of each under one key; at most 2 keys; blocks of 4 bytes; numbers of 3 and 4 bits |
| `options_documented` | refutes "a new expiration time for the item", "the duration of time the lock should be held for" and "affecting all key-value pairs" | 1 get, 1 lock and 1 store |
| `handles` | all properties of `Handles` | 1 connection, 2 operations, 2 errors, every callback and every fault |

Why the bounds are enough.

*`Couchnode`.*  A cookie is shared by nobody, so that two operations
meet only through the queue, the stack and the handle's flags; two are enough
for one to run inside a callback of the other, to be queued behind it, to
overtake it, and to be cut off by it.  Two keys distinguish "all", "some" and
"none".  The one shape with one key is there because the key lost in the queue
then leaves no trace in the count.  The second error can only do what the first
does on a connected handle.  The theorems hold without any of these bounds.

*`DurableOps`.*  Calls meet only at an item, where one overwrites the change of
the other; two calls do that in both orders.  Two keys let one fail, or be
overwritten, and the other not.  The two forms whose polls are wrong
(`PollsRight` says which) are refuted by `durable_multi`;
`ErrorHasCauseElsewhere` is about all others.

*`ViewPager`.*  With limit 1 every row begins a page, so that four rows make
four pages, and a walk can go to the third page, back, and on again.  The three
views have every kind of key: null, 7, 9 and "6" ascending (the first page begins
with null, and "6", read as 6, leads back); "abc", "2", 0 and null descending (one
that is refused, one that skips a row, one at which `next` stops, one at which
`hasNext` does); and a reduced view, without ids.  Two
pending requests overlap in every way that two callers can.  One change of
the view is enough to remove the row a page starts with, or to put one in front
of it.  The reply "null" is left to `rest_errors`, as its only effect is to end
the model as "broken" does, without the callback.

*`Commands`.*  Blocks of 4 bytes and strings of 0 to 5 give every case of
`getBuffer`: a string that fills the block but for one byte, one that fills it,
one that is as large as a block, one that is larger.  A call of two keys with a hash
key each takes four strings, which is more than a block holds.  With 3 and 4 bits,
8 and 9 overflow, -1 and -8 are the ends of the other side.  Two keys tell a
key's own options from those of the other and of the call; `MCCommands` lists
which options are given where, each with right, wrong and falsy values.  Options of
different names do not interact, so that they are varied for the class that
reads them.  A key is overwritten in another format, in the same bytes, or in a
call that is rejected.  No call stores a key twice, for the keys are those of an
object (`couchbase.js`); `ValuesComeBack` holds also if one did.

*`Handles`.*  Two operations let one be queued or leaked while the other is
answered; `HandlesProofs` does without the bound.  The second error comes on a
handle that is connected already.

Deadlock is not checked: an application that does nothing more is legitimate.

### What the properties say

`Couchnode`:

* `NoUseAfterDelete`, `CookieOutlivesUse`: no raw pointer to a cookie is used
  after the cookie has deleted itself, and holders find it alive in advance of
  using it.
* `WholeAnswer`, `ErrorIffFailure`, `EndIsFinal`: what the application has been
  told when an operation ends, and that nothing follows.
* `NoLeakedCookie`: a live cookie can still be reached, except in the two cases
  where the code loses it.
* `HandedInOrder`: operations are executed in the order of their start, except
  that those started during the run of the queue overtake it.
* `ConnectOnce`, `NothingAfterShutdown`: the handle's promises.
* `EveryOpEnds`, `LostForGood`: every operation ends, but for three exact and
  permanent exceptions: `Stranded` (the queue will never run), `CutShort` (a
  queued operation of several keys was refused), `Forgotten` (the instance was
  destroyed with it).

* `ImplementsService`: see section 8.

`DurableOps`:

* `SuccessMeansDurable`: a key is reported a success only if this call's own
  change of it was durable, whatever other calls do to the key.
* `ErrorHasCauseElsewhere`: a key is reported a failure only for a reason in the
  cluster, by all calls but those that poll for the wrong thing.
* `NoFalseAlarm`: no call reports a failure when nothing went wrong.  It is refuted,
  for both kinds of calls that poll for the wrong thing.
* `ErrorTellsOfFailure`: the error of a spooled call is there exactly if some
  result has one.
* `AnsweredOnce`, `EveryCallAnswered`: one call of the callback, or one per key,
  and all of them in the end.

`ViewPager`:

* `NoRowSkipped`: who asks for one page at a time sees on each next page only
  rows after those of the page before, and every row that was there all along,
  though the view changes and requests fail.  It is said of the pages for which
  the server reads the startkey as the key it was made of (`From(r) = r.start`).
* `EndIsEnd`: no next page means no more rows, except where a walk can break off:
  at a row whose key is null or otherwise falsy, that has no id, or whose key the
  server reads as another (`EndsTooSoon`), and then all that is missing is that row
  and what follows it.
* `PrevGoesBack`: `prev` returns to the page before.  Not gone back to are a page
  that begins with a null key or has no ids, and one whose `prev` failed or found
  nothing: the stack has lost it already, and the next `prev` leads to the one
  before that.  Both are in `trail`, and nothing else is lost.
* `WalkIsWhole`: calling `next` for as long as `hasNext` says so shows every row of a
  view that stays as it is.  It is refuted, and is what the exceptions of
  `NoRowSkipped` and `EndIsEnd` take from the application.

The three properties of a walk are about requests that do not overlap (`Serial`):
when two do, the paginator is wherever the last answer put it, and only
`AnsweredOnce` and `EveryCallAnswered` hold.

* `AnsweredOnce`, `EveryCallAnswered`: the callback of a call is called once,
  unless a handler throws.

`Commands`:

* `OptionsHonoured`: each option reaches libcouchbase as the key gives it, else as
  the call does, else as its default, and none as another key gives it.  `Wanted`
  reads that off the arguments without the slots, the merging and the copy it is
  compared with.  `Ignored` names the options of the call that the code drops, and
  `Written` has the lock time where a get and a lock should have their expiry.
* `OptionsAsDocumented`: the same without these two exceptions, as `couchbase.js`
  documents it.  It is refuted.
* `NumbersArrive`: a number arrives as it is, or its call is rejected, except for
  a negative one in a 64-bit unsigned option (`options.h:80` compares after both
  were cast).
* `TextIntact`: libcouchbase reads the texts that were passed, at once or later.
* `BuffersSound`, `OneOwner`: why that is so, in every state: no two pointers into a
  `BufferList` overlap, and each block belongs to one Command that lives.
* `ErrorsReject`: a call with an error is not executed, except a get with a format
  that is unknown, which goes on.
* `StoredComesBack`: a get returns what the application stored last under the key,
  in the order of its calls (`LastStore`), at once or from the queue, if it is read
  in the format it was encoded in: the one the get asks for under this key, through
  the Command, its copy and the cookie; or, if it asks for none and the store sets
  no flags of its own, the one the flags tell.

`Handles`:

* `OpsKeepHandle`: an operation has a handle until it is answered.
* `InstancesFreed`: instances are destroyed, and those in use are not.
* `MisuseHasCause`: undefined behaviour is reached in the four ways it names and
  in no other.
* `ToldOnce`, `CallbackCalled`: the application is told how connecting went, once,
  unless the handle was collected or shut down before.

The exceptions in these properties (`Serial`, `EndsTooSoon`, `PollsRight`, `Ignored`,
`Written`, `BareFailed`) are what the code does, not what a reader might wish of it;
each was found by a counterexample.  Where the documents promise otherwise, a
refuted property says so.

**Definitions named `Bad...`** are deliberate mistakes (a missing guard, an
off-by-one, a queue that is a stack).  Putting one in place of the definition it
is written above breaks the property `PROJECT.json` names with it, which shows
that the property watches that code.

### Fairness

`Couchnode`: callbacks return and native code goes on (`NativeSteps`);
libcouchbase answers what it has taken (`Replies`), which its operation timeouts
guarantee; the attempt to connect ends with a configuration or an error; an
active idle handle runs.  All are weak: each stays enabled until it happens.

`DurableOps`: weak fairness of `Cluster` as a whole.  Every step of it brings a
key further or makes a change durable, so that it comes to rest only when
every call is answered.  That a poll ends is libcouchbase's timeout for it.

`ViewPager`: weak fairness of `Answers`: requests are answered, if only by
libcouchbase's HTTP timeout.

`Handles`: the constructor and the handlers go on; the attempt to connect ends
with a configuration or an error; an active idle handle runs.  Nothing obliges the
garbage collector.

`Commands` states no fairness: its properties are all safety.

Nothing is assumed of the application, nor that an operation succeeds.

### What the refutations show

* `ResultsHaveAllKeys` (`couchbase.js:731-733`) fails because
  `Command::Command(Command&)` does not copy `keys`.  Three steps: an operation
  is queued, the configuration arrives, `execute` is refused.  The application
  gets a result for `undefined`; with two keys it gets nothing at all, ever.
* `QueueEndsWithConnection` (`couchbase.js:45-47`) fails because `errorCallback`
  sets `connected` and does not touch the queue, which only `onConfig` runs, and
  only if `connected` is not yet set.
* `NoFalseAlarm` fails twice in one trace.  For a multi call with
  `spooled: false`, `_multiHelper` passes `null` for the key and the interceptor
  polls for `endure_kv[key]`, the key "null" (`couchbase.js:247`); for `removeMulti`
  it passes `false` for `is_delete`, and the poll waits for the removed key to exist
  (`couchbase.js:708`).
* `OptionsAsDocumented` fails three times in one trace.  `GetCommand` writes the
  lock time whether or not there is one (`commands.cc:60-66`), so that neither the
  expiry of a get (`couchbase.js:394-396`) nor that of a lock (453-458) is used; and
  `StoreCommand` takes cas and flags from the key alone (`commands.cc:140`,
  `150-152`) although the options of the call affect all pairs (745-750).
* `WalkIsWhole` (`viewQuery.js:106-108`, `217`) fails twice in one trace.  From the
  page of "abc" the walk goes on to "8", which the server reads as the number 8, so
  that the rows of "8" and 9 are passed over; and after the row of 7 `hasNext` says
  that there is no next page, for the key of the last row is null.
* `ErrorIsTold` (`viewQuery.js:44-47`) fails because `makeRestHandler` makes an
  error of the HTTP status and does not use it.

## 10. Proofs

`CouchnodeInvProofs` proves `TypeCorrect`, `CookieInvCorrect`,
`NoUseAfterDeleteCorrect` and `CookieOutlivesUseCorrect`.  They hold for any number of operations, keys and
errors, any set of shapes and any set of faults.  Assumed are only
`BoundsAssumption`, `ShapesAssumption` and `FaultsAssumption`, which say what the
constants are.

`NoUseAfterDelete` is not inductive: a reply is harmless only if the cookie it
names is alive, a returning `markProgress` only if its caller will not use the
cookie it deletes.  `CouchnodeInv` states the missing facts:

* `Owed`: libcouchbase owes answers to live, uncancelled cookies only, and such
  a cookie's `remaining` is the number of keys it is owed.  So the last answer
  is the one that deletes it.
* `FramesHold`: what each frame may assume when it is on top again.  A `cancel`
  frame with keys left has a live cookie that counts at least as many.
* `FramesNest`: two frames of one cookie are `cancel` and one callback it has
  called, so that the deletion by the inner one happens under an outer one with
  no keys left.
* `LoopOutermost`: functions of the event loop are at the bottom of the stack,
  and a cancelled command is the front of the queue.
* `QueueWaits`: cookies in the queue are live and untouched, but for that front.
* `Unstarted`: an operation that was not started has left no trace.

The proof has one lemma per kind of step: calls (`PushKeeps`), returns
(`PopKeeps`, `ReturnKeeps`), a function of the event loop replaced by another
(`ReplaceKeeps`), answers (`DeliverKeeps`), one turn of `cancel`
(`CancelKeyKeeps`), starts (`TakenKeeps`, `ScheduleFailKeeps`), and the queue
(`RunNextKeeps`, `RunNextFailKeeps`, `RunPopKeeps`).  `FocusKeeps` says once what
all steps about a single operation share.

`CouchnodeQueueProofs` proves `ConnectOnceCorrect`, `HandedInOrderCorrect`,
`NoLeakedCookieCorrect`, and the action properties `NothingAfterShutdownCorrect`
and `LostForGoodCorrect`, from the same assumptions.  The invariants are those of
`CouchnodeInv` again, which `core` checks as parts of `Inductive`:

* `ConnectInv`: an instance that can still report the end of connecting has not
  reported it, and nothing was executed by a handle that is not connected.
* `HandedInv`: what went through the queue left it in order, what waits is
  younger than what left, and what did not go through the queue is younger than
  all that did.
* `KeptInv`: a Cookie that is alive waits in the queue, is owed answers, is in use
  on the stack, or is lost in one of the ways `CutShort` and `Forgotten` name; and
  a `cancel` frame has as many keys left as the Cookie counts, but for `LeftOver`.

The hard part is what a step does to operations other than its own: nothing,
though it may push and pop frames in the middle of theirs.  `SameFrames` and
`Untouched` say what "nothing" means, `StartOthers`, `DeliverOthers`, `RunOthers`
and `CookieOthers` that it is so, and each invariant then needs a lemma only for
the operation a step is about.

`CouchnodeAnswerProofs` proves `InductiveCorrect`, `WholeAnswerCorrect`,
`ErrorIffFailureCorrect`, `EndIsFinalCorrect` and `ImplementsServiceCorrect`, the
refinement of `OpService` for every value of the constants.  Their invariants are
`TallyInv` and `PartsInv`: what the callback heard, what the Cookie has noted and
what is still owed add up to the keys of the operation at every moment, in each of
the ways in which an answer can come (`ProgressTally`, `PlainTally`,
`CancelTally`, `FinalTally`).  `ServiceNext` maps every step of `Couchnode` to one
of `OpService` or to a stutter, with one lemma per step of the service
(`ServiceAsks`, `ServiceNotes`, `ServiceTells`, `ServiceEnds`).  It is proved for
`[Next]_vars` of the service as its module states it, without fairness, which
`OpService` has none of.

`AwaitedCorrect` is the safety half of `EveryOpEnds`: whenever the event loop has
control, an operation that has neither ended nor been lost in one of the three ways
is in flight in an instance that is ready, so that `Reply` is possible for it, or
in the queue of a handle that is created or connecting, so that `Connect` or
`ConfigArrives` is.  It follows from `NoLeakedCookie`'s invariant and `AwaitedInv`:
what is in flight has an instance that is ready, or whose lcb_destroy is on the
stack (`HasInstance`); an instance is not ready before the handle is connected,
for until then its configuration callback is set (`ReadyIsConnected`); and what has
no Cookie was answered by bailOut (`BailIsEnd`).

`DurableProofs` proves `DurableTypeCorrect` and `SuccessMeansDurableCorrect` for
any set of calls, any finite set of keys, and every form, the refuted ones
included: those report failures that are none, but never a success that is none.
Assumed is `DurableAssumption`: forms and faults are those of the code, and the
marks for "no call" and for the key "null" are not calls or keys of the
application.  `SuccessMeansDurable` is not inductive, for it says nothing of the
polls on the way.  `Grounded` adds that the item a poll can find durable is
recorded as durable for its last change; that a poll that has succeeded means that
for this call and this key; and that the item "null" was changed by nobody, so
that a poll for it cannot succeed with another key's CAS.  The proof has a
lemma for the answers (`CallSpooledTyped`, `AnswersKept`) and one per action.

`ErrorHasCauseElsewhereCorrect`, `ErrorTellsOfFailureCorrect` and
`AnsweredOnceCorrect` need a second layer, `AnswerInv`: `Blame` says that a call
that is refused, or whose poll cannot succeed, has its reason in the history of the
cluster already; `Answers` that what a callback was told is a function of the
stages of its keys (`Agree`), one way for a spooled call in each of its two phases
and another for a call answered key by key.  From the same invariants follows
`NobodyStuckCorrect`: a call has had its answers exactly if none of its keys can go
on.  `PollCanGo` is the point of it: what a poll finds is the item's last change,
which can still become durable, so that no poll waits for something that cannot
happen.

`ViewPagerProofs` proves `PagerTypeCorrect`, `PagerAnsweredOnceCorrect`,
`EndIsEndCorrect`, `PrevGoesBackCorrect` and the action property
`NoRowSkippedCorrect`, for views, limits and numbers of calls of any size and any
kinds of keys.  Assumed is `PagerAssumption`, which says what the constants
are.  Two lemmas say what the server and the paginator make of the rows:
`BatchIs` (a batch is a piece of the view without gaps, longer than the limit
unless it reaches the end) and `ShownIs` (what is shown of it, and that the row
left out is the first one after).  The inductive invariant is `PagerInv`:

* `RequestsInv`: requests belong to the calls made, one to each.
* `PagesInv`: while requests do not overlap, no row that has been there all along
  lies between the last one shown and `nextkey`, or `halt` if there is no `nextkey`;
  and a row in `halt` is one at which a walk may break off.
* `TrailInv`: while also no handler has thrown, the stack and the page in between
  are the way the application walked (`OnTrail`).  It has three forms, for before
  the first page, on a page, and while `prev`, which popped the stack already,
  waits for its answer.
* `Untouched`: without a paginator nothing was walked.

TLC checked `PagerInv` on the bounds of `pager` before it was proved.
`NobodyForgottenCorrect` is an induction of its own: a call is answered at once,
or makes a request, or the refused request makes its handler throw; and an answer
tells the call whose request it takes away, or its handler throws.

`BufferProofs` proves `GetBufferSound`, `WriteKeepsOthers`, `WrittenIsRead` and
`BuffersCorrect` for blocks of any size and strings of any length and number.
Assumed is `SizeAssumption`: a block has at least one byte.  `Requests` is a
Command that asks for one buffer after the other; `ListSound`, the conjunct of
`BuffersSound` for one Command, is inductive together with the types of the list,
the sizes and the pointers (`ListInv`).  The argument is `used`: every pointer
into the current block ends below it, and the next one begins there; pointers into
other blocks are untouched for ever.  Together with the two theorems about
writing and reading it says that every string of a Command reads as it was
written.  `PutTextIs` puts this together for one text and a whole heap: what was
given before reads as it did, other blocks are as they were, and the list owns
what is new.

`CommandsProofs` proves every property of `Commands` for any plans,
numbers of calls, keys and options, widths of numbers and size of a block:
`CommandsTypeCorrect`, `BlocksHaveOneOwner`, `StringsApart`, `OptionsArrive`,
`NumbersCorrect`, `TextsArrive`, `ErrorsStop` and `ValuesComeBack`.  Assumed are, besides
`SizeAssumption` and `WidthAssumption`,

* `PlansAssumption`: the calls of a plan are `Sensible`.  Values are of types that
  JavaScript has, the options come as objects, keys are given to HTTP and
  statistics as `couchbase.js` gives them, and a store has a value, a REST call a
  path, without which the program crashes or aborts;
* `PowersAssumption`: `2^w` is twice `2^(w - 1)`, which the provers do not know.

The argument goes up from the memory to the calls:

* *One step of writing.*  `Wrote` says what a string may change of a Command and
  of the heap; `Backed` what `getBufBackedString` returns, and `TextPut` why.
* *Numbers.*  `NumberIs`: a slot that was parsed without error holds the number
  that was given, or one too large for an unsigned 64-bit type that was below 0
  (`NarrowArrives`).  `MergedNumber`, `OwnNumber` and `GlobalNumber` are the three
  ways in which the classes combine a key's options with those of the call.
* *One key.*  `Outcome`: `processSingle` writes the command the call asks for at
  its place and no other, all strings given before are still there, and an error
  that does not end the call is a tolerated one.  One lemma per class of Command
  (`ArithmeticHandled` to `HttpHandled`), and `ProcessSingleIs` for the strings all
  of them have.
* *One Command.*  `Fine` adds that the keys before the next one have got their
  commands.  It is indifferent to all memory that is not the Command's
  (`FineElsewhere`), and what makes a copy, or moves its strings to it, keeps it
  (`CopyIs`, `CookieIs`).
* *All of them.*  `CommandsInv`: each Command that is alive is `Fine` and that of a
  call that was made; they share no block and leave none over (`Owners`); the
  copies wait in the order of their calls (`Waiting`), which tells them from each
  other; and all that was sent is `Sound`.  One lemma for each action, from
  `MakeCallInv` to `RunNextInv`.

`OneOwner` alone is not inductive: what a Command owns depends on its list, and a
`ProcessKey` that wrote a string into the block of another's list would leave it
true and the other call wrong.

`ValuesComeBack` needs a second layer, `BackInv`, on top of `CommandsInv`:

* `FormatsKept`: the options that a Command has noted so far are the formats its
  keys ask for (`AsAsked`): each is that of a key with this text, and no key that
  was processed and asks for one is without.  A copy that waits has them in its
  cookie.
* `InOrder`: what was sent is older than all that is still to be sent; a connected
  handle that is processing a call has nothing in its queue.  So "the last one
  executed" and "the last one the application asked for" are the same.
* `KeepsLatest`: the cluster has, under each key, the bytes and flags of the last
  place of that key in the last store of it that was sent.
* `GotBySent`: a value that was returned was returned to a call that was sent, which
  later stores cannot change.

What the bytes and flags are, `Sound`, the part of `CommandsInv` about what was
sent, says of every store, and `Returned` decodes them:
by the flags, which tell the format they were written in, or by the option of the
key, whatever the flags.  TLC checked `BackInv` on the bounds of `commands` before
it was proved.

`HandlesProofs` proves `HandlesTypeCorrect`, `OpsKeepHandleCorrect`,
`ToldOnceCorrect`, `MisuseHasCauseCorrect` and `InstancesFreedCorrect` for any
set of operations, callbacks and faults and any number of errors.  Assumed is
`HandlesAssumption`: callbacks and faults are those of the code.  None of the four
safety properties is inductive, for each rests on what the others leave out;
`HandleInv` is:

* `Kept`: whatever `Reachable` counts keeps the handle live: the application's
  reference, a handler, a callback that is running, and every Cookie; and what is
  in flight has an instance that is ready.
* `Told`: an instance that can still report the end of connecting has not been
  told of while the handle is not connected, and there is a handler to tell.
* `Owners`: which instance is whose.  The first one is the handle's until shutdown
  gives it to the idle handle, and if lcb_create fails then, it belongs to both,
  which is what `BareFailed` excepts.
* `Causes`: a handle that is gone was shut down, or was collected under a handler
  of its own, or took its instance with it.  So an instance that calls a handle
  that is gone (`"stale"`) has one of the causes `MisuseHasCause` gives.
* `Unborn`, `Fresh`, `Wild`: nothing happens before there is a handle, nobody but
  the constructor has it until it has connected, and an instance that was not set is
  never the application's.
* `Stacks`: callbacks of the event loop do not nest.

The proof has one lemma per action, which says what the action makes of each
variable, branch by branch, and derives `HandleInv` from that.
`StillToBeToldCorrect` adds `ToldInv`: who was not told yet is still in the
constructor, threw, is gone or shut down, or is connecting with nothing reported
so far; and a handle is never connected, nor a constructor refused, untold.

Only model-checked are:

* liveness, which is out of the prover's reach, as is `ENABLED`: `EveryOpEnds`,
  both `EveryCallAnswered`, `CallbackCalled`.  Their safety halves are proved
  (`AwaitedCorrect`, `NobodyStuckCorrect`, `NobodyForgottenCorrect`,
  `StillToBeToldCorrect`): nobody who waits is left without a step that is possible
  and leads to the answer.  What stays with TLC is that under the fairness stated
  these steps are taken and come to an end.  TLC checked each of the four, with
  the invariants it needs, on the bounds of the runs before it was proved;
* the refutations: a counterexample proves itself.

## 11. Not modelled

The conversion of CAS values, a pure one; `control.cc`, which passes options
through to libcouchbase; tables, formatting and logging; the merging of
parameters in JavaScript; `query` and `clone` of a view query; the requests for design documents, which keep no state; how
the answers of several servers to an observe are put together; and of V8, getters
that run while arguments are read, and what `GetRealNamedProperty` (`cookie.h:125`)
makes of a key that looks like the index of an array or has the name of an
inherited property.
