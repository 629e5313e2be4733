----------------------------- MODULE ViewPager -----------------------------
(***************************************************************************)
(* Walking over the rows of a view, page by page: ViewQuery.firstPage and  *)
(* the Paginator of viewQuery.js on top of makeRestHandler of http.js.     *)
(*                                                                         *)
(* A page is asked for with one row more than it shows; that row is where  *)
(* the next page starts.  Where the pages before the current one start is  *)
(* kept on a stack.  The view may change between two pages, requests may   *)
(* overlap and be answered in any order, and they may fail: a request may  *)
(* be refused, or its answer may be no JSON, JSON's null, an error, an     *)
(* error with some rows, or an HTTP status of failure whose body says      *)
(* nothing of an error.                                                    *)
(*                                                                         *)
(* A row is its place in the order of the view.  Of its key there is what  *)
(* the code tells apart: whether it is null or otherwise falsy, and what   *)
(* the server makes of it as a startkey, into which next() and prev() put  *)
(* it as it is, not as JSON.  The rows of a reduced view have no ids.  The *)
(* view itself is not part of the repository.                              *)
(***************************************************************************)
EXTENDS Integers, FiniteSets, FiniteSetsExt, SequencesExt

CONSTANTS
  MaxRow,      \* the places of the view
  Limit,       \* the query's limit
  Views,       \* what the keys of the view may be like
  Faults,      \* the kinds of failure in this instance, a subset of AllFaults
  MaxCalls,    \* bound: calls of the application
  MaxPending,  \* bound: requests under way at a time
  MaxChanges   \* bound: changes of the view

AllFaults == {"refused", "broken", "null", "error", "partial", "status"}

Rows == 1..MaxRow
NoRow == 0
Refused == 0
Calls == 1..MaxCalls

\* The rows whose key is null; those whose key is 0, false or the empty
\* string; whether rows have ids; and the row from which the server answers
\* if a row's key is put into startkey as it is: that row if the key reads
\* the same as JSON, as numbers do, another one, none (MaxRow + 1), or the
\* request is refused.
KeysOfViews == [null: SUBSET Rows, falsy: SUBSET Rows, ids: BOOLEAN,
                starts: [Rows -> 0..(MaxRow + 1)]]

ASSUME PagerAssumption ==
  /\ MaxRow \in Nat \ {0} /\ Limit \in Nat \ {0} /\ Views \subseteq KeysOfViews
  /\ Faults \subseteq AllFaults
  /\ MaxCalls \in Nat /\ MaxPending \in Nat /\ MaxChanges \in Nat

VARIABLES
  keys,        \* what the keys of the view are like; never changes
  rows,        \* the rows the view has now
  prevkey,     \* Paginator: the first row of the current page,
  nextkey,     \*   the first of the next one,
  prevpages,   \*   and the first of each page before the current one
  requests,    \* the requests under way: whose, from where, and for whom
  told,        \* the callback of each call: times called, and with an error?
  ncalls,      \* how many calls were made
  nchanges,    \* how often the view has changed
  crashed,     \* has a handler thrown an exception?
  page,        \* history: the last rows shown
  steady,      \* history: the rows the view has had ever since they were
  trail,       \* history: the first rows of the pages on the way to them
  halt,        \* history: the row at which the walk broke off, if it did
  failed,      \* history: the calls whose request has failed
  overlapped   \* history: have requests overlapped?

paginator == <<prevkey, nextkey, prevpages>>
walk == <<page, steady, trail, halt>>
vars == <<keys, rows, paginator, requests, told, ncalls, nchanges, crashed, walk, failed,
          overlapped>>

-----------------------------------------------------------------------------
(* Asking for a page. *)

Begin(n) == ~crashed /\ n = ncalls + 1 /\ ncalls' = n
MayAsk == Cardinality(requests) < MaxPending

\* ViewQuery._request.  A refused HttpCookie calls the handler without a
\* response, whose status the handler then reads.
Ask(n, fn, start) ==
  \/ /\ requests' = requests \cup {[call |-> n, fn |-> fn, start |-> start]}
     /\ overlapped' = (overlapped \/ requests # {})
     /\ UNCHANGED <<crashed, failed>>
  \/ /\ "refused" \in Faults
     /\ crashed' = TRUE
     /\ failed' = failed \cup {n}
     /\ UNCHANGED <<requests, overlapped>>

FirstPage(n) ==
  /\ Begin(n) /\ n = 1
  /\ Ask(n, "first", 1)
  /\ UNCHANGED <<keys, rows, paginator, told, nchanges, walk>>

\* The callback of firstPage is the one to be given the paginator.
HasPaginator == ncalls > 0 /\ told[1].calls > 0

\* A null key is as good as none.
HasNext == nextkey # NoRow /\ nextkey \notin keys.null

\* Has a row a key and an id, and are they such that next() goes on to it?
Named(k) == k # NoRow /\ k \notin keys.null /\ keys.ids
GoesOn(k) == Named(k) /\ k \notin keys.falsy

\* next() when there is a next page.
NextPage(n) ==
  /\ Begin(n) /\ HasPaginator /\ MayAsk
  /\ GoesOn(nextkey)
  /\ Ask(n, "next", nextkey)
  /\ UNCHANGED <<keys, rows, paginator, told, nchanges, walk>>

Called(n, err) == told' = [told EXCEPT ![n] = [calls |-> @.calls + 1, err |-> err]]

\* next() at the end, or what it takes for the end, answers with no rows
\* before it returns.
NextAtEnd(n) ==
  /\ Begin(n) /\ HasPaginator
  /\ ~GoesOn(nextkey)
  /\ nextkey' = NoRow
  /\ halt' = IF nextkey # NoRow THEN nextkey ELSE halt
  /\ Called(n, FALSE)
  /\ UNCHANGED <<keys, rows, prevkey, prevpages, requests, nchanges, crashed, page, steady,
                 trail, failed, overlapped>>

\* prev() takes the page from the stack at once, ...
PrevPage(n) ==
  /\ Begin(n) /\ HasPaginator /\ MayAsk
  /\ prevpages # <<>>
  /\ prevpages' = Front(prevpages)
  /\ Ask(n, "prev", Last(prevpages))
  /\ UNCHANGED <<keys, rows, prevkey, nextkey, told, nchanges, walk>>

\* ... and answers with no rows if there is none.
PrevAtStart(n) ==
  /\ Begin(n) /\ HasPaginator
  /\ prevpages = <<>>
  /\ Called(n, FALSE)
  /\ UNCHANGED <<keys, rows, paginator, requests, nchanges, crashed, walk, failed, overlapped>>

-----------------------------------------------------------------------------
(* Answers. *)

\* A page has as many rows as it shows.
BadBatch(start) ==
  {r \in rows : r >= start /\ Cardinality({q \in rows : start <= q /\ q <= r}) <= Limit}

\* The first row the server answers a request from.
From(r) == IF r.fn = "first" THEN r.start ELSE keys.starts[r.start]

\* The rows the server sends for a page: one more than it shows, if it can.
Batch(start) ==
  {r \in rows : r >= start /\ Cardinality({q \in rows : start <= q /\ q <= r}) <= Limit + 1}

\* A full batch is shown to its last row.
BadShown(batch) == batch

\* A batch that is longer than the limit has its last row popped.
Shown(batch) == IF Cardinality(batch) > Limit THEN batch \ {Max(batch)} ELSE batch

\* prev() does not unset prevkey.
BadPushed(fn, batch) ==
  IF fn # "first" /\ batch # {} /\ Named(prevkey) THEN Append(prevpages, prevkey) ELSE prevpages

\* It is not looked whether there is a current page.
BadPushedUnset(fn, batch) ==
  IF fn = "next" /\ batch # {} THEN Append(prevpages, prevkey) ELSE prevpages

\* The stack after an answer.  The callback of prev() has unset prevkey, so
\* that the page it comes from is not pushed; nor is one whose first row has
\* a null key or no id.
Pushed(fn, batch) ==
  IF fn = "next" /\ batch # {} /\ Named(prevkey)
    THEN Append(prevpages, prevkey) ELSE prevpages

\* The pages that can be gone back to from the next one, the current among
\* them if its first row has a key and an id.
WayBack == IF trail # <<>> /\ ~Named(Last(trail)) THEN Front(trail) ELSE trail

\* The trail after a prev(): without the page it left, and with the one it
\* has come to in place of the one before, if it has come to one.
TrailBack(k) == Append(SubSeq(trail, 1, Len(trail) - 2), k)

\* Paginator._paginate, and startPage for the first page, when there are
\* rows, and the walk as the application sees it.
Paginate(r, batch) ==
  /\ prevpages' = Pushed(r.fn, batch)
  /\ prevkey' = IF batch # {} THEN Min(batch) ELSE IF r.fn = "prev" THEN NoRow ELSE prevkey
  /\ nextkey' = IF Cardinality(batch) > Limit THEN Max(batch) ELSE NoRow
  /\ page' = IF batch # {} THEN Shown(batch) ELSE IF r.fn = "prev" THEN {} ELSE page
  /\ steady' = IF batch # {} THEN rows ELSE steady
  /\ trail' = IF r.fn = "prev" THEN TrailBack(IF batch # {} THEN Min(batch) ELSE NoRow)
              ELSE IF batch # {} THEN Append(WayBack, Min(batch)) ELSE trail
  /\ halt' = IF batch # {} THEN NoRow ELSE IF From(r) # r.start THEN r.start ELSE halt

\* What they do without rows.
PaginateNothing(r) ==
  /\ prevkey' = IF r.fn = "prev" THEN NoRow ELSE prevkey
  /\ trail' = IF r.fn = "prev" THEN TrailBack(NoRow) ELSE trail
  /\ UNCHANGED <<nextkey, prevpages, page, steady, halt>>

\* The callback is not called without rows or an error.
BadHeard(reply) == reply \notin {"null", "status"}

\* makeRestHandler: is its callback called, is it given an error, does it
\* throw?  Of a body that is no JSON it tells, and then it goes on with
\* `undefined`; an HTTP status of failure makes an error that is not used.
Heard(reply) == reply # "null"
HeardError(reply) == reply \in {"broken", "error", "partial"}
Throws(reply) == reply \in {"broken", "null"}

\* The callback is called for the errors and then for the rows.
BadTimesCalled(reply) == IF reply = "partial" THEN 2 ELSE IF Heard(reply) THEN 1 ELSE 0

TimesCalled(reply) == IF Heard(reply) THEN 1 ELSE 0

\* What a request may be answered with: an error if the server cannot read
\* its startkey.
Replies(r) ==
  (Faults \ IF From(r) = Refused THEN {"refused", "partial"} ELSE {"refused"}) \cup
  {IF From(r) = Refused THEN "error" ELSE "rows"}

\* A request is answered.
Answer(r, reply) ==
  /\ ~crashed /\ r \in requests
  /\ reply \in Replies(r)
  /\ requests' = requests \ {r}
  /\ told' = [told EXCEPT ![r.call] = [calls |-> @.calls + TimesCalled(reply),
                                       err |-> HeardError(reply)]]
  /\ failed' = IF reply = "rows" THEN failed ELSE failed \cup {r.call}
  /\ crashed' = Throws(reply)
  /\ IF reply \in {"rows", "partial"}
       THEN Paginate(r, Batch(From(r)))
       ELSE IF Heard(reply) THEN PaginateNothing(r) ELSE UNCHANGED <<paginator, walk>>
  /\ UNCHANGED <<keys, rows, ncalls, nchanges, overlapped>>

\* The view gets or loses a row.
ViewChanges(k) ==
  /\ ~crashed /\ nchanges < MaxChanges
  /\ nchanges' = nchanges + 1
  /\ \/ k \notin rows /\ rows' = rows \cup {k} /\ UNCHANGED steady
     \/ k \in rows /\ rows' = rows \ {k} /\ steady' = steady \ {k}
  /\ UNCHANGED <<keys, paginator, requests, told, ncalls, crashed, page, trail, halt, failed,
                 overlapped>>

-----------------------------------------------------------------------------

Init ==
  /\ keys \in Views /\ rows \in SUBSET Rows
  /\ prevkey = NoRow /\ nextkey = NoRow /\ prevpages = <<>>
  /\ requests = {}
  /\ told = [n \in Calls |-> [calls |-> 0, err |-> FALSE]]
  /\ ncalls = 0 /\ nchanges = 0 /\ crashed = FALSE
  /\ page = {} /\ steady = {} /\ trail = <<>> /\ halt = NoRow
  /\ failed = {} /\ overlapped = FALSE

Application ==
  \E n \in Calls :
    FirstPage(n) \/ NextPage(n) \/ NextAtEnd(n) \/ PrevPage(n) \/ PrevAtStart(n)

Answers == \E r \in requests, reply \in AllFaults \cup {"rows"} : Answer(r, reply)

Next == Application \/ Answers \/ \E k \in Rows : ViewChanges(k)

\* Every request is answered in the end.
Spec == Init /\ [][Next]_vars /\ WF_vars(Answers)

-----------------------------------------------------------------------------
(* Properties. *)

Serial == ~overlapped

\* Does the walk break off at a row although it is there?  It does if next()
\* takes the row for the end, or asks for another row in its place.
EndsTooSoon(k) == ~GoesOn(k) \/ keys.starts[k] # k

\* The type of every variable.
TypeOK ==
  /\ keys \in KeysOfViews /\ rows \subseteq Rows
  /\ prevkey \in Rows \cup {NoRow} /\ nextkey \in Rows \cup {NoRow}
  /\ prevpages \in Seq(Rows)
  /\ requests \subseteq [call: Calls, fn: {"first", "next", "prev"}, start: Rows]
  /\ told \in [Calls -> [calls: Nat, err: BOOLEAN]]
  /\ ncalls \in 0..MaxCalls /\ nchanges \in 0..MaxChanges
  /\ crashed \in BOOLEAN
  /\ page \subseteq Rows /\ steady \subseteq rows
  /\ trail \in Seq(Rows \cup {NoRow}) /\ halt \in Rows \cup {NoRow}
  /\ failed \subseteq Calls /\ overlapped \in BOOLEAN

\* Who walks one request at a time sees, on every next page, only rows after
\* those of the page before, and no row is passed over that was there all
\* along, whatever happens to the view, and after failures too; provided the
\* server reads the key of the page's first row as it is, which next() does
\* not see to.
NoRowSkipped ==
  [][\A r \in requests \ requests' :
       Serial /\ r.fn = "next" /\ From(r) = r.start /\ trail' # trail =>
         /\ \A k \in page' : k > Max(page)
         /\ \A k \in steady : k > Max(page) => k >= Min(page')]_vars

\* The walk ends too soon only at a row of which it must be feared: there is
\* no next page only if no row follows that was there when the current page
\* was shown, or only rows from the one on at which next() was to go on and
\* which has a falsy key, null included, no id, or a key the server reads as
\* another one.  Nothing is said of an empty page, to which prev() may come.
EndIsEnd ==
  Serial /\ ~HasNext /\ page # {} =>
    LET stop == IF nextkey # NoRow THEN nextkey ELSE halt
    IN  \A k \in steady :
          k > Max(page) => stop # NoRow /\ EndsTooSoon(stop) /\ k >= stop

\* prev() asks for the page before the current one, and finds none only at
\* the first, as long as requests do not overlap.  Two kinds of pages are not
\* gone back to: one whose first row has a null key or no id, and one whose
\* prev() has failed or found no rows, which is then taken for the current.
PrevGoesBack ==
  ~crashed /\ Serial =>
    /\ \A r \in requests : r.fn = "prev" => Len(trail) > 1 /\ r.start = trail[Len(trail) - 1]
    /\ requests = {} /\ prevpages = <<>> => Len(trail) <= 1

\* viewQuery.js:106-108 says that next() can be used to navigate within the
\* result set, and 217 that hasNext tells whether there is a next page.  So
\* who calls next() for as long as there is a next page, in a view that does
\* not change and never fails, is shown every row of it.
WalkIsWhole ==
  requests = {} /\ ~HasNext /\ rows = Rows /\ nchanges = 0 /\ failed = {} /\ page # {} =>
    \A k \in rows : \E i \in 1..Len(trail) : k \in Shown(Batch(trail[i]))

\* The callback of a call is called once at most, and not before its request
\* is answered.
AnsweredOnce ==
  \A n \in Calls :
    told[n].calls <= IF n > ncalls \/ \E r \in requests : r.call = n THEN 0 ELSE 1

\* Every call is answered, unless a handler throws an exception.
EveryCallAnswered == \A n \in Calls : (ncalls >= n) ~> (told[n].calls > 0 \/ crashed)

\* viewQuery.js:44-47 says of QueryCallback that its error is set if the
\* request has failed.
ErrorIsTold == \A n \in Calls : told[n].calls > 0 /\ n \in failed => told[n].err
=============================================================================
