-------------------------- MODULE ViewPagerProofs --------------------------
(***************************************************************************)
(* Proofs about ViewPager, for views, limits and numbers of calls of any   *)
(* size: what the batches of the server are and what the pages made of     *)
(* them show, an inductive invariant of the walk over the pages, and from  *)
(* it the safety and action properties of ViewPager.                       *)
(***************************************************************************)
EXTENDS ViewPager, FiniteSetTheorems, WellFoundedInduction, TLAPS

-----------------------------------------------------------------------------
(* Least and greatest rows. *)

\* A set of rows that is not empty has a least one, ...
LEMMA LeastOf ==
  ASSUME NEW S \in SUBSET Nat, S # {}
  PROVE  \E x \in S : \A y \in S : x <= y
<1> DEFINE R == {ss \in Nat \X Nat : ss[1] < ss[2]}
<1>1. R = OpToRel(<, Nat)
  BY Zenon DEF OpToRel
<1>2. IsWellFoundedOn(R, Nat)
  BY <1>1, NatLessThanWellFounded, Zenon
<1> HIDE DEF R
<1>3. PICK x \in S : \A y \in S : ~(<<y, x>> \in R)
  BY <1>2, WFMin
<1>4. \A y \in S : ~(y < x)
  BY <1>3 DEF R
<1> QED
  BY <1>4

\* ... which is Min, and a greatest one, which is Max.
LEMMA MinIs ==
  ASSUME NEW S \in SUBSET Rows, S # {}
  PROVE  Min(S) \in S /\ \A y \in S : Min(S) <= y
<1>1. S \in SUBSET Nat
  BY PagerAssumption DEF Rows
<1>2. \E x \in S : \A y \in S : x <= y
  BY <1>1, LeastOf
<1> QED
  BY <1>2 DEF Min

LEMMA MaxIs ==
  ASSUME NEW S \in SUBSET Rows, S # {}
  PROVE  Max(S) \in S /\ \A y \in S : y <= Max(S)
<1> DEFINE Mirror == {MaxRow - y : y \in S}
<1>1. \A y \in S : MaxRow \in Nat /\ y \in Nat /\ y <= MaxRow
  BY PagerAssumption DEF Rows
<1>2. Mirror \in SUBSET Nat /\ Mirror # {}
  BY <1>1
<1>3. PICK m \in Mirror : \A n \in Mirror : m <= n
  BY <1>2, LeastOf
<1>4. PICK x \in S : m = MaxRow - x
  BY <1>3
<1>5. \A y \in S : x >= y
  BY <1>1, <1>3, <1>4
<1> QED
  BY <1>1, <1>5 DEF Max

\* How many rows there are is a number.
LEMMA RowsFinite ==
  ASSUME NEW S \in SUBSET Rows
  PROVE  IsFiniteSet(S) /\ Cardinality(S) \in Nat
<1>1. IsFiniteSet(Rows)
  BY PagerAssumption, FS_Interval DEF Rows
<1> QED
  BY <1>1, FS_Subset, FS_CardinalityType

-----------------------------------------------------------------------------
(* Batches. *)

UpTo(start, r) == {q \in rows : start <= q /\ q <= r}

\* A batch is a piece of the view without gaps, that begins with the first
\* row from start on, and it is longer than the limit unless it reaches the end
\* of the view.
LEMMA BatchIs ==
  ASSUME rows \in SUBSET Rows, NEW start \in Nat
  PROVE  /\ Batch(start) \in SUBSET Rows /\ Batch(start) \subseteq rows
         /\ \A b \in Batch(start) : b >= start
         /\ \A b \in Batch(start), k \in rows : k >= start /\ k <= b => k \in Batch(start)
         /\ Cardinality(Batch(start)) <= Limit =>
              \A k \in rows : k >= start => k \in Batch(start)
<1> DEFINE B == Batch(start)
<1>0. /\ start \in Nat /\ \A k \in rows : k \in Nat
      /\ Limit \in Nat
  BY PagerAssumption DEF Rows
<1>1. B = {r \in rows : r >= start /\ Cardinality(UpTo(start, r)) <= Limit + 1}
  BY DEF Batch, UpTo
<1>2. B \in SUBSET Rows /\ B \subseteq rows /\ \A b \in B : b >= start
  BY <1>1
<1>3. \A r : UpTo(start, r) \in SUBSET Rows
  BY DEF UpTo
<1>4. ASSUME NEW b \in B, NEW k \in rows, k >= start, k <= b
      PROVE  k \in B
  <2>0. k \in Nat /\ b \in Nat
    BY <1>0, <1>2
  <2>1. UpTo(start, k) \subseteq UpTo(start, b)
    <3> SUFFICES ASSUME NEW q \in rows, start <= q, q <= k
                 PROVE  q <= b
      BY DEF UpTo
    <3>1. q \in Nat
      BY <1>0
    <3> QED
      BY <1>4, <2>0, <3>1
  <2>2. Cardinality(UpTo(start, k)) <= Cardinality(UpTo(start, b))
    BY <1>3, <2>1, RowsFinite, FS_Subset
  <2>3. Cardinality(UpTo(start, b)) <= Limit + 1
    BY <1>1
  <2>4. Cardinality(UpTo(start, k)) \in Nat /\ Cardinality(UpTo(start, b)) \in Nat
    BY <1>3, RowsFinite
  <2> QED
    BY <1>0, <1>1, <1>4, <2>2, <2>3, <2>4
<1>5. ASSUME NEW k \in rows, k >= start, k \notin B
      PROVE  ~(Cardinality(B) <= Limit)
  <2> DEFINE T == {q \in rows : q >= start /\ q \notin B}
  <2>1. T \in SUBSET Nat /\ T # {}
    BY <1>0, <1>5
  <2>2. PICK m \in T : \A q \in T : m <= q
    BY <2>1, LeastOf
  <2> DEFINE U == UpTo(start, m)
  <2>3. U \ {m} \subseteq B
    <3> SUFFICES ASSUME NEW q \in rows, start <= q, q <= m, q # m
                 PROVE  q \in B
      BY DEF UpTo
    <3>1. q \in Nat /\ m \in Nat
      BY <1>0
    <3>2. q \notin T
      BY <2>2, <3>1
    <3> QED
      BY <1>0, <3>1, <3>2
  <2>4. m \in U /\ U \in SUBSET Rows
    BY <1>0, <1>3, <2>2 DEF UpTo
  <2>5. ~(Cardinality(U) <= Limit + 1)
    BY <1>1, <2>2
  <2> HIDE DEF T, U
  <2>6. Cardinality(U \ {m}) = Cardinality(U) - 1
    BY <2>4, RowsFinite, FS_RemoveElement
  <2>7. Cardinality(U \ {m}) <= Cardinality(B)
    BY <1>2, <2>3, RowsFinite, FS_Subset
  <2>8. Cardinality(U) \in Nat /\ Cardinality(B) \in Nat
    BY <1>2, <2>4, RowsFinite
  <2> QED
    BY <1>0, <2>5, <2>6, <2>7, <2>8
<1> QED
  BY <1>2, <1>4, <1>5

\* There is no batch only where the view has ended.
LEMMA NoBatch ==
  ASSUME rows \in SUBSET Rows, NEW start \in Nat, Batch(start) = {}
  PROVE  \A k \in rows : k < start
<1>1. Cardinality(Batch(start)) <= Limit
  BY FS_EmptySet, PagerAssumption
<1>2. \A k \in rows : ~(k >= start)
  BY <1>1, BatchIs
<1> QED
  BY <1>2, PagerAssumption DEF Rows

\* What is shown of a batch leaves out no row from its start to the next page,
\* or to the end of the view if there is none.
LEMMA ShownIs ==
  ASSUME rows \in SUBSET Rows, NEW start \in Nat, NEW B, B = Batch(start), B # {}
  PROVE  /\ Min(B) \in Rows /\ Min(B) >= start
         /\ Shown(B) \in SUBSET Rows /\ Shown(B) # {}
         /\ \A k \in Shown(B) : k >= Min(B)
         /\ Max(Shown(B)) >= Min(B)
         /\ \A k \in rows : k >= start => k >= Min(Shown(B))
         /\ Cardinality(B) > Limit =>
              /\ Max(B) \in Rows /\ Max(B) > Max(Shown(B))
              /\ \A k \in rows : k > Max(Shown(B)) => k >= Max(B)
         /\ ~(Cardinality(B) > Limit) => \A k \in rows : k <= Max(Shown(B))
<1>1. /\ B \in SUBSET Rows /\ B \subseteq rows /\ \A b \in B : b >= start
      /\ \A b \in B, k \in rows : k >= start /\ k <= b => k \in B
      /\ Cardinality(B) <= Limit => \A k \in rows : k >= start => k \in B
  BY BatchIs
<1>2. Min(B) \in B /\ \A y \in B : Min(B) <= y
  BY <1>1, MinIs
<1>3. Max(B) \in B /\ \A y \in B : y <= Max(B)
  BY <1>1, MaxIs
<1>4. Cardinality(B) \in Nat /\ IsFiniteSet(B) /\ Limit \in Nat \ {0}
  BY <1>1, RowsFinite, PagerAssumption
<1>5. /\ Cardinality(B) > Limit => Shown(B) = B \ {Max(B)}
      /\ ~(Cardinality(B) > Limit) => Shown(B) = B
  BY DEF Shown
<1>6. Shown(B) # {}
  <2>1. CASE Cardinality(B) > Limit
    <3>1. Cardinality(B \ {Max(B)}) = Cardinality(B) - 1
      BY <1>3, <1>4, FS_RemoveElement
    <3>2. Cardinality(B \ {Max(B)}) # 0
      BY <1>4, <2>1, <3>1
    <3> QED
      BY <1>5, <2>1, <3>2, FS_EmptySet
  <2> QED
    BY <1>5, <2>1
<1>7. Shown(B) \in SUBSET Rows /\ Shown(B) \subseteq B
  BY <1>1, <1>5
<1>8. /\ Max(Shown(B)) \in Shown(B) /\ \A y \in Shown(B) : y <= Max(Shown(B))
      /\ Min(Shown(B)) \in Shown(B) /\ \A y \in Shown(B) : Min(Shown(B)) <= y
  BY <1>6, <1>7, MinIs, MaxIs
<1>9. \A k \in rows : k \in Nat
  BY PagerAssumption DEF Rows
<1>10. start \in Nat /\ \A b \in B : b \in Nat
  BY <1>1, <1>9 DEF Rows
<1>11. \A k \in rows : k >= start /\ k \notin B => \A b \in B : k > b
  BY <1>1, <1>9, <1>10
<1>12. \A k \in rows : k >= start => k >= Min(Shown(B))
  <2> SUFFICES ASSUME NEW k \in rows, k >= start
               PROVE  k >= Min(Shown(B))
    OBVIOUS
  <2>1. CASE k \in Shown(B)
    BY <1>7, <1>8, <1>10, <2>1
  <2>2. CASE k \in B \ Shown(B)
    BY <1>3, <1>5, <1>7, <1>8, <1>10, <2>2
  <2>3. CASE k \notin B
    BY <1>7, <1>8, <1>11, <1>9, <1>10, <2>3
  <2> QED
    BY <2>1, <2>2, <2>3
<1>13. ASSUME Cardinality(B) > Limit
       PROVE  /\ Max(B) \in Rows /\ Max(B) > Max(Shown(B))
              /\ \A k \in rows : k > Max(Shown(B)) => k >= Max(B)
  <2>1. Max(Shown(B)) \in B \ {Max(B)}
    BY <1>5, <1>8, <1>13
  <2>2. Max(B) > Max(Shown(B))
    BY <1>3, <1>10, <2>1
  <2>3. ASSUME NEW k \in rows, k > Max(Shown(B))
        PROVE  k >= Max(B)
    <3> DEFINE x == Max(Shown(B))
    <3>0. x >= start /\ x \in Nat /\ k \in Nat /\ start \in Nat /\ k > x
      BY <1>1, <1>9, <1>10, <2>1, <2>3
    <3> HIDE DEF x
    <3>1. k >= start
      BY <3>0
    <3>2. k \notin Shown(B)
      BY <1>8, <1>9, <1>10, <2>1, <2>3
    <3>3. CASE k \in B
      BY <1>5, <1>13, <3>2, <3>3, <1>9
    <3>4. CASE k \notin B
      BY <1>3, <1>9, <1>10, <1>11, <3>1, <3>4
    <3> QED
      BY <3>3, <3>4
  <2> QED
    BY <1>1, <1>3, <2>2, <2>3
<1>14. ASSUME ~(Cardinality(B) > Limit), NEW k \in rows
       PROVE  k <= Max(Shown(B))
  <2>1. Shown(B) = B /\ Cardinality(B) <= Limit
    BY <1>4, <1>5, <1>14
  <2>2. CASE k >= start
    BY <1>1, <1>8, <2>1, <2>2
  <2>3. CASE ~(k >= start)
    <3> DEFINE x == Max(Shown(B))
    <3>1. x >= start /\ x \in Nat /\ k \in Nat /\ start \in Nat
      BY <1>1, <1>8, <1>9, <1>10, <2>1
    <3> HIDE DEF x
    <3>2. k <= x
      BY <2>3, <3>1
    <3> QED
      BY <3>2 DEF x
  <2> QED
    BY <2>2, <2>3
<1> QED
  BY <1>1, <1>2, <1>6, <1>7, <1>8, <1>10, <1>12, <1>13, <1>14

-----------------------------------------------------------------------------
(* The inductive invariant. *)

\* Each request is that of a call already made, and of no other.
RequestsInv ==
  /\ \A r \in requests : r.call <= ncalls /\ (r.fn = "first" => r.call = 1)
  /\ \A r, s \in requests : r.call = s.call => r = s
  /\ AnsweredOnce

\* Before the application has the paginator nothing was walked.
Untouched ==
  ~HasPaginator => /\ paginator = <<NoRow, NoRow, <<>>>>
                   /\ page = {} /\ steady = {} /\ trail = <<>>
                   /\ \A r \in requests : r.fn = "first"

\* Where the next page starts, or where the walk broke off, seen from the rows
\* shown, as long as there is one request at a time.
PagesInv ==
  /\ nextkey # NoRow => page # {}
  /\ halt # NoRow => EndsTooSoon(halt)
  /\ \A r \in requests : r.fn = "next" => GoesOn(r.start)
  /\ Serial =>
       /\ \A r, s \in requests : r = s
       /\ nextkey # NoRow =>
            nextkey > Max(page) /\ \A k \in steady : k > Max(page) => k >= nextkey
       /\ nextkey = NoRow /\ page # {} =>
            \A k \in steady : k > Max(page) => halt # NoRow /\ k >= halt
       /\ \A r \in requests : r.fn = "next" => r.start = nextkey

\* The stack and the way to the current page, as long as there is one request
\* at a time.
OnTrail ==
  \/ /\ trail = <<>> /\ prevpages = <<>> /\ prevkey = NoRow /\ nextkey = NoRow
     /\ \A r \in requests : r.fn = "first"
  \/ /\ \A r \in requests : r.fn # "prev"
     /\ trail = Append(prevpages, prevkey)
  \/ \E r \in requests :
       r.fn = "prev" /\ trail = Append(Append(prevpages, r.start), prevkey)

TrailInv == ~crashed /\ Serial => OnTrail

PagerInv == TypeOK /\ RequestsInv /\ Untouched /\ PagesInv /\ TrailInv

-----------------------------------------------------------------------------
(* Asking. *)

Request(n, fn, start) == [call |-> n, fn |-> fn, start |-> start]

\* A call that is made now has no request and was told nothing.
LEMMA NewCall ==
  ASSUME TypeOK, RequestsInv, NEW n \in Calls, Begin(n)
  PROVE  /\ ~crashed /\ n = ncalls + 1 /\ ncalls' = n /\ ncalls \in Nat /\ n \in Nat
         /\ ncalls' \in 0..MaxCalls
         /\ told[n].calls = 0 /\ \A r \in requests : r.call <= ncalls /\ r.call # n
<1>1. /\ ~crashed /\ n = ncalls + 1 /\ ncalls' = n /\ ncalls \in Nat
      /\ ncalls' \in 0..MaxCalls /\ n \in Nat
  BY PagerAssumption DEF Begin, TypeOK, Calls
<1>2. told[n].calls \in Nat
  BY DEF TypeOK
<1>3. told[n].calls <= 0
  BY <1>1 DEF RequestsInv, AnsweredOnce
<1>4. \A r \in requests : r.call <= ncalls /\ r.call \in Nat
  BY DEF RequestsInv, TypeOK, Calls
<1> QED
  BY <1>1, <1>2, <1>3, <1>4

\* The types of what Ask changes.
LEMMA AskTyped ==
  ASSUME TypeOK, NEW n \in Calls, NEW fn \in {"first", "next", "prev"}, NEW start \in Rows,
         Ask(n, fn, start)
  PROVE  /\ requests' \subseteq [call: Calls, fn: {"first", "next", "prev"}, start: Rows]
         /\ crashed' \in BOOLEAN /\ failed' \subseteq Calls
         /\ overlapped' \in BOOLEAN
<1>1. Request(n, fn, start) \in [call: Calls, fn: {"first", "next", "prev"}, start: Rows]
  BY DEF Request
<1> QED
  BY <1>1 DEF Ask, Request, TypeOK

\* Ask adds a request, and if there was one already they overlap.
LEMMA AskRequests ==
  ASSUME TypeOK, RequestsInv, NEW n \in Calls, NEW fn \in {"first", "next", "prev"},
         NEW start \in Rows, Begin(n), Ask(n, fn, start), fn = "first" => n = 1,
         UNCHANGED told
  PROVE  /\ RequestsInv'
         /\ requests' \subseteq requests \cup {Request(n, fn, start)}
         /\ Serial' => Serial /\ (requests' = requests \/ requests = {})
         /\ ~crashed' => Request(n, fn, start) \in requests'
<1>1. /\ ~crashed /\ n = ncalls + 1 /\ ncalls' = n /\ ncalls \in Nat /\ n \in Nat
      /\ told[n].calls = 0 /\ \A r \in requests : r.call <= ncalls /\ r.call # n
  BY NewCall
<1> DEFINE new == Request(n, fn, start)
<1>2. new.call = n /\ new.fn = fn /\ new.start = start
  BY DEF Request
<1>3. /\ requests' \subseteq requests \cup {new}
      /\ Serial' => Serial /\ (requests' = requests \/ requests = {})
      /\ ~crashed' => new \in requests'
  <2>1. CASE requests' = requests \cup {new} /\ overlapped' = (overlapped \/ requests # {})
    <3>1. Serial' => Serial /\ requests = {}
      BY <2>1, Zenon DEF Serial
    <3> QED
      BY <2>1, <3>1
  <2>2. CASE crashed' = TRUE /\ UNCHANGED <<requests, overlapped>>
    BY <2>2 DEF Serial
  <2> QED
    BY <2>1, <2>2, Zenon DEF Ask, Request
<1> HIDE DEF new
<1>4. \A r \in requests : r.call \in Nat
  BY DEF TypeOK, Calls
<1>5. \A r \in requests' : r.call <= ncalls' /\ (r.fn = "first" => r.call = 1)
  <2>1. \A r \in requests : r.call <= ncalls' /\ (r.fn = "first" => r.call = 1)
    BY <1>1, <1>4 DEF RequestsInv
  <2> QED
    BY <1>1, <1>2, <1>3, <2>1
<1>6. \A r, s \in requests' : r.call = s.call => r = s
  BY <1>1, <1>2, <1>3 DEF RequestsInv
<1>7. ASSUME NEW m \in Calls
      PROVE  told[m].calls <= IF m > ncalls' \/ \E r \in requests' : r.call = m THEN 0 ELSE 1
  <2>1. m \in Nat /\ told[m].calls \in Nat
    BY DEF TypeOK, Calls
  <2>2. told[m].calls <= IF m > ncalls \/ \E r \in requests : r.call = m THEN 0 ELSE 1
    BY DEF RequestsInv, AnsweredOnce
  <2>3. CASE m = n
    BY <1>1, <2>1, <2>3
  <2>4. CASE m # n
    <3>1. m > ncalls' => m > ncalls
      BY <1>1, <2>1
    <3>2. (\E r \in requests' : r.call = m) => \E r \in requests : r.call = m
      BY <1>2, <1>3, <2>4
    <3> QED
      BY <2>1, <2>2, <3>1, <3>2
  <2> QED
    BY <2>3, <2>4
<1>8. RequestsInv'
  BY <1>5, <1>6, <1>7 DEF RequestsInv, AnsweredOnce
<1> QED
  BY <1>3, <1>8 DEF new

\* Nothing is known before the first page.
LEMMA NoPaginator ==
  ASSUME PagerInv, ncalls = 0
  PROVE  /\ prevkey = NoRow /\ nextkey = NoRow /\ prevpages = <<>>
         /\ page = {} /\ steady = {} /\ trail = <<>> /\ requests = {}
<1>1. ~HasPaginator
  BY DEF HasPaginator
<1>2. \A r \in requests : r.call >= 1 /\ r.call <= 0
  BY DEF PagerInv, RequestsInv, TypeOK, Calls
<1>3. requests = {}
  BY <1>2 DEF PagerInv, TypeOK, Calls
<1> QED
  BY <1>1, <1>3, Zenon DEF PagerInv, Untouched, paginator

\* firstPage() is called while nothing else is.
LEMMA FirstPageKeeps ==
  ASSUME PagerInv, NEW n \in Calls, FirstPage(n)
  PROVE  PagerInv'
<1>1. /\ Begin(n) /\ n = 1 /\ Ask(n, "first", 1)
      /\ UNCHANGED <<keys, rows, prevkey, nextkey, prevpages, told, nchanges, page, steady, trail,
                     halt>>
      /\ TypeOK /\ RequestsInv
  BY DEF FirstPage, PagerInv, paginator, walk
<1>2. ncalls = 0 /\ ncalls' = 1 /\ told[1].calls = 0 /\ ncalls' \in 0..MaxCalls /\ ~crashed
  BY <1>1, NewCall
<1>3. /\ prevkey = NoRow /\ nextkey = NoRow /\ prevpages = <<>>
      /\ page = {} /\ steady = {} /\ trail = <<>> /\ requests = {}
  BY <1>2, NoPaginator
<1>4. \A r \in requests' : r.fn = "first"
  BY <1>1, <1>3 DEF Ask
<1>5. \A r, s \in requests' : r = s
  BY <1>1, <1>3 DEF Ask
<1>6. TypeOK'
  <2>1. 1 \in Rows
    BY PagerAssumption DEF Rows
  <2>2. /\ requests' \subseteq [call: Calls, fn: {"first", "next", "prev"}, start: Rows]
        /\ crashed' \in BOOLEAN /\ failed' \subseteq Calls
        /\ overlapped' \in BOOLEAN
    BY <1>1, <2>1, AskTyped
  <2> QED
    BY <1>1, <1>2, <2>2 DEF TypeOK
<1>7. RequestsInv'
  <2>1. 1 \in Rows
    BY PagerAssumption DEF Rows
  <2>2. PICK fn : fn = "first"
    OBVIOUS
  <2> QED
    BY <1>1, <2>1, <2>2, AskRequests
<1>8. Untouched'
  BY <1>1, <1>3, <1>4 DEF Untouched, paginator
<1>9. PagesInv'
  <2>1. PagesInv
    BY DEF PagerInv
  <2> QED
    BY <1>1, <1>3, <1>4, <1>5, <2>1 DEF PagesInv, EndsTooSoon, GoesOn, Named
<1>10. TrailInv'
  BY <1>1, <1>3, <1>4 DEF TrailInv, OnTrail
<1> QED
  BY <1>6, <1>7, <1>8, <1>9, <1>10 DEF PagerInv

\* The last of a stack that is not empty, and what is under it.
LEMMA FrontLast ==
  ASSUME NEW s \in Seq(Rows), s # <<>>
  PROVE  Front(s) \in Seq(Rows) /\ Last(s) \in Rows /\ s = Append(Front(s), Last(s))
BY DEF Front, Last

\* What is said of the keys of a row stays, since the keys do.
LEMMA KeysStay ==
  ASSUME UNCHANGED keys
  PROVE  /\ \A k : Named(k)' <=> Named(k)
         /\ \A k : GoesOn(k)' <=> GoesOn(k)
         /\ EndsTooSoon(halt)' <=> ~GoesOn(halt') \/ keys.starts[halt'] # halt'
<1>1. \A k : Named(k)' <=> Named(k)
  BY DEF Named
<1>2. \A k : GoesOn(k)' <=> GoesOn(k)
  BY DEF GoesOn, Named
<1>3. EndsTooSoon(halt)' <=> ~GoesOn(halt') \/ keys.starts[halt'] # halt'
  BY DEF EndsTooSoon, GoesOn, Named
<1> QED
  BY <1>1, <1>2, <1>3

\* next() asks for the row the page shown ended before.
LEMMA NextPageKeeps ==
  ASSUME PagerInv, NEW n \in Calls, NextPage(n)
  PROVE  PagerInv'
<1> DEFINE new == Request(n, "next", nextkey)
<1>1. /\ Begin(n) /\ HasPaginator /\ Ask(n, "next", nextkey)
      /\ UNCHANGED <<keys, rows, prevkey, nextkey, prevpages, told, nchanges, page, steady, trail,
                     halt>>
      /\ TypeOK /\ RequestsInv /\ nextkey # NoRow /\ GoesOn(nextkey)
  BY DEF NextPage, PagerInv, paginator, walk, GoesOn, Named
<1>2. ncalls' = n /\ ncalls \in Nat /\ n = ncalls + 1 /\ ncalls' \in 0..MaxCalls
  BY <1>1, NewCall
<1>3. nextkey \in Rows
  BY <1>1 DEF TypeOK
<1>4. TypeOK'
  <2>1. /\ requests' \subseteq [call: Calls, fn: {"first", "next", "prev"}, start: Rows]
        /\ crashed' \in BOOLEAN /\ failed' \subseteq Calls
        /\ overlapped' \in BOOLEAN
    BY <1>1, <1>3, AskTyped
  <2> QED
    BY <1>1, <1>2, <2>1 DEF TypeOK
<1>5. /\ RequestsInv' /\ requests' \subseteq requests \cup {new}
      /\ Serial' => Serial /\ (requests' = requests \/ requests = {})
      /\ ~crashed' => new \in requests'
  <2>1. PICK fn \in {"first", "next", "prev"} : fn = "next"
    OBVIOUS
  <2> QED
    BY <1>1, <1>3, <2>1, AskRequests
<1>6. new.fn = "next" /\ new.start = nextkey
  BY DEF Request
<1> HIDE DEF new
<1>7. HasPaginator'
  BY <1>1, <1>2 DEF HasPaginator
<1>8. Untouched'
  BY <1>7 DEF Untouched
<1>9. PagesInv'
  <2>1. PagesInv
    BY DEF PagerInv
  <2>2. Serial' => \A r, s \in requests' : r = s
    BY <1>5, <2>1 DEF PagesInv
  <2>3. Serial' => \A r \in requests' : r.fn = "next" => r.start = nextkey
    BY <1>5, <1>6, <2>1 DEF PagesInv
  <2>4. \A r \in requests' : r.fn = "next" => GoesOn(r.start)
    BY <1>1, <1>5, <1>6, <2>1 DEF PagesInv
  <2>5. halt' # NoRow => EndsTooSoon(halt)'
    BY <1>1, <2>1, KeysStay DEF PagesInv, EndsTooSoon
  <2> QED
    BY <1>1, <1>5, <2>1, <2>2, <2>3, <2>4, <2>5, KeysStay DEF PagesInv
<1>10. TrailInv'
  <2> SUFFICES ASSUME ~crashed', Serial'
               PROVE  OnTrail'
    BY DEF TrailInv
  <2>1. OnTrail /\ (requests' = requests \/ requests = {})
    BY <1>1, <1>5 DEF PagerInv, TrailInv, Begin
  <2>2. CASE requests' = requests
    BY <1>1, <2>1, <2>2 DEF OnTrail
  <2>3. CASE requests = {}
    <3>1. trail = Append(prevpages, prevkey)
      BY <1>1, <2>1, <2>3 DEF OnTrail
    <3>2. \A r \in requests' : r.fn # "prev"
      BY <1>5, <1>6, <2>3
    <3> QED
      BY <1>1, <3>1, <3>2 DEF OnTrail
  <2> QED
    BY <2>1, <2>2, <2>3
<1> QED
  BY <1>4, <1>5, <1>8, <1>9, <1>10 DEF PagerInv

\* prev() takes the start of its page from the stack as it asks for it.
LEMMA PrevPageKeeps ==
  ASSUME PagerInv, NEW n \in Calls, PrevPage(n)
  PROVE  PagerInv'
<1> DEFINE start == Last(prevpages)
           new == Request(n, "prev", start)
<1>1. /\ Begin(n) /\ HasPaginator /\ Ask(n, "prev", start) /\ prevpages # <<>>
      /\ prevpages' = Front(prevpages)
      /\ UNCHANGED <<keys, rows, prevkey, nextkey, told, nchanges, page, steady, trail, halt>>
      /\ TypeOK /\ RequestsInv
  BY DEF PrevPage, PagerInv, walk
<1>2. ncalls' = n /\ ncalls \in Nat /\ n = ncalls + 1 /\ ncalls' \in 0..MaxCalls
      /\ \A r \in requests : r.call # n
  BY <1>1, NewCall
<1>3. prevpages' \in Seq(Rows) /\ start \in Rows /\ prevpages = Append(prevpages', start)
  BY <1>1, FrontLast DEF TypeOK
<1> HIDE DEF start
<1>4. TypeOK'
  <2>1. /\ requests' \subseteq [call: Calls, fn: {"first", "next", "prev"}, start: Rows]
        /\ crashed' \in BOOLEAN /\ failed' \subseteq Calls
        /\ overlapped' \in BOOLEAN
    BY <1>1, <1>3, AskTyped
  <2> QED
    BY <1>1, <1>2, <1>3, <2>1 DEF TypeOK
<1>5. /\ RequestsInv' /\ requests' \subseteq requests \cup {new}
      /\ Serial' => Serial /\ (requests' = requests \/ requests = {})
      /\ ~crashed' => new \in requests'
  <2>1. PICK fn \in {"first", "next", "prev"} : fn = "prev"
    OBVIOUS
  <2> QED
    BY <1>1, <1>3, <2>1, AskRequests
<1>6. new.fn = "prev" /\ new.start = start /\ new.call = n
  BY DEF Request
<1> HIDE DEF new
<1>7. HasPaginator'
  BY <1>1, <1>2 DEF HasPaginator
<1>8. Untouched'
  BY <1>7 DEF Untouched
<1>9. PagesInv'
  <2>1. PagesInv
    BY DEF PagerInv
  <2>2. Serial' => \A r, s \in requests' : r = s
    BY <1>5, <2>1 DEF PagesInv
  <2>3. Serial' => \A r \in requests' : r.fn = "next" => r.start = nextkey
    BY <1>5, <1>6, <2>1 DEF PagesInv
  <2>4. \A r \in requests' : r.fn = "next" => GoesOn(r.start)
    BY <1>1, <1>5, <1>6, <2>1 DEF PagesInv
  <2>5. halt' # NoRow => EndsTooSoon(halt)'
    BY <1>1, <2>1, KeysStay DEF PagesInv, EndsTooSoon
  <2> QED
    BY <1>1, <1>5, <2>1, <2>2, <2>3, <2>4, <2>5, KeysStay DEF PagesInv
<1>10. TrailInv'
  <2> SUFFICES ASSUME ~crashed', Serial'
               PROVE  OnTrail'
    BY DEF TrailInv
  <2>1. OnTrail /\ requests = {} /\ new \in requests'
    BY <1>1, <1>2, <1>5, <1>6 DEF PagerInv, TrailInv, Begin
  <2>2. trail = Append(prevpages, prevkey)
    BY <1>1, <2>1 DEF OnTrail
  <2>3. trail = Append(Append(prevpages', new.start), prevkey)
    BY <1>3, <1>6, <2>2
  <2> QED
    BY <1>1, <1>6, <2>1, <2>3 DEF OnTrail
<1> QED
  BY <1>4, <1>5, <1>8, <1>9, <1>10 DEF PagerInv

\* An answer to a call that needs no request.
LEMMA ToldAtOnce ==
  ASSUME TypeOK, RequestsInv, NEW n \in Calls, Begin(n), Called(n, FALSE), UNCHANGED requests
  PROVE  /\ told' \in [Calls -> [calls: Nat, err: BOOLEAN]]
         /\ \A m \in Calls : told'[m].calls >= told[m].calls
         /\ RequestsInv'
<1>1. /\ n = ncalls + 1 /\ ncalls' = n /\ ncalls \in Nat /\ n \in Nat
      /\ told[n].calls = 0 /\ \A r \in requests : r.call <= ncalls /\ r.call # n
  BY NewCall
<1>2. told' = [told EXCEPT ![n] = [calls |-> told[n].calls + 1, err |-> FALSE]]
  BY DEF Called
<1>3. told' \in [Calls -> [calls: Nat, err: BOOLEAN]]
  BY <1>2 DEF TypeOK
<1>4. \A m \in Calls : /\ m # n => told'[m] = told[m]
                       /\ told[m].calls \in Nat /\ m \in Nat
  BY <1>2 DEF TypeOK, Calls
<1>5. told'[n].calls = 1
  BY <1>1, <1>2 DEF TypeOK
<1>6. \A m \in Calls : told'[m].calls >= told[m].calls
  BY <1>1, <1>4, <1>5
<1>7. ASSUME NEW m \in Calls
      PROVE  told'[m].calls <= IF m > ncalls' \/ \E r \in requests : r.call = m THEN 0 ELSE 1
  <2>1. CASE m = n
    BY <1>1, <1>5, <2>1
  <2>2. CASE m # n
    <3>1. told[m].calls <= IF m > ncalls \/ \E r \in requests : r.call = m THEN 0 ELSE 1
      BY DEF RequestsInv, AnsweredOnce
    <3>2. m > ncalls' => m > ncalls
      BY <1>1, <1>4
    <3>3. told'[m].calls = told[m].calls /\ told[m].calls \in Nat
      BY <1>4, <2>2
    <3> QED
      BY <3>1, <3>2, <3>3
  <2> QED
    BY <2>1, <2>2
<1>8. \A r \in requests : r.call <= ncalls' /\ (r.fn = "first" => r.call = 1)
  <2>1. \A r \in requests : r.call \in Nat
    BY DEF TypeOK, Calls
  <2> QED
    BY <1>1, <2>1 DEF RequestsInv
<1>9. RequestsInv'
  BY <1>7, <1>8 DEF RequestsInv, AnsweredOnce
<1> QED
  BY <1>3, <1>6, <1>9

\* next() without a request forgets where the next page starts.
LEMMA NextAtEndKeeps ==
  ASSUME PagerInv, NEW n \in Calls, NextAtEnd(n)
  PROVE  PagerInv'
<1>1. /\ Begin(n) /\ HasPaginator /\ nextkey' = NoRow /\ Called(n, FALSE)
      /\ UNCHANGED <<keys, rows, prevkey, prevpages, requests, nchanges, crashed, page, steady,
                     trail, failed, overlapped>>
      /\ TypeOK /\ RequestsInv
  BY DEF NextAtEnd, PagerInv, walk
<1>2. ~GoesOn(nextkey) /\ halt' = IF nextkey # NoRow THEN nextkey ELSE halt
  BY DEF NextAtEnd
<1>3. ncalls' = n /\ ncalls \in Nat /\ n = ncalls + 1 /\ ncalls' \in 0..MaxCalls
  BY <1>1, NewCall
<1>4. /\ told' \in [Calls -> [calls: Nat, err: BOOLEAN]]
      /\ \A m \in Calls : told'[m].calls >= told[m].calls
      /\ RequestsInv'
  BY <1>1, ToldAtOnce
<1>5. TypeOK'
  BY <1>1, <1>2, <1>3, <1>4 DEF TypeOK
<1>6. HasPaginator'
  <2>1. 1 \in Calls
    BY PagerAssumption DEF Calls
  <2>2. told[1].calls \in Nat /\ told'[1].calls \in Nat /\ told'[1].calls >= told[1].calls
    BY <1>1, <1>4, <2>1 DEF TypeOK
  <2> QED
    BY <1>1, <1>3, <2>2 DEF HasPaginator
<1>7. Untouched'
  BY <1>6 DEF Untouched
<1>8. PagesInv'
  <2>1. PagesInv /\ (Serial' <=> Serial)
    BY <1>1 DEF PagerInv, Serial
  <2>2. Serial => \A r \in requests : r.fn # "next"
    BY <1>2, <2>1 DEF PagesInv
  <2>3. halt' # NoRow => EndsTooSoon(halt)'
    BY <1>1, <1>2, <2>1, KeysStay DEF PagesInv, EndsTooSoon
  <2>4. Serial /\ page # {} => \A k \in steady : k > Max(page) => halt' # NoRow /\ k >= halt'
    BY <1>2, <2>1 DEF PagesInv
  <2>5. \A r \in requests : r.fn = "next" => GoesOn(r.start)
    BY <2>1 DEF PagesInv
  <2> QED
    BY <1>1, <2>1, <2>2, <2>3, <2>4, <2>5, KeysStay DEF PagesInv
<1>9. TrailInv'
  BY <1>1 DEF PagerInv, TrailInv, OnTrail, Serial
<1> QED
  BY <1>4, <1>5, <1>7, <1>8, <1>9 DEF PagerInv

\* prev() without a request changes nothing of the walk.
LEMMA PrevAtStartKeeps ==
  ASSUME PagerInv, NEW n \in Calls, PrevAtStart(n)
  PROVE  PagerInv'
<1>1. /\ Begin(n) /\ HasPaginator /\ Called(n, FALSE)
      /\ UNCHANGED <<keys, rows, prevkey, nextkey, prevpages, requests, nchanges, crashed, page,
                     steady, trail, halt, failed, overlapped>>
      /\ TypeOK /\ RequestsInv
  BY DEF PrevAtStart, PagerInv, walk, paginator
<1>2. ncalls' = n /\ ncalls \in Nat /\ n = ncalls + 1 /\ ncalls' \in 0..MaxCalls
  BY <1>1, NewCall
<1>3. /\ told' \in [Calls -> [calls: Nat, err: BOOLEAN]]
      /\ \A m \in Calls : told'[m].calls >= told[m].calls
      /\ RequestsInv'
  BY <1>1, ToldAtOnce
<1>4. TypeOK'
  BY <1>1, <1>2, <1>3 DEF TypeOK
<1>5. HasPaginator'
  <2>1. 1 \in Calls
    BY PagerAssumption DEF Calls
  <2>2. told[1].calls \in Nat /\ told'[1].calls \in Nat /\ told'[1].calls >= told[1].calls
    BY <1>1, <1>3, <2>1 DEF TypeOK
  <2> QED
    BY <1>1, <1>2, <2>2 DEF HasPaginator
<1>6. Untouched'
  BY <1>5 DEF Untouched
<1>7. PagesInv'
  BY <1>1, KeysStay DEF PagerInv, PagesInv, Serial, EndsTooSoon
<1>8. TrailInv'
  BY <1>1 DEF PagerInv, TrailInv, OnTrail, Serial
<1> QED
  BY <1>3, <1>4, <1>6, <1>7, <1>8 DEF PagerInv

\* A row that comes or goes does not matter to what was shown before.
LEMMA ViewChangesKeeps ==
  ASSUME PagerInv, NEW k \in Rows, ViewChanges(k)
  PROVE  PagerInv'
<1>1. /\ UNCHANGED <<keys, prevkey, nextkey, prevpages, requests, told, ncalls, crashed, page,
                     trail, halt, failed, overlapped>>
      /\ rows' \subseteq Rows /\ steady' \subseteq rows' /\ steady' \subseteq steady
      /\ nchanges' = nchanges + 1 /\ nchanges < MaxChanges /\ TypeOK
  BY DEF ViewChanges, PagerInv, TypeOK, paginator
<1>2. nchanges' \in 0..MaxChanges
  BY <1>1, PagerAssumption DEF TypeOK
<1>3. TypeOK'
  BY <1>1, <1>2 DEF TypeOK
<1>4. RequestsInv'
  BY <1>1 DEF PagerInv, RequestsInv, AnsweredOnce
<1>5. Untouched'
  BY <1>1 DEF PagerInv, Untouched, HasPaginator, paginator
<1>6. PagesInv'
  BY <1>1, KeysStay DEF PagerInv, PagesInv, Serial, EndsTooSoon
<1>7. TrailInv'
  BY <1>1 DEF PagerInv, TrailInv, OnTrail, Serial
<1> QED
  BY <1>3, <1>4, <1>5, <1>6, <1>7 DEF PagerInv

-----------------------------------------------------------------------------
(* Answers. *)

\* The callback of an answered request is called now or never.
LEMMA AnswerTells ==
  ASSUME PagerInv, NEW r \in requests, NEW reply, Answer(r, reply)
  PROVE  /\ requests' = requests \ {r} /\ ~crashed
         /\ UNCHANGED <<keys, rows, ncalls, nchanges, overlapped>>
         /\ told' \in [Calls -> [calls: Nat, err: BOOLEAN]]
         /\ failed' \subseteq Calls /\ crashed' \in BOOLEAN
         /\ RequestsInv'
         /\ HasPaginator => HasPaginator'
         /\ r.fn = "first" => ~HasPaginator /\ (reply # "null" => HasPaginator')
         /\ r.fn # "first" => HasPaginator
<1>1. TypeOK /\ RequestsInv
  BY DEF PagerInv
<1>2. /\ r.call \in Calls /\ r.call \in Nat /\ r.call >= 1 /\ r.call <= ncalls
      /\ told[r.call].calls = 0 /\ (r.fn = "first" => r.call = 1) /\ ncalls \in Nat
  <2>1. r.call \in Calls /\ r.call <= ncalls /\ (r.fn = "first" => r.call = 1)
    BY <1>1 DEF TypeOK, RequestsInv
  <2>2. told[r.call].calls <= 0 /\ told[r.call].calls \in Nat
    BY <1>1, <2>1 DEF TypeOK, RequestsInv, AnsweredOnce
  <2>3. r.call \in Nat /\ r.call >= 1 /\ ncalls \in Nat
    BY <1>1, <2>1 DEF Calls, TypeOK
  <2> QED
    BY <2>1, <2>2, <2>3
<1>3. /\ requests' = requests \ {r} /\ ~crashed
      /\ UNCHANGED <<keys, rows, ncalls, nchanges, overlapped>>
      /\ crashed' \in BOOLEAN
  <2>1. Throws(reply) \in BOOLEAN
    BY DEF Throws
  <2> QED
    BY <2>1, Zenon DEF Answer
<1>4. failed' \subseteq Calls
  BY <1>1, <1>2 DEF Answer, TypeOK
<1>5. PICK t \in {0, 1}, e \in BOOLEAN :
        /\ told' = [told EXCEPT ![r.call] = [calls |-> told[r.call].calls + t, err |-> e]]
        /\ reply # "null" => t = 1
  <2>1. PICK t \in {0, 1} : t = TimesCalled(reply) /\ (reply # "null" => t = 1)
    BY DEF TimesCalled, Heard
  <2>2. HeardError(reply) \in BOOLEAN
    BY DEF HeardError
  <2>3. PICK e \in BOOLEAN : e = HeardError(reply)
    BY <2>2, Zenon
  <2>4. told' = [told EXCEPT ![r.call] = [calls |-> told[r.call].calls + t, err |-> e]]
    BY <2>1, <2>3, Zenon DEF Answer
  <2> QED
    BY <2>1, <2>4
<1>6. /\ told' \in [Calls -> [calls: Nat, err: BOOLEAN]]
      /\ \A m \in Calls : m # r.call => told'[m] = told[m]
      /\ told'[r.call].calls = t
  BY <1>1, <1>2, <1>5 DEF TypeOK
<1>7. ASSUME NEW m \in Calls
      PROVE  told'[m].calls <= IF m > ncalls' \/ \E s \in requests' : s.call = m THEN 0 ELSE 1
  <2>1. m \in Nat
    BY DEF Calls
  <2>2. CASE m = r.call
    <3>1. ~(m > ncalls') /\ ~\E s \in requests' : s.call = m
      BY <1>1, <1>2, <1>3, <2>2 DEF RequestsInv
    <3> QED
      BY <1>5, <1>6, <2>2, <3>1
  <2>3. CASE m # r.call
    <3>1. told[m].calls <= IF m > ncalls \/ \E s \in requests : s.call = m THEN 0 ELSE 1
      BY <1>1 DEF RequestsInv, AnsweredOnce
    <3>2. (\E s \in requests' : s.call = m) <=> \E s \in requests : s.call = m
      BY <1>3, <2>3
    <3> QED
      BY <1>3, <1>6, <2>3, <3>1, <3>2
  <2> QED
    BY <2>2, <2>3
<1>8. RequestsInv'
  BY <1>1, <1>3, <1>7 DEF RequestsInv, AnsweredOnce
<1>9. HasPaginator => HasPaginator'
  <2> SUFFICES ASSUME HasPaginator
               PROVE  HasPaginator'
    OBVIOUS
  <2>1. r.call # 1
    BY <1>2 DEF HasPaginator
  <2>2. 1 \in Calls
    BY <1>2, PagerAssumption DEF Calls
  <2> QED
    BY <1>3, <1>6, <2>1, <2>2 DEF HasPaginator
<1>10. r.fn = "first" => ~HasPaginator /\ (reply # "null" => HasPaginator')
  BY <1>2, <1>3, <1>5, <1>6 DEF HasPaginator
<1>11. r.fn # "first" => HasPaginator
  BY DEF PagerInv, Untouched
<1> QED
  BY <1>3, <1>4, <1>6, <1>8, <1>9, <1>10, <1>11

\* The three things an answer does to the pages: it brings rows, or the end of
\* the view, or nothing.
NewPage(r, B) == B # {} /\ Paginate(r, B)
EndOfView(r, B) == B = {} /\ Paginate(r, B)
NoPage(r) ==
  /\ UNCHANGED <<nextkey, prevpages, page, steady, halt>>
  /\ \/ UNCHANGED <<prevkey, trail>> /\ (r.fn # "prev" \/ crashed')
     \/ r.fn = "prev" /\ prevkey' = NoRow /\ trail' = TrailBack(NoRow)

\* An answer does one of the three, the first two only if the startkey could
\* be read, and without a call of the handler the last.
LEMMA ThreeAnswers ==
  ASSUME NEW r \in requests, NEW reply, Answer(r, reply)
  PROVE  /\ NewPage(r, Batch(From(r))) \/ EndOfView(r, Batch(From(r))) \/ NoPage(r)
         /\ reply = "null" => NoPage(r) /\ UNCHANGED <<prevkey, trail>>
<1>1. CASE reply \in {"rows", "partial"}
  <2>1. Paginate(r, Batch(From(r)))
    BY <1>1 DEF Answer
  <2> QED
    BY <1>1, <2>1 DEF NewPage, EndOfView
<1>2. CASE reply \notin {"rows", "partial"}
  <2>1. IF Heard(reply) THEN PaginateNothing(r) ELSE UNCHANGED <<paginator, walk>>
    BY <1>2, Zenon DEF Answer
  <2>2. CASE Heard(reply)
    <3>1. PaginateNothing(r) /\ reply # "null"
      BY <2>1, <2>2 DEF Heard
    <3> QED
      BY <1>2, <3>1 DEF NoPage, PaginateNothing
  <2>3. CASE ~Heard(reply)
    <3>1. UNCHANGED <<paginator, walk>>
      BY <2>1, <2>3, Zenon
    <3>2. reply = "null" /\ crashed'
      BY <2>3 DEF Heard, Answer, Throws
    <3>3. UNCHANGED <<prevkey, nextkey, prevpages, page, steady, trail, halt>>
      BY <3>1 DEF paginator, walk
    <3> QED
      BY <3>2, <3>3 DEF NoPage
  <2> QED
    BY <2>2, <2>3
<1> QED
  BY <1>1, <1>2

\* From where the server answers is a number.
LEMMA FromIs ==
  ASSUME TypeOK, NEW r \in requests
  PROVE  From(r) \in Nat
<1>1. keys.starts \in [Rows -> 0..(MaxRow + 1)] /\ r.start \in Rows /\ MaxRow \in Nat
  BY PagerAssumption DEF TypeOK, KeysOfViews
<1>2. keys.starts[r.start] \in Nat /\ r.start \in Nat
  BY <1>1 DEF Rows
<1> QED
  BY <1>2 DEF From

\* The way back from the next page, and from the one prev() comes to, as
\* sequences of rows.
LEMMA TrailsAre ==
  ASSUME NEW S, trail \in Seq(S), NEW k \in S
  PROVE  /\ WayBack \in Seq(S) /\ Append(WayBack, k) \in Seq(S)
         /\ TrailBack(k) \in Seq(S)
<1>1. ASSUME trail # <<>>
      PROVE  Front(trail) \in Seq(S)
  BY <1>1 DEF Front
<1>2. WayBack \in Seq(S)
  BY <1>1 DEF WayBack
<1>3. SubSeq(trail, 1, Len(trail) - 2) \in Seq(S)
  OBVIOUS
<1> QED
  BY <1>2, <1>3 DEF TrailBack

\* The types of what an answer changes.
LEMMA AnswerTyped ==
  ASSUME PagerInv, NEW r \in requests, NEW reply, Answer(r, reply)
  PROVE  TypeOK'
<1>1. /\ requests' = requests \ {r} /\ UNCHANGED <<keys, rows, ncalls, nchanges, overlapped>>
      /\ told' \in [Calls -> [calls: Nat, err: BOOLEAN]]
      /\ failed' \subseteq Calls /\ crashed' \in BOOLEAN
  BY AnswerTells
<1>2. /\ TypeOK /\ r.start \in Rows /\ rows \in SUBSET Rows /\ From(r) \in Nat
      /\ trail \in Seq(Rows \cup {NoRow})
  BY FromIs DEF PagerInv, TypeOK
<1> DEFINE B == Batch(From(r))
<1>3. NewPage(r, B) \/ EndOfView(r, B) \/ NoPage(r)
  BY ThreeAnswers
<1>4. B \in SUBSET Rows
  BY <1>2, BatchIs
<1>5. B # {} => Min(B) \in Rows /\ Max(B) \in Rows /\ Shown(B) \in SUBSET Rows
  BY <1>4, MinIs, MaxIs DEF Shown
<1>6. B = {} => ~(Cardinality(B) > Limit)
  BY FS_EmptySet, PagerAssumption
<1> HIDE DEF B
<1>7. ASSUME Paginate(r, B)
      PROVE  /\ prevkey' \in Rows \cup {NoRow} /\ nextkey' \in Rows \cup {NoRow}
             /\ prevpages' \in Seq(Rows) /\ page' \subseteq Rows /\ steady' \subseteq rows
             /\ trail' \in Seq(Rows \cup {NoRow}) /\ halt' \in Rows \cup {NoRow}
  <2>1. prevkey' \in Rows \cup {NoRow}
    BY <1>2, <1>5, <1>7 DEF Paginate, TypeOK
  <2>2. nextkey' \in Rows \cup {NoRow}
    BY <1>5, <1>6, <1>7 DEF Paginate
  <2>3. prevpages' \in Seq(Rows)
    BY <1>2, <1>7 DEF Paginate, Pushed, TypeOK, Named
  <2>4. page' \subseteq Rows /\ steady' \subseteq rows
    BY <1>2, <1>5, <1>7 DEF Paginate, TypeOK
  <2>5. trail' \in Seq(Rows \cup {NoRow})
    <3>1. PICK x : x = IF B # {} THEN Min(B) ELSE NoRow
      OBVIOUS
    <3>2. x \in Rows \cup {NoRow}
      BY <1>5, <3>1
    <3>3. trail' \in {TrailBack(x), Append(WayBack, x), trail}
      BY <1>7, <3>1 DEF Paginate
    <3> QED
      BY <1>2, <3>2, <3>3, TrailsAre
  <2>6. halt' \in Rows \cup {NoRow}
    BY <1>2, <1>7 DEF Paginate, TypeOK
  <2> QED
    BY <2>1, <2>2, <2>3, <2>4, <2>5, <2>6
<1>8. ASSUME NoPage(r)
      PROVE  /\ prevkey' \in Rows \cup {NoRow} /\ nextkey' \in Rows \cup {NoRow}
             /\ prevpages' \in Seq(Rows) /\ page' \subseteq Rows /\ steady' \subseteq rows
             /\ trail' \in Seq(Rows \cup {NoRow}) /\ halt' \in Rows \cup {NoRow}
  <2>1. trail' \in Seq(Rows \cup {NoRow})
    <3>1. trail' = trail \/ trail' = TrailBack(NoRow)
      BY <1>8 DEF NoPage
    <3> QED
      BY <1>2, <3>1, TrailsAre
  <2> QED
    BY <1>2, <1>8, <2>1 DEF NoPage, TypeOK
<1>9. NewPage(r, B) \/ EndOfView(r, B) => Paginate(r, B)
  BY DEF NewPage, EndOfView
<1>10. keys' \in KeysOfViews /\ overlapped' \in BOOLEAN /\ requests' \subseteq requests
  BY <1>1, <1>2 DEF TypeOK
<1> QED
  BY <1>1, <1>2, <1>3, <1>7, <1>8, <1>9, <1>10 DEF TypeOK

\* The paginator is known from the first answer on that calls its handler.
LEMMA AnswerUntouched ==
  ASSUME PagerInv, NEW r \in requests, NEW reply, Answer(r, reply)
  PROVE  Untouched'
<1> SUFFICES ASSUME ~HasPaginator'
             PROVE  /\ paginator' = <<NoRow, NoRow, <<>>>>
                    /\ page' = {} /\ steady' = {} /\ trail' = <<>>
                    /\ \A s \in requests' : s.fn = "first"
  BY DEF Untouched
<1>1. reply = "null" /\ ~HasPaginator /\ requests' = requests \ {r}
  BY AnswerTells
<1>2. UNCHANGED <<prevkey, nextkey, prevpages, page, steady, trail>>
  BY <1>1, ThreeAnswers DEF NoPage
<1> QED
  BY <1>1, <1>2 DEF PagerInv, Untouched, paginator

\* What is shown and what comes next fit after an answer.
LEMMA AnswerPages ==
  ASSUME PagerInv, NEW r \in requests, NEW reply, Answer(r, reply)
  PROVE  PagesInv'
<1> DEFINE B == Batch(From(r))
<1>1. /\ TypeOK /\ PagesInv /\ r.start \in Rows /\ rows \in SUBSET Rows /\ From(r) \in Nat
      /\ r.fn \in {"first", "next", "prev"} /\ r.start # NoRow
      /\ r.fn = "first" => page = {} /\ From(r) = r.start
  <2>1. TypeOK /\ PagesInv /\ Untouched
    BY DEF PagerInv
  <2>2. r.start \in Rows /\ rows \in SUBSET Rows /\ r.fn \in {"first", "next", "prev"}
    BY <2>1 DEF TypeOK
  <2>3. r.fn = "first" => ~HasPaginator
    BY AnswerTells
  <2> QED
    BY <2>1, <2>2, <2>3, FromIs DEF Untouched, From, Rows, NoRow
<1>2. requests' = requests \ {r} /\ UNCHANGED <<keys, rows, overlapped>> /\ (Serial' <=> Serial)
  BY AnswerTells DEF Serial
<1>3. \A x \in Rows : x \in Nat /\ x > 0
  BY PagerAssumption DEF Rows
<1>4. /\ \A q \in requests' : q.fn = "next" => GoesOn(q.start)
      /\ Serial => requests' = {}
  BY <1>1, <1>2 DEF PagesInv
<1>5. Serial /\ r.fn = "next" => r.start = nextkey /\ nextkey # NoRow
  BY <1>1 DEF PagesInv
<1>6. CASE NewPage(r, B)
  <2> DEFINE M == Max(Shown(B))
  <2>1. /\ Shown(B) # {}
        /\ Cardinality(B) > Limit =>
             /\ Max(B) \in Rows /\ Max(B) > M
             /\ \A k \in rows : k > M => k >= Max(B)
        /\ ~(Cardinality(B) > Limit) => \A k \in rows : k <= M
    BY <1>1, <1>6, ShownIs DEF NewPage
  <2>2. /\ page' = Shown(B) /\ steady' = rows /\ halt' = NoRow
        /\ nextkey' = IF Cardinality(B) > Limit THEN Max(B) ELSE NoRow
    BY <1>6 DEF NewPage, Paginate
  <2>3. M = Max(page') /\ M \in Nat
    <3>1. Shown(B) \in SUBSET Rows
      BY <1>1, <1>6, ShownIs DEF NewPage
    <3> QED
      BY <1>3, <2>1, <2>2, <3>1, MaxIs
  <2> HIDE DEF B, M
  <2>4. /\ nextkey' # NoRow =>
             nextkey' > M /\ \A k \in steady' : k > M => k >= nextkey'
        /\ nextkey' = NoRow => \A k \in steady' : k <= M
    BY <2>1, <2>2 DEF Rows, NoRow
  <2>5. nextkey' = NoRow => \A k \in steady' : ~(k > M)
    <3>1. \A k \in steady' : k \in Nat
      BY <1>1, <1>3, <2>2
    <3> QED
      BY <2>3, <2>4, <3>1
  <2> QED
    BY <1>2, <1>4, <2>1, <2>2, <2>3, <2>4, <2>5, KeysStay DEF PagesInv
<1>7. CASE EndOfView(r, B)
  <2>1. \A k \in rows : k < From(r)
    BY <1>1, <1>7, NoBatch DEF EndOfView
  <2>2. /\ page' = IF r.fn = "prev" THEN {} ELSE page
        /\ UNCHANGED steady
        /\ halt' = IF From(r) # r.start THEN r.start ELSE halt
    BY <1>7 DEF EndOfView, Paginate
  <2>3. nextkey' = NoRow
    <3>1. ~(Cardinality(B) > Limit)
      BY <1>7, FS_EmptySet, PagerAssumption DEF EndOfView
    <3> QED
      BY <1>7, <3>1 DEF EndOfView, Paginate
  <2> HIDE DEF B
  <2>4. halt' # NoRow => EndsTooSoon(halt)'
    <3>1. CASE From(r) # r.start
      BY <1>2, <2>2, <3>1, KeysStay DEF From
    <3>2. CASE From(r) = r.start
      BY <1>1, <1>2, <2>2, <3>2, KeysStay DEF PagesInv, EndsTooSoon
    <3> QED
      BY <3>1, <3>2
  <2>5. ASSUME Serial, page' # {}, NEW k \in steady', k > Max(page')
        PROVE  halt' # NoRow /\ k >= halt'
    <3>1. r.fn = "next" /\ page' = page
      BY <1>1, <2>2, <2>5
    <3>2. r.start = nextkey /\ k >= r.start /\ k \in rows /\ k \in Nat /\ r.start \in Nat
      <4>1. k \in steady /\ k > Max(page) /\ steady \subseteq rows
        BY <1>1, <2>2, <2>5, <3>1 DEF TypeOK
      <4>2. r.start = nextkey /\ k >= nextkey
        BY <1>1, <1>5, <2>5, <3>1, <4>1 DEF PagesInv
      <4> QED
        BY <1>1, <1>3, <4>1, <4>2
    <3>3. From(r) # r.start
      BY <2>1, <3>2
    <3> QED
      BY <1>1, <2>2, <3>2, <3>3
  <2> QED
    BY <1>2, <1>4, <2>3, <2>4, <2>5, KeysStay DEF PagesInv
<1>8. CASE NoPage(r)
  <2>1. UNCHANGED <<nextkey, page, steady, halt>>
    BY <1>8 DEF NoPage
  <2>2. halt' # NoRow => EndsTooSoon(halt)'
    BY <1>1, <1>2, <2>1, KeysStay DEF PagesInv, EndsTooSoon
  <2> QED
    BY <1>1, <1>2, <1>4, <2>1, <2>2, KeysStay DEF PagesInv
<1> QED
  BY <1>6, <1>7, <1>8, ThreeAnswers

\* The last of what was put on a sequence, and what is under it.
LEMMA OneOff ==
  ASSUME NEW S, NEW s \in Seq(S), NEW x \in S
  PROVE  /\ Append(s, x) # <<>> /\ Front(Append(s, x)) = s /\ Last(Append(s, x)) = x
         /\ Append(s, x) \in Seq(S)
<1>1. Len(Append(s, x)) = Len(s) + 1 /\ Append(s, x) \in Seq(S) /\ Len(s) \in Nat
  OBVIOUS
<1>2. Append(s, x)[Len(s) + 1] = x
  OBVIOUS
<1>3. SubSeq(Append(s, x), 1, Len(s)) = s
  OBVIOUS
<1> QED
  BY <1>1, <1>2, <1>3 DEF Front, Last

\* The last two of a sequence put on it one by one, and taken from it again.
LEMMA TwoBack ==
  ASSUME NEW S, NEW s \in Seq(S), NEW x \in S, NEW y \in S, NEW z \in S,
         trail = Append(Append(s, x), y)
  PROVE  TrailBack(z) = Append(s, z)
<1> DEFINE t == Append(Append(s, x), y)
<1>1. SubSeq(t, 1, Len(t) - 2) = s
  OBVIOUS
<1> QED
  BY <1>1 DEF TrailBack

\* The stack goes with the way to the page that is shown.
LEMMA AnswerTrail ==
  ASSUME PagerInv, NEW r \in requests, NEW reply, Answer(r, reply)
  PROVE  TrailInv'
<1> SUFFICES ASSUME ~crashed', Serial'
             PROVE  OnTrail'
  BY DEF TrailInv
<1> DEFINE B == Batch(From(r))
           Places == Rows \cup {NoRow}
<1>1. NewPage(r, B) \/ EndOfView(r, B) \/ NoPage(r)
  BY ThreeAnswers
<1>2. /\ TypeOK /\ PagesInv /\ Untouched /\ OnTrail /\ UNCHANGED keys
      /\ requests' = {} /\ (\A q \in requests : q = r)
      /\ r.fn = "first" => ~HasPaginator
      /\ r.fn \in {"first", "next", "prev"} /\ r.start \in Places
      /\ prevpages \in Seq(Places) /\ prevkey \in Places /\ rows \in SUBSET Rows
      /\ From(r) \in Nat /\ NoRow \in Places
  <2>1. /\ requests' = requests \ {r} /\ ~crashed /\ (r.fn = "first" => ~HasPaginator)
        /\ UNCHANGED <<keys, overlapped>>
    BY AnswerTells
  <2>2. TypeOK /\ PagesInv /\ Untouched /\ OnTrail /\ Serial
    BY <2>1 DEF PagerInv, TrailInv, Serial
  <2>3. \A q \in requests : q = r
    BY <2>2 DEF PagesInv
  <2>4. /\ r.fn \in {"first", "next", "prev"} /\ r.start \in Places /\ rows \in SUBSET Rows
        /\ prevpages \in Seq(Places) /\ prevkey \in Places
    BY <2>2 DEF TypeOK
  <2> QED
    BY <2>1, <2>2, <2>3, <2>4, FromIs
<1>3. B # {} => Min(B) \in Places
  BY <1>2, BatchIs, MinIs
<1>4. B = {} => ~(Cardinality(B) > Limit)
  BY FS_EmptySet, PagerAssumption
<1> HIDE DEF B, Places
<1>5. NewPage(r, B) =>
        /\ prevkey' = Min(B) /\ Min(B) \in Places
        /\ prevpages' = Pushed(r.fn, B) /\ B # {}
        /\ trail' = IF r.fn = "prev" THEN TrailBack(Min(B)) ELSE Append(WayBack, Min(B))
  BY <1>3 DEF NewPage, Paginate
<1>6. EndOfView(r, B) =>
        /\ prevpages' = prevpages /\ nextkey' = NoRow
        /\ r.fn = "prev" => trail' = TrailBack(NoRow) /\ prevkey' = NoRow
        /\ r.fn # "prev" => UNCHANGED <<trail, prevkey>>
  BY <1>4 DEF EndOfView, Paginate, Pushed
<1>7. NoPage(r) =>
        /\ UNCHANGED <<nextkey, prevpages>>
        /\ r.fn = "prev" => trail' = TrailBack(NoRow) /\ prevkey' = NoRow
        /\ r.fn # "prev" => UNCHANGED <<trail, prevkey>>
  BY DEF NoPage
<1>8. CASE r.fn = "first"
  <2>1. prevkey = NoRow /\ nextkey = NoRow /\ prevpages = <<>> /\ trail = <<>>
    BY <1>2, <1>8, Zenon DEF Untouched, paginator
  <2>2. CASE NewPage(r, B)
    <3>1. prevpages' = <<>> /\ trail' = Append(<<>>, Min(B)) /\ prevkey' = Min(B)
      BY <1>5, <1>8, <2>1, <2>2 DEF Pushed, WayBack
    <3> QED
      BY <1>2, <3>1 DEF OnTrail
  <2>3. CASE EndOfView(r, B) \/ NoPage(r)
    <3>1. prevkey' = NoRow /\ nextkey' = NoRow /\ prevpages' = <<>> /\ trail' = <<>>
      BY <1>6, <1>7, <1>8, <2>1, <2>3
    <3> QED
      BY <1>2, <3>1 DEF OnTrail
  <2> QED
    BY <1>1, <2>2, <2>3
<1>9. CASE r.fn = "next"
  <2>1. trail = Append(prevpages, prevkey)
    BY <1>2, <1>9 DEF OnTrail
  <2>2. CASE NewPage(r, B)
    <3>1. trail # <<>> /\ Front(trail) = prevpages /\ Last(trail) = prevkey
      BY <1>2, <2>1, OneOff
    <3>2. WayBack = IF Named(prevkey) THEN trail ELSE prevpages
      BY <3>1 DEF WayBack
    <3>3. prevpages' = WayBack
      BY <1>5, <1>9, <2>1, <2>2, <3>2 DEF Pushed
    <3>4. trail' = Append(prevpages', prevkey')
      BY <1>5, <1>9, <2>2, <3>3
    <3> QED
      BY <1>2, <3>4 DEF OnTrail
  <2>3. CASE EndOfView(r, B) \/ NoPage(r)
    <3>1. trail' = Append(prevpages', prevkey')
      BY <1>6, <1>7, <1>9, <2>1, <2>3
    <3> QED
      BY <1>2, <3>1 DEF OnTrail
  <2> QED
    BY <1>1, <2>2, <2>3
<1>10. CASE r.fn = "prev"
  <2>1. trail = Append(Append(prevpages, r.start), prevkey)
    BY <1>2, <1>10 DEF OnTrail
  <2>2. \A z \in Places : TrailBack(z) = Append(prevpages, z)
    BY <1>2, <2>1, TwoBack
  <2>3. CASE NewPage(r, B)
    <3>1. prevpages' = prevpages /\ trail' = TrailBack(Min(B)) /\ prevkey' = Min(B)
      BY <1>5, <1>10, <2>3 DEF Pushed
    <3>2. trail' = Append(prevpages', prevkey')
      BY <1>5, <2>2, <2>3, <3>1
    <3> QED
      BY <1>2, <3>2 DEF OnTrail
  <2>4. CASE EndOfView(r, B) \/ NoPage(r)
    <3>1. prevpages' = prevpages /\ trail' = TrailBack(NoRow) /\ prevkey' = NoRow
      BY <1>6, <1>7, <1>10, <2>4
    <3>2. trail' = Append(prevpages', prevkey')
      BY <1>2, <2>2, <3>1
    <3> QED
      BY <1>2, <3>2 DEF OnTrail
  <2> QED
    BY <1>1, <2>3, <2>4
<1> QED
  BY <1>2, <1>8, <1>9, <1>10

\* An answer keeps the invariant.
LEMMA AnswerKeeps ==
  ASSUME PagerInv, NEW r \in requests, NEW reply, Answer(r, reply)
  PROVE  PagerInv'
<1>1. TypeOK'
  BY AnswerTyped
<1>2. RequestsInv'
  BY AnswerTells
<1>3. Untouched'
  BY AnswerUntouched
<1>4. PagesInv'
  BY AnswerPages
<1>5. TrailInv'
  BY AnswerTrail
<1> QED
  BY <1>1, <1>2, <1>3, <1>4, <1>5 DEF PagerInv

-----------------------------------------------------------------------------
(* Every step. *)

\* The invariant holds at the start, ...
LEMMA PagerInit == Init => PagerInv
<1> SUFFICES ASSUME Init
             PROVE  PagerInv
  OBVIOUS
<1>1. TypeOK
  <2>1. 0 \in 0..MaxCalls /\ 0 \in 0..MaxChanges
    BY PagerAssumption
  <2>2. /\ prevkey \in Rows \cup {NoRow} /\ nextkey \in Rows \cup {NoRow}
        /\ prevpages \in Seq(Rows) /\ trail \in Seq(Rows \cup {NoRow})
        /\ halt \in Rows \cup {NoRow} /\ keys \in KeysOfViews
    BY PagerAssumption DEF Init
  <2>3. told \in [Calls -> [calls: Nat, err: BOOLEAN]]
    BY DEF Init
  <2>4. /\ rows \subseteq Rows /\ requests = {} /\ ncalls = 0 /\ nchanges = 0
        /\ crashed = FALSE /\ page = {} /\ steady = {} /\ failed = {}
        /\ overlapped = FALSE
    BY DEF Init
  <2> QED
    BY <2>1, <2>2, <2>3, <2>4 DEF TypeOK
<1>2. RequestsInv
  BY DEF Init, RequestsInv, AnsweredOnce
<1>3. Untouched
  BY Zenon DEF Init, Untouched, paginator
<1>4. PagesInv
  BY DEF Init, PagesInv, Serial
<1>5. TrailInv
  BY DEF Init, TrailInv, OnTrail
<1> QED
  BY <1>1, <1>2, <1>3, <1>4, <1>5 DEF PagerInv

\* ... every step keeps it, ...
LEMMA PagerStep == PagerInv /\ [Next]_vars => PagerInv'
<1> SUFFICES ASSUME PagerInv, [Next]_vars
             PROVE  PagerInv'
  OBVIOUS
<1>1. CASE Application
  <2>1. PICK n \in Calls :
          FirstPage(n) \/ NextPage(n) \/ NextAtEnd(n) \/ PrevPage(n) \/ PrevAtStart(n)
    BY <1>1 DEF Application
  <2>2. CASE FirstPage(n)
    BY <2>2, FirstPageKeeps
  <2>3. CASE NextPage(n)
    BY <2>3, NextPageKeeps
  <2>4. CASE NextAtEnd(n)
    BY <2>4, NextAtEndKeeps
  <2>5. CASE PrevPage(n)
    BY <2>5, PrevPageKeeps
  <2>6. CASE PrevAtStart(n)
    BY <2>6, PrevAtStartKeeps
  <2> QED
    BY <2>1, <2>2, <2>3, <2>4, <2>5, <2>6
<1>2. CASE Answers
  <2>1. PICK r \in requests, reply \in AllFaults \cup {"rows"} : Answer(r, reply)
    BY <1>2 DEF Answers
  <2> QED
    BY <2>1, AnswerKeeps
<1>3. CASE \E k \in Rows : ViewChanges(k)
  BY <1>3, ViewChangesKeeps
<1>4. CASE UNCHANGED vars
  <2>1. UNCHANGED <<keys, rows, prevkey, nextkey, prevpages, requests, told, ncalls, nchanges,
                    crashed, page, steady, trail, halt, failed, overlapped>>
    BY <1>4 DEF vars, paginator, walk
  <2>2. TypeOK' /\ RequestsInv'
    BY <2>1 DEF PagerInv, TypeOK, RequestsInv, AnsweredOnce
  <2>3. Untouched'
    BY <2>1 DEF PagerInv, Untouched, HasPaginator, paginator
  <2>4. PagesInv'
    BY <2>1, KeysStay DEF PagerInv, PagesInv, Serial, EndsTooSoon
  <2>5. TrailInv'
    BY <2>1 DEF PagerInv, TrailInv, OnTrail, Serial
  <2> QED
    BY <2>2, <2>3, <2>4, <2>5 DEF PagerInv
<1> QED
  BY <1>1, <1>2, <1>3, <1>4 DEF Next

\* ... so it holds always.
LEMMA PagerInvariant == Spec => []PagerInv
BY PagerInit, PagerStep, PTL DEF Spec

-----------------------------------------------------------------------------
(* What follows. *)

\* The variables of the paginator stay within their types, for views, limits
\* and numbers of calls of any size.
THEOREM PagerTypeCorrect == Spec => []TypeOK
<1>1. PagerInv => TypeOK
  BY DEF PagerInv
<1> QED
  BY <1>1, PagerInvariant, PTL

\* The callback of next(), prev() and firstPage() is called once at most, and
\* not before the answer, whichever way the requests overlap and fail.
THEOREM PagerAnsweredOnceCorrect == Spec => []AnsweredOnce
<1>1. PagerInv => AnsweredOnce
  BY DEF PagerInv, RequestsInv
<1> QED
  BY <1>1, PagerInvariant, PTL

\* When hasNext() says no, the view has no row after the page shown that was
\* there when it was shown, or only rows from one on at which the walk breaks
\* off for a reason EndsTooSoon names, whatever the keys of the view.
THEOREM EndIsEndCorrect == Spec => []EndIsEnd
<1>1. ASSUME PagerInv
      PROVE  EndIsEnd
  <2> DEFINE stop == IF nextkey # NoRow THEN nextkey ELSE halt
  <2> SUFFICES ASSUME Serial, ~HasNext, page # {}, NEW k \in steady, k > Max(page)
               PROVE  stop # NoRow /\ EndsTooSoon(stop) /\ k >= stop
    BY DEF EndIsEnd
  <2>1. PagesInv
    BY <1>1 DEF PagerInv
  <2>2. CASE nextkey = NoRow
    BY <2>1, <2>2 DEF PagesInv
  <2>3. CASE nextkey # NoRow
    <3>1. EndsTooSoon(nextkey)
      BY <2>3 DEF HasNext, EndsTooSoon, GoesOn, Named
    <3> QED
      BY <2>1, <2>3, <3>1 DEF PagesInv
  <2> QED
    BY <2>2, <2>3
<1> QED
  BY <1>1, PagerInvariant, PTL

\* prev() asks for the page before the one shown, and finds none only at the
\* first, not counting pages whose first row has a null key or no id, and
\* those whose prev() came to nothing.
THEOREM PrevGoesBackCorrect == Spec => []PrevGoesBack
<1>1. ASSUME PagerInv
      PROVE  PrevGoesBack
  <2> SUFFICES ASSUME ~crashed, Serial
               PROVE  /\ \A r \in requests :
                           r.fn = "prev" => Len(trail) > 1 /\ r.start = trail[Len(trail) - 1]
                      /\ requests = {} /\ prevpages = <<>> => Len(trail) <= 1
    BY DEF PrevGoesBack
  <2> DEFINE Places == Rows \cup {NoRow}
  <2>1. OnTrail /\ TypeOK /\ prevpages \in Seq(Places) /\ prevkey \in Places
    BY <1>1 DEF PagerInv, TrailInv, TypeOK
  <2>2. \A r, s \in requests : r = s
    BY <1>1 DEF PagerInv, PagesInv, Serial
  <2>3. ASSUME NEW r \in requests, r.fn = "prev"
        PROVE  Len(trail) > 1 /\ r.start = trail[Len(trail) - 1]
    <3>1. trail = Append(Append(prevpages, r.start), prevkey)
      BY <2>1, <2>2, <2>3 DEF OnTrail
    <3>2. r.start \in Places
      BY <2>1 DEF TypeOK
    <3> HIDE DEF Places
    <3> QED
      BY <2>1, <3>1, <3>2
  <2>4. ASSUME requests = {}, prevpages = <<>>
        PROVE  Len(trail) <= 1
    <3>1. trail = <<>> \/ trail = Append(<<>>, prevkey)
      BY <2>1, <2>4 DEF OnTrail
    <3> QED
      BY <3>1
  <2> QED
    BY <2>3, <2>4
<1> QED
  BY <1>1, PagerInvariant, PTL

\* Only an answer ends a request.
LEMMA OnlyAnswersEnd ==
  ASSUME [Next]_vars, NEW r \in requests, r \notin requests'
  PROVE  \E reply \in AllFaults \cup {"rows"} : Answer(r, reply)
<1>1. CASE Application
  <2>1. requests \subseteq requests'
    BY <1>1 DEF Application, FirstPage, NextPage, NextAtEnd, PrevPage, PrevAtStart, Ask
  <2> QED
    BY <2>1
<1>2. CASE Answers
  <2>1. PICK q \in requests, reply \in AllFaults \cup {"rows"} : Answer(q, reply)
    BY <1>2 DEF Answers
  <2>2. requests' = requests \ {q}
    BY <2>1 DEF Answer
  <2> QED
    BY <2>1, <2>2
<1>3. CASE \E k \in Rows : ViewChanges(k)
  BY <1>3 DEF ViewChanges
<1>4. CASE UNCHANGED vars
  BY <1>4 DEF vars
<1> QED
  BY <1>1, <1>2, <1>3, <1>4 DEF Next

\* A step that ends a request as NoRowSkipped wants it.
NoneSkipped(r) ==
  Serial /\ r.fn = "next" /\ From(r) = r.start /\ trail' # trail =>
    /\ \A k \in page' : k > Max(page)
    /\ \A k \in steady : k > Max(page) => k >= Min(page')

\* The next page begins after the one shown, and no row between the two is
\* passed over that was there since.
LEMMA NextSkipsNone ==
  ASSUME PagerInv, NEW r \in requests, NEW reply, Answer(r, reply)
  PROVE  NoneSkipped(r)
<1> SUFFICES ASSUME Serial, r.fn = "next", From(r) = r.start, trail' # trail
             PROVE  /\ \A k \in page' : k > Max(page)
                    /\ \A k \in steady : k > Max(page) => k >= Min(page')
  BY DEF NoneSkipped
<1> DEFINE B == Batch(From(r))
<1>1. /\ TypeOK /\ PagesInv /\ r.start \in Rows /\ rows \in SUBSET Rows
      /\ steady \subseteq rows /\ page \in SUBSET Rows
  BY DEF PagerInv, TypeOK
<1>2. \A x \in Rows : x \in Nat /\ x > 0
  BY PagerAssumption DEF Rows
<1>3. NewPage(r, B)
  <2>1. EndOfView(r, B) => trail' = trail
    BY DEF EndOfView, Paginate
  <2>2. NoPage(r) => trail' = trail
    BY DEF NoPage
  <2> QED
    BY <2>1, <2>2, ThreeAnswers
<1>4. page' = Shown(B) /\ B # {}
  BY <1>3 DEF NewPage, Paginate
<1>5. /\ Min(B) \in Rows /\ Min(B) >= r.start /\ r.start \in Nat
      /\ Shown(B) \in SUBSET Rows
      /\ \A k \in Shown(B) : k >= Min(B)
      /\ \A k \in rows : k >= r.start => k >= Min(Shown(B))
  BY <1>1, <1>2, <1>4, ShownIs
<1> HIDE DEF B
<1> DEFINE M == Max(page)
           m == Min(B)
<1>6. /\ r.start = nextkey /\ nextkey > M /\ page # {}
      /\ \A k \in steady : k > M => k >= nextkey
  <2>1. r.start # NoRow
    BY <1>1, <1>2 DEF NoRow
  <2> QED
    BY <1>1, <2>1 DEF PagesInv
<1>7. M \in Nat /\ m \in Nat /\ r.start \in Nat /\ m >= r.start
  BY <1>1, <1>2, <1>5, <1>6, MaxIs
<1> HIDE DEF M, m
<1>8. \A k \in page' : k > M
  <2> SUFFICES ASSUME NEW k \in Shown(B)
               PROVE  k > M
    BY <1>4
  <2>1. k >= m /\ k \in Nat
    BY <1>2, <1>5 DEF m
  <2> QED
    BY <1>6, <1>7, <2>1
<1>9. ASSUME NEW k \in steady, k > M
      PROVE  k >= Min(Shown(B))
  BY <1>1, <1>5, <1>6, <1>9
<1> QED
  BY <1>4, <1>8, <1>9 DEF M

\* Who walks one request at a time with next() is shown on each page only rows
\* after those of the page before, and none is passed over that was there all
\* along, whatever the changes of the view and the failures, provided the
\* server reads the startkey as the key it is.
THEOREM NoRowSkippedCorrect == Spec => NoRowSkipped
<1>1. ASSUME PagerInv, [Next]_vars
      PROVE  \A r \in requests \ requests' : NoneSkipped(r)
  <2> SUFFICES ASSUME NEW r \in requests, r \notin requests'
               PROVE  NoneSkipped(r)
    OBVIOUS
  <2>1. PICK reply \in AllFaults \cup {"rows"} : Answer(r, reply)
    BY <1>1, OnlyAnswersEnd
  <2> QED
    BY <1>1, <2>1, NextSkipsNone
<1>2. ASSUME PagerInv, [Next]_vars
      PROVE  [\A r \in requests \ requests' :
                Serial /\ r.fn = "next" /\ From(r) = r.start /\ trail' # trail =>
                  /\ \A k \in page' : k > Max(page)
                  /\ \A k \in steady : k > Max(page) => k >= Min(page')]_vars
  BY <1>1, <1>2, Zenon DEF NoneSkipped
<1> QED
  BY <1>2, PagerInvariant, PTL DEF Spec, NoRowSkipped

-----------------------------------------------------------------------------
(* Nobody is forgotten. *)

\* A call that was made was answered, or has a request that can be: what
\* EveryCallAnswered asks of the answers is all it takes.
NobodyForgotten ==
  \A n \in Calls : n <= ncalls =>
    told[n].calls > 0 \/ crashed \/ \E r \in requests : r.call = n

\* What is asked is a request, or else the handler has thrown.
LEMMA AskedIsPending ==
  ASSUME TypeOK, NobodyForgotten, NEW n \in Calls, NEW fn, NEW start,
         Begin(n), Ask(n, fn, start), UNCHANGED told
  PROVE  NobodyForgotten'
<1>1. n = ncalls + 1 /\ ncalls' = n /\ ncalls \in Nat /\ ~crashed
  BY PagerAssumption DEF Begin, TypeOK
<1>2. \/ crashed' = TRUE /\ UNCHANGED requests
      \/ requests' = requests \cup {Request(n, fn, start)} /\ UNCHANGED crashed
  BY DEF Ask, Request
<1>3. ASSUME NEW m \in Calls, m <= ncalls'
      PROVE  told'[m].calls > 0 \/ crashed' \/ \E r \in requests' : r.call = m
  <2>1. Request(n, fn, start).call = n
    BY DEF Request
  <2>2. CASE m = n
    BY <1>2, <2>1, <2>2
  <2>3. CASE m # n
    <3>1. m <= ncalls
      BY <1>1, <1>3, <2>3 DEF Calls
    <3> QED
      BY <1>1, <1>2, <3>1 DEF NobodyForgotten
  <2> QED
    BY <2>2, <2>3
<1> QED
  BY <1>3 DEF NobodyForgotten

\* At either end of the view a call is answered before it returns.
LEMMA AtOnceIsAnswered ==
  ASSUME TypeOK, NobodyForgotten, NEW n \in Calls, Begin(n), Called(n, FALSE),
         UNCHANGED <<requests, crashed>>
  PROVE  NobodyForgotten'
<1>1. n = ncalls + 1 /\ ncalls' = n /\ ncalls \in Nat
  BY PagerAssumption DEF Begin, TypeOK
<1>2. \A m \in Calls : IF m = n THEN told'[m].calls = told[m].calls + 1 ELSE told'[m] = told[m]
  BY DEF Called, TypeOK
<1>3. told[n].calls \in Nat
  BY DEF TypeOK
<1>4. ASSUME NEW m \in Calls, m <= ncalls'
      PROVE  told'[m].calls > 0 \/ crashed' \/ \E r \in requests' : r.call = m
  <2>1. CASE m = n
    BY <1>2, <1>3, <2>1
  <2>2. CASE m # n
    <3>1. m <= ncalls
      BY <1>1, <1>4, <2>2 DEF Calls
    <3> QED
      BY <1>2, <2>2, <3>1 DEF NobodyForgotten
  <2> QED
    BY <2>1, <2>2
<1> QED
  BY <1>4 DEF NobodyForgotten

\* A request goes when its call is answered, or the handler throws.
LEMMA AnswerForgetsNobody ==
  ASSUME PagerInv, NobodyForgotten, NEW r \in requests, NEW reply, Answer(r, reply)
  PROVE  NobodyForgotten'
<1>1. /\ requests' = requests \ {r} /\ ncalls' = ncalls /\ ~crashed
      /\ crashed' = Throws(reply)
  BY Zenon DEF Answer
<1>2. TypeOK /\ r.call \in Calls /\ told[r.call].calls \in Nat
  BY DEF PagerInv, TypeOK
<1>3. PICK t, e : /\ t = TimesCalled(reply) /\ e = HeardError(reply)
                  /\ t \in {0, 1} /\ (t = 0 => Throws(reply))
  BY DEF TimesCalled, Heard, Throws
<1>4. told' = [told EXCEPT ![r.call] = [calls |-> told[r.call].calls + t, err |-> e]]
  BY <1>3, Zenon DEF Answer
<1>5. told'[r.call].calls = told[r.call].calls + t /\ \A m \in Calls \ {r.call} : told'[m] = told[m]
  BY <1>2, <1>4 DEF TypeOK
<1>6. ASSUME NEW m \in Calls, m <= ncalls'
      PROVE  told'[m].calls > 0 \/ crashed' \/ \E s \in requests' : s.call = m
  <2>1. CASE m = r.call
    BY <1>1, <1>2, <1>3, <1>5, <2>1
  <2>2. CASE m # r.call
    <3>1. told[m].calls > 0 \/ \E s \in requests : s.call = m
      BY <1>1, <1>6 DEF NobodyForgotten
    <3> QED
      BY <1>1, <1>5, <2>2, <3>1
  <2> QED
    BY <2>1, <2>2
<1> QED
  BY <1>6 DEF NobodyForgotten

\* No call is ever left without an answer, without a request and without an
\* exception to explain it: after whatever failures and overlaps, a request
\* that is answered is all that a call still waits for (makeRestHandler,
\* Paginator.next and prev).
THEOREM NobodyForgottenCorrect == Spec => []NobodyForgotten
<1>1. Init => NobodyForgotten
  BY DEF Init, NobodyForgotten, Calls
<1>2. PagerInv /\ NobodyForgotten /\ [Next]_vars => NobodyForgotten'
  <2> SUFFICES ASSUME PagerInv, NobodyForgotten, [Next]_vars
               PROVE  NobodyForgotten'
    OBVIOUS
  <2>1. TypeOK
    BY DEF PagerInv
  <2>2. CASE Application
    <3>1. PICK n \in Calls :
            FirstPage(n) \/ NextPage(n) \/ NextAtEnd(n) \/ PrevPage(n) \/ PrevAtStart(n)
      BY <2>2 DEF Application
    <3>2. CASE FirstPage(n) \/ NextPage(n) \/ PrevPage(n)
      <4>1. Begin(n) /\ (\E fn, start : Ask(n, fn, start)) /\ UNCHANGED told
        BY <3>2 DEF FirstPage, NextPage, PrevPage
      <4> QED
        BY <2>1, <4>1, AskedIsPending
    <3>3. CASE NextAtEnd(n) \/ PrevAtStart(n)
      <4>1. Begin(n) /\ Called(n, FALSE) /\ UNCHANGED <<requests, crashed>>
        BY <3>3 DEF NextAtEnd, PrevAtStart
      <4> QED
        BY <2>1, <4>1, AtOnceIsAnswered
    <3> QED
      BY <3>1, <3>2, <3>3
  <2>3. CASE Answers
    BY <2>3, AnswerForgetsNobody DEF Answers
  <2>4. CASE (\E k \in Rows : ViewChanges(k)) \/ UNCHANGED vars
    <3>1. UNCHANGED <<requests, told, ncalls, crashed>>
      BY <2>4 DEF ViewChanges, vars
    <3> QED
      BY <3>1 DEF NobodyForgotten
  <2> QED
    BY <2>2, <2>3, <2>4 DEF Next
<1> QED
  BY <1>1, <1>2, PagerInvariant, PTL DEF Spec
=============================================================================
