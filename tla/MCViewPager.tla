---------------------------- MODULE MCViewPager ----------------------------
(* Small instances of ViewPager for TLC: the keys of a few views. *)
EXTENDS ViewPager

WithIds(null, falsy, starts) == [null |-> null, falsy |-> falsy, ids |-> TRUE, starts |-> starts]

\* The keys null, 7, 9 and "6", which is read as 6.
Ascending == WithIds({1}, {}, <<1, 2, 3, 2>>)

\* The keys "abc", which is no JSON, "2", which is read as 2, 0 and null.
Descending == WithIds({4}, {3}, <<Refused, 3, 3, 4>>)

\* The rows of a reduced view.
Reduced == [WithIds({}, {}, <<1, 2, 3, 4>>) EXCEPT !.ids = FALSE]

SomeViews == {Ascending, Descending, Reduced}

\* One row, whatever its key.
OneRow == {WithIds({}, {}, <<1>>)}

\* "abc", "8", 9, 7, null in descending order, "8" being read as 8.
TextsThenNull == {WithIds({5}, {}, <<Refused, 4, 3, 4, 5>>)}
=============================================================================
