---------------------------- MODULE MCCouchnode ----------------------------
(* Small instances of Couchnode for TLC. *)
EXTENDS CouchnodeInv, CouchnodeService

S(kind, mode, n) == [kind |-> kind, mode |-> mode, nkeys |-> n]

\* One shape for each way an operation is answered.
AllShapes == {S("plain", "single", 2), S("plain", "spooled", 2), S("plain", "single", 1),
              S("observe", "spooled", 1),
              S("observe", "single", 2), S("stats", "spooled", 1), S("http", "single", 1)}
SpooledShapes == {S("plain", "spooled", 1), S("plain", "spooled", 2)}
KeyedShapes == {S("plain", "single", 1), S("plain", "spooled", 2)}
=============================================================================
