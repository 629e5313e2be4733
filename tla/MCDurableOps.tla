---------------------------- MODULE MCDurableOps ----------------------------
(* Small instances of DurableOps for TLC. *)
EXTENDS DurableOps

F(multi, spooled, delete) == [multi |-> multi, spooled |-> spooled, delete |-> delete]

MultiForms == {F(TRUE, FALSE, FALSE), F(TRUE, TRUE, TRUE)}
MostForms == {F(FALSE, FALSE, TRUE), F(TRUE, TRUE, FALSE), F(TRUE, FALSE, FALSE)}
=============================================================================
