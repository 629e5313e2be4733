-------------------------- MODULE CouchnodeService --------------------------
(***************************************************************************)
(* Couchnode implements OpService: an operation is open while its Cookie   *)
(* is alive, whether it waits in the queue, is in flight or is lost.       *)
(***************************************************************************)
EXTENDS Couchnode

\* A stream is answered once, whatever was asked for, but its cancellation
\* heeds the mode.
Asked(s) == [answer |-> CASE s.mode = "spooled" -> "all"
                          [] s.kind = "observe" /\ s.mode = "single" -> "either"
                          [] OTHER -> "each",
             nkeys |-> s.nkeys]

Stage(o) ==
  CASE o > nops -> "unborn"
    [] o <= nops /\ Live(o) -> "open"
    [] OTHER -> "ended"

Service == INSTANCE OpService WITH
  Options <- {Asked(s) : s \in Shapes},
  asked <- [o \in Ops |-> Asked(shape[o])],
  stage <- [o \in Ops |-> Stage(o)],
  failures <- failed

\* Whatever queues, callbacks within callbacks, cancellations and shutdowns do
\* to an operation, the application sees what OpService promises.
ImplementsService == Service!Spec
=============================================================================
