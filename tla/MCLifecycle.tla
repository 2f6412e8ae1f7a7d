------------------------------ MODULE MCLifecycle ------------------------------
(***************************************************************************)
(* The suites of LifecycleSuites, run by module Lifecycle.                 *)
(***************************************************************************)
EXTENDS Lifecycle, LifecycleSuites

MCNetwork == {"network"}
MCSteps == UNION {Elements(runLifecycleSuite[s]) : s \in lifecycleSuites}
MCResource == {r : r \in UNION {Elements(s.on) : s \in MCSteps}}
MCSlow == {"volume", "server volume", "snapshot", "consistency group"}
MCFaults == FaultKind
MCMismatch == {"differ"}
================================================================================
