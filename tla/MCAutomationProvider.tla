------------------------- MODULE MCAutomationProvider -------------------------
(* Model checking of both ends of browser automation.                        *)
EXTENDS AutomationProvider, TLC

Symmetry == Permutations(OperationId)
===============================================================================
