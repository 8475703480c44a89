------------------------- MODULE MCBrowserAutomation -------------------------
(* Model checking of the automation service.                                 *)
EXTENDS BrowserAutomation, TLC

Symmetry == Permutations(SessionId) \cup Permutations(OperationId) \cup Permutations(Window)
=============================================================================
