-------------------------- MODULE MCAutomationRun --------------------------
EXTENDS AutomationRun, TLC

CONSTANTS r1, r2, r3, d1, d2, d3

OneDevice == [r \in Runs |-> d1]
OwnDevice == r1 :> d1 @@ r2 :> d2 @@ r3 :> d3
=============================================================================
