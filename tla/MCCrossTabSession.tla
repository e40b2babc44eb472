--------------------------- MODULE MCCrossTabSession ---------------------------
(* One controller tab and one live tab for TLC; both runs are of one step, so *)
(* the second is a retry of the first.                                        *)
EXTENDS CrossTabSession

CONSTANTS r1, r2, s1

MCRuns == {r1, r2}
MCOneRun == {r1}
MCNoRun == {}
MCSteps == {s1}
MCStepOf == [r \in Runs |-> s1]

=============================================================================
