------------------------------ MODULE TestPlan ------------------------------
(***************************************************************************)
(* What a campaign promises, without generators, ids, odometers and walks: *)
(* each selection of alternatives is tested once, in any order, and the    *)
(* campaign is over when none is left.  The promise is void (informed is   *)
(* FALSE) when the first test could not find out what there is to test.    *)
(***************************************************************************)
EXTENDS Naturals

CONSTANT Selections

VARIABLES
    todo,       \* the selections that are still to be tested
    tests,      \* the number of tests made
    informed,   \* the first test saw everything there is to test
    over

vars == <<todo, tests, informed, over>>

Init ==
    /\ todo = Selections
    /\ tests = 0
    /\ informed = TRUE
    /\ over = FALSE

\* The next test takes a selection that was not tested before.
RunTest ==
    /\ ~over
    /\ informed
    /\ tests' = tests + 1
    /\ \E s \in todo : todo' = todo \ {s}
    /\ UNCHANGED <<informed, over>>

\* It turns out after the first test that parts of the model were not run.
LoseTrack ==
    /\ tests = 1
    /\ informed
    /\ informed' = FALSE
    /\ UNCHANGED <<todo, tests, over>>

\* From then on tests are made, but nothing is said about which.
RunBlindTest ==
    /\ ~over
    /\ ~informed
    /\ tests' = tests + 1
    /\ todo' \subseteq todo
    /\ UNCHANGED <<informed, over>>

Finish ==
    /\ ~over
    /\ informed => todo = {}
    /\ over' = TRUE
    /\ UNCHANGED <<todo, tests, informed>>

Next == RunTest \/ LoseTrack \/ RunBlindTest \/ Finish

Spec == Init /\ [][Next]_vars
=============================================================================
