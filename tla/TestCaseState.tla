--------------------------- MODULE TestCaseState ---------------------------
(***************************************************************************)
(* The counters that TestCaseManager (src/lib/test-case-manager.cc) keeps  *)
(* for the injectors: an InjectState per registered injector, found        *)
(* through the map `observer` from injector ids, and `test_case_state`,    *)
(* the states of the injectors active in the current EXEC.                 *)
(*                                                                         *)
(* test_case_state is a vector filled by a walk of the map in increasing   *)
(* order of ids, so the set of the ids in it determines it.                *)
(***************************************************************************)
EXTENDS Integers

\* An InjectState: num_sons is -1 until the injector has run once; last is
\* the alternative the injector selects when it is active.
InjectStateType == [num_sons : Int, last : Nat]

\* The constructor InjectState(inj), and what resetState() does.
NewInjectState == [num_sons |-> -1, last |-> 1]
ResetState(s) == [num_sons |-> s.num_sons, last |-> 1]

\* setSonsNumber: only the first call has an effect.
SetSonsNumber(s, number) ==
    IF s.num_sons < 0 THEN [num_sons |-> number, last |-> s.last] ELSE s

\* Mutant: last > num_sons.
WrapsAroundLate(s) == s.last + 1 > s.num_sons

\* increaseState() returns FALSE, and resets the counter, exactly when the
\* incremented counter reaches num_sons.
WrapsAround(s) == s.last + 1 >= s.num_sons
IncreaseState(s) ==
    IF WrapsAround(s)
    THEN ResetState(s)
    ELSE [num_sons |-> s.num_sons, last |-> s.last + 1]

\* The number of anomalies of an injector, its factor in getRun's product.
\* Mutant: alternative 0 is counted, too.
AnomaliesAndZero(s) == s.num_sons
Anomalies(s) == s.num_sons - 1

\* Mutant: the first wheel does not carry.
UpdateFirstState(observer, test_case_state) ==
    [id \in DOMAIN observer |->
        IF id \in test_case_state /\ \A k \in test_case_state : id <= k
        THEN IncreaseState(observer[id])
        ELSE observer[id]]

\* Mutant: all wheels turn at once.
UpdateAllStates(observer, test_case_state) ==
    [id \in DOMAIN observer |->
        IF id \in test_case_state THEN IncreaseState(observer[id])
                                  ELSE observer[id]]

\* updateInjectorState: the counters of test_case_state form an odometer
\* whose first wheel is the least id.  A wheel is increased when every wheel
\* before it wrapped around; the others are left alone.
UpdateInjectorState(observer, test_case_state) ==
    [id \in DOMAIN observer |->
        IF /\ id \in test_case_state
           /\ \A k \in test_case_state : k < id => WrapsAround(observer[k])
        THEN IncreaseState(observer[id])
        ELSE observer[id]]

\* Mutant: an inactive injector is not found.
UpdateInjectorMissing(observer, test_case_state, id) ==
    IF id \in test_case_state THEN observer[id].last ELSE -1

\* updateInjector: an active injector selects its counter, any other one
\* its alternative 0.
UpdateInjector(observer, test_case_state, id) ==
    IF id \in test_case_state THEN observer[id].last ELSE 0
=============================================================================
