------------------------------ MODULE Campaign ------------------------------
(***************************************************************************)
(* A whole execution of stress: the main loop (src/src/main.cc), the       *)
(* TestCaseManager, the ActionFactory that numbers the injectors, and the  *)
(* InjectAction of every "or" node of the protocol model.                  *)
(*                                                                         *)
(* The composite tree is not built here; what one tree->runTest() does to  *)
(* the state of these components is the constant Walk, the sequence of the *)
(* relevant events in the order in which they happen:                      *)
(*   getAction o   the actions of a subtree are created; it holds the or   *)
(*                 node o, which registers itself                          *)
(*   inject o      InjectAction::runAction of o, after its alternatives    *)
(*   read p        a step that may fail (a read, a check); if it fails the *)
(*                 enclosing ReturnActions stop and the walk goes on at p  *)
(*   variable v    a Memorize or Variable command names the variable v     *)
(* Or nodes below another or, or below a repeat, are created by the first  *)
(* walk that reaches them; the ones in Eager by main's tree->getAction().  *)
(***************************************************************************)
EXTENDS TSGenerator, TestCaseState, Sequences, FiniteSets

CONSTANTS
    Injector,   \* the or nodes of the tree, auto-injected ones included
    Width,      \* the number of alternatives of each of them
    Eager,      \* those tree->getAction() creates, in its order
    Variable,   \* the variable names of the model
    Walk,       \* see above
    Monitor     \* TRUE when -M is given

ASSUME TreeAssumption ==
    /\ Width \in [Injector -> Nat \ {0, 1}]
    /\ Eager \in Seq(Injector)
    /\ \A p, q \in 1 .. Len(Eager) : Eager[p] = Eager[q] => p = q
    /\ Monitor \in BOOLEAN

ASSUME WalkAssumption ==
    /\ Walk \in Seq([op : {"getAction", "inject", "read", "variable"},
                     arg : Injector \cup Nat \cup Variable])
    /\ \A p \in 1 .. Len(Walk) :
         /\ Walk[p].op \in {"getAction", "inject"} => Walk[p].arg \in Injector
         /\ Walk[p].op = "read" => Walk[p].arg \in p + 1 .. Len(Walk) + 1
         /\ Walk[p].op = "variable" => Walk[p].arg \in Variable

VARIABLES
    pc,                 \* where main is
    result_parsing,     \* what ABNFParser::parse returned
    pos,                \* position in Eager, then in Walk
    next_injection_id,  \* ActionFactory
    injection_id,       \* InjectAction of each or node; 0: strategy == 0
    observer,           \* TestCaseManager, see TestCaseState
    test_case_state,
    variables,          \* bound variables, each with the test that bound it
    u64,                \* the outer loop of main
    number_injector,
    to_visit,           \* getRun: ids of observer not yet visited
    num_run,            \* getRun: result
    blind,              \* getRun: active injectors whose num_sons was unknown
    i,                  \* the inner loop of main
    chosen,             \* this test: what each injector selected (value_num)
    slept,              \* this test: the delays main waited
    log,                \* the files LOG->printTree wrote, with their faults
    baseline            \* the injectors that ran in EXEC 0

injectors == <<next_injection_id, injection_id, observer, test_case_state>>
loops == <<result_parsing, u64, number_injector, to_visit, num_run, blind, i>>
testcase == <<variables, chosen, slept>>
vars == <<pc, pos, injectors, loops, testcase, log, baseline>>

\* The test being run, and the alternatives its active injectors must take.
Test == <<u64, i>>
Plan == [id \in test_case_state |-> observer[id].last]

Init ==
    /\ pc = "getAction"
    /\ result_parsing \in BOOLEAN
    /\ pos = 1
    /\ next_injection_id = 1
    /\ injection_id = [o \in Injector |-> 0]
    /\ observer = << >>
    /\ test_case_state = {}
    /\ variables = << >>
    /\ u64 = 0
    /\ number_injector = 1
    /\ to_visit = {}
    /\ num_run = 0
    /\ blind = {}
    /\ i = 0
    /\ chosen = << >>
    /\ slept = {}
    /\ log = {}
    /\ baseline = {}

-----------------------------------------------------------------------------
(* Creating injectors *)

\* ActionFactory::getAction(OrComposite*), InjectAction's constructor and
\* registerInjector: an entry with the same id is overwritten.
RegisterInjector(o) ==
    /\ injection_id[o] = 0
    /\ injection_id' = [injection_id EXCEPT ![o] = next_injection_id]
    /\ next_injection_id' = AfterId(next_injection_id)
    /\ observer' = [id \in DOMAIN observer \cup {next_injection_id} |->
                       IF id = next_injection_id THEN NewInjectState
                                                 ELSE observer[id]]
    /\ UNCHANGED test_case_state

\* main: tree->getAction() visits the tree once.
CreateAction ==
    /\ pc = "getAction"
    /\ pos <= Len(Eager)
    /\ RegisterInjector(Eager[pos])
    /\ pos' = pos + 1
    /\ UNCHANGED <<pc, loops, testcase, log, baseline>>

\* main: if(!result_parsing) exit(1), after the actions were created.
CheckParsing ==
    /\ pc = "getAction"
    /\ pos > Len(Eager)
    /\ pc' = IF result_parsing THEN "exec" ELSE "exit"
    /\ UNCHANGED <<pos, injectors, loops, testcase, log, baseline>>

-----------------------------------------------------------------------------
(* EXEC u64: TestCaseManager::getRun *)

StartExec ==
    /\ pc = "exec"
    /\ u64 < number_injector
    /\ pc' = "getRun"
    /\ test_case_state' = {}
    /\ num_run' = 1
    /\ blind' = {}
    /\ to_visit' = DOMAIN observer
    /\ UNCHANGED <<pos, next_injection_id, injection_id, observer,
                   result_parsing, u64, number_injector, i, testcase, log,
                   baseline>>

\* int result *= ..., on a signed int of IntBits bits.
ToInt(n) == ((n + IntModulus \div 2) % IntModulus) - IntModulus \div 2

\* One iteration of getRun's loop over observer.
VisitObserver(id) ==
    /\ pc = "getRun"
    /\ id \in to_visit
    /\ \A k \in to_visit : id <= k
    /\ to_visit' = to_visit \ {id}
    /\ IF Enable(u64, id)
       THEN /\ num_run' = ToInt(num_run * Anomalies(observer[id]))
            /\ observer' = [observer EXCEPT ![id] = ResetState(@)]
            /\ test_case_state' = test_case_state \cup {id}
            /\ blind' = IF observer[id].num_sons < 0 THEN blind \cup {id}
                                                     ELSE blind
       ELSE UNCHANGED <<num_run, observer, test_case_state, blind>>
    /\ UNCHANGED <<pc, pos, next_injection_id, injection_id, result_parsing,
                   u64, number_injector, i, testcase, log, baseline>>

EnterRuns ==
    /\ pc = "getRun"
    /\ to_visit = {}
    /\ pc' = "run"
    /\ i' = 0
    /\ UNCHANGED <<pos, injectors, result_parsing, u64, number_injector,
                   to_visit, num_run, blind, testcase, log, baseline>>

\* The inner loop is over.  The first time, main takes an injection id to
\* learn how many EXECs there are.
EndExec ==
    /\ pc = "run"
    /\ i >= num_run
    /\ pc' = "exec"
    /\ u64' = u64 + 1
    /\ IF number_injector = 1
       THEN /\ number_injector' = next_injection_id
            /\ next_injection_id' = AfterId(next_injection_id)
       ELSE UNCHANGED <<number_injector, next_injection_id>>
    /\ UNCHANGED <<pos, injection_id, observer, test_case_state,
                   result_parsing, to_visit, num_run, blind, i, testcase, log,
                   baseline>>

\* closeMonitor, closeAll, releaseAllSocket, clearCommands.
EndMain ==
    /\ pc = "exec"
    /\ u64 >= number_injector
    /\ pc' = "done"
    /\ UNCHANGED <<pos, injectors, loops, testcase, log, baseline>>

-----------------------------------------------------------------------------
(* One test case *)

\* reconnectSocket and, with -M, sendNotificationStartTestCase, which ends
\* in waitTimeout.
StartTestCase ==
    /\ pc = "run"
    /\ i < num_run
    /\ pc' = "walk"
    /\ pos' = 1
    /\ chosen' = << >>
    /\ slept' = IF Monitor THEN {"before"} ELSE {}
    /\ UNCHANGED <<injectors, loops, variables, log, baseline>>

AtItem(ops) ==
    /\ pc = "walk"
    /\ pos <= Len(Walk)
    /\ Walk[pos].op \in ops

\* Composite::runTest: if(strategy == 0) getAction(), during a test.
CreateLateAction ==
    /\ AtItem({"getAction", "inject"})
    /\ RegisterInjector(Walk[pos].arg)
    /\ UNCHANGED <<pc, pos, loops, testcase, log, baseline>>

EnterSubtree ==
    /\ AtItem({"getAction"})
    /\ injection_id[Walk[pos].arg] # 0
    /\ pos' = pos + 1
    /\ UNCHANGED <<pc, injectors, loops, testcase, log, baseline>>

\* InjectAction::runAction, once its alternatives have run.
RunInjectAction ==
    /\ AtItem({"inject"})
    /\ LET o == Walk[pos].arg
           id == injection_id[o]
       IN /\ id # 0
          /\ observer' =
                [observer EXCEPT ![id] = SetSonsNumber(@, Width[o])]
          /\ chosen' =
                [x \in DOMAIN chosen \cup {o} |->
                    IF x = o
                    THEN UpdateInjector(observer, test_case_state, id)
                    ELSE chosen[x]]
          /\ baseline' = IF u64 = 0 THEN baseline \cup {o} ELSE baseline
    /\ pos' = pos + 1
    /\ UNCHANGED <<pc, next_injection_id, injection_id, test_case_state,
                   loops, variables, slept, log>>

\* Mutant: a failed read starts the test again.
RunReadAgain ==
    /\ AtItem({"read"})
    /\ pos' \in {pos + 1, 1}
    /\ UNCHANGED <<pc, injectors, loops, testcase, log, baseline>>

\* A read or a check: ReturnAction::runSonsAction breaks when it fails.
RunRead ==
    /\ AtItem({"read"})
    /\ pos' \in {pos + 1, Walk[pos].arg}
    /\ UNCHANGED <<pc, injectors, loops, testcase, log, baseline>>

\* MemorizeCommand / VariableCommand::runAction: use the variable if it is
\* bound, bind it otherwise.
RunVariable ==
    /\ AtItem({"variable"})
    /\ LET v == Walk[pos].arg
       IN variables' = [x \in DOMAIN variables \cup {v} |->
                           IF x \in DOMAIN variables THEN variables[x]
                                                     ELSE Test]
    /\ pos' = pos + 1
    /\ UNCHANGED <<pc, injectors, loops, chosen, slept, log, baseline>>

\* Mutant: resetVariable is forgotten.
PrepareInjectorsOnly ==
    /\ observer' = UpdateInjectorState(observer, test_case_state)
    /\ UNCHANGED <<variables, next_injection_id, injection_id, test_case_state>>

\* prepareNextTestCase: resetVariable, then updateInjectorState.
PrepareNextTestCase ==
    /\ variables' = << >>
    /\ observer' = UpdateInjectorState(observer, test_case_state)
    /\ UNCHANGED <<next_injection_id, injection_id, test_case_state>>

\* What follows tree->runTest(): with -M sendNotificationFinishTestCase,
\* which waits first, and getReport, otherwise waitTimeout; the next test
\* case is prepared and the result goes to the file of Test.
FinishTestCase ==
    /\ pc = "walk"
    /\ pos > Len(Walk)
    /\ pc' = "run"
    /\ slept' = slept \cup {"after"}
    /\ PrepareNextTestCase
    /\ log' = log \cup {[test |-> Test, plan |-> Plan]}
    /\ i' = i + 1
    /\ UNCHANGED <<pos, result_parsing, u64, number_injector, to_visit,
                   num_run, chosen, blind, baseline>>

-----------------------------------------------------------------------------
\* main has returned or called exit(1).
Stopped == pc \in {"done", "exit"} /\ UNCHANGED vars

Step ==
    \/ CreateAction
    \/ CheckParsing
    \/ StartExec
    \/ \E id \in to_visit : VisitObserver(id)
    \/ EnterRuns
    \/ EndExec
    \/ EndMain
    \/ StartTestCase
    \/ CreateLateAction
    \/ EnterSubtree
    \/ RunInjectAction
    \/ RunRead
    \/ RunVariable
    \/ FinishTestCase

Next == Step \/ Stopped

\* main is one thread that never blocks for ever: reads end by a timeout.
Spec == Init /\ [][Next]_vars /\ WF_vars(Step)

-----------------------------------------------------------------------------
(* Properties *)

\* Type invariant: the variables keep the shapes of the C++ objects they
\* stand for.
TypeOK ==
    /\ pc \in {"getAction", "exec", "getRun", "run", "walk", "done", "exit"}
    /\ result_parsing \in BOOLEAN
    /\ pos \in Nat \ {0}
    /\ next_injection_id \in Nat \ {0}
    /\ injection_id \in [Injector -> Nat]
    /\ DOMAIN observer \subseteq Nat \ {0}
    /\ observer \in [DOMAIN observer -> InjectStateType]
    /\ test_case_state \subseteq DOMAIN observer
    /\ DOMAIN variables \subseteq Variable
    /\ variables \in [DOMAIN variables -> Nat \X Nat]
    /\ u64 \in Nat
    /\ number_injector \in Nat
    /\ to_visit \subseteq DOMAIN observer
    /\ num_run \in Int
    /\ blind \subseteq test_case_state
    /\ i \in Nat
    /\ DOMAIN chosen \subseteq Injector
    /\ chosen \in [DOMAIN chosen -> Nat]
    /\ slept \subseteq {"before", "after"}
    /\ baseline \subseteq Injector

\* The alternatives the active injectors may be asked for together: every
\* anomaly of each of them, its alternative 0 being the correct value.
Combinations ==
    {c \in [test_case_state ->
               UNION {1 .. observer[id].num_sons - 1 : id \in test_case_state}] :
        \A id \in test_case_state : c[id] < observer[id].num_sons}

\* The combinations already tested in this EXEC.
Tried == {e.plan : e \in {l \in log : l.test[1] = u64}}

\* result[value_num] in InjectAction::runAction is within the vector of the
\* results of the alternatives, whatever was learnt when, and whichever
\* reads failed.
IndexInBounds == \A o \in DOMAIN chosen : chosen[o] < Width[o]

\* The usage text of -g 1, "Enables only one fault each test case": no two
\* or nodes take an anomalous alternative in the same test.
SingleFault ==
    Generator = "seq" /\ next_injection_id <= IntModulus =>
        \A o, p \in DOMAIN chosen : chosen[o] # 0 /\ chosen[p] # 0 => o = p

\* An EXEC all of whose injectors ran before tests a combination again only
\* after it has tested every combination.
NoRepeatedTest ==
    pc = "walk" /\ blind = {} /\ Plan \in Tried => Tried = Combinations

\* When such an EXEC ends it has tested every combination, in as many tests
\* as there are combinations.
ExecExhaustive ==
    pc = "run" /\ i >= num_run /\ blind = {} =>
        /\ Tried = Combinations
        /\ i = Cardinality(Combinations)

\* The alternatives that a test was to take in all or nodes.
Selection(e) ==
    [o \in Injector |->
        IF injection_id[o] \in DOMAIN e.plan THEN e.plan[injection_id[o]] ELSE 0]

\* The selections the generator is documented to go through: all of them,
\* or those with one fault at most.
WantedSelections ==
    {s \in [Injector -> UNION {0 .. Width[o] - 1 : o \in Injector}] :
        /\ \A o \in Injector : s[o] < Width[o]
        /\ Generator = "seq" =>
             \A o, p \in Injector : s[o] # 0 /\ s[p] # 0 => o = p}

\* If the baseline test (EXEC 0) reached every or node, the campaign tests
\* each wanted selection, and none of them twice.
CampaignComplete ==
    pc = "done" /\ baseline = Injector =>
        /\ {Selection(e) : e \in log} = WantedSelections
        /\ Cardinality(log) = Cardinality(WantedSelections)

\* The campaign as the abstract TestPlan: a test is made when its file is
\* written, and the baseline test is judged when EXEC 0 ends.
Abstract == INSTANCE TestPlan WITH
    Selections <- WantedSelections,
    todo <- WantedSelections \ {Selection(e) : e \in log},
    tests <- Cardinality(log),
    informed <- u64 = 0 \/ baseline = Injector,
    over <- pc = "done"

\* The campaign implements its plan step by step: every test that main's two
\* loops make takes a selection not tested before, and they end only when
\* none is left, unless the baseline test missed an or node.
ImplementsPlan == Abstract!Spec

\* A variable that a test case uses was bound in that same test case:
\* prepareNextTestCase forgets those of the test before.
VariablesOfThisTest ==
    pc = "walk" => \A v \in DOMAIN variables : variables[v] = Test

\* main ends: getRun's product, learnt while tests run, never keeps it
\* in the loop.
Terminates == <>(pc \in {"done", "exit"})

\* "Max number of faults 64" (usage text of -g 0): if the baseline test
\* reached every or node, each of them is active in some test.
EveryFaultEnabled ==
    pc = "done" /\ baseline = Injector =>
        \A o \in Injector : \E e \in log : injection_id[o] \in DOMAIN e.plan

\* "Delay n (msec) before AND after a test case" (usage text of -D).
DelayBeforeAndAfter == pc = "run" /\ i > 0 => slept = {"before", "after"}
=============================================================================
