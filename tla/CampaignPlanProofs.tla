------------------------- MODULE CampaignPlanProofs -------------------------
(***************************************************************************)
(* Theorems about Campaign: an EXEC tests every combination of anomalies   *)
(* once, the campaign every selection, and main's two loops implement      *)
(* TestPlan.  They hold as long as ids and getRun's product fit an int.    *)
(***************************************************************************)
EXTENDS CampaignProofs

USE DEF injectors, loops, testcase

-----------------------------------------------------------------------------
(* The number of combinations *)

\* A bijection, given by what it does.
LEMMA BijectionIs ==
  ASSUME NEW S, NEW T, NEW f \in [S -> T],
         \A x, y \in S : f[x] = f[y] => x = y,
         \A y \in T : \E x \in S : f[x] = y
  PROVE  f \in Bijection(S, T)
<1>1. f \in Injection(S, T)
  BY DEF Injection, IsInjective
<1>2. f \in Surjection(S, T)
  BY DEF Surjection
<1> QED BY <1>1, <1>2 DEF Bijection

\* Without wheels there is one combination.
LEMMA NoWheels ==
  ASSUME NEW n
  PROVE  /\ Digits({}, n) = {[k \in {} |-> 0]}
         /\ IsFiniteSet(Digits({}, n)) /\ Cardinality(Digits({}, n)) = 1
<1>1. Digits({}, n) = {[k \in {} |-> 0]}
  BY DEF Digits
<1> QED BY <1>1, FS_Singleton

\* One more wheel multiplies their number by its anomalies, as getRun does.
LEMMA OneMoreWheel ==
  ASSUME NEW S, NEW id, id \notin S, NEW n, NEW m, NEW w \in Nat,
         IsFiniteSet(Digits(S, n)),
         \A k \in S : m[k] = n[k], m[id] = w + 1
  PROVE  /\ IsFiniteSet(Digits(S \cup {id}, m))
         /\ Cardinality(Digits(S \cup {id}, m)) = Cardinality(Digits(S, n)) * w
<1> DEFINE P == Digits(S, n) \X (1 .. w)
           Q == Digits(S \cup {id}, m)
           f == [p \in P |-> [k \in S \cup {id} |->
                                IF k = id THEN p[2] ELSE p[1][k]]]
<1>1. IsFiniteSet(1 .. w) /\ Cardinality(1 .. w) = w
  BY FS_Interval
<1>2. IsFiniteSet(P) /\ Cardinality(P) = Cardinality(Digits(S, n)) * w
  BY <1>1, FS_Product
<1>3. ASSUME NEW p \in P
      PROVE  /\ p[1] \in [S -> Nat] /\ p[2] \in 1 .. w
             /\ \A k \in S : 1 <= p[1][k] /\ p[1][k] < n[k]
             /\ p = <<p[1], p[2]>>
             /\ f[p][id] = p[2]
             /\ \A k \in S : f[p][k] = p[1][k]
             /\ f[p] \in [S \cup {id} -> Nat]
  BY DEF Digits
<1>4. ASSUME NEW p \in P PROVE f[p] \in Q
  <2>1. \A k \in S \cup {id} : 1 <= f[p][k] /\ f[p][k] < m[k]
    BY <1>3
  <2> QED BY <1>3, <2>1 DEF Digits
<1>5. f \in [P -> Q]
  BY <1>4
<1>6. ASSUME NEW p \in P, NEW q \in P, f[p] = f[q] PROVE p = q
  <2> HIDE DEF f, P, Q
  <2>1. p[2] = q[2] /\ \A k \in S : p[1][k] = q[1][k]
    BY <1>3, <1>6
  <2>2. p[1] = q[1]
    BY <1>3, <2>1
  <2> QED BY <1>3, <2>1, <2>2
<1>7. ASSUME NEW c \in Q PROVE \E p \in P : f[p] = c
  <2> DEFINE p == <<[k \in S |-> c[k]], c[id]>>
  <2>1. /\ c \in [S \cup {id} -> Nat]
        /\ \A k \in S \cup {id} : 1 <= c[k] /\ c[k] < m[k]
    BY DEF Digits
  <2>2. [k \in S |-> c[k]] \in Digits(S, n) /\ c[id] \in 1 .. w
    BY <2>1 DEF Digits
  <2>3. p \in P /\ f[p] \in [S \cup {id} -> Nat]
    BY <1>3, <2>2
  <2>4. \A k \in S \cup {id} : f[p][k] = c[k]
    BY <2>3
  <2>5. f[p] = c
    BY <2>1, <2>3, <2>4
  <2> QED BY <2>3, <2>5
<1> HIDE DEF f, P, Q
<1>8. f \in Bijection(P, Q)
  BY <1>5, <1>6, <1>7, BijectionIs
<1>9. IsFiniteSet(Q) /\ Cardinality(Q) = Cardinality(P)
  BY <1>2, <1>8, FS_Bijection DEF ExistsBijection
<1> QED BY <1>2, <1>9 DEF Q

\* A small number is its own conversion to int.
LEMMA ToIntSmall ==
  ASSUME NEW n \in Nat, n < IntModulus \div 2
  PROVE  ToInt(n) = n
<1>1. IntModulus \in Nat \ {0}
  BY IntModulusType
<1>2. PICK m \in Nat \ {0}, h \in Nat : m = IntModulus /\ h = m \div 2
  BY <1>1
<1>3. n + h \in 0 .. m - 1
  BY <1>2
<1>4. (n + h) % m = n + h
  BY <1>3, Z3
<1> QED BY <1>2, <1>4 DEF ToInt

-----------------------------------------------------------------------------
(* The tests of an EXEC *)

\* The combinations of the current EXEC are few enough to be counted by an
\* int.
ProductFits == Cardinality(Combinations) < IntModulus \div 2

\* The same, in terms of the wheels.
Few == Cardinality(Digits(test_case_state, Sons)) < IntModulus \div 2

\* getRun visits each injector once, and multiplies the numbers of their
\* anomalies.
ProductInv ==
    /\ pc = "getRun" => to_visit \cap test_case_state = {}
    /\ pc \in {"getRun", "run", "walk"} /\ blind = {} =>
         /\ IsFiniteSet(Digits(test_case_state, Sons))
         /\ Few => num_run = Cardinality(Digits(test_case_state, Sons))

\* i counts the combinations that were tried.
CountedInv ==
    /\ pc = "walk" => i < num_run
    /\ pc \in {"run", "walk"} /\ blind = {} =>
         \/ Tried = Before(test_case_state, Sons, Plan) /\ i = Cardinality(Tried)
         \/ Tried = Digits(test_case_state, Sons) /\ i = Cardinality(Tried)
         \/ ~ Few

\* The steps that change neither the product nor the counter of tests.
LEMMA SameRuns ==
  ASSUME [Next]_vars
  PROVE  \/ UNCHANGED <<num_run, i>> /\ (pc = "getRun" => UNCHANGED to_visit)
         \/ StartExec \/ EnterRuns \/ FinishTestCase
         \/ \E id \in to_visit : VisitObserver(id)
BY DEF Next, Step, Stopped, vars, CreateAction, CheckParsing, EndExec, EndMain,
       StartTestCase, CreateLateAction, EnterSubtree, RunInjectAction, RunRead,
       RunVariable, AtItem

\* The wheels of an EXEC that is not blind keep their sizes.
LEMMA StillWheels ==
  ASSUME BlindInv, blind = {}, WheelsStill
  PROVE  Sons' = Sons /\ Plan' = Plan /\ test_case_state' = test_case_state
<1>1. \A id \in test_case_state : observer'[id].num_sons = observer[id].num_sons
  BY DEF WheelsStill, BlindInv
<1> QED BY <1>1 DEF Sons, Plan, WheelsStill

\* One iteration of getRun.
LEMMA VisitProduct ==
  ASSUME TypeOK, CountInv, BlindInv, ProductInv,
         NEW id \in to_visit, VisitObserver(id)
  PROVE  ProductInv'
<1>1. /\ pc = "getRun" /\ pc' = "getRun" /\ to_visit' = to_visit \ {id}
      /\ id \in DOMAIN observer /\ test_case_state \subseteq DOMAIN observer
  BY DEF VisitObserver, TypeOK
<1>2. CASE ~ Enable(u64, id)
  <2>1. UNCHANGED <<num_run, observer, test_case_state, blind>>
    BY <1>2 DEF VisitObserver
  <2>2. Sons' = Sons
    BY <2>1 DEF Sons
  <2> QED BY <1>1, <2>1, <2>2 DEF ProductInv, Few
<1>3. CASE Enable(u64, id)
  <2>1. /\ test_case_state' = test_case_state \cup {id}
        /\ observer' = [observer EXCEPT ![id] = ResetState(@)]
        /\ blind' = IF observer[id].num_sons < 0 THEN blind \cup {id} ELSE blind
        /\ num_run' = ToInt(num_run * Anomalies(observer[id]))
    BY <1>3 DEF VisitObserver
  <2>2. id \notin test_case_state
    BY <1>1 DEF ProductInv
  <2>3. to_visit' \cap test_case_state' = {}
    BY <1>1, <2>1 DEF ProductInv
  <2>4. ASSUME blind' = {}
        PROVE  /\ IsFiniteSet(Digits(test_case_state, Sons)')
               /\ Cardinality(Digits(test_case_state, Sons)') < IntModulus \div 2 =>
                     num_run' = Cardinality(Digits(test_case_state, Sons)')
    <3> DEFINE C == Cardinality(Digits(test_case_state, Sons))
               w == observer[id].num_sons - 1
    <3>1. blind = {} /\ w \in Nat \ {0}
      BY <1>1, <2>1, <2>4 DEF CountInv, TypeOK, InjectStateType
    <3>2. /\ \A k \in test_case_state : Sons'[k] = Sons[k]
          /\ Sons'[id] = w + 1
      BY <1>1, <2>1, <3>1 DEF Sons, ResetState, TypeOK, InjectStateType
    <3>3. IsFiniteSet(Digits(test_case_state, Sons)) /\ C \in Nat
      BY <1>1, <3>1, FS_CardinalityType DEF ProductInv
    <3> HIDE DEF w
    <3>4. /\ IsFiniteSet(Digits(test_case_state \cup {id}, Sons'))
          /\ Cardinality(Digits(test_case_state \cup {id}, Sons')) = C * w
      <4>1. w \in Nat
        BY <3>1
      <4> QED BY <2>2, <3>2, <3>3, <4>1, OneMoreWheel
    <3>5. ASSUME C * w < IntModulus \div 2 PROVE num_run' = C * w
      <4>1. C * w \in Nat /\ C <= C * w
        BY <3>1, <3>3
      <4>2. IntModulus \div 2 \in Nat
        BY IntModulusType
      <4>3. C < IntModulus \div 2
        BY <3>3, <3>5, <4>1, <4>2
      <4>4. num_run = C
        BY <1>1, <3>1, <4>3 DEF ProductInv, Few
      <4> QED BY <2>1, <3>5, <4>1, <4>4, ToIntSmall DEF Anomalies, w
    <3> QED BY <2>1, <3>4, <3>5
  <2> QED BY <1>1, <2>3, <2>4 DEF ProductInv, Few
<1> QED BY <1>2, <1>3

\* Every step keeps the product.
LEMMA NextProduct ==
  ASSUME TypeOK, IdInv, CountInv, BlindInv, ProductInv, [Next]_vars
  PROVE  ProductInv'
<1>1. CASE StartExec
  <2>1. test_case_state' = {} /\ num_run' = 1
    BY <1>1 DEF StartExec
  <2>2. /\ IsFiniteSet(Digits(test_case_state, Sons)')
        /\ Cardinality(Digits(test_case_state, Sons)') = 1
    BY <2>1, NoWheels
  <2> QED BY <2>1, <2>2 DEF ProductInv, Few
<1>2. CASE \E id \in to_visit : VisitObserver(id)
  BY <1>2, VisitProduct
<1>3. CASE FinishTestCase
  <2>1. /\ pc = "walk" /\ pc' = "run" /\ num_run' = num_run
        /\ UNCHANGED <<test_case_state, blind>> /\ Sons' = Sons
    BY <1>3, FinishMoves DEF FinishTestCase
  <2> QED BY <2>1 DEF ProductInv, Few
<1>4. CASE WheelsStill /\ EnterRuns
  <2>1. /\ pc = "getRun" /\ pc' = "run" /\ num_run' = num_run
        /\ blind' = blind
    BY <1>4 DEF EnterRuns
  <2>2. blind = {} => Sons' = Sons /\ test_case_state' = test_case_state
    BY <1>4, StillWheels
  <2> QED BY <2>1, <2>2 DEF ProductInv, Few
<1>5. CASE /\ WheelsStill
           /\ UNCHANGED <<num_run, i>> /\ (pc = "getRun" => UNCHANGED to_visit)
           /\ \/ UNCHANGED pc
              \/ pc' \notin {"getRun", "run", "walk"}
              \/ StartTestCase
  <2>1. blind' = blind /\ test_case_state' = test_case_state
    BY <1>5 DEF WheelsStill
  <2>2. blind = {} => Sons' = Sons
    BY <1>5, StillWheels
  <2>3. StartTestCase => pc = "run" /\ pc' = "walk"
    BY DEF StartTestCase
  <2> QED BY <1>5, <2>1, <2>2, <2>3 DEF ProductInv, Few
<1> QED BY <1>1, <1>2, <1>3, <1>4, <1>5, StillOrMoves, SameRuns

\* An EXEC that can be counted never plans a combination twice.
LEMMA PlanIsFresh ==
  ASSUME TypeOK, CountInv, BlindInv, ProductInv, CountedInv,
         pc = "walk", blind = {}, Few
  PROVE  /\ Plan \in Digits(test_case_state, Sons)
         /\ Tried = Before(test_case_state, Sons, Plan)
         /\ i = Cardinality(Tried)
         /\ Plan \notin Tried
<1> DEFINE S == test_case_state
           n == Sons
           s == Plan
<1>1. s \in Digits(S, n)
  BY PlanIsACombination
<1>2. i < num_run /\ i \in Nat
  BY DEF CountedInv, TypeOK
<1>3. num_run = Cardinality(Digits(S, n))
  BY DEF ProductInv
<1>4. Tried = Before(S, n, s) /\ i = Cardinality(Tried)
  BY <1>2, <1>3 DEF CountedInv
<1> HIDE DEF S, n, s
<1>5. s \notin Tried
  BY <1>1, <1>4 DEF Before, LexLess, Digits
<1> QED BY <1>1, <1>4, <1>5 DEF S, n, s

\* The end of a test: one more combination was tried.
LEMMA FinishCounted ==
  ASSUME TypeOK, IdInv, CountInv, BlindInv, ProductInv, CountedInv,
         FinishTestCase, blind = {}, Few
  PROVE  \/ Tried' = Before(test_case_state, Sons, Plan)' /\ i' = Cardinality(Tried')
         \/ Tried' = Digits(test_case_state, Sons)' /\ i' = Cardinality(Tried')
<1> DEFINE S == test_case_state
           n == Sons
           s == Plan
<1>1. /\ s \in Digits(S, n) /\ Tried = Before(S, n, s)
      /\ i = Cardinality(Tried) /\ s \notin Tried
  BY PlanIsFresh DEF FinishTestCase
<1>2. /\ test_case_state' = S /\ Sons' = n /\ i' = i + 1
      /\ Plan' = Successor(S, n, s) /\ Tried' = Tried \cup {s}
  BY FinishMoves, TriedFinish DEF FinishTestCase
<1>3. IsFiniteSet(Digits(S, n))
  BY DEF ProductInv, FinishTestCase
<1> HIDE DEF S, n, s
<1>4. IsFiniteSet(Tried)
  BY <1>1, <1>3, FS_Subset DEF Before
<1>5. i' = Cardinality(Tried')
  BY <1>1, <1>2, <1>4, FS_AddElement
<1>6. Tried' = Digits(S, n) \/ Tried' = Before(S, n, Successor(S, n, s))
  BY <1>1, <1>2, OdometerStep DEF S, n, s
<1> QED BY <1>2, <1>5, <1>6

\* Every step keeps the count of the tests.
LEMMA NextCounted ==
  ASSUME TypeOK, IdInv, CountInv, BlindInv, LogInv, ProductInv, CountedInv,
         [Next]_vars
  PROVE  CountedInv'
<1>1. CASE StartExec \/ \E id \in to_visit : VisitObserver(id)
  <2>1. pc' = "getRun"
    BY <1>1 DEF StartExec, VisitObserver
  <2> QED BY <2>1 DEF CountedInv
<1>2. CASE FinishTestCase
  <2>1. /\ pc = "walk" /\ pc' = "run"
        /\ UNCHANGED <<test_case_state, blind>> /\ Sons' = Sons
    BY <1>2, FinishMoves DEF FinishTestCase
  <2>2. Few' => Few
    BY <2>1 DEF Few
  <2> QED BY <1>2, <2>1, <2>2, FinishCounted DEF CountedInv
<1>3. CASE WheelsStill /\ EnterRuns
  <2>1. /\ pc = "getRun" /\ UNCHANGED <<u64, log>> /\ blind' = blind
        /\ pc' = "run" /\ i' = 0
    BY <1>3 DEF EnterRuns
  <2>2. Tried = {} /\ Tried' = {}
    BY <2>1, NothingTried DEF Tried
  <2>3. ASSUME blind = {} PROVE Before(test_case_state, Sons, Plan)' = {}
    <3>1. Sons' = Sons /\ Plan' = Plan /\ test_case_state' = test_case_state
      BY <1>3, <2>3, StillWheels
    <3>2. \A id \in test_case_state : Plan[id] = 1
      BY <2>1 DEF BlindInv, Plan
    <3> QED BY <3>1, <3>2, FirstCombination
  <2> QED BY <2>1, <2>2, <2>3, FS_EmptySet DEF CountedInv
<1>4. CASE /\ WheelsStill
           /\ UNCHANGED <<num_run, i>>
           /\ \/ UNCHANGED <<pc, u64, log>>
              \/ pc' \notin {"getRun", "run", "walk"}
              \/ StartTestCase
  <2>1. StartTestCase => pc = "run" /\ UNCHANGED <<u64, log>> /\ i < num_run
    BY DEF StartTestCase
  <2>2. blind' = blind /\ test_case_state' = test_case_state
    BY <1>4 DEF WheelsStill
  <2>3. blind = {} => Sons' = Sons /\ Plan' = Plan
    BY <1>4, StillWheels
  <2>4. CASE pc' \notin {"run", "walk"}
    BY <2>4 DEF CountedInv
  <2>5. CASE UNCHANGED <<u64, log>> /\ (UNCHANGED pc \/ StartTestCase)
    <3>1. Tried' = Tried
      BY <2>5 DEF Tried
    <3>2. blind = {} => (Few' => Few)
      BY <2>2, <2>3 DEF Few
    <3> QED BY <1>4, <2>1, <2>2, <2>3, <2>5, <3>1, <3>2 DEF CountedInv
  <2> QED BY <1>4, <2>1, <2>4, <2>5
<1> QED BY <1>1, <1>2, <1>3, <1>4, StillOrMoves, SameRuns

\* What the end of an EXEC says of the combinations.
LEMMA EndExhaustive ==
  ASSUME TypeOK, CountInv, BlindInv, ProductInv, CountedInv, Few,
         pc = "run", i >= num_run, blind = {}
  PROVE  /\ Tried = Digits(test_case_state, Sons)
         /\ i = Cardinality(Digits(test_case_state, Sons))
<1> DEFINE S == test_case_state
           n == Sons
           s == Plan
<1>1. s \in Digits(S, n) /\ i \in Nat
  BY PlanIsACombination DEF TypeOK
<1>2. IsFiniteSet(Digits(S, n)) /\ num_run = Cardinality(Digits(S, n))
  BY DEF ProductInv
<1>3. \/ Tried = Before(S, n, s) /\ i = Cardinality(Tried)
      \/ Tried = Digits(S, n) /\ i = Cardinality(Tried)
  BY DEF CountedInv
<1> HIDE DEF S, n, s
<1>4. CASE Tried = Before(S, n, s) /\ i = Cardinality(Tried)
  <2>1. Before(S, n, s) \in SUBSET Digits(S, n) /\ s \notin Before(S, n, s)
    BY <1>1 DEF Before, LexLess, Digits
  <2>2. /\ Cardinality(Before(S, n, s)) <= Cardinality(Digits(S, n))
        /\ Cardinality(Digits(S, n)) = Cardinality(Before(S, n, s))
              => Digits(S, n) = Before(S, n, s)
    BY <1>2, <2>1, FS_Subset
  <2>3. Cardinality(Digits(S, n)) \in Nat
    BY <1>2, FS_CardinalityType
  <2> QED BY <1>1, <1>2, <1>4, <2>1, <2>2, <2>3
<1> QED BY <1>3, <1>4 DEF S, n

\* What EXECs rely on.
ExecInv ==
    /\ TypeOK /\ IdInv /\ CountInv
    /\ LogInv /\ BlindInv
    /\ ProductInv /\ CountedInv

\* The invariants of EXECs hold at first,
LEMMA InitExec == Init => ExecInv
<1>1. Init => LogInv /\ BlindInv /\ ProductInv /\ CountedInv
  BY DEF Init, LogInv, BlindInv, ProductInv, CountedInv
<1> QED BY <1>1, InitType, InitCounts DEF ExecInv

\* and every step keeps them.
LEMMA NextExec == ExecInv /\ [Next]_vars => ExecInv'
<1> SUFFICES ASSUME ExecInv, [Next]_vars PROVE ExecInv'
  OBVIOUS
<1>1. TypeOK' /\ IdInv' /\ CountInv' /\ LogInv' /\ BlindInv'
  BY NextType, NextIds, NextCounts, NextLog, NextBlind DEF ExecInv
<1>2. ProductInv' /\ CountedInv'
  BY NextProduct, NextCounted DEF ExecInv
<1> QED BY <1>1, <1>2 DEF ExecInv

\* For every model and both generators, whichever reads fail: an EXEC whose
\* injectors had all run when getRun started it makes as many tests as there
\* are combinations and tries each of them, unless getRun's product
\* overflows an int.
THEOREM ExecsAreExhaustive == Spec => [](ProductFits => ExecExhaustive)
<1>1. ExecInv => (ProductFits => ExecExhaustive)
  <2> SUFFICES ASSUME ExecInv, ProductFits, pc = "run", i >= num_run, blind = {}
               PROVE  Tried = Combinations /\ i = Cardinality(Combinations)
    BY DEF ExecExhaustive
  <2>1. Combinations = Digits(test_case_state, Sons)
    BY CombinationsAreDigits DEF ExecInv
  <2>2. Few
    BY <2>1 DEF ProductFits, Few
  <2> QED BY <2>1, <2>2, EndExhaustive DEF ExecInv
<1> QED BY <1>1, InitExec, NextExec, PTL DEF Spec

-----------------------------------------------------------------------------
(* What EXEC 0 finds out *)

\* Models for which ids and numbers of tests fit an int.
SmallModel ==
    /\ IsFiniteSet(Injector)
    /\ Cardinality(Injector) <= MaxFaults
    /\ IsFiniteSet(WantedSelections)
    /\ Cardinality(WantedSelections) < IntModulus \div 2

\* The or nodes that have an id.
Registered == {o \in Injector : injection_id[o] # 0}

\* In EXEC 0 the ids are the first ones of the generator, and main learns
\* their number afterwards; every id belongs to an or node, and the widths
\* of those that ran are known.
KnownInv ==
    /\ u64 = 0 => /\ number_injector = 1
                  /\ DOMAIN observer = FirstIds(Cardinality(Registered))
                  /\ next_injection_id = NextId(Cardinality(Registered))
    /\ u64 # 0 /\ baseline = Injector =>
                  /\ DOMAIN observer = FirstIds(Cardinality(Injector))
                  /\ number_injector = NextId(Cardinality(Injector))
    /\ \A id \in DOMAIN observer : \E o \in Injector : injection_id[o] = id
    /\ \A o \in baseline :
         /\ injection_id[o] # 0
         /\ ~ Shared(injection_id[o]) =>
               observer[injection_id[o]].num_sons # -1
    /\ pc \in {"getRun", "run", "walk"} => u64 < number_injector

\* A step that creates no injector may only learn widths.
KeepObserver ==
    /\ DOMAIN observer' = DOMAIN observer
    /\ injection_id' = injection_id
    /\ \A id \in DOMAIN observer :
         \/ observer'[id].num_sons = observer[id].num_sons
         \/ observer[id].num_sons = -1 /\ observer'[id].num_sons # -1

\* The other steps create one.
LEMMA ObserverSteps ==
  ASSUME TypeOK, CountInv, [Next]_vars
  PROVE  \/ KeepObserver /\ ~ (CreateAction \/ CreateLateAction)
         \/ /\ CreateAction \/ CreateLateAction
            /\ \E o \in Injector : RegisterInjector(o)
<1>1. CASE CreateAction
  <2>1. Eager[pos] \in Injector /\ RegisterInjector(Eager[pos])
    BY <1>1, TreeAssumption DEF CreateAction, TypeOK
  <2> QED BY <1>1, <2>1
<1>2. CASE CreateLateAction
  <2>1. Walk[pos].arg \in Injector /\ RegisterInjector(Walk[pos].arg)
    BY <1>2, WalkItem DEF CreateLateAction
  <2> QED BY <1>2, <2>1
<1>3. ASSUME NEW id \in to_visit, VisitObserver(id) PROVE KeepObserver
  <2>1. CASE Enable(u64, id)
    <3>1. observer' = [observer EXCEPT ![id] = ResetState(@)] /\ injection_id' = injection_id
      BY <1>3, <2>1 DEF VisitObserver
    <3> QED BY <3>1 DEF KeepObserver, ResetState, TypeOK
  <2>2. CASE ~ Enable(u64, id)
    BY <1>3, <2>2 DEF VisitObserver, KeepObserver
  <2> QED BY <2>1, <2>2
<1>4. ASSUME RunInjectAction PROVE KeepObserver
  <2> DEFINE o == Walk[pos].arg
             id == injection_id[o]
  <2>1. o \in Injector /\ Width[o] \in Nat
    BY <1>4, WalkItem, TreeAssumption DEF RunInjectAction
  <2>2. /\ observer' = [observer EXCEPT ![id] = SetSonsNumber(@, Width[o])]
        /\ injection_id' = injection_id
    BY <1>4 DEF RunInjectAction
  <2> HIDE DEF o, id
  <2>3. \A k \in DOMAIN observer :
          observer[k].num_sons = -1 \/ observer[k].num_sons >= 2
    BY DEF CountInv
  <2>4. PICK w \in Nat : w = Width[o]
    BY <2>1
  <2>5. /\ DOMAIN observer' = DOMAIN observer
        /\ \A k \in DOMAIN observer :
             \/ observer'[k] = observer[k]
             \/ observer'[k] = SetSonsNumber(observer[k], w)
    BY <2>2, <2>4
  <2>6. ASSUME NEW k \in DOMAIN observer
        PROVE  \/ SetSonsNumber(observer[k], w).num_sons = observer[k].num_sons
               \/ /\ observer[k].num_sons = -1
                  /\ SetSonsNumber(observer[k], w).num_sons # -1
    <3>1. CASE observer[k].num_sons = -1
      BY <3>1 DEF SetSonsNumber
    <3>2. CASE observer[k].num_sons >= 2
      BY <3>2 DEF SetSonsNumber, TypeOK, InjectStateType
    <3> QED BY <2>3, <3>1, <3>2
  <2>7. KeepObserver
    BY <2>2, <2>5, <2>6 DEF KeepObserver
  <2> QED BY <2>7
<1>5. ASSUME FinishTestCase PROVE KeepObserver
  <2>1. /\ observer' = UpdateInjectorState(observer, test_case_state)
        /\ injection_id' = injection_id
    BY <1>5 DEF FinishTestCase, PrepareNextTestCase
  <2>2. \A k \in DOMAIN observer :
          IncreaseState(observer[k]).num_sons = observer[k].num_sons
    BY DEF IncreaseState, ResetState
  <2> QED BY <2>1, <2>2 DEF KeepObserver, UpdateInjectorState
<1>6. ASSUME UNCHANGED <<observer, injection_id>> PROVE KeepObserver
  BY <1>6 DEF KeepObserver
<1>7. KeepObserver \/ CreateAction \/ CreateLateAction
  BY <1>3, <1>4, <1>5, <1>6 DEF Next, Step, Stopped, vars,
     CheckParsing, StartExec, EnterRuns, EndExec, EndMain, StartTestCase,
     EnterSubtree, RunRead, RunVariable
<1> QED BY <1>1, <1>2, <1>7

\* A new injector gets the next id of the generator.
LEMMA RegisterKnown ==
  ASSUME SmallModel, TypeOK, IdInv, CountInv, KnownInv,
         NEW o \in Injector, RegisterInjector(o),
         UNCHANGED <<pc, u64, number_injector, baseline>>
  PROVE  KnownInv'
<1> DEFINE k == Cardinality(Registered)
<1>1. /\ injection_id[o] = 0
      /\ injection_id' = [injection_id EXCEPT ![o] = next_injection_id]
      /\ next_injection_id' = AfterId(next_injection_id)
      /\ DOMAIN observer' = DOMAIN observer \cup {next_injection_id}
      /\ \A id \in DOMAIN observer : id # next_injection_id => observer'[id] = observer[id]
  BY DEF RegisterInjector
<1>2. next_injection_id # 0 /\ injection_id \in [Injector -> Nat]
  BY DEF TypeOK
<1>3. Registered' = Registered \cup {o} /\ o \notin Registered
  BY <1>1, <1>2 DEF Registered
<1>4. /\ IsFiniteSet(Registered) /\ k \in Nat
      /\ Cardinality(Registered') = k + 1
      /\ k + 1 <= MaxFaults
  <2>1. IsFiniteSet(Registered) /\ k \in Nat
    BY FS_Subset, FS_CardinalityType DEF SmallModel, Registered
  <2>2. Cardinality(Registered') = k + 1
    BY <1>3, <2>1, FS_AddElement
  <2>3. Registered \cup {o} \in SUBSET Injector
    BY DEF Registered
  <2>4. Cardinality(Registered') <= Cardinality(Injector)
    BY <1>3, <2>3, FS_Subset DEF SmallModel
  <2>5. Cardinality(Injector) \in Nat /\ MaxFaults \in Int
    BY FS_CardinalityType, IntBitsAssumption, IntModulusType DEF SmallModel, MaxFaults
  <2> QED BY <2>1, <2>2, <2>4, <2>5 DEF SmallModel
<1> HIDE DEF k
<1>5. ASSUME u64 = 0
      PROVE  /\ DOMAIN observer' = FirstIds(k + 1)
             /\ next_injection_id' = NextId(k + 1)
  <2>1. DOMAIN observer = FirstIds(k) /\ next_injection_id = NextId(k)
    BY <1>5 DEF KnownInv, k
  <2>2. MaxFaults \in Int /\ k < MaxFaults
    BY <1>4, IntBitsAssumption, IntModulusType DEF MaxFaults
  <2> QED BY <1>1, <1>4, <2>1, <2>2, OneMoreId
<1>6. ASSUME u64 # 0 PROVE baseline # Injector
  BY <1>1 DEF KnownInv
<1>7. \A id \in DOMAIN observer' : \E p \in Injector : injection_id'[p] = id
  <2>1. injection_id'[o] = next_injection_id
    BY <1>1, <1>2
  <2>2. ASSUME NEW id \in DOMAIN observer
        PROVE  \E p \in Injector : injection_id'[p] = id
    <3>1. PICK p \in Injector : injection_id[p] = id
      BY DEF KnownInv
    <3>2. p # o
      BY <1>1, <3>1 DEF TypeOK
    <3> QED BY <1>1, <1>2, <3>1, <3>2
  <2> QED BY <1>1, <2>1, <2>2
<1>8. ASSUME NEW p \in baseline
      PROVE  /\ injection_id'[p] # 0
             /\ ~ Shared(injection_id'[p]) =>
                   observer'[injection_id'[p]].num_sons # -1
  <2>1. /\ p \in Injector /\ injection_id[p] # 0
        /\ ~ Shared(injection_id[p]) => observer[injection_id[p]].num_sons # -1
    BY DEF KnownInv, TypeOK
  <2>2. injection_id'[p] = injection_id[p] /\ injection_id[p] \in DOMAIN observer
    BY <1>1, <1>2, <2>1 DEF IdInv
  <2>3. \A id \in DOMAIN observer : id = next_injection_id => Shared(id)
    BY DEF IdInv, TypeOK
  <2> QED BY <1>1, <2>1, <2>2, <2>3
<1>9. \A id : Shared(id)' <=> Shared(id)
  BY DEF Shared
<1> QED BY <1>4, <1>5, <1>6, <1>7, <1>8, <1>9 DEF KnownInv, k, Shared

\* Every step keeps what is known.
LEMMA NextKnown ==
  ASSUME SmallModel, TypeOK, IdInv, CountInv, KnownInv, [Next]_vars
  PROVE  KnownInv'
<1>1. CASE /\ CreateAction \/ CreateLateAction
           /\ \E o \in Injector : RegisterInjector(o)
  <2>1. UNCHANGED <<pc, u64, number_injector, baseline>>
    BY <1>1 DEF CreateAction, CreateLateAction
  <2> QED BY <1>1, <2>1, RegisterKnown
<1>2. CASE KeepObserver /\ ~ (CreateAction \/ CreateLateAction)
  <2>1. Registered' = Registered
    BY <1>2 DEF KeepObserver, Registered
  <2>2. \A id \in DOMAIN observer' : \E o \in Injector : injection_id'[o] = id
    BY <1>2 DEF KeepObserver, KnownInv
  <2>3. ASSUME NEW o \in baseline
        PROVE  /\ injection_id'[o] # 0
               /\ ~ Shared(injection_id'[o]) =>
                     observer'[injection_id'[o]].num_sons # -1
    <3>1. injection_id[o] # 0 /\ injection_id[o] \in DOMAIN observer
      BY DEF KnownInv, IdInv, TypeOK
    <3> QED BY <1>2, <3>1 DEF KeepObserver, KnownInv
  <2>4. \A id : Shared(id)' <=> Shared(id)
    BY DEF Shared
  <2>5. CASE EndExec
    <3>1. /\ pc' = "exec" /\ u64' = u64 + 1 /\ pc = "run" /\ baseline' = baseline
          /\ IF number_injector = 1 THEN number_injector' = next_injection_id
                                    ELSE UNCHANGED number_injector
      BY <2>5 DEF EndExec
    <3>2. u64 \in Nat /\ number_injector \in Nat /\ u64 < number_injector
      BY <3>1 DEF KnownInv, TypeOK
    <3>3. ASSUME baseline = Injector
          PROVE  /\ DOMAIN observer' = FirstIds(Cardinality(Injector))
                 /\ number_injector' = NextId(Cardinality(Injector))
      <4>1. Registered = Injector
        BY <3>3 DEF Registered, KnownInv
      <4>2. CASE u64 = 0
        BY <1>2, <3>1, <4>1, <4>2 DEF KnownInv, KeepObserver
      <4>3. CASE u64 # 0
        <5>1. number_injector # 1
          BY <3>2, <4>3
        <5> QED BY <1>2, <3>1, <3>3, <4>3, <5>1 DEF KnownInv, KeepObserver
      <4> QED BY <4>2, <4>3
    <3>4. u64' # 0
      BY <3>1, <3>2
    <3> QED BY <2>2, <2>3, <2>4, <3>1, <3>3, <3>4 DEF KnownInv, Shared
  <2>6. CASE RunInjectAction
    <3> DEFINE o == Walk[pos].arg
               id == injection_id[o]
    <3>1. o \in Injector /\ Width[o] \in Nat
      <4>1. o \in Injector
        BY <2>6, WalkItem DEF RunInjectAction
      <4> QED BY <4>1, TreeAssumption
    <3>2. /\ id # 0 /\ observer' = [observer EXCEPT ![id] = SetSonsNumber(@, Width[o])]
          /\ baseline' = IF u64 = 0 THEN baseline \cup {o} ELSE baseline
          /\ UNCHANGED <<pc, next_injection_id, u64, number_injector>>
      BY <2>6 DEF RunInjectAction
    <3>3. id \in DOMAIN observer
      BY <3>1, <3>2 DEF IdInv
    <3>4. injection_id'[o] # 0 /\ observer'[injection_id'[o]].num_sons # -1
      <4>1. PICK w \in Nat : w = Width[o]
        BY <3>1
      <4>2. observer'[id] = SetSonsNumber(observer[id], w) /\ injection_id'[o] = id
        BY <1>2, <3>2, <3>3, <4>1 DEF KeepObserver
      <4>3. SetSonsNumber(observer[id], w).num_sons # -1
        <5>1. CASE observer[id].num_sons = -1
          BY <5>1 DEF SetSonsNumber
        <5>2. CASE observer[id].num_sons >= 2
          BY <3>3, <5>2 DEF SetSonsNumber, TypeOK, InjectStateType
        <5> QED BY <3>3, <5>1, <5>2 DEF CountInv
      <4> QED BY <3>2, <4>2, <4>3
    <3> HIDE DEF o, id
    <3>5. u64 # 0 => baseline' = baseline
      BY <3>2
    <3> QED BY <1>2, <2>1, <2>2, <2>3, <2>4, <3>2, <3>4, <3>5 DEF KnownInv, KeepObserver, Shared
  <2>7. CASE /\ UNCHANGED <<next_injection_id, u64, number_injector, baseline>>
             /\ pc' \in {"getRun", "run", "walk"} =>
                  pc \in {"getRun", "run", "walk"} \/ u64 < number_injector
    <3>1. pc' \in {"getRun", "run", "walk"} => u64' < number_injector'
      BY <2>7 DEF KnownInv
    <3> QED BY <1>2, <2>1, <2>2, <2>3, <2>4, <2>7, <3>1 DEF KnownInv, KeepObserver, Shared
  <2>8. ASSUME NEW id \in to_visit, VisitObserver(id)
        PROVE  UNCHANGED <<pc, next_injection_id, u64, number_injector, baseline>>
    BY <2>8 DEF VisitObserver
  <2>9. CASE FinishTestCase
    <3>1. /\ UNCHANGED <<next_injection_id, u64, number_injector, baseline>>
          /\ pc = "walk"
      BY <2>9 DEF FinishTestCase, PrepareNextTestCase
    <3> QED BY <2>7, <3>1
  <2> QED BY <1>2, <2>5, <2>6, <2>7, <2>8, <2>9 DEF Next, Step, Stopped, vars,
         CheckParsing, StartExec, EnterRuns, EndMain, StartTestCase,
         EnterSubtree, RunRead, RunVariable, AtItem
<1> QED BY <1>1, <1>2, ObserverSteps
-----------------------------------------------------------------------------
(* The files of the tests *)

\* There is a file per test, and it names injectors that exist.
HistoryInv ==
    /\ IsFiniteSet(log)
    /\ \A e \in log :
         /\ e.test \in Nat \X Nat
         /\ e.test[1] = u64 => e.test[2] < i
         /\ \A id \in DOMAIN e.plan : id \in DOMAIN observer /\ ~ Shared(id)

\* The steps that write a file or count.
LEMMA LogSteps ==
  ASSUME [Next]_vars
  PROVE  \/ UNCHANGED <<log, u64, i>>
         \/ EnterRuns \/ EndExec \/ FinishTestCase
BY DEF Next, Step, Stopped, vars, CreateAction, CheckParsing, StartExec,
       VisitObserver, EndMain, StartTestCase, CreateLateAction, EnterSubtree,
       RunInjectAction, RunRead, RunVariable

\* Injectors stay registered.
LEMMA ObserverGrows ==
  ASSUME TypeOK, CountInv, [Next]_vars
  PROVE  DOMAIN observer \subseteq DOMAIN observer'
BY ObserverSteps DEF KeepObserver, RegisterInjector

\* The file that a test leaves behind.
Entry == [test |-> Test, plan |-> Plan]

\* No other test has left the same file.
LEMMA EntryIsNew ==
  ASSUME HistoryInv
  PROVE  Entry \notin log
BY DEF HistoryInv, Entry, Test

\* Every step keeps the files in order.
LEMMA NextHistory ==
  ASSUME TypeOK, CountInv, LogInv, HistoryInv, [Next]_vars
  PROVE  HistoryInv'
<1>1. DOMAIN observer \subseteq DOMAIN observer'
  BY ObserverGrows
<1>2. u64 \in Nat /\ i \in Nat
  BY DEF TypeOK
<1>3. \A id : Shared(id)' <=> Shared(id)
  BY DEF Shared
<1>4. CASE UNCHANGED <<log, u64, i>>
  BY <1>1, <1>3, <1>4 DEF HistoryInv, Shared
<1>5. CASE EnterRuns
  <2>1. UNCHANGED <<log, u64>> /\ pc = "getRun"
    BY <1>5 DEF EnterRuns
  <2>2. \A e \in log : e.test[1] # u64
    BY <1>2, <2>1 DEF LogInv
  <2> QED BY <1>1, <1>3, <2>1, <2>2 DEF HistoryInv, Shared
<1>6. CASE EndExec
  <2>1. UNCHANGED log /\ u64' = u64 + 1
    BY <1>6 DEF EndExec
  <2>2. \A e \in log : e.test[1] # u64 + 1
    BY <1>2 DEF LogInv
  <2> QED BY <1>1, <1>3, <2>1, <2>2 DEF HistoryInv, Shared
<1>7. CASE FinishTestCase
  <2>1. log' = log \cup {Entry} /\ u64' = u64 /\ i' = i + 1
    BY <1>7 DEF FinishTestCase, Entry
  <2>2. IsFiniteSet(log')
    BY <2>1, FS_AddElement DEF HistoryInv
  <2>3. /\ Entry.test \in Nat \X Nat /\ Entry.test[2] < i + 1
        /\ \A id \in DOMAIN Entry.plan : id \in DOMAIN observer /\ ~ Shared(id)
    BY <1>2 DEF Entry, Test, Plan, CountInv, TypeOK
  <2> HIDE DEF Entry
  <2>4. \A e \in log : /\ e.test \in Nat \X Nat
                       /\ e.test[1] = u64 => e.test[2] < i + 1
                       /\ \A id \in DOMAIN e.plan : id \in DOMAIN observer /\ ~ Shared(id)
    BY <1>2 DEF HistoryInv
  <2> QED BY <1>1, <1>3, <2>1, <2>2, <2>3, <2>4 DEF HistoryInv, Shared
<1> QED BY <1>4, <1>5, <1>6, <1>7, LogSteps

\* The file of EXEC 0.
Baseline == [test |-> <<0, 0>>, plan |-> [k \in {} |-> 0]]

\* EXEC 0 activates no injector and makes one test.
ZeroInv ==
    u64 = 0 =>
      /\ test_case_state = {}
      /\ pc \in {"getRun", "run", "walk"} => num_run = 1
      /\ pc \in {"run", "walk"} => i \in {0, 1}
      /\ log = IF pc \in {"run", "walk"} /\ i = 1 THEN {Baseline} ELSE {}

\* The or nodes that have an id are few enough.
LEMMA RegisteredFit ==
  ASSUME SmallModel
  PROVE  Cardinality(Registered) \in Nat /\ Cardinality(Registered) <= MaxFaults
<1>1. Registered \in SUBSET Injector
  BY DEF Registered
<1>2. Cardinality(Registered) <= Cardinality(Injector) /\ IsFiniteSet(Registered)
  BY <1>1, FS_Subset DEF SmallModel
<1>3. /\ Cardinality(Injector) \in Nat /\ Cardinality(Registered) \in Nat
      /\ MaxFaults \in Int
  BY <1>2, FS_CardinalityType, IntBitsAssumption, IntModulusType DEF SmallModel, MaxFaults
<1> QED BY <1>2, <1>3 DEF SmallModel

\* No injector is active in EXEC 0.
LEMMA ZeroDisables ==
  ASSUME SmallModel, KnownInv, u64 = 0, NEW id \in DOMAIN observer
  PROVE  ~ Enable(u64, id)
<1>1. DOMAIN observer = FirstIds(Cardinality(Registered))
  BY DEF KnownInv
<1>2. Active(0, DOMAIN observer) = {}
  BY <1>1, RegisteredFit, EachFaultSetOnce
<1> QED BY <1>2 DEF Active

\* Every step keeps EXEC 0 to its one test.
LEMMA NextZero ==
  ASSUME SmallModel, TypeOK, CountedInv, KnownInv, ZeroInv, [Next]_vars
  PROVE  ZeroInv'
<1> SUFFICES ASSUME u64' = 0 PROVE ZeroInv'
  BY DEF ZeroInv
<1>1. ~ EndExec /\ u64 = 0 /\ number_injector = 1
  <2>1. ASSUME EndExec PROVE u64' # 0
    BY <2>1 DEF EndExec, TypeOK
  <2>2. u64' = u64
    BY <2>1, LogSteps DEF EnterRuns, FinishTestCase
  <2> QED BY <2>1, <2>2 DEF KnownInv
<1>2. CASE StartExec
  BY <1>1, <1>2 DEF StartExec, ZeroInv
<1>3. ASSUME NEW id \in to_visit, VisitObserver(id) PROVE ZeroInv'
  <2>1. ~ Enable(u64, id)
    BY <1>1, ZeroDisables DEF TypeOK
  <2> QED BY <1>1, <1>3, <2>1 DEF VisitObserver, ZeroInv
<1>4. CASE EnterRuns
  BY <1>1, <1>4 DEF EnterRuns, ZeroInv
<1>5. CASE FinishTestCase
  <2>1. /\ log = {} /\ i = 0 /\ test_case_state = {} /\ pc = "walk" /\ num_run = 1
    BY <1>1, <1>5 DEF ZeroInv, CountedInv, FinishTestCase
  <2>2. /\ log' = log \cup {Entry} /\ i' = i + 1 /\ pc' = "run"
        /\ UNCHANGED <<num_run, test_case_state, u64>>
    BY <1>5 DEF FinishTestCase, PrepareNextTestCase, Entry
  <2>3. Entry = Baseline
    BY <1>1, <2>1 DEF Entry, Test, Plan, Baseline
  <2>4. log' = {Baseline} /\ i' = 1
    BY <2>1, <2>2, <2>3
  <2> QED BY <1>1, <2>1, <2>2, <2>4 DEF ZeroInv, Baseline
<1>6. CASE StartTestCase
  BY <1>1, <1>6 DEF StartTestCase, ZeroInv
<1>7. CASE EndMain
  BY <1>1, <1>7 DEF EndMain
<1>8. CASE UNCHANGED <<pc, u64, log, i, num_run, test_case_state>>
  BY <1>8 DEF ZeroInv
<1>9. CASE CheckParsing
  BY <1>1, <1>9 DEF CheckParsing, ZeroInv
<1> QED BY <1>1, <1>2, <1>3, <1>4, <1>5, <1>6, <1>7, <1>8, <1>9 DEF Next, Step,
       Stopped, vars, CreateAction, CreateLateAction, RegisterInjector, EnterSubtree,
       RunInjectAction, RunRead, RunVariable
-----------------------------------------------------------------------------
(* Plans and selections *)

\* What a plan makes the or nodes select, f being their numbers.
Choice(f, c) == [o \in Injector |-> IF f[o] \in DOMAIN c THEN c[f[o]] ELSE 0]

\* f numbers the or nodes with the ids D, and n knows their widths.
Numbers(f, D, n) ==
    /\ f \in [Injector -> D]
    /\ \A o, p \in Injector : f[o] = f[p] => o = p
    /\ \A id \in D : \E o \in Injector : f[o] = id
    /\ \A o \in Injector : n[f[o]] = Width[o]

\* An or node has two alternatives at least.
LEMMA WidthType == \A o \in Injector : Width[o] \in Nat \ {0, 1}
BY TreeAssumption

\* A plan for a set of faults gives a wanted selection.
LEMMA ChoiceIsWanted ==
  ASSUME NEW D, NEW f, NEW n, Numbers(f, D, n),
         NEW A \in FaultSets(D), NEW c \in Digits(A, n)
  PROVE  Choice(f, c) \in WantedSelections
<1>1. c \in [A -> Nat] /\ A \subseteq D
  BY DEF Digits, FaultSets
<1>2. \A id \in A : c[id] < n[id]
  BY DEF Digits
<1>3. ASSUME NEW o \in Injector
      PROVE  Choice(f, c)[o] \in Nat /\ Choice(f, c)[o] < Width[o]
  <2>1. PICK w \in Nat \ {0, 1} : w = Width[o]
    BY WidthType
  <2>2. CASE f[o] \in A
    BY <1>1, <1>2, <2>1, <2>2 DEF Choice, Numbers
  <2>3. CASE f[o] \notin A
    BY <1>1, <2>1, <2>3 DEF Choice
  <2> QED BY <2>2, <2>3
<1>4. Choice(f, c) \in [Injector -> UNION {0 .. Width[o] - 1 : o \in Injector}]
  <2>1. ASSUME NEW o \in Injector PROVE Choice(f, c)[o] \in 0 .. Width[o] - 1
    <3>1. PICK w \in Nat \ {0, 1} : w = Width[o]
      BY WidthType
    <3> QED BY <1>3, <3>1
  <2> QED BY <2>1 DEF Choice
<1>5. ASSUME Generator = "seq", NEW o \in Injector, NEW p \in Injector,
             Choice(f, c)[o] # 0, Choice(f, c)[p] # 0
      PROVE  o = p
  <2>1. f[o] \in A /\ f[p] \in A
    BY <1>1, <1>5 DEF Choice
  <2>2. f[o] = f[p]
    BY <1>5, <2>1 DEF FaultSets
  <2> QED BY <2>2 DEF Numbers
<1> QED BY <1>3, <1>4, <1>5 DEF WantedSelections

\* Different plans give different selections.
LEMMA ChoiceIsInjective ==
  ASSUME NEW D, NEW f, NEW n, Numbers(f, D, n),
         NEW A \in SUBSET D, NEW c \in Digits(A, n),
         NEW B \in SUBSET D, NEW d \in Digits(B, n),
         Choice(f, c) = Choice(f, d)
  PROVE  A = B /\ c = d
<1>1. /\ c \in [A -> Nat] /\ d \in [B -> Nat]
      /\ \A id \in A : c[id] # 0
      /\ \A id \in B : d[id] # 0
  BY DEF Digits
<1>2. ASSUME NEW id \in D
      PROVE  /\ id \in A <=> id \in B
             /\ id \in A => c[id] = d[id]
  <2>1. PICK o \in Injector : f[o] = id
    BY DEF Numbers
  <2>2. Choice(f, c)[o] = Choice(f, d)[o]
    OBVIOUS
  <2>3. /\ Choice(f, c)[o] = IF id \in A THEN c[id] ELSE 0
        /\ Choice(f, d)[o] = IF id \in B THEN d[id] ELSE 0
    BY <1>1, <2>1 DEF Choice
  <2> QED BY <1>1, <2>2, <2>3
<1>3. A = B
  BY <1>2
<1> QED BY <1>1, <1>2, <1>3

\* Every wanted selection comes from a plan for a set of faults.
LEMMA ChoiceCovers ==
  ASSUME NEW D, NEW f, NEW n, Numbers(f, D, n), NEW s \in WantedSelections
  PROVE  \E A \in FaultSets(D) : \E c \in Digits(A, n) : Choice(f, c) = s
<1> DEFINE A == {f[o] : o \in {q \in Injector : s[q] # 0}}
           of(id) == CHOOSE o \in Injector : f[o] = id
           c == [id \in A |-> s[of(id)]]
<1>1. ASSUME NEW o \in Injector PROVE of(f[o]) = o
  BY DEF Numbers
<1>2. ASSUME NEW o \in Injector
      PROVE  /\ s[o] \in Nat /\ s[o] < Width[o]
             /\ f[o] \in A <=> s[o] # 0
  <2>1. s[o] \in UNION {0 .. Width[q] - 1 : q \in Injector} /\ s[o] < Width[o]
    BY DEF WantedSelections
  <2>2. PICK q \in Injector : s[o] \in 0 .. Width[q] - 1
    BY <2>1
  <2>3. PICK w \in Nat \ {0, 1} : w = Width[q]
    BY WidthType
  <2>4. s[o] \in Nat
    BY <2>2, <2>3
  <2>5. f[o] \in A <=> s[o] # 0
    BY DEF Numbers
  <2> QED BY <2>1, <2>4, <2>5
<1>3. A \in FaultSets(D)
  <2>1. A \subseteq D
    BY DEF Numbers
  <2>2. ASSUME Generator = "seq", NEW x \in A, NEW y \in A PROVE x = y
    BY <2>2 DEF WantedSelections
  <2> QED BY <2>1, <2>2 DEF FaultSets
<1>4. ASSUME NEW id \in A
      PROVE  c[id] \in Nat /\ 1 <= c[id] /\ c[id] < n[id]
  <2>1. PICK o \in Injector : s[o] # 0 /\ f[o] = id
    OBVIOUS
  <2>2. of(id) = o
    BY <1>1, <2>1
  <2>3. c[id] = s[o]
    BY <2>2
  <2>4. n[id] = Width[o]
    BY <2>1 DEF Numbers
  <2> QED BY <1>2, <2>1, <2>3, <2>4
<1>5. c \in Digits(A, n)
  BY <1>4 DEF Digits
<1>6. ASSUME NEW o \in Injector PROVE Choice(f, c)[o] = s[o]
  <2>1. DOMAIN c = A
    OBVIOUS
  <2>2. CASE f[o] \in A
    <3>1. c[f[o]] = s[o]
      BY <1>1, <2>2
    <3> QED BY <2>1, <2>2, <3>1 DEF Choice
  <2>3. CASE f[o] \notin A
    BY <1>2, <2>1, <2>3 DEF Choice
  <2> QED BY <2>2, <2>3
<1>7. Choice(f, c) = s
  <2>1. s \in [Injector -> UNION {0 .. Width[o] - 1 : o \in Injector}]
    BY DEF WantedSelections
  <2> QED BY <1>6, <2>1 DEF Choice
<1> QED BY <1>3, <1>5, <1>7

\* The first ids are not the one at which the generator sticks.
LEMMA FirstIdsNotShared ==
  ASSUME NEW k \in Nat, k <= MaxFaults, NEW id \in FirstIds(k)
  PROVE  ~ Shared(id)
<1>1. CASE Generator = "exp"
  <2>1. PICK e \in 0 .. k - 1 : id = 2 ^ e
    BY <1>1 DEF FirstIds
  <2>2. e \in 0 .. IntBits - 1 /\ e \in Nat
    BY <1>1, IntBitsAssumption DEF MaxFaults
  <2>3. Bit(id, e) = 1 /\ Bit(MaxId, e) = 0
    BY <2>1, <2>2, BitOfPower, MaxIdAssumption
  <2> QED BY <2>3 DEF Shared
<1>2. CASE Generator # "exp"
  BY <1>2 DEF Shared
<1> QED BY <1>1, <1>2

\* EXEC 0 ran every or node, and is over.
Informed == u64 # 0 /\ baseline = Injector

\* What is known of the widths.
AllSons == [id \in DOMAIN observer |-> observer[id].num_sons]

\* After such an EXEC 0 every or node has an id of its own and a known width.
LEMMA InformedNumbers ==
  ASSUME SmallModel, TypeOK, IdInv, CountInv, KnownInv, Informed
  PROVE  /\ Numbers(injection_id, DOMAIN observer, AllSons)
         /\ DOMAIN observer = FirstIds(Cardinality(Injector))
         /\ number_injector = NextId(Cardinality(Injector))
         /\ Cardinality(Injector) \in Nat /\ Cardinality(Injector) <= MaxFaults
<1>1. /\ DOMAIN observer = FirstIds(Cardinality(Injector))
      /\ number_injector = NextId(Cardinality(Injector))
  BY DEF KnownInv, Informed
<1>2. Cardinality(Injector) \in Nat /\ Cardinality(Injector) <= MaxFaults
  BY FS_CardinalityType DEF SmallModel
<1>3. \A id \in DOMAIN observer : ~ Shared(id)
  BY <1>1, <1>2, FirstIdsNotShared
<1>4. ASSUME NEW o \in Injector
      PROVE  /\ injection_id[o] \in DOMAIN observer
             /\ observer[injection_id[o]].num_sons = Width[o]
  <2>1. injection_id[o] # 0
    BY DEF KnownInv, Informed
  <2>2. injection_id[o] \in DOMAIN observer
    BY <2>1 DEF IdInv
  <2>3. observer[injection_id[o]].num_sons # -1
    BY <1>3, <2>2 DEF KnownInv, Informed
  <2> QED BY <1>3, <2>1, <2>2, <2>3 DEF CountInv
<1>5. injection_id \in [Injector -> DOMAIN observer]
  BY <1>4 DEF TypeOK
<1>6. ASSUME NEW o \in Injector, NEW p \in Injector,
             injection_id[o] = injection_id[p]
      PROVE  o = p
  BY <1>3, <1>4, <1>6 DEF IdInv, KnownInv, Informed
<1>7. \A o \in Injector : AllSons[injection_id[o]] = Width[o]
  BY <1>4 DEF AllSons
<1>8. \A id \in DOMAIN observer : \E o \in Injector : injection_id[o] = id
  BY DEF KnownInv
<1>9. Numbers(injection_id, DOMAIN observer, AllSons)
  BY <1>5, <1>6, <1>7, <1>8 DEF Numbers
<1> QED BY <1>1, <1>2, <1>9

\* From then on nothing is created and nothing learnt.
LEMMA InformedStays ==
  ASSUME SmallModel, TypeOK, IdInv, CountInv, KnownInv, Informed, [Next]_vars
  PROVE  UNCHANGED <<injection_id, AllSons, DOMAIN observer>>
<1>1. /\ Numbers(injection_id, DOMAIN observer, AllSons)
  BY InformedNumbers
<1>2. ASSUME NEW o \in Injector PROVE ~ RegisterInjector(o)
  BY DEF RegisterInjector, KnownInv, Informed
<1>3. KeepObserver
  BY <1>2, ObserverSteps
<1>4. \A id \in DOMAIN observer : observer[id].num_sons # -1
  <2>1. ASSUME NEW id \in DOMAIN observer PROVE observer[id].num_sons # -1
    <3>1. PICK o \in Injector : injection_id[o] = id
      BY <1>1 DEF Numbers
    <3>2. AllSons[id] = Width[o]
      BY <1>1, <3>1 DEF Numbers
    <3> QED BY <3>2, WidthType DEF AllSons
  <2> QED BY <2>1
<1>5. \A id \in DOMAIN observer : observer'[id].num_sons = observer[id].num_sons
  BY <1>3, <1>4 DEF KeepObserver
<1> QED BY <1>3, <1>5 DEF KeepObserver, AllSons

\* EXEC 0 once over, what it found out is settled.
LEMMA InformedSteps ==
  ASSUME TypeOK, u64 # 0, [Next]_vars
  PROVE  baseline' = baseline /\ u64' # 0
<1>1. u64' # 0
  BY LogSteps DEF EnterRuns, EndExec, FinishTestCase, TypeOK
<1>2. baseline' = baseline
  BY DEF Next, Step, Stopped, vars, CreateAction, CheckParsing, StartExec,
       VisitObserver, EnterRuns, EndExec, EndMain, StartTestCase, CreateLateAction,
       EnterSubtree, RunInjectAction, RunRead, RunVariable, FinishTestCase
<1> QED BY <1>1, <1>2

\* The set of faults of an EXEC is the one its generator enables, and the
\* number of tests is known when it starts.
ActiveInv ==
    /\ pc = "getRun" =>
         test_case_state = Active(u64, DOMAIN observer \ to_visit)
    /\ Informed /\ pc \in {"run", "walk"} =>
         test_case_state = Active(u64, DOMAIN observer)
    /\ Informed /\ pc \in {"getRun", "run", "walk"} => blind = {}

\* Every step keeps the set of faults of its EXEC.
LEMMA NextActive ==
  ASSUME SmallModel, TypeOK, IdInv, CountInv, KnownInv, ActiveInv, [Next]_vars
  PROVE  ActiveInv'
<1>1. CASE StartExec
  <2>1. /\ test_case_state' = {} /\ blind' = {} /\ pc' = "getRun"
        /\ to_visit' = DOMAIN observer' 
    BY <1>1 DEF StartExec
  <2> QED BY <2>1 DEF ActiveInv, Active
<1>2. ASSUME NEW id \in to_visit, VisitObserver(id) PROVE ActiveInv'
  <2>1. /\ pc = "getRun" /\ pc' = "getRun" /\ to_visit' = to_visit \ {id}
        /\ UNCHANGED <<u64, baseline>> /\ id \in DOMAIN observer
        /\ test_case_state' = IF Enable(u64, id) THEN test_case_state \cup {id}
                                                 ELSE test_case_state
        /\ blind' \in {blind, IF observer[id].num_sons < 0 THEN blind \cup {id}
                                                          ELSE blind}
        /\ DOMAIN observer' = DOMAIN observer
    BY <1>2 DEF VisitObserver, TypeOK
  <2>2. test_case_state' = Active(u64, DOMAIN observer \ to_visit')
    BY <2>1 DEF ActiveInv, Active
  <2>3. ASSUME Informed' PROVE blind' = {}
    <3>1. Informed
      BY <2>1, <2>3 DEF Informed
    <3>2. PICK o \in Injector : injection_id[o] = id
      BY <2>1, <3>1, InformedNumbers DEF Numbers
    <3>3. observer[id].num_sons = Width[o]
      BY <2>1, <3>1, <3>2, InformedNumbers DEF Numbers, AllSons
    <3>4. ~ observer[id].num_sons < 0
      BY <3>3, WidthType
    <3> QED BY <2>1, <3>1, <3>4 DEF ActiveInv
  <2> QED BY <2>1, <2>2, <2>3 DEF ActiveInv
<1>3. CASE EnterRuns
  <2>1. /\ pc = "getRun" /\ to_visit = {} /\ pc' = "run"
        /\ UNCHANGED <<u64, baseline, observer, test_case_state, blind>>
    BY <1>3 DEF EnterRuns
  <2> QED BY <2>1 DEF ActiveInv, Informed
<1>4. CASE pc' \notin {"getRun", "run", "walk"}
  BY <1>4 DEF ActiveInv
<1>5. CASE /\ pc \in {"run", "walk"} /\ pc' \in {"run", "walk"}
           /\ UNCHANGED <<u64, test_case_state, blind>>
  <2> SUFFICES ASSUME Informed'
               PROVE  test_case_state' = Active(u64', DOMAIN observer') /\ blind' = {}
    BY <1>5 DEF ActiveInv
  <2>1. Informed
    BY <1>5, InformedSteps DEF Informed
  <2>2. DOMAIN observer' = DOMAIN observer
    BY <2>1, InformedStays
  <2> QED BY <1>5, <2>1, <2>2 DEF ActiveInv
<1>6. CASE UNCHANGED <<pc, u64, observer, to_visit, test_case_state, blind, baseline>>
  BY <1>6 DEF ActiveInv, Informed
<1>7. CASE StartTestCase \/ FinishTestCase \/ EnterSubtree \/ RunInjectAction
           \/ RunRead \/ RunVariable \/ CreateLateAction
  <2>1. /\ pc \in {"run", "walk"} /\ pc' \in {"run", "walk"}
        /\ UNCHANGED <<u64, test_case_state, blind>>
    BY <1>7 DEF StartTestCase, FinishTestCase, PrepareNextTestCase, EnterSubtree,
       RunInjectAction, RunRead, RunVariable, CreateLateAction, RegisterInjector, AtItem
  <2> QED BY <1>5, <2>1
<1>8. CASE CreateAction \/ CheckParsing \/ EndExec \/ EndMain
  <2>1. pc' \notin {"getRun", "run", "walk"}
    BY <1>8 DEF CreateAction, CheckParsing, EndExec, EndMain
  <2> QED BY <1>4, <2>1
<1> QED BY <1>1, <1>2, <1>3, <1>6, <1>7, <1>8 DEF Next, Step, Stopped, vars

\* An EXEC of an informed campaign has the faults of one set, and its tests
\* can be counted.
LEMMA InformedExec ==
  ASSUME SmallModel, TypeOK, IdInv, CountInv, KnownInv, ActiveInv, ProductInv,
         Informed, pc \in {"run", "walk"}
  PROVE  /\ blind = {}
         /\ test_case_state = Active(u64, DOMAIN observer)
         /\ test_case_state \in FaultSets(DOMAIN observer)
         /\ Digits(test_case_state, Sons)
              = Digits(Active(u64, DOMAIN observer), AllSons)
         /\ Few
<1>1. blind = {} /\ test_case_state = Active(u64, DOMAIN observer)
  BY DEF ActiveInv
<1>2. test_case_state \in FaultSets(DOMAIN observer)
  <2>1. u64 \in Nat /\ u64 < number_injector /\ number_injector \in Nat
    BY DEF KnownInv, TypeOK
  <2>2. u64 \in 0 .. number_injector - 1
    BY <2>1
  <2> QED BY <1>1, <2>2, InformedNumbers, EachFaultSetOnce
<1>3. Digits(test_case_state, Sons) = Digits(test_case_state, AllSons)
  BY DEF Digits, Sons, AllSons, TypeOK
<1> DEFINE f == injection_id
           Q == Digits(test_case_state, AllSons)
           g == [c \in Q |-> Choice(f, c)]
<1>4. g \in [Q -> WantedSelections]
  <2>1. ASSUME NEW c \in Q PROVE Choice(f, c) \in WantedSelections
    BY <1>2, InformedNumbers, ChoiceIsWanted
  <2> QED BY <2>1
<1>5. ASSUME NEW c \in Q, NEW d \in Q, g[c] = g[d] PROVE c = d
  <2>1. test_case_state \in SUBSET DOMAIN observer
    BY DEF TypeOK
  <2>2. Choice(f, c) = Choice(f, d)
    BY <1>5
  <2> QED BY <2>1, <2>2, InformedNumbers, ChoiceIsInjective
<1> HIDE DEF g, Q
<1>6. g \in Injection(Q, WantedSelections)
  BY <1>4, <1>5 DEF Injection, IsInjective
<1>7. Cardinality(Q) <= Cardinality(WantedSelections) /\ IsFiniteSet(Q)
  BY <1>6, FS_Injection DEF SmallModel, ExistsInjection
<1>8. Few
  <2>1. /\ Cardinality(Q) \in Nat /\ Cardinality(WantedSelections) \in Nat
        /\ IntModulus \div 2 \in Nat
    BY <1>7, FS_CardinalityType, IntModulusType DEF SmallModel
  <2> QED BY <1>3, <1>7, <2>1 DEF Few, SmallModel, Q
<1> QED BY <1>1, <1>2, <1>3, <1>8

-----------------------------------------------------------------------------
(* The tests of a campaign *)

\* Of an informed campaign: every file is a plan of its EXEC, no two files
\* are the same test, and the EXECs that are over have tested all of theirs.
PlansInv ==
    Informed =>
      /\ \A e \in log :
           /\ e.test[1] < number_injector
           /\ e.plan \in Digits(Active(e.test[1], DOMAIN observer), AllSons)
      /\ \A e, f \in log : e.test[1] = f.test[1] /\ e.plan = f.plan => e = f
      /\ \A v \in Nat : v < u64 =>
           \A c \in Digits(Active(v, DOMAIN observer), AllSons) :
              \E e \in log : e.test[1] = v /\ e.plan = c

\* All invariants of a campaign.
CampaignInv ==
    /\ ExecInv /\ KnownInv /\ HistoryInv /\ ZeroInv /\ ActiveInv /\ PlansInv
    /\ pc = "done" => u64 >= number_injector

\* A test adds a plan.
LEMMA FinishPlans ==
  ASSUME SmallModel, CampaignInv, FinishTestCase
  PROVE  PlansInv'
<1> USE DEF CampaignInv, ExecInv
<1> SUFFICES ASSUME Informed' PROVE PlansInv'
  BY DEF PlansInv
<1>1. /\ log' = log \cup {Entry} /\ pc = "walk"
      /\ UNCHANGED <<u64, baseline, number_injector>>
  BY DEF FinishTestCase, Entry
<1>2. Informed
  BY <1>1 DEF Informed
<1>3. [Next]_vars
  BY DEF Next, Step
<1>4. UNCHANGED <<injection_id, AllSons, DOMAIN observer>>
  BY <1>2, <1>3, InformedStays
<1>5. /\ Entry.test[1] = u64 /\ Entry.plan = Plan /\ u64 \in Nat
      /\ u64 < number_injector
  BY <1>1 DEF Entry, Test, KnownInv, TypeOK
<1>6. blind = {} /\ Few
      /\ Digits(test_case_state, Sons) = Digits(Active(u64, DOMAIN observer), AllSons)
  BY <1>1, <1>2, InformedExec
<1>7. Plan \notin Tried /\ Plan \in Digits(test_case_state, Sons)
  BY <1>1, <1>6, PlanIsFresh
<1>8. \A e \in log : ~ (e.test[1] = Entry.test[1] /\ e.plan = Entry.plan)
  BY <1>5, <1>7 DEF Tried
<1> HIDE DEF Entry, CampaignInv, ExecInv
<1>9. PlansInv
  BY DEF CampaignInv
<1>10. \A e \in log' :
           /\ e.test[1] < number_injector
           /\ e.plan \in Digits(Active(e.test[1], DOMAIN observer), AllSons)
  BY <1>1, <1>2, <1>5, <1>6, <1>7, <1>9 DEF PlansInv
<1>11. \A e, f \in log' : e.test[1] = f.test[1] /\ e.plan = f.plan => e = f
  BY <1>1, <1>2, <1>8, <1>9 DEF PlansInv
<1>12. \A v \in Nat : v < u64 =>
           \A c \in Digits(Active(v, DOMAIN observer), AllSons) :
              \E e \in log' : e.test[1] = v /\ e.plan = c
  BY <1>1, <1>2, <1>9 DEF PlansInv
<1> QED BY <1>1, <1>4, <1>10, <1>11, <1>12 DEF PlansInv

\* EXEC 0 has tested its only combination.
LEMMA EndZeroPlans ==
  ASSUME SmallModel, CampaignInv, EndExec, u64 = 0
  PROVE  PlansInv'
<1> USE DEF CampaignInv, ExecInv
<1> SUFFICES ASSUME baseline' = Injector PROVE PlansInv'
  BY DEF PlansInv, Informed
<1>1. /\ pc = "run" /\ i >= num_run /\ u64' = 1
      /\ UNCHANGED <<log, observer, injection_id, baseline>>
  BY DEF EndExec
<1>2. log = {Baseline}
  BY <1>1 DEF ZeroInv
<1>3. [Next]_vars
  BY DEF Next, Step
<1>4. SmallModel /\ TypeOK' /\ IdInv' /\ CountInv' /\ KnownInv' /\ Informed'
  <2>1. TypeOK' /\ IdInv' /\ CountInv'
    BY <1>3, NextType, NextIds, NextCounts
  <2>2. KnownInv' /\ Informed'
    BY <1>1, <1>3, NextKnown DEF Informed
  <2> QED BY <2>1, <2>2
<1>5. /\ DOMAIN observer' = FirstIds(Cardinality(Injector))
      /\ number_injector' = NextId(Cardinality(Injector))
      /\ Cardinality(Injector) \in Nat /\ Cardinality(Injector) <= MaxFaults
  BY <1>1, <1>4, FS_CardinalityType DEF KnownInv, Informed, SmallModel
<1>6. Active(0, DOMAIN observer') = {}
  BY <1>5, EachFaultSetOnce
<1>7. number_injector' > 0
  <2>1. NextId(Cardinality(Injector)) \in Nat \ {0}
    BY <1>5, Powers DEF NextId
  <2> QED BY <1>5, <2>1
<1>8. Digits(Active(0, DOMAIN observer'), AllSons') = {[k \in {} |-> 0]}
  BY <1>6, NoWheels
<1>9. Baseline.test[1] = 0 /\ Baseline.plan = [k \in {} |-> 0]
  BY DEF Baseline
<1> HIDE DEF Baseline
<1>10. \A v \in Nat : v < 1 => v = 0
  OBVIOUS
<1>11. log' = {Baseline} /\ u64' = 1
  BY <1>1, <1>2
<1> QED BY <1>7, <1>8, <1>9, <1>10, <1>11 DEF PlansInv

\* The EXEC that ends has tested all of its combinations.
LEMMA EndPlans ==
  ASSUME SmallModel, CampaignInv, EndExec, u64 # 0
  PROVE  PlansInv'
<1> USE DEF CampaignInv, ExecInv
<1> SUFFICES ASSUME Informed' PROVE PlansInv'
  BY DEF PlansInv
<1>1. /\ pc = "run" /\ i >= num_run /\ u64' = u64 + 1
      /\ UNCHANGED <<log, observer, injection_id, baseline>>
  BY DEF EndExec
<1>2. Informed /\ u64 \in Nat
  BY <1>1 DEF Informed, TypeOK
<1>3. AllSons' = AllSons
  BY <1>1 DEF AllSons
<1>4. number_injector' = number_injector
  <2>1. u64 < number_injector /\ number_injector \in Nat
    BY <1>1 DEF KnownInv, TypeOK
  <2>2. number_injector # 1
    BY <1>2, <2>1
  <2> QED BY <2>2 DEF EndExec
<1>5. /\ blind = {} /\ Few
      /\ Digits(test_case_state, Sons) = Digits(Active(u64, DOMAIN observer), AllSons)
  BY <1>1, <1>2, InformedExec
<1>6. Tried = Digits(Active(u64, DOMAIN observer), AllSons)
  BY <1>1, <1>5, EndExhaustive
<1>7. \A c \in Digits(Active(u64, DOMAIN observer), AllSons) :
          \E e \in log : e.test[1] = u64 /\ e.plan = c
  BY <1>6 DEF Tried
<1>8. PlansInv
  OBVIOUS
<1>9. \A v \in Nat : v < u64 + 1 => v < u64 \/ v = u64
  BY <1>2
<1>10. \A v \in Nat : v < u64 + 1 =>
          \A c \in Digits(Active(v, DOMAIN observer), AllSons) :
              \E e \in log : e.test[1] = v /\ e.plan = c
  BY <1>2, <1>7, <1>8, <1>9 DEF PlansInv
<1> HIDE DEF CampaignInv, ExecInv
<1> QED BY <1>1, <1>2, <1>3, <1>4, <1>8, <1>10 DEF PlansInv

\* The other steps change neither plans nor files.
LEMMA NextPlans ==
  ASSUME SmallModel, CampaignInv, [Next]_vars
  PROVE  PlansInv'
<1>1. CASE FinishTestCase
  BY <1>1, FinishPlans
<1>2. CASE EndExec
  BY <1>2, EndZeroPlans, EndPlans
<1>3. CASE UNCHANGED <<log, u64>> /\ ~ EndExec
  <2> SUFFICES ASSUME Informed' PROVE PlansInv'
    BY DEF PlansInv
  <2>1. Informed /\ TypeOK /\ IdInv /\ CountInv /\ KnownInv
    BY <1>3, InformedSteps DEF Informed, CampaignInv, ExecInv
  <2>2. UNCHANGED <<AllSons, DOMAIN observer>>
    BY <2>1, InformedStays
  <2>3. number_injector' = number_injector
    BY <1>3 DEF Next, Step, Stopped, vars, CreateAction, CheckParsing, StartExec,
       VisitObserver, EnterRuns, EndMain, StartTestCase, CreateLateAction,
       EnterSubtree, RunInjectAction, RunRead, RunVariable, FinishTestCase
  <2> QED BY <1>3, <2>1, <2>2, <2>3 DEF PlansInv, CampaignInv
<1>4. EnterRuns => UNCHANGED <<log, u64>>
  BY DEF EnterRuns
<1> QED BY <1>1, <1>2, <1>3, <1>4, LogSteps

\* The invariants of a campaign hold at first,
LEMMA InitCampaign == ASSUME SmallModel PROVE Init => CampaignInv
<1> SUFFICES ASSUME Init PROVE CampaignInv
  OBVIOUS
<1>1. ExecInv
  BY InitExec
<1>2. KnownInv
  <2>1. Registered = {} /\ DOMAIN observer = {}
    BY DEF Init, Registered
  <2>2. Cardinality(Registered) = 0
    BY <2>1, FS_EmptySet
  <2>3. FirstIds(0) = {} /\ NextId(0) = 1
    BY Powers DEF FirstIds, NextId
  <2> QED BY <2>1, <2>2, <2>3 DEF Init, KnownInv
<1>3. HistoryInv /\ ZeroInv /\ ActiveInv /\ PlansInv
  BY FS_EmptySet DEF Init, HistoryInv, ZeroInv, ActiveInv, PlansInv, Informed
<1>4. pc # "done"
  BY DEF Init
<1> QED BY <1>1, <1>2, <1>3, <1>4 DEF CampaignInv

\* and every step keeps them.
LEMMA NextCampaign ==
  ASSUME SmallModel
  PROVE  CampaignInv /\ [Next]_vars => CampaignInv'
<1> SUFFICES ASSUME CampaignInv, [Next]_vars PROVE CampaignInv'
  OBVIOUS
<1>1. ExecInv' /\ PlansInv'
  BY NextExec, NextPlans DEF CampaignInv
<1>2. KnownInv' /\ HistoryInv' /\ ZeroInv' /\ ActiveInv'
  BY NextKnown, NextHistory, NextZero, NextActive DEF CampaignInv, ExecInv
<1>3. pc' = "done" => u64' >= number_injector'
  BY DEF CampaignInv, Next, Step, Stopped, vars, CreateAction, CheckParsing,
       StartExec, VisitObserver, EnterRuns, EndExec, EndMain, StartTestCase,
       CreateLateAction, EnterSubtree, RunInjectAction, RunRead, RunVariable,
       FinishTestCase
<1> QED BY <1>1, <1>2, <1>3 DEF CampaignInv

\* The selections already tested.
Tested == {Selection(e) : e \in log}

\* A selection is the choice its plan stands for.
LEMMA SelectionIsChoice ==
  ASSUME NEW e
  PROVE  /\ Selection(e) = Choice(injection_id, e.plan)
         /\ Tested = {Choice(injection_id, l.plan) : l \in log}
BY DEF Selection, Choice, Tested

\* The plans of the EXECs lead to wanted selections, different ones to
\* different ones.
LEMMA PlansAreTests ==
  ASSUME NEW k \in Nat, k <= MaxFaults, NEW f, NEW n, Numbers(f, FirstIds(k), n),
         NEW u \in 0 .. NextId(k) - 1, NEW c \in Digits(Active(u, FirstIds(k)), n),
         NEW v \in 0 .. NextId(k) - 1, NEW d \in Digits(Active(v, FirstIds(k)), n)
  PROVE  /\ Choice(f, c) \in WantedSelections
         /\ Choice(f, c) = Choice(f, d) => u = v /\ c = d
<1>1. Choice(f, c) \in WantedSelections
  BY EachFaultSetOnce, ChoiceIsWanted
<1>2. ASSUME Choice(f, c) = Choice(f, d) PROVE u = v /\ c = d
  <2>1. /\ Active(u, FirstIds(k)) \in SUBSET FirstIds(k)
        /\ Active(v, FirstIds(k)) \in SUBSET FirstIds(k)
    BY DEF Active
  <2>2. Active(u, FirstIds(k)) = Active(v, FirstIds(k)) /\ c = d
    BY <1>2, <2>1, ChoiceIsInjective
  <2> QED BY <2>2, EachFaultSetOnce
<1> QED BY <1>1, <1>2

\* A selection of an informed campaign is wanted, and made once.
LEMMA TestsAreWanted ==
  ASSUME SmallModel, CampaignInv, Informed
  PROVE  /\ \A e \in log : Selection(e) \in WantedSelections
         /\ \A e, f \in log : Selection(e) = Selection(f) => e = f
<1> DEFINE N == Cardinality(Injector)
<1>1. /\ Numbers(injection_id, FirstIds(N), AllSons) /\ DOMAIN observer = FirstIds(N)
      /\ number_injector = NextId(N) /\ number_injector \in Nat
      /\ N \in Nat /\ N <= MaxFaults
  BY InformedNumbers DEF CampaignInv, ExecInv, TypeOK
<1> HIDE DEF N
<1>2. ASSUME NEW e \in log
      PROVE  /\ e.test[1] \in 0 .. NextId(N) - 1
             /\ e.plan \in Digits(Active(e.test[1], FirstIds(N)), AllSons)
  <2>1. /\ e.test[1] \in Nat /\ e.test[1] < number_injector
        /\ e.plan \in Digits(Active(e.test[1], FirstIds(N)), AllSons)
    BY <1>1 DEF CampaignInv, PlansInv, HistoryInv
  <2> QED BY <1>1, <2>1
<1>3. ASSUME NEW e \in log PROVE Selection(e) \in WantedSelections
  BY <1>1, <1>2, PlansAreTests, SelectionIsChoice
<1>4. ASSUME NEW e \in log, NEW f \in log, Selection(e) = Selection(f)
      PROVE  e = f
  <2>1. Choice(injection_id, e.plan) = Choice(injection_id, f.plan)
    BY <1>4, SelectionIsChoice
  <2>2. e.test[1] = f.test[1] /\ e.plan = f.plan
    BY <1>1, <1>2, <2>1, PlansAreTests
  <2> QED BY <2>2 DEF CampaignInv, PlansInv
<1> QED BY <1>3, <1>4

\* When main's outer loop ends, nothing is left to test.
LEMMA NothingLeft ==
  ASSUME SmallModel, CampaignInv, Informed, u64 >= number_injector
  PROVE  WantedSelections \subseteq Tested
<1> DEFINE D == DOMAIN observer
           N == Cardinality(Injector)
<1>1. /\ Numbers(injection_id, D, AllSons) /\ D = FirstIds(N)
      /\ number_injector = NextId(N) /\ number_injector \in Nat /\ u64 \in Nat
      /\ N \in Nat /\ N <= MaxFaults
  BY InformedNumbers DEF CampaignInv, ExecInv, TypeOK
<1> HIDE DEF D, N
<1>2. ASSUME NEW s \in WantedSelections PROVE s \in Tested
  <2>1. PICK A \in FaultSets(D) : \E c \in Digits(A, AllSons) : Choice(injection_id, c) = s
    BY <1>1, ChoiceCovers
  <2>2. PICK c \in Digits(A, AllSons) : Choice(injection_id, c) = s
    BY <2>1
  <2>3. PICK v \in 0 .. NextId(N) - 1 : Active(v, D) = A
    BY <1>1, EachFaultSetOnce
  <2>4. v \in Nat /\ v < u64
    BY <1>1, <2>3
  <2>5. PICK e \in log : e.plan = c
    BY <2>2, <2>3, <2>4 DEF CampaignInv, PlansInv, D
  <2> QED BY <2>2, <2>5, SelectionIsChoice
<1> QED BY <1>2

\* For every model whose ids and numbers of tests fit an int, and both
\* generators: a campaign whose EXEC 0 ran every or node has tested, when
\* main ends, exactly the wanted selections, each of them once, whichever
\* reads failed in between.
THEOREM CampaignIsComplete ==
  ASSUME SmallModel
  PROVE  Spec => []CampaignComplete
<1>1. CampaignInv => CampaignComplete
  <2> SUFFICES ASSUME CampaignInv, pc = "done", baseline = Injector
               PROVE  /\ Tested = WantedSelections
                      /\ Cardinality(log) = Cardinality(WantedSelections)
    BY DEF CampaignComplete, Tested
  <2>1. Informed /\ u64 >= number_injector
    BY DEF CampaignInv, Informed, KnownInv
  <2>2. Tested \subseteq WantedSelections
    BY <2>1, TestsAreWanted DEF Tested
  <2>3. Tested = WantedSelections
    BY <2>1, <2>2, NothingLeft
  <2> DEFINE g == [e \in log |-> Selection(e)]
  <2>4. g \in [log -> WantedSelections]
    BY <2>1, TestsAreWanted
  <2>5. \A e, f \in log : g[e] = g[f] => e = f
    BY <2>1, TestsAreWanted
  <2>6. \A s \in WantedSelections : \E e \in log : g[e] = s
    BY <2>3 DEF Tested
  <2> HIDE DEF g
  <2>7. g \in Bijection(log, WantedSelections)
    BY <2>4, <2>5, <2>6, BijectionIs
  <2>8. Cardinality(log) = Cardinality(WantedSelections)
    BY <2>7, FS_Bijection DEF CampaignInv, HistoryInv, ExistsBijection
  <2> QED BY <2>3, <2>8
<1> QED BY <1>1, InitCampaign, NextCampaign, PTL DEF Spec

-----------------------------------------------------------------------------
(* The refinement of TestPlan *)

\* Creating an injector does not change what earlier tests selected.
LEMMA SelectionsStay ==
  ASSUME CampaignInv, [Next]_vars, NEW e \in log
  PROVE  Choice(injection_id', e.plan) = Choice(injection_id, e.plan)
<1>1. TypeOK /\ IdInv /\ CountInv /\ HistoryInv
  BY DEF CampaignInv, ExecInv
<1>2. CASE KeepObserver
  BY <1>2 DEF KeepObserver, Choice
<1>3. ASSUME NEW o \in Injector, RegisterInjector(o)
      PROVE  Choice(injection_id', e.plan) = Choice(injection_id, e.plan)
  <2>1. /\ injection_id' = [injection_id EXCEPT ![o] = next_injection_id]
        /\ injection_id[o] = 0 /\ injection_id \in [Injector -> Nat]
    BY <1>1, <1>3 DEF RegisterInjector, TypeOK
  <2>2. next_injection_id \notin DOMAIN e.plan
    BY <1>1 DEF HistoryInv, IdInv, TypeOK
  <2>3. 0 \notin DOMAIN e.plan
    BY <1>1 DEF HistoryInv, TypeOK
  <2> QED BY <2>1, <2>2, <2>3 DEF Choice
<1> QED BY <1>1, <1>2, <1>3, ObserverSteps

\* A test adds its selection to those tested, other steps none.
LEMMA TestedSteps ==
  ASSUME CampaignInv, [Next]_vars
  PROVE  /\ log' = log => Tested' = Tested
         /\ FinishTestCase => Tested' = Tested \cup {Selection(Entry)}
<1>1. Tested' = {Choice(injection_id', l.plan) : l \in log'}
  BY DEF Tested, Selection, Choice
<1>2. Tested = {Choice(injection_id, l.plan) : l \in log}
  BY DEF Tested, Selection, Choice
<1>3. \A e \in log : Choice(injection_id', e.plan) = Choice(injection_id, e.plan)
  BY SelectionsStay
<1>4. ASSUME log' = log PROVE Tested' = Tested
  BY <1>1, <1>2, <1>3, <1>4
<1>5. ASSUME FinishTestCase PROVE Tested' = Tested \cup {Selection(Entry)}
  <2>1. log' = log \cup {Entry} /\ injection_id' = injection_id
    BY <1>5 DEF FinishTestCase, PrepareNextTestCase, Entry
  <2>2. Selection(Entry) = Choice(injection_id, Entry.plan)
    BY DEF Selection, Choice
  <2> HIDE DEF Entry
  <2>3. Tested' = Tested \cup {Choice(injection_id, Entry.plan)}
    BY <1>1, <1>2, <2>1
  <2> QED BY <2>2, <2>3
<1> QED BY <1>4, <1>5

\* A test of a campaign takes a selection that was not tested before.
LEMMA FinishIsNew ==
  ASSUME SmallModel, CampaignInv, FinishTestCase, u64 = 0 \/ baseline = Injector
  PROVE  Selection(Entry) \in WantedSelections \ Tested
<1>1. [Next]_vars
  BY DEF Next, Step
<1>2. CASE u64 = 0
  <2>1. log = {} /\ test_case_state = {}
    BY <1>2 DEF CampaignInv, ExecInv, ZeroInv, CountedInv, FinishTestCase
  <2>2. Selection(Entry) = [o \in Injector |-> 0]
    BY <2>1 DEF Selection, Entry, Plan
  <2>3. [o \in Injector |-> 0] \in WantedSelections
    <3>1. ASSUME NEW o \in Injector PROVE 0 \in 0 .. Width[o] - 1 /\ 0 < Width[o]
      <4>1. PICK w \in Nat \ {0, 1} : w = Width[o]
        BY WidthType
      <4> QED BY <4>1
    <3> QED BY <3>1 DEF WantedSelections
  <2> QED BY <2>1, <2>2, <2>3 DEF Tested
<1>3. CASE u64 # 0
  <2> DEFINE N == Cardinality(Injector)
  <2>1. pc = "walk" /\ Informed
    BY <1>3 DEF FinishTestCase, Informed
  <2>2. /\ Numbers(injection_id, FirstIds(N), AllSons) /\ DOMAIN observer = FirstIds(N)
        /\ number_injector = NextId(N) /\ number_injector \in Nat
        /\ N \in Nat /\ N <= MaxFaults
    BY <2>1, InformedNumbers DEF CampaignInv, ExecInv, TypeOK
  <2> HIDE DEF N
  <2>3. u64 \in 0 .. NextId(N) - 1
    BY <2>1, <2>2 DEF CampaignInv, ExecInv, KnownInv, TypeOK
  <2>4. Plan \notin Tried /\ Plan \in Digits(Active(u64, FirstIds(N)), AllSons)
    <3>1. /\ blind = {} /\ Few
          /\ Digits(test_case_state, Sons)
               = Digits(Active(u64, FirstIds(N)), AllSons)
      BY <2>1, <2>2, InformedExec DEF CampaignInv, ExecInv
    <3> QED BY <2>1, <3>1, PlanIsFresh DEF CampaignInv, ExecInv
  <2>5. Selection(Entry) = Choice(injection_id, Plan)
    BY DEF Selection, Choice, Entry
  <2>6. ASSUME NEW e \in log PROVE Choice(injection_id, Plan) # Selection(e)
    <3>1. /\ e.test[1] \in Nat /\ e.test[1] < number_injector
          /\ e.plan \in Digits(Active(e.test[1], FirstIds(N)), AllSons)
      BY <2>1, <2>2 DEF CampaignInv, PlansInv, HistoryInv
    <3>2. e.test[1] \in 0 .. NextId(N) - 1
      BY <2>2, <3>1
    <3>3. ~ (e.test[1] = u64 /\ e.plan = Plan)
      BY <2>4 DEF Tried
    <3>4. Choice(injection_id, Plan) # Choice(injection_id, e.plan)
      BY <2>2, <2>3, <2>4, <3>1, <3>2, <3>3, PlansAreTests
    <3> QED BY <3>4, SelectionIsChoice
  <2>7. Choice(injection_id, Plan) \in WantedSelections
    BY <2>2, <2>3, <2>4, PlansAreTests
  <2> QED BY <2>5, <2>6, <2>7 DEF Tested
<1> QED BY <1>2, <1>3

\* The steps that matter to the plan.
LEMMA PlanSteps ==
  ASSUME [Next]_vars
  PROVE  \/ FinishTestCase \/ EndExec \/ EndMain
         \/ /\ UNCHANGED <<log, u64>> /\ (pc' = "done" <=> pc = "done")
            /\ u64 # 0 => UNCHANGED baseline
BY DEF Next, Step, Stopped, vars, CreateAction, CheckParsing, StartExec,
       VisitObserver, EnterRuns, StartTestCase, CreateLateAction, EnterSubtree,
       RunInjectAction, RunRead, RunVariable, AtItem

\* Every step of the campaign is a step of TestPlan or leaves it alone.
LEMMA StepIsPlanned ==
  ASSUME SmallModel, CampaignInv, [Next]_vars
  PROVE  [Abstract!Next]_Abstract!vars
<1> DEFINE inf == u64 = 0 \/ baseline = Injector
           todo == WantedSelections \ Tested
<1>1. /\ Abstract!vars = <<todo, Cardinality(log), inf, pc = "done">>
  BY DEF Abstract!vars, Tested
<1>2. CASE FinishTestCase
  <2>1. /\ pc = "walk" /\ pc' = "run" /\ u64' = u64 /\ baseline' = baseline
        /\ log' = log \cup {Entry}
    BY <1>2 DEF FinishTestCase, Entry
  <2>2. Cardinality(log') = Cardinality(log) + 1
    BY <2>1, EntryIsNew, FS_AddElement DEF CampaignInv, HistoryInv
  <2>3. Tested' = Tested \cup {Selection(Entry)}
    BY <1>2, TestedSteps
  <2>4. CASE inf
    <3>1. Selection(Entry) \in WantedSelections \ Tested
      BY <1>2, <2>4, FinishIsNew
    <3>2. WantedSelections \ Tested' = (WantedSelections \ Tested) \ {Selection(Entry)}
      BY <2>3
    <3>3. Abstract!RunTest
      BY <2>1, <2>2, <2>4, <3>1, <3>2 DEF Abstract!RunTest, Tested
    <3> QED BY <3>3 DEF Abstract!Next
  <2>5. CASE ~ inf
    <3>1. Abstract!RunBlindTest
      BY <2>1, <2>2, <2>3, <2>5 DEF Abstract!RunBlindTest, Tested
    <3> QED BY <3>1 DEF Abstract!Next
  <2> QED BY <2>4, <2>5
<1>3. CASE EndExec
  <2>1. /\ pc = "run" /\ pc' = "exec" /\ u64' = u64 + 1 /\ u64 \in Nat
        /\ UNCHANGED <<log, baseline>> /\ i >= num_run
    BY <1>3 DEF EndExec, CampaignInv, ExecInv, TypeOK
  <2>2. Tested' = Tested
    BY <2>1, TestedSteps
  <2>3. CASE u64 = 0 /\ baseline # Injector
    <3>1. log = {Baseline}
      BY <2>1, <2>3 DEF CampaignInv, ZeroInv
    <3>2. Cardinality(log) = 1
      BY <3>1, FS_Singleton
    <3>3. Abstract!LoseTrack
      BY <2>1, <2>2, <2>3, <3>2 DEF Abstract!LoseTrack, Tested
    <3> QED BY <3>3 DEF Abstract!Next
  <2>4. CASE ~ (u64 = 0 /\ baseline # Injector)
    <3>1. inf' <=> inf
      BY <2>1, <2>4
    <3> QED BY <2>1, <2>2, <3>1 DEF Abstract!vars, Tested
  <2> QED BY <2>3, <2>4
<1>4. CASE EndMain
  <2>1. /\ pc = "exec" /\ pc' = "done" /\ u64 >= number_injector
        /\ UNCHANGED <<log, baseline, u64>>
    BY <1>4 DEF EndMain
  <2>2. Tested' = Tested
    BY <2>1, TestedSteps
  <2>3. u64 # 0
    BY <2>1 DEF CampaignInv, KnownInv
  <2>4. inf => WantedSelections \ Tested = {}
    BY <2>1, <2>3, NothingLeft DEF Informed
  <2>5. Abstract!Finish
    BY <2>1, <2>2, <2>4 DEF Abstract!Finish, Tested
  <2> QED BY <2>5 DEF Abstract!Next
<1>5. CASE /\ UNCHANGED <<log, u64>> /\ (pc' = "done" <=> pc = "done")
           /\ u64 # 0 => UNCHANGED baseline
  <2>1. Tested' = Tested
    BY <1>5, TestedSteps
  <2> QED BY <1>5, <2>1 DEF Abstract!vars, Tested
<1> QED BY <1>2, <1>3, <1>4, <1>5, PlanSteps

\* For every such model: main's two loops implement TestPlan step by step.
\* Each test takes a selection that was not tested before and main ends only
\* when none is left, unless EXEC 0 left out an or node.
THEOREM CampaignImplementsPlan ==
  ASSUME SmallModel
  PROVE  Spec => ImplementsPlan
<1>1. Init => Abstract!Init
  BY FS_EmptySet DEF Init, Abstract!Init
<1>2. CampaignInv /\ [Next]_vars => [Abstract!Next]_Abstract!vars
  BY StepIsPlanned
<1> QED BY <1>1, <1>2, InitCampaign, NextCampaign, PTL
        DEF Spec, ImplementsPlan, Abstract!Spec
=============================================================================
