------------------------- MODULE TestSessionProofs -------------------------
(***************************************************************************)
(* Theorems about TestSession, for every set of commands, every order in   *)
(* which they are created and run, and any number of tests.                *)
(***************************************************************************)
EXTENDS TestSession, Descent, TLAPS, FiniteSetTheorems

USE DEF config, monitors

\* The fields of the factory after each of its operations.
LEMMA SetCountFields ==
  ASSUME NEW f \in FactoryType, NEW k \in Kind, NEW n \in Int
  PROVE  /\ SetCount(f, k, n) \in FactoryType
         /\ SetCount(f, k, n).count = [f.count EXCEPT ![k] = n]
         /\ SetCount(f, k, n).pointer = f.pointer
         /\ SetCount(f, k, n).live = f.live
         /\ SetCount(f, k, n).next = f.next
BY DEF SetCount, FactoryType

\* The fields of a new socket.
LEMMA NewSocketFields ==
  ASSUME NEW f \in FactoryType, NEW k \in Kind
  PROVE  /\ NewSocket(f, k) \in FactoryType
         /\ NewSocket(f, k).count = f.count
         /\ NewSocket(f, k).pointer = [f.pointer EXCEPT ![k] = f.next]
         /\ NewSocket(f, k).live = f.live \cup {f.next}
         /\ NewSocket(f, k).next = f.next + 1
BY DEF NewSocket, FactoryType

\* The factory keeps its type when it hands out a socket of a kind
LEMMA GetKindSocketType ==
  ASSUME NEW f \in FactoryType, NEW k \in Kind
  PROVE  GetKindSocket(f, k) \in FactoryType
<1>1. f.count[k] + 1 \in Int
  BY DEF FactoryType
<1>2. NewSocket(f, k) \in FactoryType
  BY NewSocketFields
<1>3. SetCount(NewSocket(f, k), k, 1) \in FactoryType
  BY <1>2 DEF SetCount, FactoryType
<1>4. SetCount(f, k, f.count[k] + 1) \in FactoryType
  BY <1>1, SetCountFields
<1> QED BY <1>3, <1>4 DEF GetKindSocket

\* and when it takes one back.
LEMMA ReleaseKindSocketType ==
  ASSUME NEW f \in FactoryType, NEW k \in Kind
  PROVE  ReleaseKindSocket(f, k) \in FactoryType
<1>1. f.count[k] - 1 \in Int
  BY DEF FactoryType
<1>2. SetCount(f, k, f.count[k] - 1) \in FactoryType
  BY <1>1, SetCountFields
<1>3. SetCount(f, k, 0) \in FactoryType
  BY DEF SetCount, FactoryType
<1>4. DeleteSocket(SetCount(f, k, 0), k) \in FactoryType
  BY <1>3 DEF DeleteSocket, FactoryType
<1> QED BY <1>2, <1>4 DEF ReleaseKindSocket

\* A command is served a kind of socket.
LEMMA ServedKindType ==
  ASSUME NEW f
  PROVE  ServedKind(f) \in Kind
BY DEF ServedKind, Kind

\* So it does when a command gets its socket
LEMMA GetSocketType ==
  ASSUME NEW f \in FactoryType
  PROVE  GetSocket(f) \in FactoryType /\ GotSocket(f) \in Nat
<1>1. ServedKind(f) \in Kind
  BY ServedKindType
<1>2. GetKindSocket(f, ServedKind(f)) \in FactoryType
  BY <1>1, GetKindSocketType
<1>3. f.pointer[ServedKind(f)] \in Nat
  BY <1>1 DEF FactoryType
<1> QED BY <1>2, <1>3 DEF GetSocket, GotSocket

\* and when one is released.
LEMMA ReleaseSocketType ==
  ASSUME NEW f \in FactoryType, NEW s
  PROVE  ReleaseSocket(f, s) \in FactoryType
<1>1. "tcp" \in Kind /\ "udp" \in Kind /\ "raw" \in Kind
  BY DEF Kind
<1> QED BY <1>1, ReleaseKindSocketType DEF ReleaseSocket

\* The variables have their types at first,
LEMMA InitType == Init => TypeOK
BY DEF Init, TypeOK, NewFactory, FactoryType, LinkState

\* and every step keeps them.
LEMMA NextType == TypeOK /\ [Next]_vars => TypeOK'
<1> SUFFICES ASSUME TypeOK, [Next]_vars PROVE TypeOK'
  OBVIOUS
<1>1. ASSUME NEW c \in Command, CloneCommand(c) PROVE TypeOK'
  <2> DEFINE k == KindOf[c]
  <2>1. k \in Kind
    BY CommandAssumption
  <2>2. factory' \in FactoryType
    BY <1>1, <2>1, GetKindSocketType DEF CloneCommand, TypeOK
  <2>3. held' \in [Command -> Nat]
    <3>1. factory'.pointer[k] \in Nat
      BY <2>1, <2>2 DEF FactoryType
    <3>2. held' = [held EXCEPT ![c] = factory'.pointer[k]]
      BY <1>1 DEF CloneCommand
    <3> QED BY <3>1, <3>2 DEF TypeOK
  <2>4. link' \in [Kind -> LinkState] /\ session' \in [Kind -> Nat]
    BY <1>1, <2>1 DEF CloneCommand, Constructed, TypeOK
  <2> QED BY <1>1, <2>2, <2>3, <2>4 DEF CloneCommand, TypeOK
<1>2. ASSUME NEW c \in Command, SendPacket(c) \/ SendAborts(c) \/ ReadPacket(c)
      PROVE  TypeOK'
  BY <1>2 DEF SendPacket, SendAborts, ReadPacket, TypeOK
<1>3. CASE TreeReady
  BY <1>3 DEF TreeReady, TypeOK
<1>4. CASE StartTest
  BY <1>4 DEF StartTest, TypeOK
<1>5. ASSUME NEW k \in Kind, ReconnectSocket(k) PROVE TypeOK'
  <2>1. link' \in [Kind -> LinkState]
    BY <1>5 DEF ReconnectSocket, Reconnected, TypeOK
  <2> QED BY <1>5, <2>1 DEF ReconnectSocket, TypeOK
<1>6. CASE RunTest
  <2>1. factory' \in FactoryType /\ socket' \in Nat
    BY <1>6, GetSocketType DEF RunTest, StartMonitors, TypeOK
  <2> QED BY <1>6, <2>1 DEF RunTest, StartMonitors, TypeOK
<1>7. CASE TestReturns
  BY <1>7 DEF TestReturns, TypeOK
<1>8. CASE CheckWaits
  BY <1>8 DEF CheckWaits, TypeOK
<1>9. CASE FinishMonitors
  <2>1. factory' \in FactoryType
    BY <1>9, ReleaseSocketType DEF FinishMonitors, TypeOK
  <2> QED BY <1>9, <2>1 DEF FinishMonitors, GetReport, TypeOK
<1>10. CASE EndMain
  <2>1. factory' \in FactoryType
    BY <1>10 DEF EndMain, ReleaseAllSocket, TypeOK, FactoryType
  <2> QED BY <1>10, <2>1 DEF EndMain, TypeOK
<1>11. CASE UNCHANGED vars
  BY <1>11 DEF vars, TypeOK
<1> QED BY <1>1, <1>2, <1>3, <1>4, <1>5, <1>6, <1>7, <1>8, <1>9, <1>10, <1>11
        DEF Next, Commands, Reconnect, Stopped

\* The variables of the session keep their types.
THEOREM SessionTypes == Spec => []TypeOK
<1>1. Init => TypeOK
  BY InitType
<1>2. TypeOK /\ [Next]_vars => TypeOK'
  BY NextType
<1> QED BY <1>1, <1>2, PTL DEF Spec

-----------------------------------------------------------------------------
(* Reference counting *)

\* The factory: a kind is in use exactly while its pointer is set; sockets
\* have one kind and numbers below the next one.
FactoryInv ==
    /\ pc # "done" =>
         \A k \in Kind : factory.pointer[k] # 0 <=> factory.count[k] # 0
    /\ \A k \in Kind : factory.pointer[k] < factory.next
    /\ \A j, k \in Kind :
         factory.pointer[j] = factory.pointer[k] /\ factory.pointer[j] # 0 => j = k
    /\ Ownership

\* Commands keep the socket of their kind for ever, a socket has a command
\* that holds it, and the monitor holds one only during a test.
HoldInv ==
    /\ pc # "done" =>
         \A c \in Command : held[c] # 0 => held[c] = factory.pointer[KindOf[c]]
    /\ \A k \in Kind : factory.pointer[k] # 0 => Holders(k) # {}
    /\ socket # 0 =>
         /\ monitor
         /\ pc \in {"test", "finish", "check", "abort"}
         /\ \E k \in Kind : socket = factory.pointer[k]

\* Steps that change none of this.
LEMMA KeepRefs ==
  ASSUME FactoryInv, HoldInv, RefCounts,
         UNCHANGED <<factory, held, socket, monitor>>,
         pc' # "done",
         \/ pc' = pc
         \/ socket = 0 /\ pc # "done"
         \/ pc = "test" /\ pc' \in {"abort", "finish"}
         \/ pc = "finish" /\ pc' = "check"
  PROVE  FactoryInv' /\ HoldInv' /\ RefCounts'
<1>1. \A k \in Kind : Holders(k)' = Holders(k) /\ MonitorHolds(k)' = MonitorHolds(k)
  BY DEF Holders, MonitorHolds
<1>2. FactoryInv'
  BY DEF FactoryInv, Ownership
<1>3. RefCounts'
  BY <1>1 DEF RefCounts
<1>4. HoldInv'
  BY <1>1 DEF HoldInv
<1> QED BY <1>2, <1>3, <1>4

\* The number of holders is a natural number, and 0 only if there is none.
LEMMA HolderCount ==
  ASSUME NEW k \in Kind
  PROVE  /\ IsFiniteSet(Holders(k))
         /\ Cardinality(Holders(k)) \in Nat
         /\ Cardinality(Holders(k)) = 0 <=> Holders(k) = {}
<1>1. IsFiniteSet(Command) /\ Holders(k) \subseteq Command
  BY CommandAssumption DEF Holders
<1>2. IsFiniteSet(Holders(k))
  BY <1>1, FS_Subset
<1>3. Cardinality(Holders(k)) \in Nat
  BY <1>2, FS_CardinalityType
<1>4. Cardinality(Holders(k)) = 0 <=> Holders(k) = {}
  BY <1>2, FS_EmptySet
<1> QED BY <1>2, <1>3, <1>4

\* A command is created.
LEMMA CloneRefs ==
  ASSUME TypeOK, FactoryInv, HoldInv, RefCounts,
         NEW c \in Command, CloneCommand(c)
  PROVE  FactoryInv' /\ HoldInv' /\ RefCounts'
<1> DEFINE k == KindOf[c]
<1>0. k \in Kind /\ factory \in FactoryType /\ pc # "done" /\ held[c] = 0
  BY CommandAssumption DEF TypeOK, CloneCommand
<1>1. /\ held' = [held EXCEPT ![c] = factory'.pointer[k]]
      /\ factory' = GetKindSocket(factory, k)
      /\ pc' = pc /\ socket' = socket /\ monitor' = monitor
  BY DEF CloneCommand
<1> HIDE DEF k
<1>2. factory.count \in [Kind -> Int] /\ factory.pointer \in [Kind -> Nat]
      /\ factory.next \in Nat \ {0}
  BY <1>0 DEF FactoryType
<1>3. /\ factory'.count = [factory.count EXCEPT ![k] = factory.count[k] + 1]
      /\ \/ /\ factory.count[k] # 0
            /\ factory'.pointer = factory.pointer
            /\ factory'.live = factory.live
            /\ factory'.next = factory.next
         \/ /\ factory.count[k] = 0
            /\ factory'.pointer = [factory.pointer EXCEPT ![k] = factory.next]
            /\ factory'.live = factory.live \cup {factory.next}
            /\ factory'.next = factory.next + 1
  BY <1>0, <1>1, <1>2 DEF GetKindSocket, SetCount, NewSocket
<1>4. /\ factory.pointer[k] # 0 <=> factory.count[k] # 0
      /\ factory'.pointer[k] # 0
  BY <1>0, <1>2, <1>3 DEF FactoryInv
<1>5. \A j \in Kind : j # k => factory'.pointer[j] = factory.pointer[j]
  BY <1>2, <1>3
<1>6. factory.count[k] # 0 => factory'.pointer[k] = factory.pointer[k]
  BY <1>3
<1>7. Holders(k)' = Holders(k) \cup {c} /\ c \notin Holders(k)
  BY <1>0, <1>1, <1>4 DEF Holders, TypeOK, k
<1>8. \A j \in Kind : j # k => Holders(j)' = Holders(j)
  BY <1>0, <1>1 DEF Holders, TypeOK, k
<1>9. FactoryInv'
  <2>1. CASE factory.count[k] # 0
    <3>1. factory'.pointer = factory.pointer /\ factory'.live = factory.live
          /\ factory'.next = factory.next
      BY <1>3, <2>1
    <3>2. \A j \in Kind : factory'.pointer[j] # 0 <=> factory'.count[j] # 0
      <4>1. \A j \in Kind : factory.pointer[j] # 0 <=> factory.count[j] # 0
        BY <1>0 DEF FactoryInv
      <4>2. factory.count[k] >= 0
        <5>1. factory.count[k] >= Cardinality(Holders(k)) + MonitorHolds(k)
          BY <1>0 DEF RefCounts
        <5>2. Cardinality(Holders(k)) \in Nat /\ MonitorHolds(k) \in Nat
          BY <1>0, HolderCount DEF MonitorHolds
        <5> QED BY <1>0, <1>2, <5>1, <5>2
      <4> QED BY <1>0, <1>2, <1>3, <2>1, <3>1, <4>1, <4>2
    <3> QED BY <3>1, <3>2 DEF FactoryInv, Ownership
  <2>2. CASE factory.count[k] = 0
    <3>1. /\ factory'.pointer = [factory.pointer EXCEPT ![k] = factory.next]
          /\ factory'.live = factory.live \cup {factory.next}
          /\ factory'.next = factory.next + 1
          /\ factory.pointer[k] = 0
      BY <1>3, <1>4, <2>2
    <3>2. \A j \in Kind : factory'.pointer[j] # 0 <=> factory'.count[j] # 0
      BY <1>0, <1>2, <1>3, <2>2, <3>1 DEF FactoryInv
    <3>3. \A j \in Kind : factory'.pointer[j] < factory'.next
      BY <1>2, <3>1 DEF FactoryInv
    <3>4. \A i, j \in Kind :
            factory'.pointer[i] = factory'.pointer[j] /\ factory'.pointer[i] # 0 => i = j
      BY <1>2, <3>1 DEF FactoryInv
    <3>5. factory'.live = {factory'.pointer[j] : j \in Kind} \ {0}
      <4>1. factory.live = {factory.pointer[j] : j \in Kind} \ {0}
        BY DEF FactoryInv, Ownership
      <4> QED BY <1>0, <1>2, <3>1, <4>1
    <3> QED BY <3>2, <3>3, <3>4, <3>5 DEF FactoryInv, Ownership
  <2> QED BY <2>1, <2>2
<1>10. socket # 0 => socket # factory.next /\ socket < factory.next
  BY <1>2 DEF HoldInv, FactoryInv
<1>11. \A j \in Kind : MonitorHolds(j)' = MonitorHolds(j)
  <2>1. CASE factory.count[k] # 0
    BY <1>1, <1>3, <2>1 DEF MonitorHolds
  <2>2. CASE factory.count[k] = 0
    BY <1>0, <1>1, <1>2, <1>3, <1>4, <1>10, <2>2 DEF MonitorHolds
  <2> QED BY <2>1, <2>2
<1>12. HoldInv'
  <2>1. \A d \in Command : held'[d] # 0 => held'[d] = factory'.pointer[KindOf[d]]
    <3> SUFFICES ASSUME NEW d \in Command, held'[d] # 0
                 PROVE  held'[d] = factory'.pointer[KindOf[d]]
      OBVIOUS
    <3>1. CASE d = c
      BY <1>1, <3>1 DEF k, TypeOK
    <3>2. CASE d # c
      <4>1. held'[d] = held[d]
        BY <1>1, <3>2 DEF TypeOK
      <4>2. held[d] = factory.pointer[KindOf[d]] /\ KindOf[d] \in Kind
        BY <1>0, <4>1, CommandAssumption DEF HoldInv
      <4>3. KindOf[d] = k => factory.count[k] # 0
        BY <1>4, <4>1, <4>2
      <4> QED BY <1>5, <1>6, <4>1, <4>2, <4>3
    <3> QED BY <3>1, <3>2
  <2>2. \A j \in Kind : factory'.pointer[j] # 0 => Holders(j)' # {}
    BY <1>5, <1>7, <1>8 DEF HoldInv
  <2>3. socket' # 0 => monitor' /\ pc' \in {"test", "finish", "check", "abort"}
    BY <1>1 DEF HoldInv
  <2>4. socket' # 0 => \E j \in Kind : socket' = factory'.pointer[j]
    <3> SUFFICES ASSUME socket # 0 PROVE \E j \in Kind : socket = factory'.pointer[j]
      BY <1>1
    <3>1. PICK j \in Kind : socket = factory.pointer[j]
      BY DEF HoldInv
    <3>2. j = k => factory.count[k] # 0
      BY <1>4, <3>1
    <3> QED BY <1>5, <1>6, <3>1, <3>2
  <2> QED BY <2>1, <2>2, <2>3, <2>4 DEF HoldInv
<1>13. RefCounts'
  <2> SUFFICES ASSUME NEW j \in Kind
               PROVE  /\ factory'.count[j] >= Cardinality(Holders(j)') + MonitorHolds(j)'
                      /\ j # "btrfcomm" =>
                           factory'.count[j] = Cardinality(Holders(j)') + MonitorHolds(j)'
    BY DEF RefCounts
  <2>1. /\ Cardinality(Holders(j)) \in Nat /\ MonitorHolds(j) \in Nat
        /\ IsFiniteSet(Holders(j))
    BY HolderCount DEF MonitorHolds
  <2>2. /\ factory.count[j] >= Cardinality(Holders(j)) + MonitorHolds(j)
        /\ j # "btrfcomm" => factory.count[j] = Cardinality(Holders(j)) + MonitorHolds(j)
    BY DEF RefCounts
  <2>3. CASE j = k
    <3>1. Cardinality(Holders(k)') = Cardinality(Holders(k)) + 1
      BY <1>7, <2>1, <2>3, FS_AddElement
    <3>2. factory'.count[k] = factory.count[k] + 1
      BY <1>0, <1>2, <1>3
    <3> QED BY <1>2, <1>11, <2>1, <2>2, <2>3, <3>1, <3>2
  <2>4. CASE j # k
    BY <1>2, <1>3, <1>8, <1>11, <2>2, <2>4
  <2> QED BY <2>3, <2>4
<1> QED BY <1>9, <1>12, <1>13
\* Only the counter of kind k, the program counter and the monitor change.
LEMMA RecountRefs ==
  ASSUME TypeOK, FactoryInv, HoldInv,
         NEW k \in Kind, NEW n \in Nat \ {0}, factory.count[k] # 0,
         factory' = SetCount(factory, k, n), UNCHANGED held,
         pc # "done", pc' # "done",
         socket' # 0 => /\ monitor'
                        /\ pc' \in {"test", "finish", "check", "abort"}
                        /\ \E j \in Kind : socket' = factory.pointer[j]
  PROVE  /\ FactoryInv' /\ HoldInv'
         /\ factory'.count = [factory.count EXCEPT ![k] = n]
         /\ factory'.pointer = factory.pointer
         /\ \A j \in Kind : Holders(j)' = Holders(j)
<1>1. /\ factory'.count = [factory.count EXCEPT ![k] = n]
      /\ factory'.pointer = factory.pointer
      /\ factory'.live = factory.live
      /\ factory'.next = factory.next
  BY DEF SetCount
<1>2. factory.count \in [Kind -> Int]
  BY DEF TypeOK, FactoryType
<1>3. \A j \in Kind : Holders(j)' = Holders(j)
  BY DEF Holders
<1>4. \A j \in Kind : factory'.pointer[j] # 0 <=> factory'.count[j] # 0
  BY <1>1, <1>2 DEF FactoryInv
<1>5. FactoryInv'
  BY <1>1, <1>4 DEF FactoryInv, Ownership
<1>6. HoldInv'
  BY <1>1, <1>3 DEF HoldInv
<1> QED BY <1>1, <1>3, <1>5, <1>6

\* getSocket() serves a kind in use.
LEMMA ServedInUse ==
  ASSUME NEW f, AnyInUse(f)
  PROVE  InUse(f, ServedKind(f)) /\ ServedKind(f) \in Kind
BY DEF AnyInUse, ServedKind, Kind

\* start_test takes a reference.
LEMMA RunTestRefs ==
  ASSUME TypeOK, FactoryInv, HoldInv, RefCounts, RunTest
  PROVE  FactoryInv' /\ HoldInv' /\ RefCounts'
<1>1. /\ pc = "reconnect" /\ pc' = "test" /\ held' = held /\ socket = 0
      /\ monitor' = monitor
  BY DEF RunTest, HoldInv
<1>2. CASE monitor /\ AnyInUse(factory)
  <2> DEFINE k == ServedKind(factory)
             n == factory.count[k] + 1
  <2>1. InUse(factory, k) /\ k \in Kind
    BY <1>2, ServedInUse
  <2>2. factory' = GetSocket(factory) /\ socket' = GotSocket(factory)
    BY <1>2 DEF RunTest, StartMonitors
  <2>3. factory' = GetKindSocket(factory, k) /\ socket' = factory.pointer[k]
    BY <1>2, <2>2 DEF GetSocket, GotSocket
  <2> HIDE DEF k
  <2>4. factory.count[k] # 0 /\ factory' = SetCount(factory, k, n)
    BY <2>1, <2>3 DEF GetKindSocket, InUse
  <2>5. \A j \in Kind :
          /\ factory.count[j] \in Int /\ factory.pointer[j] \in Nat
          /\ Cardinality(Holders(j)) \in Nat
          /\ factory.count[j] >= Cardinality(Holders(j))
          /\ j # "btrfcomm" => factory.count[j] = Cardinality(Holders(j))
    BY <1>1, HolderCount DEF RefCounts, MonitorHolds, TypeOK, FactoryType
  <2>6. n \in Nat \ {0}
    BY <2>1, <2>5
  <2> HIDE DEF n
  <2>7. /\ FactoryInv' /\ HoldInv'
        /\ factory'.count = [factory.count EXCEPT ![k] = n]
        /\ factory'.pointer = factory.pointer
        /\ \A j \in Kind : Holders(j)' = Holders(j)
    BY <1>1, <1>2, <2>1, <2>3, <2>4, <2>6, RecountRefs
  <2>8. factory.pointer[k] # 0
    BY <1>1, <2>1, <2>4 DEF FactoryInv
  <2>9. \A j \in Kind : MonitorHolds(j)' = IF j = k THEN 1 ELSE 0
    BY <2>1, <2>3, <2>7, <2>8 DEF MonitorHolds, FactoryInv
  <2>10. \A j \in Kind : factory'.count[j] = IF j = k THEN factory.count[j] + 1
                                                      ELSE factory.count[j]
    BY <2>1, <2>7 DEF n, TypeOK, FactoryType
  <2>11. RefCounts'
    BY <2>5, <2>7, <2>9, <2>10 DEF RefCounts
  <2> QED BY <2>7, <2>11
<1>3. CASE ~ (monitor /\ AnyInUse(factory))
  <2>1. factory' = factory /\ socket' = 0
    BY <1>1, <1>3 DEF RunTest, StartMonitors, GetSocket, GotSocket
  <2> QED BY <1>1, <2>1, KeepRefs
<1> QED BY <1>2, <1>3

\* finish_test gives it back, and deletes no socket.
LEMMA FinishRefs ==
  ASSUME TypeOK, FactoryInv, HoldInv, RefCounts, FinishMonitors
  PROVE  FactoryInv' /\ HoldInv' /\ RefCounts'
<1>1. pc \in {"finish", "check"} /\ pc' = "run" /\ held' = held /\ monitor' = monitor
  BY DEF FinishMonitors
<1>2. CASE socket = 0
  <2>1. factory' = factory /\ socket' = socket
    BY <1>2 DEF FinishMonitors
  <2> QED BY <1>1, <1>2, <2>1, KeepRefs
<1>3. CASE socket # 0
  <2>1. factory' = ReleaseSocket(factory, socket) /\ socket' = 0
    BY <1>3 DEF FinishMonitors
  <2>2. PICK k \in Kind : socket = factory.pointer[k]
    BY <1>3 DEF HoldInv
  <2>3. \A j \in Kind : socket = factory.pointer[j] <=> j = k
    BY <1>3, <2>2 DEF FactoryInv
  <2>4. \A j \in Kind : MonitorHolds(j) = IF j = k THEN 1 ELSE 0
    BY <1>3, <2>3 DEF MonitorHolds
  <2>5. \A j \in Kind : MonitorHolds(j)' = 0
    BY <2>1 DEF MonitorHolds
  <2>6. \A j \in Kind : /\ factory.count[j] \in Int
                        /\ Cardinality(Holders(j)) \in Nat
    BY HolderCount DEF TypeOK, FactoryType
  <2>7. CASE k = "btrfcomm"
    <3>1. factory' = factory
      BY <2>1, <2>3, <2>7 DEF ReleaseSocket, Kind
    <3>2. \A j \in Kind : Holders(j)' = Holders(j)
      BY <1>1 DEF Holders
    <3>3. RefCounts'
      BY <2>4, <2>5, <2>6, <2>7, <3>1, <3>2 DEF RefCounts
    <3>4. FactoryInv'
      BY <1>1, <3>1 DEF FactoryInv, Ownership
    <3>5. HoldInv'
      BY <1>1, <2>1, <3>1, <3>2 DEF HoldInv
    <3> QED BY <3>3, <3>4, <3>5
  <2>8. CASE k # "btrfcomm"
    <3> DEFINE n == factory.count[k] - 1
    <3>1. factory' = ReleaseKindSocket(factory, k)
      BY <2>1, <2>2, <2>3, <2>8 DEF ReleaseSocket, Kind
    <3>2. n = Cardinality(Holders(k))
      BY <2>4, <2>6, <2>8 DEF RefCounts
    <3>3. Holders(k) # {}
      BY <1>3, <2>2 DEF HoldInv
    <3>4. n \in Nat \ {0}
      BY <3>2, <3>3, HolderCount
    <3>5. factory' = SetCount(factory, k, n) /\ factory.count[k] # 0
      BY <2>6, <3>1, <3>4 DEF ReleaseKindSocket
    <3> HIDE DEF n
    <3>6. /\ FactoryInv' /\ HoldInv'
          /\ factory'.count = [factory.count EXCEPT ![k] = n]
          /\ \A j \in Kind : Holders(j)' = Holders(j)
      BY <1>1, <2>1, <3>4, <3>5, RecountRefs
    <3>7. \A j \in Kind : factory'.count[j] = IF j = k THEN factory.count[j] - 1
                                                       ELSE factory.count[j]
      BY <3>6 DEF n, TypeOK, FactoryType
    <3>8. RefCounts'
      BY <2>4, <2>5, <2>6, <3>6, <3>7 DEF RefCounts
    <3> QED BY <3>6, <3>8
  <2> QED BY <2>7, <2>8
<1> QED BY <1>2, <1>3

\* releaseAllSocket deletes every socket.
LEMMA EndRefs ==
  ASSUME TypeOK, FactoryInv, HoldInv, RefCounts, EndMain
  PROVE  FactoryInv' /\ HoldInv' /\ RefCounts'
<1>1. /\ pc' = "done" /\ held' = held /\ socket' = 0 /\ socket = 0
      /\ factory' = ReleaseAllSocket(factory)
  BY DEF EndMain, HoldInv
<1>2. /\ factory'.count = factory.count
      /\ factory'.pointer = [k \in Kind |-> 0]
      /\ factory'.live = factory.live \ {factory.pointer[k] : k \in Kind}
      /\ factory'.next = factory.next
  BY <1>1 DEF ReleaseAllSocket
<1>3. \A k \in Kind : /\ Holders(k)' = Holders(k)
                      /\ MonitorHolds(k)' = MonitorHolds(k)
  BY <1>1 DEF Holders, MonitorHolds
<1>4. RefCounts'
  BY <1>2, <1>3 DEF RefCounts
<1>5. Ownership'
  <2>1. factory'.live = {}
    BY <1>2 DEF FactoryInv, Ownership
  <2>2. {factory'.pointer[k] : k \in Kind} \ {0} = {}
    BY <1>2
  <2> QED BY <2>1, <2>2 DEF Ownership
<1>6. factory.next \in Nat \ {0}
  BY DEF TypeOK, FactoryType
<1>7. FactoryInv'
  BY <1>1, <1>2, <1>5, <1>6 DEF FactoryInv
<1>8. HoldInv'
  BY <1>1, <1>2 DEF HoldInv
<1> QED BY <1>4, <1>7, <1>8

\* At first nobody holds a socket.
LEMMA InitRefs == Init => FactoryInv /\ HoldInv /\ RefCounts
<1> SUFFICES ASSUME Init PROVE FactoryInv /\ HoldInv /\ RefCounts
  OBVIOUS
<1>1. \A k \in Kind : Holders(k) = {} /\ MonitorHolds(k) = 0
  BY DEF Init, Holders, MonitorHolds
<1>2. \A k \in Kind : Cardinality(Holders(k)) = 0
  BY <1>1, HolderCount
<1>3. RefCounts
  <2>1. \A k \in Kind : factory.count[k] = 0
    BY DEF Init, NewFactory
  <2>2. ASSUME NEW k \in Kind
        PROVE  factory.count[k] = Cardinality(Holders(k)) + MonitorHolds(k)
    <3>1. factory.count[k] = 0 /\ Cardinality(Holders(k)) = 0 /\ MonitorHolds(k) = 0
      BY <1>1, <1>2, <2>1
    <3> QED BY <3>1
  <2>3. ASSUME NEW k \in Kind PROVE factory.count[k] >= factory.count[k]
    <3>1. factory.count[k] = 0
      BY <2>1
    <3>2. factory.count[k] \in Int
      BY <3>1
    <3> QED BY ONLY <3>2
  <2> QED BY <2>2, <2>3 DEF RefCounts
<1>4. FactoryInv
  BY DEF FactoryInv, Ownership, Init, NewFactory
<1>5. HoldInv
  BY DEF HoldInv, Init, NewFactory
<1> QED BY <1>3, <1>4, <1>5

\* Every step keeps the counts of references.
LEMMA NextRefs ==
  TypeOK /\ FactoryInv /\ HoldInv /\ RefCounts /\ [Next]_vars
    => FactoryInv' /\ HoldInv' /\ RefCounts'
<1> SUFFICES ASSUME TypeOK, FactoryInv, HoldInv, RefCounts, [Next]_vars
             PROVE  FactoryInv' /\ HoldInv' /\ RefCounts'
  OBVIOUS
<1>1. ASSUME NEW c \in Command, CloneCommand(c)
      PROVE  FactoryInv' /\ HoldInv' /\ RefCounts'
  BY <1>1, CloneRefs
<1>2. CASE \E c \in Command : SendPacket(c) \/ SendAborts(c) \/ ReadPacket(c)
  BY <1>2, KeepRefs DEF SendPacket, SendAborts, ReadPacket
<1>3. CASE TreeReady \/ StartTest
  <2>1. UNCHANGED <<factory, held, socket, monitor>> /\ pc # "done" /\ pc' # "done" /\ socket = 0
    BY <1>3 DEF TreeReady, StartTest, HoldInv
  <2> QED BY <2>1, KeepRefs
<1>4. CASE Reconnect
  BY <1>4, KeepRefs DEF Reconnect, ReconnectSocket
<1>5. CASE RunTest
  BY <1>5, RunTestRefs
<1>6. CASE TestReturns
  <2>1. CASE monitor
    BY <1>6, <2>1, KeepRefs DEF TestReturns
  <2>2. CASE ~ monitor
    <3>1. socket = 0
      BY <2>2 DEF HoldInv
    <3> QED BY <1>6, <2>2, <3>1, KeepRefs DEF TestReturns
  <2> QED BY <2>1, <2>2
<1>7. CASE CheckWaits
  BY <1>7, KeepRefs DEF CheckWaits
<1>8. CASE FinishMonitors
  BY <1>8, FinishRefs
<1>9. CASE EndMain
  BY <1>9, EndRefs
<1>10. CASE UNCHANGED vars
  <2>1. CASE pc = "done"
    <3>1. \A k \in Kind : Holders(k)' = Holders(k) /\ MonitorHolds(k)' = MonitorHolds(k)
      BY <1>10 DEF vars, Holders, MonitorHolds
    <3> QED BY <1>10, <3>1 DEF vars, FactoryInv, HoldInv, RefCounts, Ownership
  <2>2. CASE pc # "done"
    BY <1>10, <2>2, KeepRefs DEF vars
  <2> QED BY <2>1, <2>2
<1> QED BY <1>1, <1>2, <1>3, <1>4, <1>5, <1>6, <1>7, <1>8, <1>9, <1>10
        DEF Next, Commands, Stopped
\* A live socket for everyone who holds one.
LEMMA RefsAreLive ==
  ASSUME TypeOK, FactoryInv, HoldInv
  PROVE  NoDangling
<1> SUFFICES ASSUME pc # "done"
             PROVE  /\ \A c \in Command : held[c] # 0 => held[c] \in factory.live
                    /\ socket # 0 => socket \in factory.live
  BY DEF NoDangling
<1>1. factory.live = {factory.pointer[k] : k \in Kind} \ {0}
  BY DEF FactoryInv, Ownership
<1>2. ASSUME NEW c \in Command, held[c] # 0 PROVE held[c] \in factory.live
  <2>1. KindOf[c] \in Kind /\ held[c] = factory.pointer[KindOf[c]]
    BY <1>2, CommandAssumption DEF HoldInv
  <2> QED BY <1>1, <1>2, <2>1
<1>3. socket # 0 => socket \in factory.live
  BY <1>1 DEF HoldInv
<1> QED BY <1>2, <1>3

\* Reference counting is right for every model: whoever holds a socket of
\* SocketFactory holds one that is not deleted, every socket that exists is
\* the factory's, and the counters are the numbers of holders.
THEOREM SocketsAreCounted == Spec => [](RefCounts /\ Ownership /\ NoDangling)
<1> DEFINE Inv == TypeOK /\ FactoryInv /\ HoldInv /\ RefCounts
<1>1. Init => Inv
  BY InitType, InitRefs
<1>2. Inv /\ [Next]_vars => Inv'
  BY NextType, NextRefs
<1>3. Inv => RefCounts /\ Ownership /\ NoDangling
  BY RefsAreLive DEF FactoryInv
<1> QED BY <1>1, <1>2, <1>3, PTL DEF Spec

\* SocketFactory owns exactly the sockets that exist: nothing leaks, and
\* releaseAllSocket deletes nothing twice.
THEOREM FactoryOwnsSockets == Spec => []Ownership
BY SocketsAreCounted, PTL

\* No command and no monitor uses a socket that a release deleted.
THEOREM NoSocketDangles == Spec => []NoDangling
BY SocketsAreCounted, PTL

-----------------------------------------------------------------------------
(* Tests are isolated *)

\* Sockets reconnectSocket has visited, or all of them during the test.
SessionInv ==
    /\ pc = "reconnect" =>
         \A k \in Kind : InUse(factory, k) /\ k \notin to_reconnect => session[k] = test
    /\ NoStaleSession

\* What RTTMonitor keeps from one test to the next: nothing.
RttInv ==
    /\ pc \in {"test", "finish", "check"} /\ monitor => send_time \in {0, test}
    /\ pc \in {"getAction", "run", "reconnect"} \/ ~ monitor => rtts = {}
    /\ RttOfThisTest
    /\ ~ monitor => pc \notin {"finish", "check"}

\* getSocket() puts no kind to use.
LEMMA GetSocketInUse ==
  ASSUME NEW f \in FactoryType, NEW k \in Kind, InUse(GetSocket(f), k)
  PROVE  InUse(f, k)
<1>1. CASE ~ AnyInUse(f)
  BY <1>1 DEF GetSocket
<1>2. CASE AnyInUse(f)
  <2> DEFINE s == ServedKind(f)
  <2>1. InUse(f, s) /\ s \in Kind
    BY <1>2, ServedInUse
  <2> HIDE DEF s
  <2>2. GetSocket(f) = SetCount(f, s, f.count[s] + 1)
    BY <1>2, <2>1 DEF GetSocket, GetKindSocket, InUse, s
  <2>3. k # s => SetCount(f, s, f.count[s] + 1).count[k] = f.count[k]
    BY <2>1 DEF SetCount, FactoryType
  <2> QED BY <2>1, <2>2, <2>3 DEF InUse
<1> QED BY <1>1, <1>2

\* Every step keeps sockets in use reconnected.
LEMMA NextSession == TypeOK /\ SessionInv /\ [Next]_vars => SessionInv'
<1> SUFFICES ASSUME TypeOK, SessionInv, [Next]_vars PROVE SessionInv'
  OBVIOUS
<1> USE DEF SessionInv, NoStaleSession
<1>1. ASSUME NEW c \in Command, CloneCommand(c) PROVE SessionInv'
  <2> DEFINE k == KindOf[c]
  <2>1. /\ k \in Kind /\ pc' = pc /\ test' = test
        /\ pc \in {"getAction", "test"}
        /\ factory' = GetKindSocket(factory, k)
        /\ \/ InUse(factory, k) /\ session' = session
           \/ session' = [session EXCEPT ![k] = test]
    BY <1>1, CommandAssumption DEF CloneCommand
  <2> HIDE DEF k
  <2>2. \A j \in Kind : j # k => factory'.count[j] = factory.count[j]
    BY <2>1 DEF GetKindSocket, SetCount, NewSocket, TypeOK, FactoryType
  <2> QED BY <2>1, <2>2 DEF InUse, TypeOK
<1>2. CASE StartTest
  BY <1>2 DEF StartTest
<1>3. ASSUME NEW k \in Kind, ReconnectSocket(k) PROVE SessionInv'
  BY <1>3 DEF ReconnectSocket, TypeOK
<1>4. CASE RunTest
  <2>1. \A k \in Kind : InUse(factory', k) => InUse(factory, k)
    BY <1>4, GetSocketInUse DEF RunTest, StartMonitors, TypeOK
  <2> QED BY <1>4, <2>1 DEF RunTest
<1>5. CASE pc' \notin {"reconnect", "test"}
  BY <1>5
<1>6. CASE UNCHANGED <<pc, test, factory, session, to_reconnect>>
  BY <1>6
<1> QED BY <1>1, <1>2, <1>3, <1>4, <1>5, <1>6
        DEF Next, Commands, Reconnect, Stopped, vars, TreeReady, TestReturns,
            CheckWaits, FinishMonitors, EndMain, SendPacket, SendAborts, ReadPacket

\* No test runs on a connection of an earlier one: reconnectSocket reaches
\* every socket that a command holds.
THEOREM SessionsAreFresh == Spec => []NoStaleSession
<1> DEFINE Inv == TypeOK /\ SessionInv
<1>1. Init => Inv
  BY InitType DEF Init, SessionInv, NoStaleSession
<1>2. Inv /\ [Next]_vars => Inv'
  BY NextType, NextSession
<1>3. Inv => NoStaleSession
  BY DEF SessionInv
<1> QED BY <1>1, <1>2, <1>3, PTL DEF Spec

\* Every step keeps round-trip times in their test.
LEMMA NextRtt == RttInv /\ [Next]_vars => RttInv'
<1> SUFFICES ASSUME RttInv, [Next]_vars PROVE RttInv'
  OBVIOUS
<1> USE DEF RttInv, RttOfThisTest
<1>1. CASE \E c \in Command : CloneCommand(c)
  BY <1>1 DEF CloneCommand
<1>2. CASE \E c \in Command : SendPacket(c) \/ SendAborts(c) \/ ReadPacket(c)
  BY <1>2 DEF SendPacket, SendAborts, ReadPacket
<1>3. CASE TreeReady \/ StartTest \/ Reconnect \/ EndMain
  BY <1>3 DEF TreeReady, StartTest, Reconnect, ReconnectSocket, EndMain
<1>4. CASE RunTest
  BY <1>4 DEF RunTest, StartMonitors
<1>5. CASE TestReturns \/ CheckWaits
  BY <1>5 DEF TestReturns, CheckWaits
<1>6. CASE FinishMonitors
  BY <1>6 DEF FinishMonitors, GetReport
<1>7. CASE UNCHANGED vars
  BY <1>7 DEF vars
<1> QED BY <1>1, <1>2, <1>3, <1>4, <1>5, <1>6, <1>7 DEF Next, Commands, Stopped

\* RTTMonitor never measures from a packet of one test to one of another,
\* nor reports a measure in a later test.
THEOREM RttsAreLocal == Spec => []RttOfThisTest
<1>1. Init => RttInv
  BY DEF Init, RttInv, RttOfThisTest
<1>2. RttInv /\ [Next]_vars => RttInv'
  BY NextRtt
<1>3. RttInv => RttOfThisTest
  BY DEF RttInv
<1> QED BY <1>1, <1>2, <1>3, PTL DEF Spec

-----------------------------------------------------------------------------
(* The campaign ends *)

\* How much of a test is left.
Rank ==
    [getAction |-> 6, reconnect |-> 5, test |-> 4, finish |-> 3, check |-> 2,
     run |-> 1, done |-> 0, abort |-> 0]

\* What main has left to do.
Measure == << Left(test, MaxTest), Rank[pc], Cardinality(to_reconnect) >>

LEMMA KindsFinite ==
  ASSUME NEW S \in SUBSET Kind
  PROVE  IsFiniteSet(S) /\ Cardinality(S) \in Nat
<1>1. /\ IsFiniteSet({"tcp"}) /\ IsFiniteSet({"udp"})
      /\ IsFiniteSet({"raw"}) /\ IsFiniteSet({"btrfcomm"})
  BY FS_Singleton
<1>2. Kind = ({"tcp"} \cup {"udp"}) \cup ({"raw"} \cup {"btrfcomm"})
  BY DEF Kind
<1>3. IsFiniteSet(Kind)
  BY <1>1, <1>2, FS_Union
<1> QED BY <1>3, FS_Subset, FS_CardinalityType

LEMMA MeasureType ==
  ASSUME TypeOK
  PROVE  Measure \in Tuples(3)
<1>1. test \in Nat /\ MaxTest \in Nat
  BY CommandAssumption DEF TypeOK
<1>2. Measure[1] \in Nat
  BY <1>1 DEF Measure, Left
<1>3. Measure[2] \in Nat
  BY DEF Measure, Rank, TypeOK
<1>4. Measure[3] \in Nat
  BY KindsFinite DEF Measure, TypeOK
<1>5. Measure = [k \in 1 .. 3 |-> Measure[k]]
  BY DEF Measure
<1>6. \A k \in 1 .. 3 : Measure[k] \in Nat
  BY <1>2, <1>3, <1>4
<1> QED BY <1>5, <1>6 DEF Tuples

\* To descend it is enough that the first component that changes gets less.
LEMMA LessAt ==
  ASSUME NEW a, NEW b, NEW size \in Nat, NEW k \in 1 .. size,
         a \in Tuples(size), b \in Tuples(size),
         a[k] < b[k], \A j \in 1 .. k - 1 : a[j] = b[j]
  PROVE  Below(a, b)
BY DEF Below, Tuples

\* A command that does not end the program leaves main where it was; any
\* other step takes it further.
LEMMA StepDescends ==
  ASSUME TypeOK, Measure \in Tuples(3), Measure' \in Tuples(3), Next
  PROVE  \/ Below(Measure', Measure)
         \/ Commands /\ Measure' = Measure
         \/ UNCHANGED vars
<1>1. test \in Nat /\ MaxTest \in Nat
  BY CommandAssumption DEF TypeOK
<1>2. ASSUME NEW c \in Command,
             CloneCommand(c) \/ SendPacket(c) \/ ReadPacket(c)
      PROVE  Commands /\ Measure' = Measure
  BY <1>2 DEF CloneCommand, SendPacket, ReadPacket, Commands, Measure
<1>3. CASE \/ TreeReady
           \/ \E c \in Command : SendAborts(c)
           \/ RunTest
           \/ TestReturns
           \/ CheckWaits
           \/ FinishMonitors
           \/ EndMain
  <2>1. Measure'[1] = Measure[1] /\ Measure'[2] < Measure[2]
    BY <1>3 DEF TreeReady, SendAborts, RunTest, TestReturns, CheckWaits,
                FinishMonitors, EndMain, Measure, Rank
  <2> QED BY <2>1, LessAt
<1>4. CASE StartTest
  <2>1. Measure'[1] < Measure[1]
    BY <1>1, <1>4 DEF StartTest, Measure, Left
  <2> QED BY <2>1, LessAt
<1>5. ASSUME NEW k \in Kind, ReconnectSocket(k) PROVE Below(Measure', Measure)
  <2>1. k \in to_reconnect /\ to_reconnect' = to_reconnect \ {k}
    BY <1>5 DEF ReconnectSocket
  <2>2. IsFiniteSet(to_reconnect) /\ Cardinality(to_reconnect) \in Nat
    BY KindsFinite DEF TypeOK
  <2>3. Cardinality(to_reconnect') = Cardinality(to_reconnect) - 1
    BY <2>1, <2>2, FS_RemoveElement
  <2>4. /\ Measure'[1] = Measure[1] /\ Measure'[2] = Measure[2]
        /\ Measure'[3] < Measure[3]
    BY <1>5, <2>2, <2>3 DEF ReconnectSocket, Measure
  <2> QED BY <2>4, LessAt
<1> QED BY <1>2, <1>3, <1>4, <1>5 DEF Next, Commands, Reconnect, Stopped

Descends ==
    /\ Measure \in Tuples(3)
    /\ Measure' \in Tuples(3)
    /\ \/ Below(Measure', Measure)
       \/ Commands /\ Measure' = Measure

\* Whatever the sockets, the commands and the peers do, every step of main's
\* own leaves it less to do, and the steps of commands do not add to it: main
\* stops, or waits for a peer, or a test goes on for ever.
THEOREM SessionDescends == Spec => [][Descends]_vars
<1> DEFINE Typed == Measure \in Tuples(3)
<1>1. Init => TypeOK
  BY InitType
<1>2. TypeOK /\ [Next]_vars => TypeOK'
  BY NextType
<1>3. TypeOK => Typed
  BY MeasureType
<1>4. TypeOK /\ Typed /\ Typed' /\ [Next]_vars => [Descends]_vars
  BY StepDescends DEF Descends
<1> HIDE DEF Typed
<1> QED BY <1>1, <1>2, <1>3, <1>4, PTL DEF Spec
=============================================================================
