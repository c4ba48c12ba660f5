-------------------------- MODULE ReadFramesProofs --------------------------
(***************************************************************************)
(* Theorems about ReadFrames: for every protocol model, every number of    *)
(* tests and whatever the peer sends, who owns a State and which packet a  *)
(* read returns.                                                           *)
(***************************************************************************)
EXTENDS ReadFrames, Descent, TLAPS, FiniteSetTheorems, SequenceTheorems,
        WellFoundedInduction

-----------------------------------------------------------------------------
(* The inductive invariant *)

\* Packets and results.
PacketType == [data : Packet \cup {Empty}, test : Nat]
ResultType == [obj : Nat, fail : BOOLEAN]

\* Every variable has its type, and the heap is finite.
Types ==
    /\ pc \in {"main", "walk", "read", "sons", "done", "abort"}
    /\ kind \in Kind
    /\ test \in Nat
    /\ inbox \in Seq(PacketType)
    /\ read_data \in Seq(PacketType)
    /\ n \in {-1, 0, 1}
    /\ parent \in [Live -> Nat]
    /\ result \in Seq(ResultType)
    /\ last_frame \in Nat
    /\ DOMAIN variables \subseteq Variable
    /\ variables \in [DOMAIN variables -> Nat]
    /\ \A S \in {Live, walked, DOMAIN variables} : IsFiniteSet(S)

\* Where the walk is.
PlaceInv ==
    /\ pc = "walk" => pos \in 1 .. Len(Script) + 1
    /\ pc \in {"read", "sons"} => pos \in 1 .. Len(Script)
    /\ pc = "read" => Script[pos].op = "read"
    /\ pc = "sons" => /\ son \in 1 .. Len(Script[pos].sons) + 1
                      /\ Len(result) = Depth(pos)[son]

\* The objects that no other one owns.
Frames == IF last_frame # 0 THEN {last_frame} ELSE {}
\* The results that the command under way holds, and all the roots.
Results == IF pc = "sons" THEN Sons ELSE {}
Roots == walked \cup Frames \cup Results

\* Every object is a root or below a frame or the result of a command; a
\* pointer to a root is the only one.
HeapInv ==
    /\ Roots \subseteq Live
    /\ 0 \notin Live
    /\ \A y \in Live : IF y \in Roots THEN parent[y] = 0
                       ELSE parent[y] \in walked \cup Frames
    /\ last_frame \notin walked
    /\ Results \cap (walked \cup Frames) = {}
    /\ pc = "sons" => \A i, j \in 1 .. Len(result) :
                         result[i].obj = result[j].obj => i = j
    /\ pc \in {"main", "done"} => walked = {} /\ variables = << >>
    /\ pc \in {"main", "done", "walk"} => last_frame = 0
    /\ pc = "sons" => (last_frame # 0 <=> Script[pos].op = "read")

\* A result that no or node drops, in a command that does not loop.
Safe(j) ==
    /\ ~ Looping(pos)
    /\ \A r \in son .. Len(Script[pos].sons) :
          Script[pos].sons[r].op = "or" =>
             j <= Depth(pos)[r] - Script[pos].sons[r].arg

\* The object of a variable is a result or part of one.
Held(x) == x \in Live /\ (x \in walked \/ parent[x] \in walked)
\* A variable that is not exposed is held by main, or will be: no or node
\* can drop it and its command does not loop.
VariableInv ==
    \A v \in DOMAIN variables \ Exposed :
        \/ Held(variables[v])
        \/ /\ pc = "sons"
           /\ \E j \in 1 .. Len(result) : /\ result[j].obj = variables[v]
                                          /\ Safe(j)

\* What the sons found in the frame.
CheckInv ==
    pc = "sons" =>
        /\ ThereIsAFail => \E q \in 1 .. Len(Script[pos].sons) :
                              Script[pos].sons[q].op = "check"
        /\ frame # NoPacket /\ Script[pos].op = "read" =>
              \A q \in 1 .. son - 1 :
                 /\ Script[pos].sons[q].op = "check"
                 /\ \A r \in q + 1 .. Len(Script[pos].sons) :
                       Script[pos].sons[r].op # "or"
                 => /\ Depth(pos)[q] + 1 <= Len(result)
                    /\ frame.data \notin Script[pos].sons[q].arg =>
                          result[Depth(pos)[q] + 1].fail

\* Which packet is in the frame.
FrameInv ==
    /\ \A i \in 1 .. Len(inbox) : Reaches(inbox[i].test)
    /\ pc \in {"read", "sons"} /\ Script[pos].op = "read" =>
          \A i \in 1 .. Len(read_data) : Reaches(read_data[i].test)
    /\ pc = "sons" /\ Script[pos].op = "read" /\ frame # NoPacket =>
          /\ n = 1
          /\ Reaches(frame.test)
          /\ kind # "btrfcomm" => frame = newest

\* The inductive invariant. After an abort only what was true before is
\* left.
IInv ==
    /\ Types
    /\ ~ double_delete
    /\ VariablesLive
    /\ FrameInv
    /\ PlaceInv
    /\ pc # "abort" => HeapInv /\ VariableInv /\ CheckInv

-----------------------------------------------------------------------------
(* Scripts and objects *)

\* The least element of a set of numbers.
LEMMA LeastOf ==
  ASSUME NEW S \in SUBSET Nat, S # {}
  PROVE  \E x \in S : \A y \in S : x <= y
<1>1. PICK x \in S : \A y \in S : ~ (<<y, x>> \in OpToRel(<, Nat))
  BY NatLessThanWellFounded, WFMin, Zenon
<1>2. ASSUME NEW y \in S, y < x
      PROVE  <<y, x>> \in OpToRel(<, Nat)
  <2>1. <<y, x>> \in Nat \X Nat /\ <<y, x>>[1] < <<y, x>>[2]
    BY <1>2
  <2> QED BY <2>1, Zenon DEF OpToRel
<1>3. \A y \in S : ~ (y < x)
  BY <1>1, <1>2, Zenon
<1> QED BY <1>3

\* How many results there are before each son of a command.
LEMMA DepthFacts ==
  ASSUME NEW p \in 1 .. Len(Script)
  PROVE  /\ Len(Script) \in Nat /\ Len(Script[p].sons) \in Nat
         /\ Depth(p) \in [1 .. Len(Script[p].sons) + 1 ->
                             0 .. Len(Script[p].sons)]
         /\ IsDepth(Depth(p), Script[p].sons)
<1>1. Depths(Script[p].sons) # {} /\ Len(Script[p].sons) \in Nat
      /\ Len(Script) \in Nat
  BY ScriptAssumption
<1>2. Depth(p) \in Depths(Script[p].sons)
  BY <1>1 DEF Depth
<1> QED BY <1>1, <1>2 DEF Depths

\* The pointers are finitely many, so there is a number for a new object.
LEMMA NextIsNew ==
  ASSUME Types
  PROVE  next \in Nat \ {0} /\ next \notin Pointers
<1> DEFINE V == {variables[v] : v \in DOMAIN variables}
           free == {x \in 1 .. Cardinality(Pointers) + 1 : x \notin Pointers}
<1>1. IsFiniteSet(V)
  <2>1. variables \in Surjection(DOMAIN variables, V)
    BY DEF Types, Surjection
  <2> QED BY <2>1, FS_Surjection DEF Types
<1>2. IsFiniteSet(Pointers)
  <2>1. IsFiniteSet(Live \cup walked)
    BY FS_Union DEF Types
  <2>2. IsFiniteSet((Live \cup walked) \cup {last_frame})
    BY <2>1, FS_AddElement
  <2>3. IsFiniteSet(((Live \cup walked) \cup {last_frame}) \cup V)
    BY <1>1, <2>2, FS_Union
  <2> QED BY <2>3 DEF Pointers
<1>3. Cardinality(Pointers) \in Nat
  BY <1>2, FS_CardinalityType
<1>4. free # {}
  <2> SUFFICES ASSUME 1 .. Cardinality(Pointers) + 1 \subseteq Pointers
               PROVE  FALSE
    OBVIOUS
  <2>1. Cardinality(1 .. Cardinality(Pointers) + 1) <= Cardinality(Pointers)
    BY <1>2, FS_Subset
  <2>2. Cardinality(1 .. Cardinality(Pointers) + 1) = Cardinality(Pointers) + 1
    BY <1>3, FS_Interval
  <2> QED BY <1>3, <2>1, <2>2
<1>5. PICK x \in free : \A y \in free : x <= y
  <2>1. free \in SUBSET Nat
    BY <1>3
  <2> HIDE DEF free
  <2> QED BY <1>4, <2>1, LeastOf
<1>6. x \notin Pointers /\ \A y \in 1 .. x - 1 : y \in Pointers
  BY <1>3, <1>5
<1>7. /\ next \in 1 .. Cardinality(Pointers) + 1
      /\ next \notin Pointers /\ \A y \in 1 .. next - 1 : y \in Pointers
  BY <1>5, <1>6 DEF next
<1> QED BY <1>3, <1>7

\* What ChangeHeap leaves.
LEMMA HeapChange ==
  ASSUME Types, NEW S, NEW new \in BOOLEAN, NEW sons, NEW x \in Nat,
         ChangeHeap(S, new, sons, x)
  PROVE  /\ Live' = {y \in Live : y \notin S /\ parent[y] \notin S}
                       \cup (IF new THEN {next} ELSE {})
         /\ \A y \in Live' : parent'[y] = IF y \in sons THEN x
                                          ELSE IF y \in Live THEN parent[y]
                                          ELSE 0
         /\ parent' \in [Live' -> Nat]
         /\ IsFiniteSet(Live')
         /\ S \subseteq Live /\ ~ double_delete => ~ double_delete'
<1> DEFINE Remaining == Live \ UNION {Tree(z) : z \in S}
           New == IF new THEN {next} ELSE {}
           f == [y \in Remaining \cup New |->
                    IF y \in sons THEN x ELSE IF y \in Live THEN parent[y] ELSE 0]
<1>1. parent' = f /\ double_delete' = (double_delete \/ ~ S \subseteq Live)
  BY Zenon DEF ChangeHeap
<1>2. Live' = Remaining \cup New
  BY <1>1, Zenon DEF Live
<1>3. Remaining = {y \in Live : y \notin S /\ parent[y] \notin S}
  BY DEF Tree
<1>4. \A y \in Live' : parent'[y] = IF y \in sons THEN x
                                    ELSE IF y \in Live THEN parent[y] ELSE 0
  BY <1>1, <1>2
<1>5. parent' \in [Live' -> Nat]
  BY <1>1, <1>2 DEF Types
<1>6. IsFiniteSet(Remaining)
  BY FS_Subset DEF Types
<1>7. IsFiniteSet(Live')
  <2>1. CASE new
    BY <1>2, <1>6, <2>1, FS_AddElement
  <2>2. CASE ~ new
    BY <1>2, <1>6, <2>2
  <2> QED BY <2>1, <2>2
<1>8. S \subseteq Live /\ ~ double_delete => ~ double_delete'
  BY <1>1, Zenon
<1> QED BY <1>2, <1>3, <1>4, <1>5, <1>7, <1>8

\* The object of a variable that is not exposed exists.
LEMMA HeldIsLive ==
  ASSUME HeapInv', VariableInv'
  PROVE  VariablesLive'
BY DEF HeapInv, VariableInv, VariablesLive, Held, Roots, Results, Sons

-----------------------------------------------------------------------------
(* Every step keeps the invariant *)

\* The first state: nothing is allocated.
LEMMA InitInv == Init => IInv
<1> SUFFICES ASSUME Init PROVE IInv
  OBVIOUS
<1> USE DEF Init
<1>1. Live = {}
  BY DEF Live
<1>2. DOMAIN variables = {}
  OBVIOUS
<1>3. Types
  BY <1>1, <1>2, FS_EmptySet, EmptySeq DEF Types
<1>4. HeapInv
  BY <1>1 DEF HeapInv, Roots, Frames, Results
<1>5. VariableInv /\ CheckInv /\ PlaceInv
  BY <1>2 DEF VariableInv, CheckInv, PlaceInv
<1>6. FrameInv
  BY DEF FrameInv
<1>7. VariablesLive
  BY <1>2 DEF VariablesLive
<1> QED BY <1>3, <1>4, <1>5, <1>6, <1>7 DEF IInv

\* Steps that leave the walk and the heap alone.
LEMMA SameWalk ==
  ASSUME IInv, UNCHANGED <<pc, test, pos, son, kind, reading, heap, result,
                           walked, last_frame, variables>>
  PROVE  /\ inbox' \in Seq(PacketType) => Types'
         /\ VariablesLive' /\ PlaceInv' /\ ~ double_delete'
         /\ pc' # "abort" => HeapInv' /\ VariableInv' /\ CheckInv'
<1> USE DEF heap, reading
<1>1. Live' = Live
  BY DEF Live
<1>2. inbox' \in Seq(PacketType) => Types'
  BY <1>1 DEF IInv, Types
<1>3. VariablesLive' /\ PlaceInv' /\ ~ double_delete'
  BY <1>1 DEF IInv, VariablesLive, PlaceInv
<1>4. pc' # "abort" => HeapInv'
  BY <1>1 DEF IInv, HeapInv, Roots, Frames, Results, Sons
<1>5. pc' # "abort" => VariableInv'
  BY <1>1 DEF IInv, VariableInv, Held, Safe
<1>6. pc' # "abort" => CheckInv'
  BY DEF IInv, CheckInv, ThereIsAFail
<1> QED BY <1>2, <1>3, <1>4, <1>5, <1>6

\* Nothing happens.
LEMMA StutterInv ==
  ASSUME IInv, UNCHANGED vars
  PROVE  IInv'
<1>1. FrameInv'
  BY DEF IInv, FrameInv, Reaches, vars, socket, reading
<1>2. inbox' \in Seq(PacketType)
  BY DEF IInv, Types, vars, socket
<1> QED BY <1>1, <1>2, SameWalk DEF IInv, vars, socket

\* The peer sends a packet.
LEMMA PeerInv ==
  ASSUME IInv, Peer
  PROVE  IInv'
<1>1. ASSUME Disconnect PROVE IInv'
  <2>1. UNCHANGED <<pc, test, pos, son, kind, port, inbox, reading, heap, result,
                    walked, last_frame, variables>>
    BY <1>1 DEF Disconnect
  <2>2. FrameInv' /\ inbox' \in Seq(PacketType)
    BY <2>1 DEF IInv, FrameInv, Reaches, Types, reading
  <2> QED BY <2>1, <2>2, SameWalk DEF IInv
<1>2. ASSUME NEW p \in Packet \cup {Empty}, NEW t \in 0 .. test, SendToUs(p, t)
      PROVE  IInv'
  <2> DEFINE q == [data |-> p, test |-> t]
  <2>1. /\ UNCHANGED <<pc, test, pos, son, kind, port, reading, heap, result,
                       walked, last_frame, variables>>
        /\ inbox' = Append(inbox, q)
    BY <1>2 DEF SendToUs
  <2>2. q \in PacketType /\ Reaches(q.test)
    BY <1>2 DEF IInv, Types, PacketType, SendToUs
  <2>3. /\ inbox' \in Seq(PacketType) /\ Len(inbox') = Len(inbox) + 1
        /\ \A i \in 1 .. Len(inbox) : inbox'[i] = inbox[i]
        /\ inbox'[Len(inbox) + 1] = q
    <3> HIDE DEF q
    <3> QED BY <2>1, <2>2 DEF IInv, Types
  <2>4. FrameInv'
    <3>1. inbox \in Seq(PacketType)
      BY DEF IInv, Types
    <3>2. \A i \in 1 .. Len(inbox') : Reaches(inbox'[i].test)
      <4> HIDE DEF q
      <4> QED BY <2>2, <2>3, <3>1 DEF IInv, FrameInv
    <3>3. \A t0 : Reaches(t0)' <=> Reaches(t0)
      BY <2>1 DEF Reaches
    <3> HIDE DEF q
    <3> QED BY <2>1, <3>2, <3>3 DEF IInv, FrameInv, reading
  <2> QED BY <2>1, <2>3, <2>4, SameWalk DEF IInv
<1> QED BY <1>1, <1>2 DEF Peer

\* The program ends where it used a null pointer or a deleted object.
LEMMA AbortInv ==
  ASSUME IInv, Abort
  PROVE  IInv'
<1>1. Live' = Live
  BY DEF Abort, heap, Live
<1>2. Types'
  BY <1>1 DEF Abort, heap, socket, reading, IInv, Types
<1>3. VariablesLive' /\ ~ double_delete'
  BY <1>1 DEF Abort, heap, IInv, VariablesLive
<1>4. PlaceInv' /\ FrameInv'
  BY DEF Abort, reading, socket, IInv, PlaceInv, FrameInv, Reaches
<1> QED BY <1>2, <1>3, <1>4 DEF IInv, Abort

\* main starts a test; what is left in a socket is dropped, except by raw
\* ones.
LEMMA StartTestInv ==
  ASSUME IInv, StartTest
  PROVE  IInv'
<1> USE DEF StartTest, heap, reading
<1>1. Live' = Live
  BY DEF Live
<1>2. Types'
  BY <1>1, EmptySeq DEF IInv, Types, Reconnected
<1>3. HeapInv
  BY DEF IInv
<1>4. HeapInv'
  BY <1>1, <1>3 DEF HeapInv, Roots, Frames, Results
<1>5. VariableInv' /\ CheckInv'
  BY <1>3 DEF HeapInv, VariableInv, CheckInv
<1>6. PlaceInv'
  BY ScriptAssumption DEF PlaceInv
<1>7. FrameInv'
  BY EmptySeq DEF FrameInv, Reconnected, Reaches
<1> QED BY <1>2, <1>4, <1>5, <1>6, <1>7, HeldIsLive DEF IInv

\* A command starts.
LEMMA StartCommandInv ==
  ASSUME IInv, StartCommand
  PROVE  IInv'
<1> USE DEF StartCommand, heap, socket
<1>0. Live' = Live
  BY DEF Live
<1>1. HeapInv /\ pos \in 1 .. Len(Script)
  BY ScriptAssumption DEF IInv, PlaceInv
<1>2. Len(Script[pos].sons) \in Nat /\ Script[pos].op \in {"read", "send"}
      /\ Depth(pos)[1] = 0
  BY <1>1, DepthFacts, ScriptAssumption DEF IsDepth
<1>3. /\ result' = << >> /\ Len(result') = 0 /\ pos' = pos
      /\ read_data' = << >> /\ Len(read_data') = 0
      /\ pc' = IF Script[pos].op = "read" THEN "read" ELSE "sons"
  OBVIOUS
<1>4. Types'
  BY <1>0, <1>3, EmptySeq DEF IInv, Types
<1>5. PlaceInv'
  BY <1>1, <1>2, <1>3 DEF PlaceInv
<1>6. HeapInv'
  <2>1. Results' = {} /\ Results = {}
    BY <1>3 DEF Results, Sons
  <2>2. Roots' = Roots /\ Frames' = Frames
    BY <2>1 DEF Roots, Frames
  <2> QED BY <1>0, <1>1, <1>2, <1>3, <2>1, <2>2 DEF HeapInv
<1>7. VariableInv'
  BY <1>0 DEF IInv, VariableInv, Held
<1>8. CheckInv'
  BY <1>3 DEF CheckInv, ThereIsAFail
<1>9. FrameInv'
  <2>1. pc' = "sons" => Script[pos'].op # "read"
    BY <1>3
  <2>2. \A i \in 1 .. Len(inbox') : Reaches(inbox[i].test)'
    BY DEF IInv, FrameInv, Reaches
  <2> QED BY <1>3, <2>1, <2>2 DEF FrameInv
<1>10. ~ double_delete'
  BY DEF IInv
<1> QED BY <1>4, <1>5, <1>6, <1>7, <1>8, <1>9, <1>10, HeldIsLive DEF IInv

\* The read of a packet, or of nothing, and the new frame.
LEMMA NewFrameInv ==
  ASSUME IInv, pc = "read", NewFrame,
         inbox' \in Seq(PacketType), read_data' \in Seq(PacketType),
         n' \in {-1, 0, 1},
         \A i \in 1 .. Len(inbox') : Reaches(inbox'[i].test),
         \A i \in 1 .. Len(read_data') : Reaches(read_data'[i].test),
         n' > 0 => /\ read_data' # << >>
                   /\ kind # "btrfcomm" => Head(read_data') = newest'
  PROVE  IInv'
<1> DEFINE S == IF last_frame # 0 THEN {last_frame} ELSE {}
<1>0. /\ HeapInv /\ Types /\ pos \in 1 .. Len(Script)
      /\ Script[pos].op = "read" /\ Len(Script[pos].sons) \in Nat
      /\ Depth(pos)[1] = 0
  BY DepthFacts DEF IInv, PlaceInv, IsDepth
<1>1. /\ next \in Nat \ {0} /\ next \notin Pointers
  BY <1>0, NextIsNew
<1>2. ChangeHeap(S, TRUE, {}, 0) /\ 0 \in Nat
  BY DEF NewFrame
<1>3. /\ Live' = {y \in Live : y \notin S /\ parent[y] \notin S} \cup {next}
      /\ \A y \in Live' : parent'[y] = IF y \in Live THEN parent[y] ELSE 0
      /\ parent' \in [Live' -> Nat]
      /\ IsFiniteSet(Live')
      /\ S \subseteq Live /\ ~ double_delete => ~ double_delete'
  <2> HIDE DEF S
  <2>1. /\ Live' = {y \in Live : y \notin S /\ parent[y] \notin S}
                       \cup (IF TRUE THEN {next} ELSE {})
        /\ \A y \in Live' : parent'[y] = IF y \in {} THEN 0
                                         ELSE IF y \in Live THEN parent[y]
                                         ELSE 0
        /\ parent' \in [Live' -> Nat]
        /\ IsFiniteSet(Live')
        /\ S \subseteq Live /\ ~ double_delete => ~ double_delete'
    BY <1>0, <1>2, HeapChange, Zenon
  <2> QED BY <2>1
<1>4. ~ double_delete'
  BY <1>0, <1>3 DEF IInv, HeapInv, Roots, Frames
<1>5. /\ pc' = "sons" /\ son' = 1 /\ last_frame' = next
      /\ result' = << >> /\ Len(result') = 0
      /\ UNCHANGED <<test, pos, kind, walked, variables>>
  BY DEF NewFrame
<1>6. Types'
  BY <1>0, <1>1, <1>3, <1>5, EmptySeq DEF Types
<1>7. PlaceInv'
  BY <1>0, <1>5 DEF PlaceInv
<1>8. HeapInv'
  <2>1. Results' = {} /\ Results = {}
    BY <1>5 DEF Results, Sons
  <2>2. Frames' = {next} /\ Roots' = walked \cup {next}
    BY <1>1, <1>5, <2>1 DEF Roots, Frames
  <2>3. S = Frames /\ Roots = walked \cup S
    BY <2>1 DEF Roots, Frames
  <2>4. next \notin Live /\ next \notin walked
    BY <1>1 DEF Pointers
  <2>5. walked \subseteq Live'
    BY <1>0, <1>3, <2>3 DEF HeapInv, Frames
  <2>6. ASSUME NEW y \in Live'
        PROVE  IF y \in Roots' THEN parent'[y] = 0
               ELSE parent'[y] \in walked' \cup Frames'
    <3>1. CASE y = next
      BY <1>3, <2>2, <2>4, <3>1
    <3>2. CASE y # next
      <4>1. y \in Live /\ y \notin S /\ parent[y] \notin S /\ parent'[y] = parent[y]
        BY <1>3, <2>6, <3>2
      <4> QED BY <1>0, <1>5, <2>2, <2>3, <3>2, <4>1 DEF HeapInv
    <3> QED BY <3>1, <3>2
  <2> QED BY <1>0, <1>1, <1>3, <1>5, <2>1, <2>2, <2>4, <2>5, <2>6, SMTT(40)
          DEF HeapInv
<1>9. VariableInv'
  <2>1. ASSUME NEW x, Held(x) PROVE Held(x)'
    <3>1. walked \cap S = {}
      BY <1>0 DEF HeapInv
    <3>2. CASE x \in walked
      <4>1. parent[x] = 0
        BY <1>0, <2>1, <3>2 DEF HeapInv, Roots, Held
      <4>2. x \in Live'
        BY <1>3, <2>1, <3>1, <3>2, <4>1 DEF Held
      <4> QED BY <1>5, <3>2, <4>2 DEF Held
    <3>3. CASE x \notin walked
      <4>1. x \in Live /\ parent[x] \in walked
        BY <2>1, <3>3 DEF Held
      <4>2. x \notin S
        BY <1>0, <4>1 DEF HeapInv, Roots, Frames
      <4>3. x \in Live' /\ parent'[x] = parent[x]
        BY <1>3, <3>1, <4>1, <4>2
      <4> QED BY <1>5, <4>1, <4>3 DEF Held
    <3> QED BY <3>2, <3>3
  <2>2. \A v \in DOMAIN variables \ Exposed : Held(variables[v])
    BY DEF IInv, VariableInv
  <2> QED BY <1>5, <2>1, <2>2 DEF VariableInv
<1>10. CheckInv'
  BY <1>5 DEF CheckInv, ThereIsAFail
<1>11. FrameInv'
  <2>1. frame' = IF n' > 0 THEN Head(read_data') ELSE NoPacket
    BY DEF NewFrame
  <2>2. ASSUME n' > 0
        PROVE  Reaches(Head(read_data').test)
    BY <2>2
  <2>3. \A t : Reaches(t)' <=> Reaches(t)
    BY DEF NewFrame, Reaches
  <2> QED BY <1>0, <1>5, <2>1, <2>2, <2>3 DEF FrameInv
<1> QED BY <1>4, <1>5, <1>6, <1>7, <1>8, <1>9, <1>10, <1>11, HeldIsLive
        DEF IInv

\* What there is in a longer sequence.
LEMMA InAppend ==
  ASSUME NEW S, NEW s \in Seq(S), NEW e \in S
  PROVE  \A i \in 1 .. Len(Append(s, e)) :
            \/ Append(s, e)[i] = e
            \/ i \in 1 .. Len(s) /\ Append(s, e)[i] = s[i]
<1>1. Len(s) \in Nat /\ Len(Append(s, e)) = Len(s) + 1
  BY AppendProperties, LenProperties
<1>2. /\ \A i \in 1 .. Len(s) : Append(s, e)[i] = s[i]
      /\ Append(s, e)[Len(s) + 1] = e
  BY AppendProperties
<1>3. ASSUME NEW i \in 1 .. Len(Append(s, e))
      PROVE  i = Len(s) + 1 \/ i \in 1 .. Len(s)
  BY <1>1
<1> QED BY <1>2, <1>3

\* A read takes the next packet.
LEMMA ReadPacketInv ==
  ASSUME IInv, ReadPacket
  PROVE  IInv'
<1>1. /\ inbox \in Seq(PacketType) /\ inbox # << >>
      /\ read_data \in Seq(PacketType)
      /\ pc = "read" /\ NewFrame /\ inbox' = Tail(inbox)
      /\ newest' = Head(inbox) /\ n' \in {0, 1} /\ read_data' = Fill(Head(inbox))
      /\ Script[pos].op = "read"
  BY DEF ReadPacket, IInv, Types, PlaceInv
<1>2. /\ inbox' \in Seq(PacketType) /\ Head(inbox) \in PacketType
      /\ \A i \in 1 .. Len(inbox') : inbox'[i] = inbox[i + 1]
      /\ Len(inbox') = Len(inbox) - 1 /\ Len(inbox) \in Nat
      /\ Head(inbox) = inbox[1]
  BY <1>1, HeadTailProperties
<1>3. /\ \A i \in 1 .. Len(inbox) : Reaches(inbox[i].test)
      /\ \A i \in 1 .. Len(read_data) : Reaches(read_data[i].test)
  BY <1>1 DEF IInv, FrameInv
<1>4. /\ read_data' \in Seq(PacketType)
      /\ read_data' # << >>
      /\ kind # "btrfcomm" => Head(read_data') = newest'
  <2>1. CASE kind = "btrfcomm"
    BY <1>1, <1>2, <2>1 DEF Fill
  <2>2. CASE kind # "btrfcomm"
    BY <1>1, <1>2, <2>2 DEF Fill
  <2> QED BY <2>1, <2>2
<1>5. /\ \A i \in 1 .. Len(inbox') : Reaches(inbox'[i].test)
      /\ \A i \in 1 .. Len(read_data') : Reaches(read_data'[i].test)
  <2>1. /\ Reaches(Head(inbox).test)
        /\ \A i \in 1 .. Len(inbox') : Reaches(inbox'[i].test)
    BY <1>1, <1>2, <1>3
  <2>2. CASE kind = "btrfcomm"
    <3>1. read_data' = Append(read_data, Head(inbox))
      BY <1>1, <2>2 DEF Fill
    <3>2. \A i \in 1 .. Len(read_data') :
             \/ read_data'[i] = Head(inbox)
             \/ i \in 1 .. Len(read_data) /\ read_data'[i] = read_data[i]
      BY <1>1, <1>2, <3>1, InAppend
    <3>3. ASSUME NEW i \in 1 .. Len(read_data')
          PROVE  Reaches(read_data'[i].test)
      <4>1. CASE read_data'[i] = Head(inbox)
        BY <2>1, <4>1, Zenon
      <4>2. CASE i \in 1 .. Len(read_data) /\ read_data'[i] = read_data[i]
        BY <1>3, <4>2, Zenon
      <4> QED BY <3>2, <4>1, <4>2, Zenon
    <3> QED BY <2>1, <3>3
  <2>3. CASE kind # "btrfcomm"
    BY <1>1, <2>1, <2>3 DEF Fill
  <2> QED BY <2>2, <2>3
<1> QED BY <1>1, <1>2, <1>4, <1>5, NewFrameInv

\* A read times out or finds the channel closed.
LEMMA ReadNothingInv ==
  ASSUME IInv, ReadNothing
  PROVE  IInv'
<1>1. /\ inbox' = inbox /\ read_data' = read_data /\ n' \in {0, -1}
      /\ inbox \in Seq(PacketType) /\ read_data \in Seq(PacketType)
      /\ pc = "read" /\ NewFrame /\ Script[pos].op = "read"
  BY DEF ReadNothing, IInv, Types, PlaceInv
<1>2. /\ \A i \in 1 .. Len(inbox) : Reaches(inbox[i].test)
      /\ \A i \in 1 .. Len(read_data) : Reaches(read_data[i].test)
  BY <1>1 DEF IInv, FrameInv
<1> QED BY <1>1, <1>2, NewFrameInv

\* The result of a son that is not an or node.
LEMMA ReturnInv ==
  ASSUME IInv, pc = "sons", son <= Len(Script[pos].sons),
         Script[pos].sons[son].op # "or",
         NEW fail \in BOOLEAN, Return(fail),
         fail => Script[pos].sons[son].op = "check",
         Script[pos].sons[son].op = "check" /\ frame # NoPacket
            /\ frame.data \notin Script[pos].sons[son].arg => fail,
         DOMAIN variables' \subseteq Variable,
         variables' \in [DOMAIN variables' -> Nat],
         IsFiniteSet(DOMAIN variables'),
         \A v \in DOMAIN variables' \ Exposed :
            \/ v \in DOMAIN variables /\ variables'[v] = variables[v]
            \/ /\ variables'[v] = next
               /\ ~ Looping(pos) /\ ~ Dropping(pos, son)
  PROVE  IInv'
<1> DEFINE l == Len(result)
           new == [obj |-> next, fail |-> fail]
           d == Depth(pos)
           sons == Script[pos].sons
<1>0. /\ HeapInv /\ Types /\ pos \in 1 .. Len(Script) /\ Len(sons) \in Nat
      /\ son \in 1 .. Len(sons) /\ l = d[son]
      /\ d \in [1 .. Len(sons) + 1 -> 0 .. Len(sons)] /\ IsDepth(d, sons)
  BY DepthFacts DEF IInv, PlaceInv
<1>1. /\ next \in Nat \ {0} /\ next \notin Pointers
  BY <1>0, NextIsNew
<1>2. ChangeHeap({}, TRUE, {}, 0) /\ 0 \in Nat
  BY DEF Return, NewObject
<1>3. /\ Live' = Live \cup {next}
      /\ \A y \in Live : parent'[y] = parent[y]
      /\ parent'[next] = 0
      /\ parent' \in [Live' -> Nat]
      /\ IsFiniteSet(Live')
      /\ ~ double_delete'
  <2>1. /\ Live' = {y \in Live : y \notin {} /\ parent[y] \notin {}}
                       \cup (IF TRUE THEN {next} ELSE {})
        /\ \A y \in Live' : parent'[y] = IF y \in {} THEN 0
                                         ELSE IF y \in Live THEN parent[y]
                                         ELSE 0
        /\ parent' \in [Live' -> Nat]
        /\ IsFiniteSet(Live')
        /\ {} \subseteq Live /\ ~ double_delete => ~ double_delete'
    BY <1>0, <1>2, HeapChange, ZenonT(40)
  <2>2. next \notin Live
    BY <1>1 DEF Pointers
  <2> QED BY <2>1, <2>2 DEF IInv
<1>4. /\ UNCHANGED <<pc, test, pos, kind, port, inbox, read_data, n, frame, newest,
                     walked, last_frame>>
      /\ son' = son + 1 /\ result' = Append(result, new)
  BY DEF Return, socket, reading
<1>5. /\ result' \in Seq(ResultType) /\ Len(result') = l + 1 /\ l \in Nat
      /\ \A j \in 1 .. l : result'[j] = result[j]
      /\ result'[l + 1] = new
  <2>1. new \in ResultType
    BY <1>1 DEF ResultType
  <2>2. result \in Seq(ResultType) /\ result' = Append(result, new)
    BY <1>0, <1>4 DEF Types
  <2> HIDE DEF new
  <2> QED BY <2>1, <2>2
<1>6. Types'
  BY <1>0, <1>3, <1>4, <1>5 DEF Types
<1>7. d[son + 1] = d[son] + 1
  BY <1>0 DEF IsDepth
<1>8. PlaceInv'
  BY <1>0, <1>4, <1>5, <1>7 DEF PlaceInv
<1>9. Sons' = Sons \cup {next}
  <2>1. \A j \in 1 .. l : result'[j].obj = result[j].obj
    BY <1>5
  <2>2. result'[l + 1].obj = next
    BY <1>5
  <2> HIDE DEF new
  <2> QED BY <1>5, <2>1, <2>2 DEF Sons
<1>10. HeapInv'
  <2>1. Results' = Results \cup {next} /\ Frames' = Frames
        /\ Roots' = Roots \cup {next} /\ Results = Sons
    BY <1>4, <1>9 DEF Results, Roots, Frames
  <2>2. next \notin Live /\ next \notin walked /\ next \notin Frames
    BY <1>1 DEF Pointers, Frames
  <2>3. \A y \in Live' : IF y \in Roots' THEN parent'[y] = 0
                         ELSE parent'[y] \in walked' \cup Frames'
    BY <1>0, <1>3, <1>4, <2>1, <2>2 DEF HeapInv
  <2>4. \A i, j \in 1 .. Len(result') :
           result'[i].obj = result'[j].obj => i = j
    <3>1. \A j \in 1 .. l : result[j].obj \in Live
      BY <1>0, <2>1 DEF HeapInv, Roots, Sons
    <3>2. \A i, j \in 1 .. l : result[i].obj = result[j].obj => i = j
      BY <1>0 DEF HeapInv
    <3> QED BY <1>5, <2>2, <3>1, <3>2
  <2>5. Roots' \subseteq Live' /\ 0 \notin Live'
    BY <1>0, <1>1, <1>3, <2>1 DEF HeapInv
  <2>6. last_frame' \notin walked' /\ Results' \cap (walked' \cup Frames') = {}
    BY <1>0, <1>4, <2>1, <2>2 DEF HeapInv
  <2> QED BY <1>0, <1>4, <2>3, <2>4, <2>5, <2>6 DEF HeapInv
<1>11. VariableInv'
  <2> SUFFICES ASSUME NEW v \in DOMAIN variables' \ Exposed,
                      NEW x, x = variables'[v]
               PROVE  \/ Held(x)'
                      \/ \E j \in 1 .. Len(result') : /\ result'[j].obj = x
                                                     /\ Safe(j)'
    BY <1>4 DEF VariableInv, Held
  <2>1. ASSUME x = next, ~ Looping(pos), ~ Dropping(pos, son),
               NEW k, k = l + 1
        PROVE  k \in 1 .. Len(result') /\ result'[k].obj = x /\ Safe(k)'
    <3>1. ASSUME NEW r \in son + 1 .. Len(sons), sons[r].op = "or"
          PROVE  k <= d[r] - sons[r].arg
      <4>1. ~ (d[r] - sons[r].arg <= d[son])
        BY <2>1, <3>1 DEF Dropping
      <4>2. r \in 1 .. Len(sons)
        BY <1>0
      <4>3. sons[r].arg \in Int /\ d[r] \in Int
        BY <1>0, <3>1, <4>2, SMTT(40) DEF IsDepth
      <4>4. d[son] \in Int /\ k = d[son] + 1
        BY <1>0, <2>1
      <4> HIDE DEF d, sons
      <4> QED BY <4>1, <4>3, <4>4
    <3>2. Safe(k)'
      BY <1>4, <2>1, <3>1 DEF Safe
    <3> QED BY <1>5, <2>1, <3>2
  <2>2. ASSUME Held(x) PROVE Held(x)'
    BY <1>3, <1>4, <2>2 DEF Held
  <2>3. ASSUME NEW j \in 1 .. l, result[j].obj = x, Safe(j)
        PROVE  j \in 1 .. Len(result') /\ result'[j].obj = x /\ Safe(j)'
    <3>1. \A r \in son' .. Len(sons) : r \in son .. Len(sons)
      BY <1>0, <1>4
    <3>2. Safe(j)'
      BY <1>4, <2>3, <3>1 DEF Safe
    <3> QED BY <1>5, <2>3, <3>2
  <2>4. CASE v \in DOMAIN variables /\ x = variables[v]
    <3>1. \/ Held(x)
          \/ \E j \in 1 .. l : result[j].obj = x /\ Safe(j)
      BY <2>4 DEF IInv, VariableInv
    <3> QED BY <2>2, <2>3, <3>1
  <2>5. CASE x = next /\ ~ Looping(pos) /\ ~ Dropping(pos, son)
    BY <2>1, <2>5
  <2> QED BY <2>4, <2>5
<1>12. CheckInv'
  <2>1. ThereIsAFail' => \E q \in 1 .. Len(sons) : sons[q].op = "check"
    <3>1. ThereIsAFail' => fail \/ ThereIsAFail
      BY <1>5 DEF ThereIsAFail
    <3> QED BY <1>0, <3>1 DEF IInv, CheckInv
  <2>2. ASSUME frame # NoPacket, Script[pos].op = "read",
               NEW q \in 1 .. son, sons[q].op = "check",
               \A r \in q + 1 .. Len(sons) : sons[r].op # "or"
        PROVE  /\ d[q] + 1 <= Len(result')
               /\ frame.data \notin sons[q].arg => result'[d[q] + 1].fail
    <3>1. CASE q = son
      BY <1>0, <1>5, <2>2, <3>1
    <3>2. CASE q # son
      <4>1. /\ d[q] + 1 <= Len(result)
            /\ frame.data \notin sons[q].arg => result[d[q] + 1].fail
        BY <1>0, <2>2, <3>2, SMTT(40) DEF IInv, CheckInv
      <4>2. d[q] \in Nat
        BY <1>0
      <4> HIDE DEF new, d
      <4> QED BY <1>5, <4>1, <4>2
    <3> QED BY <3>1, <3>2
  <2>3. son' - 1 = son /\ son \in Nat
    BY <1>0, <1>4, SMTT(40)
  <2> HIDE DEF new, l
  <2> QED BY <1>4, <2>1, <2>2, <2>3 DEF CheckInv
<1>13. FrameInv'
  BY <1>4 DEF IInv, FrameInv, Reaches
<1> QED BY <1>3, <1>6, <1>8, <1>10, <1>11, <1>12, <1>13, HeldIsLive DEF IInv

\* The sons that return a new object, and what they bind.
LEMMA SonInv ==
  ASSUME IInv, RunValue \/ RunCheck \/ RunVariable \/ RunMemorize
  PROVE  IInv'
<1> DEFINE s == Script[pos].sons[son]
<1>0. /\ Types /\ pc = "sons" /\ son <= Len(Script[pos].sons)
      /\ pos \in 1 .. Len(Script) /\ son \in 1 .. Len(Script[pos].sons)
      /\ s.op \in {"value", "check", "variable", "memorize"}
  <2>1. Types /\ pc = "sons" /\ son <= Len(Script[pos].sons)
        /\ s.op \in {"value", "check", "variable", "memorize"}
    BY DEF RunValue, RunCheck, RunVariable, RunMemorize, AtSon, IInv
  <2>2. pos \in 1 .. Len(Script) /\ son \in 1 .. Len(Script[pos].sons) + 1
    BY <2>1 DEF IInv, PlaceInv
  <2>3. Len(Script[pos].sons) \in Nat
    BY <2>2, DepthFacts
  <2> QED BY <2>1, <2>2, <2>3
<1>1. CASE RunValue
  BY <1>0, <1>1, ReturnInv DEF RunValue, AtSon, Types
<1>2. CASE RunCheck
  <2>1. PICK fail \in BOOLEAN : /\ frame # NoPacket => fail = (frame.data \notin Arg)
                                /\ Return(fail)
    BY <1>2 DEF RunCheck
  <2>2. s.op = "check" /\ UNCHANGED variables
    BY <1>2 DEF RunCheck, AtSon
  <2> QED BY <1>0, <2>1, <2>2, ReturnInv DEF Arg, Types
<1>3. CASE RunVariable \/ RunMemorize
  <2>1. Return(FALSE) /\ Bind /\ s.op \in {"variable", "memorize"}
    BY <1>3 DEF RunVariable, RunMemorize, AtSon
  <2>2. s.arg \in Variable
    BY <1>0, <2>1, ScriptAssumption
  <2>3. variables' = [v \in DOMAIN variables \cup {s.arg} |->
                        IF v \in DOMAIN variables THEN variables[v] ELSE next]
    BY <2>1 DEF Bind, Arg
  <2>4. next \in Nat
    BY <1>0, NextIsNew
  <2>5. DOMAIN variables' = DOMAIN variables \cup {s.arg}
    BY <2>3
  <2>6. /\ DOMAIN variables' \subseteq Variable
        /\ variables' \in [DOMAIN variables' -> Nat]
    BY <1>0, <2>2, <2>3, <2>4, <2>5 DEF Types
  <2>7. IsFiniteSet(DOMAIN variables')
    <3>1. IsFiniteSet(DOMAIN variables)
      BY <1>0 DEF Types
    <3> QED BY <2>5, <3>1, FS_AddElement
  <2>8. ASSUME NEW v \in DOMAIN variables' \ Exposed
        PROVE  \/ v \in DOMAIN variables /\ variables'[v] = variables[v]
               \/ /\ variables'[v] = next
                  /\ ~ Looping(pos) /\ ~ Dropping(pos, son)
    <3>1. CASE v \in DOMAIN variables
      BY <2>3, <3>1
    <3>2. CASE v \notin DOMAIN variables
      <4>1. v = s.arg /\ variables'[v] = next
        BY <2>3, <2>5, <3>2
      <4> QED BY <1>0, <2>1, <2>2, <4>1 DEF Exposed
    <3> QED BY <3>1, <3>2
  <2>9. FALSE \in BOOLEAN /\ s.op # "or" /\ s.op # "check"
    BY <2>1
  <2> QED BY <1>0, <2>1, <2>6, <2>7, <2>8, <2>9, ReturnInv
<1> QED BY <1>1, <1>2, <1>3

\* The alternatives that are dropped are no variable's and no other's.
LEMMA RunInjectInv ==
  ASSUME IInv, RunInject
  PROVE  IInv'
<1> DEFINE l == Len(result)
           d == Depth(pos)
           sons == Script[pos].sons
           first == Len(result) - Arg + 1
<1>0. /\ HeapInv /\ Types /\ pc = "sons" /\ pos \in 1 .. Len(Script)
      /\ Len(sons) \in Nat /\ son \in 1 .. Len(sons) /\ l = d[son]
      /\ d \in [1 .. Len(sons) + 1 -> 0 .. Len(sons)] /\ IsDepth(d, sons)
      /\ sons[son].op = "or" /\ Arg = sons[son].arg
  <2>1. HeapInv /\ Types /\ pc = "sons" /\ son <= Len(sons)
        /\ sons[son].op = "or" /\ Arg = sons[son].arg
    BY DEF RunInject, AtSon, Arg, IInv
  <2>2. pos \in 1 .. Len(Script) /\ son \in 1 .. Len(sons) + 1 /\ l = d[son]
    BY <2>1 DEF IInv, PlaceInv
  <2>3. /\ Len(sons) \in Nat
        /\ d \in [1 .. Len(sons) + 1 -> 0 .. Len(sons)] /\ IsDepth(d, sons)
    BY <2>2, DepthFacts
  <2> QED BY <2>1, <2>2, <2>3
<1>1. /\ Arg \in 1 .. l /\ d[son + 1] = d[son] - Arg + 1 /\ l \in Nat
  BY <1>0, SMTT(40) DEF IsDepth
<1>2. first \in 1 .. l /\ d[son + 1] = first
  BY <1>0, <1>1
<1>3. PICK k \in first .. l :
        /\ ChangeHeap({result[j].obj : j \in (first .. l) \ {k}}, FALSE, {}, 0)
        /\ result' = Append(SubSeq(result, 1, first - 1),
                            [obj |-> result[k].obj, fail |-> FALSE])
  BY DEF RunInject
<1> DEFINE S == {result[j].obj : j \in (first .. l) \ {k}}
           new == [obj |-> result[k].obj, fail |-> FALSE]
<1>4. /\ UNCHANGED <<pc, test, pos, kind, port, inbox, read_data, n, frame, newest,
                     walked, last_frame, variables>>
      /\ son' = son + 1
  BY DEF RunInject, socket, reading
<1>5. PICK f \in 1 .. l : f = first
  BY <1>2
<1>6. /\ result \in Seq(ResultType) /\ k \in f .. l /\ new \in ResultType
      /\ result' = Append(SubSeq(result, 1, f - 1), new)
  <2>1. result \in Seq(ResultType)
    BY <1>0 DEF Types
  <2>2. k \in 1 .. l
    BY <1>1, <1>2, <1>3
  <2>3. result[k] \in ResultType
    BY <2>1, <2>2, ElementOfSeq
  <2>4. new \in ResultType
    BY <2>3 DEF ResultType
  <2> QED BY <1>3, <1>5, <2>1, <2>4
<1>7. /\ result' \in Seq(ResultType) /\ Len(result') = f
      /\ \A j \in 1 .. f - 1 : result'[j] = result[j]
      /\ result'[f] = new
  <2> HIDE DEF first, new
  <2>1. \A i \in 1 .. f - 1 : result[i] \in ResultType
    BY <1>1, <1>5, <1>6
  <2>2. /\ SubSeq(result, 1, f - 1) \in Seq(ResultType)
        /\ Len(SubSeq(result, 1, f - 1)) = f - 1
        /\ \A i \in 1 .. f - 1 : SubSeq(result, 1, f - 1)[i] = result[i]
    BY <1>1, <1>5, <1>6
  <2> QED BY <1>1, <1>5, <1>6, <2>2
<1>8. Sons \subseteq Live /\ Sons \cap (walked \cup Frames) = {} /\ 0 \notin Live
      /\ S \subseteq Sons
  <2>1. Sons \subseteq Live /\ Sons \cap (walked \cup Frames) = {} /\ 0 \notin Live
    BY <1>0 DEF HeapInv, Roots, Results
  <2>2. S \subseteq Sons
    BY <1>1, <1>5 DEF Sons
  <2> QED BY <2>1, <2>2
<1>9. \A y \in Live : parent[y] \notin S
  BY <1>0, <1>8, SMTT(40) DEF HeapInv
<1>10. /\ Live' = Live \ S
       /\ \A y \in Live' : parent'[y] = parent[y]
       /\ parent' \in [Live' -> Nat]
       /\ IsFiniteSet(Live')
       /\ ~ double_delete'
  <2>1. ChangeHeap(S, FALSE, {}, 0) /\ 0 \in Nat
    BY <1>3
  <2> HIDE DEF S
  <2>2. /\ Live' = {y \in Live : y \notin S /\ parent[y] \notin S}
                       \cup (IF FALSE THEN {next} ELSE {})
        /\ \A y \in Live' : parent'[y] = IF y \in {} THEN 0
                                         ELSE IF y \in Live THEN parent[y]
                                         ELSE 0
        /\ parent' \in [Live' -> Nat]
        /\ IsFiniteSet(Live')
        /\ S \subseteq Live /\ ~ double_delete => ~ double_delete'
    BY <1>0, <2>1, HeapChange, Zenon
  <2> QED BY <1>8, <1>9, <2>2 DEF IInv
<1>11. Types'
  BY <1>0, <1>4, <1>7, <1>10 DEF Types
<1>12. PlaceInv'
  BY <1>0, <1>2, <1>4, <1>5, <1>7, SMTT(40) DEF PlaceInv
<1>13. /\ \A i, j \in 1 .. l : result[i].obj = result[j].obj => i = j
       /\ \A j \in 1 .. f - 1 : result'[j].obj = result[j].obj
       /\ result'[f].obj = result[k].obj
  <2>1. \A i, j \in 1 .. l : result[i].obj = result[j].obj => i = j
    BY <1>0 DEF HeapInv
  <2>2. result'[f].obj = result[k].obj
    BY <1>7
  <2>3. \A j \in 1 .. f - 1 : result'[j].obj = result[j].obj
    BY <1>7
  <2> QED BY <2>1, <2>2, <2>3
<1>14. Sons' = Sons \ S
  <2>1. ASSUME NEW j \in 1 .. f PROVE result'[j].obj \in Sons \ S
    <3>1. PICK i \in 1 .. l : result'[j].obj = result[i].obj
                              /\ (i = k \/ i < f)
      <4>1. CASE j = f
        BY <1>1, <1>5, <1>6, <1>13, <4>1
      <4>2. CASE j # f
        BY <1>1, <1>5, <1>13, <4>2
      <4> QED BY <4>1, <4>2
    <3>2. result[i].obj \notin S
      BY <1>1, <1>5, <1>6, <1>13, <3>1, SMTT(40)
    <3> QED BY <3>1, <3>2 DEF Sons
  <2>2. ASSUME NEW j \in 1 .. l, result[j].obj \notin S
        PROVE  \E i \in 1 .. f : result'[i].obj = result[j].obj
    <3>1. j = k \/ j < f
      BY <1>1, <1>5, <1>6, <2>2
    <3> QED BY <1>1, <1>5, <1>13, <3>1
  <2>3. Sons' \subseteq Sons \ S
    BY <1>7, <2>1 DEF Sons
  <2>4. Sons \ S \subseteq Sons'
    <3> HIDE DEF S, new
    <3> QED BY <1>7, <2>2 DEF Sons
  <2> QED BY <2>3, <2>4
<1>15. HeapInv'
  <2>1. /\ Results = Sons /\ Results' = Sons \ S /\ Frames' = Frames
        /\ Roots = walked \cup Frames \cup Sons
        /\ Roots' = walked \cup Frames \cup (Sons \ S)
    BY <1>0, <1>4, <1>14 DEF Results, Roots, Frames
  <2> HIDE DEF S
  <2>2. Roots' \subseteq Live' /\ 0 \notin Live'
    BY <1>0, <1>8, <1>10, <2>1 DEF HeapInv
  <2>3. \A y \in Live' : IF y \in Roots' THEN parent'[y] = 0
                         ELSE parent'[y] \in walked' \cup Frames'
    BY <1>0, <1>4, <1>10, <2>1 DEF HeapInv
  <2>4. \A i, j \in 1 .. Len(result') :
           result'[i].obj = result'[j].obj => i = j
    <3> SUFFICES ASSUME NEW i \in 1 .. f, NEW j \in 1 .. f,
                        result'[i].obj = result'[j].obj
                 PROVE  i = j
      BY <1>7
    <3>1. i < f => result'[i].obj = result[i].obj
      BY <1>13
    <3>2. j < f => result'[j].obj = result[j].obj
      BY <1>13
    <3>3. i = f => result'[i].obj = result[k].obj
      BY <1>13
    <3>4. j = f => result'[j].obj = result[k].obj
      BY <1>13
    <3>5. f \in 1 .. l /\ k \in f .. l /\ l \in Nat
      BY <1>1, <1>5, <1>6
    <3> HIDE DEF l
    <3> QED BY <1>13, <3>1, <3>2, <3>3, <3>4, <3>5
  <2>5. last_frame' \notin walked' /\ Results' \cap (walked' \cup Frames') = {}
    BY <1>0, <1>4, <2>1 DEF HeapInv
  <2> QED BY <1>0, <1>4, <2>2, <2>3, <2>4, <2>5 DEF HeapInv
<1>16. VariableInv'
  <2> SUFFICES ASSUME NEW v \in DOMAIN variables \ Exposed,
                      NEW x, x = variables[v]
               PROVE  \/ Held(x)'
                      \/ \E j \in 1 .. Len(result') : /\ result'[j].obj = x
                                                     /\ Safe(j)'
    BY <1>0, <1>4 DEF VariableInv, Held
  <2>1. ASSUME Held(x) PROVE Held(x)'
    <3>1. x \notin S
      <4>1. ASSUME x \in S PROVE FALSE
        <5>1. x \in Sons /\ x \notin walked
          BY <1>8, <4>1
        <5>2. parent[x] = 0
          BY <1>0, <1>8, <5>1 DEF HeapInv, Roots, Results
        <5>3. walked \subseteq Live
          BY <1>0 DEF HeapInv, Roots
        <5> QED BY <1>8, <2>1, <5>1, <5>2, <5>3 DEF Held
      <4> QED BY <4>1
    <3> HIDE DEF S
    <3> QED BY <1>4, <1>10, <2>1, <3>1 DEF Held
  <2>2. ASSUME NEW j \in 1 .. l, result[j].obj = x, Safe(j)
        PROVE  j \in 1 .. Len(result') /\ result'[j].obj = x /\ Safe(j)'
    <3>1. j <= d[son] - sons[son].arg
      <4>1. son \in son .. Len(sons)
        BY <1>0
      <4> QED BY <1>0, <2>2, <4>1 DEF Safe
    <3>2. j \in 1 .. f - 1
      <4>1. f = l - Arg + 1 /\ j <= l - Arg
        BY <1>0, <1>5, <3>1
      <4> HIDE DEF l
      <4> QED BY <1>1, <2>2, <4>1
    <3>3. \A r \in son' .. Len(sons) : r \in son .. Len(sons)
      BY <1>0, <1>4
    <3>4. Safe(j)'
      BY <1>4, <2>2, <3>3 DEF Safe
    <3> QED BY <1>7, <2>2, <3>2, <3>4
  <2>3. \/ Held(x)
        \/ \E j \in 1 .. l : result[j].obj = x /\ Safe(j)
    BY <1>0 DEF IInv, VariableInv
  <2> QED BY <2>1, <2>2, <2>3
<1>17. CheckInv'
  <2>1. ThereIsAFail' => ThereIsAFail
    <3>1. ~ result'[f].fail
      BY <1>7
    <3>2. ASSUME NEW j \in 1 .. f, result'[j].fail PROVE ThereIsAFail
      <4>1. j # f
        BY <3>1, <3>2
      <4>2. j \in 1 .. f - 1 /\ j \in 1 .. l
        BY <1>1, <1>5, <4>1
      <4> QED BY <1>7, <3>2, <4>2 DEF ThereIsAFail
    <3> QED BY <1>7, <3>2 DEF ThereIsAFail
  <2>2. ASSUME NEW q \in 1 .. son, sons[q].op = "check"
        PROVE  \E r \in q + 1 .. Len(sons) : sons[r].op = "or"
    <3>1. q # son
      BY <1>0, <2>2
    <3>2. son \in q + 1 .. Len(sons)
      BY <1>0, <3>1
    <3> QED BY <1>0, <3>2
  <2>3. son' - 1 = son
    BY <1>0, <1>4
  <2> QED BY <1>0, <1>4, <2>1, <2>2, <2>3 DEF IInv, CheckInv
<1>18. FrameInv'
  BY <1>4 DEF IInv, FrameInv, Reaches
<1> QED BY <1>10, <1>11, <1>12, <1>15, <1>16, <1>17, <1>18, HeldIsLive DEF IInv

\* The results of the sons are attached to x, which is the frame or new.
LEMMA Attached ==
  ASSUME IInv, pc = "sons", NEW new \in BOOLEAN, NEW x \in Nat,
         ChangeHeap({}, new, Sons, x), new => x = next
  PROVE  /\ Live' = Live \cup (IF new THEN {x} ELSE {})
         /\ \A y \in Sons : parent'[y] = x
         /\ \A y \in Live \ Sons : parent'[y] = parent[y]
         /\ new => parent'[x] = 0 /\ x \notin Live /\ x \notin walked /\ x # 0
         /\ parent' \in [Live' -> Nat]
         /\ IsFiniteSet(Live')
         /\ ~ double_delete'
         /\ \A y : Held(y) => y \notin Sons
<1>0. HeapInv /\ Types /\ Results = Sons
  BY DEF IInv, Results
<1>1. Sons \subseteq Live /\ Sons \cap walked = {} /\ 0 \notin Live
      /\ walked \subseteq Live
  BY <1>0 DEF HeapInv, Roots
<1>2. /\ Live' = Live \cup (IF new THEN {next} ELSE {})
      /\ \A y \in Live' : parent'[y] = IF y \in Sons THEN x
                                       ELSE IF y \in Live THEN parent[y]
                                       ELSE 0
      /\ parent' \in [Live' -> Nat]
      /\ IsFiniteSet(Live')
      /\ ~ double_delete'
  <2>1. ASSUME ChangeHeap({}, TRUE, Sons, x)
        PROVE  /\ Live' = {y \in Live : y \notin {} /\ parent[y] \notin {}}
                             \cup (IF TRUE THEN {next} ELSE {})
               /\ \A y \in Live' : parent'[y] = IF y \in Sons THEN x
                                                ELSE IF y \in Live THEN parent[y]
                                                ELSE 0
               /\ parent' \in [Live' -> Nat]
               /\ IsFiniteSet(Live')
               /\ {} \subseteq Live /\ ~ double_delete => ~ double_delete'
    BY <1>0, <2>1, HeapChange, Zenon
  <2>2. ASSUME ChangeHeap({}, FALSE, Sons, x)
        PROVE  /\ Live' = {y \in Live : y \notin {} /\ parent[y] \notin {}}
                             \cup (IF FALSE THEN {next} ELSE {})
               /\ \A y \in Live' : parent'[y] = IF y \in Sons THEN x
                                                ELSE IF y \in Live THEN parent[y]
                                                ELSE 0
               /\ parent' \in [Live' -> Nat]
               /\ IsFiniteSet(Live')
               /\ {} \subseteq Live /\ ~ double_delete => ~ double_delete'
    BY <1>0, <2>2, HeapChange, Zenon
  <2> QED BY <2>1, <2>2 DEF IInv
<1>3. Live' = Live \cup (IF new THEN {x} ELSE {})
  BY <1>2
<1>4. next \notin Live /\ next \notin walked /\ next # 0
  BY <1>0, NextIsNew DEF Pointers
<1>5. \A y : Held(y) => y \notin Sons
  BY <1>0, <1>1 DEF Held, HeapInv, Roots
<1> QED BY <1>1, <1>2, <1>3, <1>4, <1>5 DEF IInv

\* The checks rejected the frame: it is deleted with its results.
LEMMA ReadAgainInv ==
  ASSUME IInv, ReadAgain
  PROVE  IInv'
<1>0. /\ HeapInv /\ Types /\ pc = "sons" /\ Script[pos].op = "read"
      /\ ThereIsAFail /\ ChangeHeap({}, FALSE, Sons, last_frame)
      /\ last_frame \in Nat /\ last_frame # 0 /\ pos \in 1 .. Len(Script)
  <2>1. pc = "sons" /\ Script[pos].op = "read"
        /\ ThereIsAFail /\ ChangeHeap({}, FALSE, Sons, last_frame)
    BY DEF ReadAgain, AtEnd, ReadsAgain
  <2>2. HeapInv /\ Types
    BY <2>1 DEF IInv
  <2>3. last_frame \in Nat /\ last_frame # 0 /\ pos \in 1 .. Len(Script)
    BY <2>1, <2>2 DEF IInv, Types, HeapInv, PlaceInv
  <2> QED BY <2>1, <2>2, <2>3
<1>1. /\ Live' = Live
      /\ \A y \in Sons : parent'[y] = last_frame
      /\ \A y \in Live \ Sons : parent'[y] = parent[y]
      /\ parent' \in [Live' -> Nat]
      /\ IsFiniteSet(Live')
      /\ ~ double_delete'
      /\ \A y : Held(y) => y \notin Sons
  BY <1>0, Attached
<1>2. /\ pc' = "read"
      /\ UNCHANGED <<test, pos, kind, port, inbox, read_data, n, frame, newest,
                     result, walked, last_frame, variables>>
  BY DEF ReadAgain, socket, reading
<1>3. Types' /\ PlaceInv'
  BY <1>0, <1>1, <1>2 DEF Types, PlaceInv
<1>4. HeapInv'
  <2>1. /\ Results = Sons /\ Results' = {} /\ Frames = {last_frame}
        /\ Frames' = {last_frame}
        /\ Roots = walked \cup {last_frame} \cup Sons
        /\ Roots' = walked \cup {last_frame}
    BY <1>0, <1>2 DEF Results, Roots, Frames
  <2> QED BY <1>0, <1>1, <1>2, <2>1 DEF HeapInv
<1>5. VariableInv'
  <2> SUFFICES ASSUME NEW v \in DOMAIN variables \ Exposed,
                      NEW x, x = variables[v]
               PROVE  Held(x)'
    BY <1>2 DEF VariableInv, Held
  <2>1. Looping(pos)
    BY <1>0 DEF Looping, IInv, CheckInv
  <2>2. Held(x)
    BY <1>0, <2>1 DEF IInv, VariableInv, Safe
  <2> QED BY <1>1, <1>2, <2>2 DEF Held
<1>6. CheckInv' /\ FrameInv'
  BY <1>0, <1>2 DEF CheckInv, IInv, FrameInv, Reaches
<1> QED BY <1>1, <1>3, <1>4, <1>5, <1>6, HeldIsLive DEF IInv

\* A command ends: what it returns, x, owns the results of its sons.
LEMMA EndCommandInv ==
  ASSUME IInv, pc = "sons", NEW new \in BOOLEAN, NEW x \in Nat \ {0},
         ChangeHeap({}, new, Sons, x),
         IF new THEN x = next /\ last_frame = 0 ELSE x = last_frame,
         walked' = walked \cup {x}, last_frame' = 0,
         pc' = "walk", pos' \in 1 .. Len(Script) + 1,
         UNCHANGED <<test, socket, reading, result, variables>>
  PROVE  IInv'
<1>0. HeapInv /\ Types /\ Results = Sons
  BY DEF IInv, Results
<1>1. /\ Live' = Live \cup (IF new THEN {x} ELSE {})
      /\ \A y \in Sons : parent'[y] = x
      /\ \A y \in Live \ Sons : parent'[y] = parent[y]
      /\ new => parent'[x] = 0 /\ x \notin Live /\ x \notin walked /\ x # 0
      /\ parent' \in [Live' -> Nat]
      /\ IsFiniteSet(Live')
      /\ ~ double_delete'
      /\ \A y : Held(y) => y \notin Sons
  BY Attached
<1>2. Types'
  <2>1. IsFiniteSet(walked')
    BY <1>0, FS_AddElement DEF Types
  <2> QED BY <1>0, <1>1, <2>1 DEF Types, socket, reading
<1>3. PlaceInv'
  BY DEF PlaceInv
<1>4. HeapInv'
  <2>1. /\ Results' = {} /\ Frames' = {} /\ Roots' = walked \cup {x}
        /\ Frames = IF new THEN {} ELSE {x}
        /\ Roots = walked \cup Frames \cup Sons
    BY <1>0 DEF Results, Roots, Frames
  <2>2. Sons \subseteq Live /\ Sons \cap walked = {} /\ x \notin Sons
    BY <1>0, <1>1, <2>1 DEF HeapInv
  <2>3. Roots' \subseteq Live' /\ 0 \notin Live'
    BY <1>0, <1>1, <2>1 DEF HeapInv
  <2>4. ASSUME NEW y \in Live'
        PROVE  IF y \in Roots' THEN parent'[y] = 0
               ELSE parent'[y] \in walked' \cup Frames'
    <3>1. CASE y \in Sons
      BY <1>1, <2>1, <2>2, <3>1
    <3>2. CASE y \in Live \ Sons
      BY <1>0, <1>1, <2>1, <3>2 DEF HeapInv
    <3>3. CASE new /\ y = x
      BY <1>1, <2>1, <3>3
    <3> QED BY <1>1, <3>1, <3>2, <3>3
  <2> QED BY <1>0, <2>1, <2>3, <2>4 DEF HeapInv
<1>5. VariableInv'
  <2> SUFFICES ASSUME NEW v \in DOMAIN variables \ Exposed,
                      NEW o, o = variables[v]
               PROVE  Held(o)'
    BY DEF VariableInv, Held
  <2>1. CASE Held(o)
    BY <1>1, <2>1 DEF Held
  <2>2. CASE o \in Sons
    <3>1. o \in Live
      BY <1>0, <2>2 DEF HeapInv, Roots
    <3> QED BY <1>1, <2>2, <3>1 DEF Held
  <2> QED BY <2>1, <2>2 DEF IInv, VariableInv, Sons
<1>6. CheckInv' /\ FrameInv'
  BY DEF CheckInv, IInv, FrameInv, Reaches, socket, reading
<1> QED BY <1>1, <1>2, <1>3, <1>4, <1>5, <1>6, HeldIsLive DEF IInv

\* The read ends.
LEMMA EndReadInv ==
  ASSUME IInv, EndRead
  PROVE  IInv'
<1>1. pc = "sons" /\ Script[pos].op = "read"
  BY DEF EndRead, AtEnd
<1>2. HeapInv /\ Types /\ pos \in 1 .. Len(Script)
  BY <1>1 DEF IInv, PlaceInv
<1>3. last_frame \in Nat \ {0} /\ Len(Script) \in Nat
  BY <1>1, <1>2, ScriptAssumption DEF HeapInv, Types
<1>4. pos' \in 1 .. Len(Script) + 1
  BY <1>2, <1>3 DEF EndRead
<1> QED BY <1>1, <1>3, <1>4, EndCommandInv DEF EndRead, LastFrameForgotten

\* The send ends.
LEMMA EndSendInv ==
  ASSUME IInv, EndSend
  PROVE  IInv'
<1>1. pc = "sons" /\ Script[pos].op = "send"
  BY DEF EndSend, AtEnd
<1>2. HeapInv /\ Types /\ pos \in 1 .. Len(Script)
  BY <1>1 DEF IInv, PlaceInv
<1>3. last_frame = 0 /\ Len(Script) \in Nat
  BY <1>1, <1>2, ScriptAssumption DEF HeapInv
<1>4. pos' \in 1 .. Len(Script) + 1
  BY <1>2, <1>3 DEF EndSend
<1>5. next \in Nat \ {0}
  BY <1>2, NextIsNew
<1> QED BY <1>1, <1>3, <1>4, <1>5, EndCommandInv DEF EndSend, SentSons

\* main deletes the results, and with them everything.
LEMMA EndTestInv ==
  ASSUME IInv, EndTest
  PROVE  IInv'
<1>0. HeapInv /\ Types /\ pc = "walk" /\ ChangeHeap(walked, FALSE, {}, 0)
      /\ 0 \in Nat
  BY DEF EndTest, IInv
<1>1. /\ Live' = {y \in Live : y \notin walked /\ parent[y] \notin walked}
                       \cup (IF FALSE THEN {next} ELSE {})
      /\ \A y \in Live' : parent'[y] = IF y \in {} THEN 0
                                       ELSE IF y \in Live THEN parent[y]
                                       ELSE 0
      /\ parent' \in [Live' -> Nat]
      /\ IsFiniteSet(Live')
      /\ walked \subseteq Live /\ ~ double_delete => ~ double_delete'
  BY <1>0, HeapChange, Zenon
<1>2. Live' = {}
  BY <1>0, <1>1 DEF HeapInv, Roots, Frames, Results
<1>3. ~ double_delete'
  BY <1>0, <1>1 DEF IInv, HeapInv, Roots
<1>4. /\ pc' = "main" /\ walked' = {} /\ variables' = << >>
      /\ last_frame' = 0 /\ DOMAIN variables' = {}
      /\ UNCHANGED <<test, kind, port, inbox, read_data, n, result>>
  BY <1>0 DEF EndTest, socket, reading, HeapInv
<1>5. Types'
  BY <1>0, <1>1, <1>2, <1>4, FS_EmptySet DEF Types
<1>6. HeapInv'
  BY <1>2, <1>4 DEF HeapInv, Roots, Frames, Results
<1>7. VariableInv' /\ CheckInv' /\ PlaceInv'
  BY <1>4 DEF VariableInv, CheckInv, PlaceInv
<1>8. FrameInv'
  BY <1>4 DEF IInv, FrameInv, Reaches
<1> QED BY <1>3, <1>4, <1>5, <1>6, <1>7, <1>8, HeldIsLive DEF IInv

\* main ends.
LEMMA EndMainInv ==
  ASSUME IInv, EndMain
  PROVE  IInv'
<1> USE DEF EndMain, heap, socket, reading
<1>0. HeapInv /\ Live' = Live
  BY DEF IInv, Live
<1>1. Types'
  BY <1>0 DEF IInv, Types
<1>2. HeapInv'
  BY <1>0 DEF HeapInv, Roots, Frames, Results
<1>3. VariableInv' /\ CheckInv' /\ PlaceInv'
  BY <1>0 DEF HeapInv, VariableInv, CheckInv, PlaceInv
<1>4. FrameInv' /\ ~ double_delete'
  BY DEF IInv, FrameInv, Reaches
<1> QED BY <1>1, <1>2, <1>3, <1>4, HeldIsLive DEF IInv

-----------------------------------------------------------------------------
(* Theorems *)

\* Every step preserves the invariant.
LEMMA NextInv ==
  ASSUME IInv, [Next]_vars
  PROVE  IInv'
<1>1. ASSUME SonAborts \/ SendAborts \/ EndTestAborts PROVE IInv'
  BY <1>1, AbortInv DEF SonAborts, SendAborts, EndTestAborts
<1>2. ASSUME Stopped \/ UNCHANGED vars PROVE IInv'
  BY <1>2, StutterInv DEF Stopped
<1> QED BY <1>1, <1>2, PeerInv, StartTestInv, StartCommandInv, ReadPacketInv,
           ReadNothingInv, SonInv, RunInjectInv, ReadAgainInv, EndReadInv,
           EndSendInv, EndTestInv, EndMainInv
        DEF Next, Step

\* The invariant holds in every reachable state: what the peer sends and
\* what the checks answer makes no difference to who owns a State.
THEOREM Inductive == Spec => []IInv
<1>1. IInv /\ [Next]_vars => IInv'
  BY NextInv
<1> QED BY <1>1, InitInv, PTL DEF Spec

\* Type correctness: the locals of ReadAction, the results and the pointers
\* of TestCaseManager.
THEOREM TypeCorrect == Spec => []TypeOK
<1>1. IInv => TypeOK
  <2> SUFFICES ASSUME IInv PROVE TypeOK
    OBVIOUS
  <2>1. Types
    BY DEF IInv
  <2>2. \A j \in 1 .. Len(result) : result[j] \in [obj : Nat, fail : BOOLEAN]
    BY <2>1, ElementOfSeq DEF Types, ResultType
  <2> QED BY <2>1, <2>2 DEF Types, TypeOK
<1> QED BY <1>1, Inductive, PTL

\* No State is deleted twice: not the frame that a read replaces, not an
\* alternative that InjectAction drops, not a result that main deletes.
THEOREM DeletedOnce == Spec => []NoDoubleDelete
<1>1. IInv => NoDoubleDelete
  BY DEF IInv, NoDoubleDelete
<1> QED BY <1>1, Inductive, PTL

\* Nothing leaks: when main has deleted the result of a test no State is
\* left and TestCaseManager points at none.
THEOREM NothingLeaks == Spec => []Reclaimed
<1>1. IInv => Reclaimed
  BY DEF IInv, HeapInv, Reclaimed, Roots, Frames, Results
<1> QED BY <1>1, Inductive, PTL

\* A variable dangles only if it is bound in a read that has a check or in
\* an alternative of an or node.
THEOREM OnlyExposedDangle == Spec => []VariablesLive
<1>1. IInv => VariablesLive
  BY DEF IInv
<1> QED BY <1>1, Inductive, PTL

\* However late packets come, a read returns one of an earlier test only if
\* the test has bound its UDP socket to the port of that test; a raw socket
\* sees them all.
THEOREM LateFramesHaveThePort == Spec => []FrameOfThisPort
<1>1. IInv => FrameOfThisPort
  BY DEF IInv, FrameInv, FrameOfThisPort, Reaches
<1> QED BY <1>1, Inductive, PTL

\* A read that succeeds returns a packet that its checks accept, and the one
\* that was read last unless the socket is a Bluetooth one.
THEOREM ReadsAccept == Spec => Accepts
<1> DEFINE Accepted ==
      \A p \in 1 .. Len(Script) :
          Script[p].op = "read" /\ pc = "sons" /\ pos = p /\ pos' = p + 1
              /\ frame # NoPacket =>
            /\ kind # "btrfcomm" => frame = newest
            /\ \A q \in 1 .. Len(Script[p].sons) :
                 /\ Script[p].sons[q].op = "check"
                 /\ \A r \in q + 1 .. Len(Script[p].sons) :
                      Script[p].sons[r].op # "or"
                 => frame.data \in Script[p].sons[q].arg
<1>1. ASSUME IInv, [Next]_vars PROVE Accepted
  <2> SUFFICES ASSUME NEW p \in 1 .. Len(Script),
                      Script[p].op = "read", pc = "sons", pos = p,
                      pos' = p + 1, frame # NoPacket
               PROVE  /\ kind # "btrfcomm" => frame = newest
                      /\ \A q \in 1 .. Len(Script[p].sons) :
                           /\ Script[p].sons[q].op = "check"
                           /\ \A r \in q + 1 .. Len(Script[p].sons) :
                                Script[p].sons[r].op # "or"
                           => frame.data \in Script[p].sons[q].arg
    OBVIOUS
  <2>1. p \in Nat /\ pos' # pos
    BY ScriptAssumption
  <2>2. EndRead
    BY <1>1, <2>1 DEF Next, Step, StartTest, StartCommand, ReadPacket,
       ReadNothing, RunValue, RunCheck, RunVariable, RunMemorize, Return,
       SonAborts, RunInject, ReadAgain, EndSend, AtEnd, SendAborts, EndTest,
       EndTestAborts, EndMain, Abort, Peer, Disconnect, SendToUs, Stopped,
       vars
  <2>3. n = 1 /\ (kind # "btrfcomm" => frame = newest)
    BY <1>1 DEF IInv, FrameInv
  <2>4. ~ ThereIsAFail /\ son > Len(Script[p].sons)
    BY <2>2, <2>3 DEF EndRead, ReadsAgain, AtEnd
  <2>5. ASSUME NEW q \in 1 .. Len(Script[p].sons),
               Script[p].sons[q].op = "check",
               \A r \in q + 1 .. Len(Script[p].sons) :
                  Script[p].sons[r].op # "or"
        PROVE  frame.data \in Script[p].sons[q].arg
    <3>1. Len(Script[p].sons) \in Nat /\ son = Len(Script[p].sons) + 1
          /\ Depth(p)[q] \in Nat
      <4>1. Len(Script[p].sons) \in Nat
            /\ Depth(p) \in [1 .. Len(Script[p].sons) + 1 ->
                                0 .. Len(Script[p].sons)]
        BY DepthFacts
      <4>2. son \in 1 .. Len(Script[p].sons) + 1
        BY <1>1 DEF IInv, PlaceInv
      <4>3. Depth(p)[q] \in Nat
        BY <4>1
      <4> QED BY <2>4, <4>1, <4>2, <4>3
    <3>2. /\ Depth(p)[q] + 1 <= Len(result)
          /\ frame.data \notin Script[p].sons[q].arg =>
                result[Depth(p)[q] + 1].fail
      BY <1>1, <2>5, <3>1, SMTT(40) DEF IInv, CheckInv
    <3>3. Depth(p)[q] + 1 \in 1 .. Len(result)
      <4>1. result \in Seq(ResultType)
        BY <1>1 DEF IInv, Types
      <4> QED BY <3>1, <3>2, <4>1, LenProperties
    <3> QED BY <2>4, <3>2, <3>3 DEF ThereIsAFail
  <2> QED BY <2>3, <2>5
<1> QED BY <1>1, Inductive, PTL DEF Spec, Accepts

-----------------------------------------------------------------------------
(* Reads end *)

\* What main has left to do: the tests; in one of them the commands; in a
\* command whether it has begun, the packets that came or can come, whether
\* the loop of a read may go on without one, and the sons.
Measure ==
    << Left(test, MaxTest),
       IF pc \in {"walk", "read", "sons"} THEN 2 ELSE IF pc = "main" THEN 1 ELSE 0,
       Left(pos, Len(Script) + 1),
       IF pc = "walk" THEN 1 ELSE 0,
       MaxPacket - sent + Len(inbox),
       IF pc = "read" \/ n >= 0 THEN 1 ELSE 0,
       IF pc = "sons" THEN Left(son, Len(Script[pos].sons) + 2) ELSE 0 >>

CountInv == sent \in 0 .. MaxPacket /\ pos \in Nat

LEMMA InitCount == Init => CountInv
BY BoundAssumption DEF Init, CountInv

LEMMA NextCount == IInv /\ CountInv /\ [Next]_vars => CountInv'
<1> SUFFICES ASSUME IInv, CountInv, [Next]_vars PROVE CountInv'
  OBVIOUS
<1> USE DEF socket
<1>1. /\ Len(Script) \in Nat /\ MaxPacket \in Nat
      /\ sent \in 0 .. MaxPacket /\ pos \in Nat
  BY ScriptAssumption, BoundAssumption DEF CountInv
<1>2. CASE Peer
  <2>1. CASE Disconnect
    BY <1>1, <2>1 DEF Disconnect, CountInv
  <2>2. ASSUME NEW p, NEW t, SendToUs(p, t) PROVE CountInv'
    <3>1. sent < MaxPacket /\ sent' = sent + 1 /\ pos' = pos
      BY <2>2 DEF SendToUs
    <3> QED BY <1>1, <3>1 DEF CountInv
  <2> QED BY <1>2, <2>1, <2>2 DEF Peer
<1>3. CASE StartTest
  BY <1>1, <1>3 DEF StartTest, CountInv
<1>4. CASE StartCommand \/ EndTest \/ EndMain
  <2>1. UNCHANGED <<sent, pos>>
    BY <1>4 DEF StartCommand, EndTest, EndMain
  <2> QED BY <1>1, <2>1 DEF CountInv
<1>5. CASE ReadPacket \/ ReadNothing
  BY <1>1, <1>5 DEF ReadPacket, ReadNothing, NewFrame, CountInv
<1>6. CASE RunValue \/ RunCheck \/ RunVariable \/ RunMemorize \/ RunInject
  <2>1. UNCHANGED <<sent, pos>>
    BY <1>6 DEF RunValue, RunCheck, RunVariable, RunMemorize, RunInject, Return
  <2> QED BY <1>1, <2>1 DEF CountInv
<1>7. CASE ReadAgain \/ EndRead \/ EndSend
  <2>1. UNCHANGED sent /\ pos' \in {pos, pos + 1, Len(Script) + 1}
    BY <1>7 DEF ReadAgain, EndRead, EndSend
  <2> QED BY <1>1, <2>1 DEF CountInv
<1>8. CASE SonAborts \/ SendAborts \/ EndTestAborts
  BY <1>1, <1>8 DEF SonAborts, SendAborts, EndTestAborts, Abort, CountInv
<1>9. CASE UNCHANGED vars
  BY <1>1, <1>9 DEF vars, CountInv
<1> QED BY <1>2, <1>3, <1>4, <1>5, <1>6, <1>7, <1>8, <1>9 DEF Next, Step, Stopped

LEMMA SonsLength ==
  ASSUME NEW p \in 1 .. Len(Script)
  PROVE  Len(Script[p].sons) \in Nat
BY ScriptAssumption

LEMMA MeasureType ==
  ASSUME IInv, CountInv
  PROVE  Measure \in Tuples(7)
<1>1. /\ Len(Script) \in Nat /\ MaxPacket \in Nat /\ MaxTest \in Nat
      /\ test \in Nat /\ pos \in Nat /\ sent \in 0 .. MaxPacket
  BY ScriptAssumption, BoundAssumption DEF IInv, Types, CountInv
<1>2. Len(inbox) \in Nat
  BY LenProperties DEF IInv, Types
<1>3. Measure[1] \in Nat /\ Measure[3] \in Nat
  BY <1>1 DEF Measure, Left
<1>4. Measure[2] \in Nat /\ Measure[4] \in Nat /\ Measure[6] \in Nat
  BY DEF Measure
<1>5. Measure[5] \in Nat
  BY <1>1, <1>2 DEF Measure
<1>6. Measure[7] \in Nat
  <2>1. CASE pc = "sons"
    <3>1. Len(Script[pos].sons) \in Nat /\ son \in Nat
      BY <2>1, SonsLength DEF IInv, PlaceInv
    <3> QED BY <2>1, <3>1 DEF Measure, Left
  <2>2. CASE pc # "sons"
    BY <2>2 DEF Measure
  <2> QED BY <2>1, <2>2
<1>7. Measure = [k \in 1 .. 7 |-> Measure[k]]
  BY DEF Measure
<1>8. \A k \in 1 .. 7 : Measure[k] \in Nat
  <2>1. \A k \in 1 .. 7 : \/ k = 1 \/ k = 2 \/ k = 3 \/ k = 4
                          \/ k = 5 \/ k = 6 \/ k = 7
    OBVIOUS
  <2> QED BY <1>3, <1>4, <1>5, <1>6, <2>1
<1> QED BY <1>7, <1>8 DEF Tuples

\* To descend it is enough that the first component that changes gets less.
LEMMA LessAt ==
  ASSUME NEW a, NEW b, NEW size \in Nat, NEW k \in 1 .. size,
         a \in Tuples(size), b \in Tuples(size),
         a[k] < b[k], \A j \in 1 .. k - 1 : a[j] = b[j]
  PROVE  Below(a, b)
BY DEF Below, Tuples

\* What the peer does leaves main as much to do as it had.
LEMMA PeerKeeps ==
  ASSUME IInv, CountInv, Peer
  PROVE  Measure' = Measure
<1>1. CASE Disconnect
  BY <1>1 DEF Disconnect, reading, heap, Measure
<1>2. ASSUME NEW p \in Packet \cup {Empty}, NEW t \in 0 .. test, SendToUs(p, t)
      PROVE  Measure' = Measure
  <2>1. inbox' = Append(inbox, [data |-> p, test |-> t]) /\ sent' = sent + 1
        /\ [data |-> p, test |-> t] \in PacketType
    BY <1>2 DEF SendToUs, IInv, Types, PacketType
  <2>2. Len(inbox') = Len(inbox) + 1 /\ Len(inbox) \in Nat
    <3>1. inbox \in Seq(PacketType)
      BY DEF IInv, Types
    <3> QED BY <2>1, <3>1, AppendProperties, LenProperties
  <2>3. sent \in Nat /\ MaxPacket \in Nat
    BY BoundAssumption DEF CountInv
  <2>4. MaxPacket - sent' + Len(inbox') = MaxPacket - sent + Len(inbox)
    BY <2>1, <2>2, <2>3
  <2> QED BY <1>2, <2>4 DEF SendToUs, reading, heap, Measure
<1> QED BY <1>1, <1>2 DEF Peer

\* Every step of main's, except a read() of a closed Bluetooth channel.
LEMMA StepDescends ==
  ASSUME IInv, CountInv, CountInv', IInv', Step,
         Measure \in Tuples(7), Measure' \in Tuples(7),
         ~ (ReadNothing /\ kind = "btrfcomm" /\ closed)
  PROVE  Below(Measure', Measure)
<1> USE DEF socket, reading, heap
<1>1. /\ Len(Script) \in Nat /\ MaxTest \in Nat /\ test \in Nat
      /\ pos \in Nat /\ pos' \in Nat
  BY ScriptAssumption, BoundAssumption DEF IInv, Types, CountInv
<1>2. CASE StartTest
  <2>1. Measure'[1] < Measure[1]
    BY <1>1, <1>2 DEF StartTest, Measure, Left
  <2> QED BY <2>1, LessAt
<1>3. CASE SonAborts \/ SendAborts \/ EndTestAborts
  <2>1. pc \in {"walk", "sons"} /\ pc' = "abort" /\ UNCHANGED test
    BY <1>3 DEF SonAborts, SendAborts, EndTestAborts, Abort, AtSon, AtEnd
  <2>2. Measure'[1] = Measure[1] /\ Measure'[2] < Measure[2]
    BY <2>1 DEF Measure
  <2> QED BY <2>2, LessAt
<1>4. CASE EndTest \/ EndMain
  <2>1. /\ UNCHANGED test
        /\ <<pc, pc'>> \in {<<"walk", "main">>, <<"main", "done">>}
    BY <1>4 DEF EndTest, EndMain
  <2>2. Measure'[1] = Measure[1] /\ Measure'[2] < Measure[2]
    BY <2>1 DEF Measure
  <2> QED BY <2>2, LessAt
<1>5. CASE EndRead \/ EndSend
  <2>1. /\ pc = "sons" /\ pc' = "walk" /\ UNCHANGED test
        /\ pos' \in {Len(Script) + 1, pos + 1}
    BY <1>5 DEF EndRead, EndSend, AtEnd
  <2>2. pos \in 1 .. Len(Script)
    BY <2>1 DEF IInv, PlaceInv
  <2>3. /\ Measure'[1] = Measure[1] /\ Measure'[2] = Measure[2]
        /\ Measure'[3] < Measure[3]
    BY <1>1, <2>1, <2>2 DEF Measure, Left
  <2> QED BY <2>3, LessAt
<1>6. CASE StartCommand
  <2>1. /\ Measure'[1] = Measure[1] /\ Measure'[2] = Measure[2]
        /\ Measure'[3] = Measure[3] /\ Measure'[4] < Measure[4]
    BY <1>6 DEF StartCommand, Measure
  <2> QED BY <2>1, LessAt
<1>7. CASE ReadPacket
  <2>1. /\ pc = "read" /\ pc' = "sons" /\ UNCHANGED <<test, pos, sent>>
        /\ inbox # << >> /\ inbox' = Tail(inbox)
    BY <1>7 DEF ReadPacket, NewFrame
  <2>2. Len(inbox') < Len(inbox) /\ Len(inbox') \in Nat /\ Len(inbox) \in Nat
    <3>1. inbox \in Seq(PacketType)
      BY DEF IInv, Types
    <3> QED BY <2>1, <3>1, HeadTailProperties, LenProperties
  <2>3. sent \in Nat /\ MaxPacket \in Nat
    BY BoundAssumption DEF CountInv
  <2>4. MaxPacket - sent' + Len(inbox') < MaxPacket - sent + Len(inbox)
    BY <2>1, <2>2, <2>3
  <2>5. /\ Measure'[1] = Measure[1] /\ Measure'[2] = Measure[2]
        /\ Measure'[3] = Measure[3] /\ Measure'[4] = Measure[4]
        /\ Measure'[5] < Measure[5]
    BY <2>1, <2>4 DEF Measure
  <2> QED BY <2>5, LessAt
<1>8. CASE ReadNothing
  <2>1. /\ pc = "read" /\ pc' = "sons" /\ UNCHANGED <<test, pos, sent, inbox>>
        /\ n' = -1
    BY <1>8 DEF ReadNothing, NewFrame
  <2>2. /\ Measure'[1] = Measure[1] /\ Measure'[2] = Measure[2]
        /\ Measure'[3] = Measure[3] /\ Measure'[4] = Measure[4]
        /\ Measure'[5] = Measure[5] /\ Measure'[6] < Measure[6]
    BY <2>1 DEF Measure
  <2> QED BY <2>2, LessAt
<1>9. CASE \/ RunValue \/ RunCheck \/ RunVariable \/ RunMemorize \/ RunInject
           \/ ReadAgain
  <2>1. /\ pc = "sons" /\ UNCHANGED <<test, pos, sent, inbox, n>>
        /\ \/ pc' = "sons" /\ son' = son + 1 /\ son <= Len(Script[pos].sons)
           \/ pc' = "read" /\ n >= 0
    BY <1>9 DEF RunValue, RunCheck, RunVariable, RunMemorize, RunInject, Return,
                AtSon, ReadAgain, ReadsAgain, AtEnd
  <2>2. /\ Len(Script[pos].sons) \in Nat
        /\ son \in 1 .. Len(Script[pos].sons) + 1
    BY <2>1, SonsLength DEF IInv, PlaceInv
  <2>3. /\ Measure'[1] = Measure[1] /\ Measure'[2] = Measure[2]
        /\ Measure'[3] = Measure[3] /\ Measure'[4] = Measure[4]
        /\ Measure'[5] = Measure[5] /\ Measure'[6] = Measure[6]
    BY <2>1 DEF Measure
  <2>4. Measure'[7] < Measure[7]
    BY <2>1, <2>2, SMTT(40) DEF Measure, Left
  <2> QED BY <2>3, <2>4, LessAt
<1> QED BY <1>2, <1>3, <1>4, <1>5, <1>6, <1>7, <1>8, <1>9 DEF Step

Descends ==
    /\ Measure \in Tuples(7)
    /\ Measure' \in Tuples(7)
    /\ \/ Below(Measure', Measure)
       \/ Peer /\ Measure' = Measure
       \/ ReadNothing /\ kind = "btrfcomm" /\ closed

\* Whatever the peer sends and whichever sons fail, every step of main's
\* leaves it less to do and no packet gives it more, so that every read and
\* the campaign end, but for the reads of a closed Bluetooth channel.
THEOREM ReadsDescend == Spec => [][Descends]_vars
<1> DEFINE Inv == IInv /\ CountInv
           Typed == Measure \in Tuples(7)
<1>1. Init => Inv
  BY InitInv, InitCount
<1>2. Inv /\ [Next]_vars => Inv'
  <2>1. IInv /\ [Next]_vars => IInv'
    BY NextInv
  <2> QED BY <2>1, NextCount
<1>3. Inv => Typed
  BY MeasureType
<1>4. Inv /\ Inv' /\ Typed /\ Typed' /\ [Next]_vars => [Descends]_vars
  <2> SUFFICES ASSUME Inv, Inv', Typed, Typed', Next, ~ UNCHANGED vars
               PROVE  Descends
    OBVIOUS
  <2>1. CASE Step
    BY <2>1, StepDescends DEF Descends
  <2>2. CASE Peer
    BY <2>2, PeerKeeps DEF Descends
  <2> QED BY <2>1, <2>2 DEF Next, Stopped
<1> HIDE DEF Inv, Typed
<1> QED BY <1>1, <1>2, <1>3, <1>4, PTL DEF Spec
=============================================================================
