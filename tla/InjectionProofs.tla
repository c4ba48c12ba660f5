--------------------------- MODULE InjectionProofs --------------------------
(***************************************************************************)
(* Theorems about Injection, for every tree that the parser may make.      *)
(***************************************************************************)
EXTENDS Injection, SequenceTheorems, TLAPS

-----------------------------------------------------------------------------
(* Positions *)

LEMMA AboveSelf ==
  ASSUME NEW p \in Seq(Nat)
  PROVE  Above(p, p)
BY DEF Above

LEMMA AboveAntisymmetric ==
  ASSUME NEW p \in Seq(Nat), NEW q \in Seq(Nat), Above(p, q), Len(p) = Len(q)
  PROVE  p = q
BY SeqEqual DEF Above

LEMMA AboveTransitive ==
  ASSUME NEW p \in Seq(Nat), NEW q \in Seq(Nat), NEW x \in Seq(Nat),
         Above(p, q), Above(q, x)
  PROVE  Above(p, x)
BY DEF Above

\* Two nodes above a third one are above one another.
LEMMA AboveComparable ==
  ASSUME NEW p \in Seq(Nat), NEW q \in Seq(Nat), NEW x \in Seq(Nat),
         Above(p, x), Above(q, x)
  PROVE  Above(p, q) \/ Above(q, p)
BY DEF Above

LEMMA AbovePrefix ==
  ASSUME NEW p \in Seq(Nat), NEW x \in Seq(Nat), Above(p, x)
  PROVE  SubSeq(x, 1, Len(p)) = p
BY SMTT(40) DEF Above

LEMMA AboveConcat ==
  ASSUME NEW p \in Seq(Nat), NEW q \in Seq(Nat)
  PROVE  /\ p \o q \in Seq(Nat)
         /\ Above(p, p \o q)
         /\ Rest(p, p \o q) = q
         /\ p \o q = p => q = << >>
BY DEF Above, Rest

LEMMA AboveAppend ==
  ASSUME NEW p \in Seq(Nat), NEW q \in Seq(Nat), NEW i \in Nat,
         Above(q, Append(p, i)), q # Append(p, i)
  PROVE  Above(q, p)
BY DEF Above

-----------------------------------------------------------------------------
(* What the performer makes of a leaf *)

\* Where createFaults puts what it makes of a string.
FaultPositions == {<< >>} \cup ({<<i>> : i \in 1 .. Faults + 1}
                                \cup {<<i, 1>> : i \in 2 .. Faults + 1})

LEMMA FaultPositionsFacts ==
  /\ FaultPositions \subseteq Seq(Nat)
  /\ << >> \in FaultPositions
  /\ <<1>> \in FaultPositions
  /\ \A q \in FaultPositions : q # << >> => Len(q) = 1 \/ Len(q) = 2
<1>1. \A i \in 1 .. Faults + 1 : <<i>> \in Seq(Nat) /\ Len(<<i>>) = 1
  BY DEF Faults
<1>2. \A i \in 2 .. Faults + 1 : <<i, 1>> \in Seq(Nat) /\ Len(<<i, 1>>) = 2
  BY DEF Faults
<1>3. 1 \in 1 .. Faults + 1
  BY DEF Faults
<1>4. << >> \in Seq(Nat)
  OBVIOUS
<1>5. <<1>> \in FaultPositions
  BY ONLY <1>3, Zenon DEF FaultPositions
<1>6. FaultPositions \subseteq Seq(Nat)
  BY ONLY <1>1, <1>2, <1>4, Zenon DEF FaultPositions
<1>7. \A q \in FaultPositions : q # << >> => Len(q) = 1 \/ Len(q) = 2
  BY ONLY <1>1, <1>2, Zenon DEF FaultPositions
<1> QED BY <1>5, <1>6, <1>7 DEF FaultPositions

LEMMA CreateFaultsFacts ==
  ASSUME NEW leaf, leaf.name # ""
  PROVE  /\ DOMAIN CreateFaults(leaf) = FaultPositions
         /\ CreateFaults(leaf)[<< >>] = Injected
         /\ CreateFaults(leaf)[<<1>>] = leaf
         /\ \A q \in FaultPositions : q # << >> =>
               \/ CreateFaults(leaf)[q] = leaf
               \/ CreateFaults(leaf)[q] = Label("rule", "anomaly")
               \/ CreateFaults(leaf)[q] = Label("hex", "fault")
<1>1. CreateFaults(leaf) = [p \in FaultPositions |->
             CASE p = << >> -> Injected
               [] p = <<1>> -> leaf
               [] Len(p) = 1 /\ p # <<1>> -> Label("rule", "anomaly")
               [] Len(p) = 2 -> Label("hex", "fault")]
  BY DEF CreateFaults, FaultPositions
<1>2. Len(<<1>>) = 1 /\ <<1>> # << >> /\ Len(<< >>) = 0
  OBVIOUS
<1>4. CreateFaults(leaf)[<< >>] = Injected /\ CreateFaults(leaf)[<<1>>] = leaf
  <2> DEFINE one == <<1>>
  <2>1. one # << >> /\ Len(one) = 1
    OBVIOUS
  <2> HIDE DEF one
  <2>2. CreateFaults(leaf)[one] =
             CASE one = << >> -> Injected
               [] one = <<1>> -> leaf
               [] Len(one) = 1 /\ one # <<1>> -> Label("rule", "anomaly")
               [] Len(one) = 2 -> Label("hex", "fault")
    BY <1>1, FaultPositionsFacts DEF one
  <2>3. @ = leaf
    BY ONLY <2>1 DEF one
  <2> DEFINE top == << >>
  <2>4. CreateFaults(leaf)[top] = Injected
    <3>1. top = << >> /\ top \in FaultPositions
      BY FaultPositionsFacts
    <3> HIDE DEF top
    <3>2. CreateFaults(leaf)[top] =
             CASE top = << >> -> Injected
               [] top = <<1>> -> leaf
               [] Len(top) = 1 /\ top # <<1>> -> Label("rule", "anomaly")
               [] Len(top) = 2 -> Label("hex", "fault")
      BY <1>1, <3>1
    <3>3. top # <<1>> /\ Len(top) = 0
      BY <3>1
    <3>4. (CASE top = << >> -> Injected
             [] top = <<1>> -> leaf
             [] Len(top) = 1 /\ top # <<1>> -> Label("rule", "anomaly")
             [] Len(top) = 2 -> Label("hex", "fault")) = Injected
      BY ONLY <3>1, <3>3
    <3> QED BY <3>2, <3>4
  <2> QED BY <2>2, <2>3, <2>4 DEF one
<1>3. ASSUME NEW q \in FaultPositions, q # << >>
      PROVE  \/ CreateFaults(leaf)[q] = leaf
             \/ CreateFaults(leaf)[q] = Label("rule", "anomaly")
             \/ CreateFaults(leaf)[q] = Label("hex", "fault")
  <2>1. CASE q = <<1>>
    BY <1>4, <2>1
  <2>2. CASE Len(q) = 1 /\ q # <<1>>
    BY <1>1, <1>2, <1>3, <2>2
  <2>3. CASE Len(q) = 2
    BY <1>1, <1>2, <1>3, <2>3
  <2> QED BY <1>3, <2>1, <2>2, <2>3, FaultPositionsFacts
<1> QED BY <1>1, <1>3, <1>4

\* A string that is not empty becomes an or node whose first son it is.
LEMMA StringInjected ==
  ASSUME NEW leaf, leaf.kind = "string", leaf.name # ""
  PROVE  /\ InjectLeaf(leaf)[<< >>] = Injected
         /\ <<1>> \in DOMAIN InjectLeaf(leaf)
         /\ InjectLeaf(leaf)[<<1>>] = leaf
BY CreateFaultsFacts, FaultPositionsFacts DEF InjectLeaf

\* Any other leaf stays a leaf, and only an empty string is deleted.
LEMMA OtherInjected ==
  ASSUME NEW leaf, leaf.kind # "string" \/ leaf.name = ""
  PROVE  /\ DOMAIN InjectLeaf(leaf) = {<< >>}
         /\ InjectLeaf(leaf)[<< >>] =
               IF leaf.kind = "string" THEN [leaf EXCEPT !.live = FALSE] ELSE leaf
BY DEF InjectLeaf, CreateFaults

LEMMA InjectLeafFacts ==
  ASSUME NEW leaf
  PROVE  /\ << >> \in DOMAIN InjectLeaf(leaf)
         /\ DOMAIN InjectLeaf(leaf) \subseteq Seq(Nat)
<1>1. << >> \in Seq(Nat)
  OBVIOUS
<1>2. CASE leaf.kind = "string" /\ leaf.name # ""
  <2>1. DOMAIN InjectLeaf(leaf) = FaultPositions
    BY <1>2, CreateFaultsFacts DEF InjectLeaf
  <2> QED BY <2>1, FaultPositionsFacts
<1>3. CASE leaf.kind # "string" \/ leaf.name = ""
  BY <1>1, <1>3, OtherInjected
<1> QED BY <1>2, <1>3

\* The new nodes are copies or nodes of anomalies, and only strings have any.
LEMMA NewNodes ==
  ASSUME NEW leaf, NEW q \in DOMAIN InjectLeaf(leaf), q # << >>
  PROVE  /\ leaf.kind = "string" /\ leaf.name # ""
         /\ \/ InjectLeaf(leaf)[q] = leaf
            \/ InjectLeaf(leaf)[q] = Label("rule", "anomaly")
            \/ InjectLeaf(leaf)[q] = Label("hex", "fault")
<1>1. leaf.kind = "string" /\ leaf.name # ""
  <2>1. ASSUME leaf.kind # "string" \/ leaf.name = "" PROVE q \in {<< >>}
    BY <2>1, OtherInjected
  <2> QED BY <2>1
<1> QED BY <1>1, CreateFaultsFacts DEF InjectLeaf

-----------------------------------------------------------------------------
(* Replacing leaves *)

\* Nothing is below any of these nodes.
Bare(t, leaves) ==
    /\ DOMAIN t \subseteq Seq(Nat)
    /\ leaves \subseteq DOMAIN t
    /\ \A p \in leaves : \A x \in DOMAIN t : Above(p, x) => x = p

LEMMA GrownElement ==
  ASSUME NEW t, NEW leaves, NEW x
  PROVE  x \in Grown(t, leaves)
         <=> \E p \in leaves : \E q \in DOMAIN InjectLeaf(t[p]) : x = p \o q
<1> DEFINE S(p) == {p \o q : q \in DOMAIN InjectLeaf(t[p])}
<1>1. Grown(t, leaves) = UNION {S(p) : p \in leaves}
  BY DEF Grown
<1>2. \A p : x \in S(p) <=> \E q \in DOMAIN InjectLeaf(t[p]) : x = p \o q
  OBVIOUS
<1> HIDE DEF S
<1>3. x \in UNION {S(p) : p \in leaves} <=> \E p \in leaves : x \in S(p)
  OBVIOUS
<1> QED BY <1>1, <1>2, <1>3

LEMMA ReplaceDomain ==
  ASSUME NEW t, NEW leaves, Bare(t, leaves)
  PROVE  /\ DOMAIN Replace(t, leaves) = DOMAIN t \cup Grown(t, leaves)
         /\ DOMAIN Replace(t, leaves) \subseteq Seq(Nat)
<1>1. ASSUME NEW x \in Grown(t, leaves) PROVE x \in Seq(Nat)
  <2>1. PICK p \in leaves : \E q \in DOMAIN InjectLeaf(t[p]) : x = p \o q
    BY GrownElement
  <2>2. PICK q \in DOMAIN InjectLeaf(t[p]) : x = p \o q
    BY <2>1
  <2> QED BY <2>2, InjectLeafFacts, AboveConcat DEF Bare
<1>2. DOMAIN Replace(t, leaves) = DOMAIN t \cup Grown(t, leaves)
  BY DEF Replace
<1> QED BY <1>1, <1>2 DEF Bare

LEMMA ReplaceNew ==
  ASSUME NEW t, NEW leaves, Bare(t, leaves),
         NEW p \in leaves, NEW q \in DOMAIN InjectLeaf(t[p])
  PROVE  /\ p \o q \in DOMAIN Replace(t, leaves)
         /\ Replace(t, leaves)[p \o q] = InjectLeaf(t[p])[q]
<1>1. p \in Seq(Nat) /\ q \in Seq(Nat)
  BY InjectLeafFacts DEF Bare
<1>2. /\ p \o q \in Seq(Nat) /\ Above(p, p \o q) /\ Rest(p, p \o q) = q
  BY <1>1, AboveConcat
<1>3. p \o q \in Grown(t, leaves)
  BY GrownElement
<1>4. ASSUME NEW r \in leaves, Above(r, p \o q) PROVE r = p
  <2>1. Above(p, r) \/ Above(r, p)
    BY <1>1, <1>2, <1>4, AboveComparable DEF Bare
  <2> QED BY <2>1 DEF Bare
<1>5. (CHOOSE r \in leaves : Above(r, p \o q)) = p
  BY <1>2, <1>4
<1> QED BY <1>2, <1>3, <1>5 DEF Replace

LEMMA ReplaceAt ==
  ASSUME NEW t, NEW leaves, Bare(t, leaves), NEW p \in leaves
  PROVE  /\ p \in DOMAIN Replace(t, leaves)
         /\ Replace(t, leaves)[p] = InjectLeaf(t[p])[<< >>]
<1> DEFINE top == << >>
<1>1. top \in DOMAIN InjectLeaf(t[p]) /\ p \o top = p
  BY InjectLeafFacts DEF Bare
<1> HIDE DEF top
<1>2. ASSUME NEW q \in DOMAIN InjectLeaf(t[p])
      PROVE  /\ p \o q \in DOMAIN Replace(t, leaves)
             /\ Replace(t, leaves)[p \o q] = InjectLeaf(t[p])[q]
  BY ReplaceNew
<1>3. /\ p \o top \in DOMAIN Replace(t, leaves)
      /\ Replace(t, leaves)[p \o top] = InjectLeaf(t[p])[top]
  BY <1>1, <1>2, Zenon
<1> QED BY <1>1, <1>3 DEF top

LEMMA ReplaceOld ==
  ASSUME NEW t, NEW leaves, Bare(t, leaves), NEW x \in DOMAIN t \ leaves
  PROVE  /\ x \in DOMAIN Replace(t, leaves)
         /\ Replace(t, leaves)[x] = t[x]
<1>1. ASSUME x \in Grown(t, leaves) PROVE FALSE
  <2>1. PICK p \in leaves : \E q \in DOMAIN InjectLeaf(t[p]) : x = p \o q
    BY <1>1, GrownElement
  <2>2. Above(p, x)
    BY <2>1, InjectLeafFacts, AboveConcat DEF Bare
  <2> QED BY <2>2 DEF Bare
<1> QED BY <1>1 DEF Replace

\* Whatever is not there before is below a leaf that was replaced.
LEMMA ReplaceGrown ==
  ASSUME NEW t, NEW leaves, Bare(t, leaves),
         NEW x \in DOMAIN Replace(t, leaves), x \notin DOMAIN t \ leaves
  PROVE  \E p \in leaves : \E q \in DOMAIN InjectLeaf(t[p]) :
            x = p \o q /\ Above(p, x) /\ (x = p <=> q = << >>)
<1>1. ASSUME NEW p \in leaves
      PROVE  /\ p \in Seq(Nat) /\ << >> \in DOMAIN InjectLeaf(t[p])
             /\ p \o << >> = p
  BY InjectLeafFacts DEF Bare
<1>2. x \in Grown(t, leaves)
  <2>1. CASE x \in leaves
    BY <1>1, <2>1, GrownElement
  <2>2. CASE x \notin leaves
    BY <2>2, ReplaceDomain
  <2> QED BY <2>1, <2>2
<1>3. PICK p \in leaves : \E q \in DOMAIN InjectLeaf(t[p]) : x = p \o q
  BY <1>2, GrownElement
<1>4. PICK q \in DOMAIN InjectLeaf(t[p]) : x = p \o q
  BY <1>3
<1>5. q \in Seq(Nat)
  BY InjectLeafFacts
<1>6. Above(p, x) /\ (x = p <=> q = << >>)
  BY <1>1, <1>4, <1>5, AboveConcat
<1> QED BY <1>4, <1>6

\* Leaves may be replaced one after the other or together.
LEMMA ReplaceTwice ==
  ASSUME NEW t, NEW L, NEW M, Bare(t, L), Bare(t, M), L \cap M = {},
         Bare(Replace(t, L), M)
  PROVE  Replace(Replace(t, L), M) = Replace(t, L \cup M)
<1> DEFINE r == Replace(t, L)
           both == Replace(t, L \cup M)
           twice == Replace(r, M)
<1>1. Bare(t, L \cup M)
  BY DEF Bare
<1>2. \A p \in M : r[p] = t[p]
  BY ReplaceOld DEF Bare
<1>3. Grown(r, M) = Grown(t, M) /\ Grown(t, L \cup M) = Grown(t, L) \cup Grown(t, M)
  <2> HIDE DEF twice, both, r
  <2>1. ASSUME NEW x PROVE x \in Grown(r, M) <=> x \in Grown(t, M)
    BY <1>2, GrownElement
  <2>2. ASSUME NEW x
        PROVE  x \in Grown(t, L \cup M) <=> x \in Grown(t, L) \cup Grown(t, M)
    <3> DEFINE P(p) == \E q \in DOMAIN InjectLeaf(t[p]) : x = p \o q
    <3>1. x \in Grown(t, L \cup M) <=> \E p \in L \cup M : P(p)
      BY GrownElement
    <3>2. x \in Grown(t, L) <=> \E p \in L : P(p)
      BY GrownElement
    <3>3. x \in Grown(t, M) <=> \E p \in M : P(p)
      BY GrownElement
    <3> HIDE DEF P
    <3> QED BY <3>1, <3>2, <3>3
  <2> QED BY <2>1, <2>2
<1>4. DOMAIN twice = DOMAIN both
  <2>1. DOMAIN twice = DOMAIN r \cup Grown(r, M)
    BY ReplaceDomain
  <2>2. DOMAIN r = DOMAIN t \cup Grown(t, L)
    BY ReplaceDomain
  <2>3. DOMAIN both = DOMAIN t \cup Grown(t, L \cup M)
    BY <1>1, ReplaceDomain
  <2> HIDE DEF twice, both, r
  <2> QED BY <1>3, <2>1, <2>2, <2>3
<1>5. ASSUME NEW x \in DOMAIN both PROVE twice[x] = both[x]
  <2>1. CASE x \in DOMAIN t \ (L \cup M)
    <3>1. x \in DOMAIN r \ M /\ r[x] = t[x]
      BY <2>1, ReplaceOld
    <3>2. twice[x] = r[x]
      BY <3>1, ReplaceOld
    <3>3. both[x] = t[x]
      BY <1>1, <2>1, ReplaceOld
    <3> QED BY <3>1, <3>2, <3>3
  <2>2. CASE x \notin DOMAIN t \ (L \cup M)
    <3>0. PICK p \in L \cup M : \E q \in DOMAIN InjectLeaf(t[p]) :
                                   x = p \o q /\ Above(p, x)
      BY <1>1, <2>2, ReplaceGrown
    <3>1. PICK q \in DOMAIN InjectLeaf(t[p]) : x = p \o q /\ Above(p, x)
      BY <3>0
    <3>2. both[x] = InjectLeaf(t[p])[q]
      BY <1>1, <3>1, ReplaceNew
    <3>3. CASE p \in M
      <4>1. q \in DOMAIN InjectLeaf(r[p])
        BY <1>2, <3>1, <3>3
      <4> QED BY <1>2, <3>1, <3>2, <3>3, <4>1, ReplaceNew
    <3>4. CASE p \in L
      <4>1. x \in DOMAIN r /\ r[x] = InjectLeaf(t[p])[q]
        BY <3>1, <3>4, ReplaceNew
      <4>2. x \notin M
        BY <3>1, <3>4 DEF Bare
      <4>3. twice[x] = r[x]
        BY <4>1, <4>2, ReplaceOld
      <4> QED BY <3>2, <4>1, <4>3
    <3> QED BY <3>3, <3>4
  <2> QED BY <2>1, <2>2
<1>6. /\ twice = [x \in DOMAIN twice |-> twice[x]]
      /\ both = [x \in DOMAIN both |-> both[x]]
  BY DEF Replace
<1> HIDE DEF twice, both
<1>7. twice = both
  BY <1>4, <1>5, <1>6
<1> QED BY <1>7 DEF twice, both

-----------------------------------------------------------------------------
(* Trees *)

\* What is above a node of a tree is in the tree, and is no leaf.
LEMMA TreeAbove ==
  ASSUME NEW t, IsTree(t), NEW q \in DOMAIN t,
         NEW p \in Seq(Nat), Above(p, q)
  PROVE  /\ p \in DOMAIN t
         /\ p # q => ~IsLeaf(t[p])
<1>1. q \in Seq(Nat)
  BY DEF IsTree
<1>2. CASE p # q
  <2>1. Len(p) \in 0 .. Len(q) - 1
    BY <1>1, <1>2, AboveAntisymmetric DEF Above
  <2>2. SubSeq(q, 1, Len(p)) = p
    BY <1>1, AbovePrefix
  <2> QED BY <2>1, <2>2 DEF IsTree
<1> QED BY <1>2

LEMMA TreeFacts ==
  ASSUME NEW t, IsTree(t)
  PROVE  /\ t = [x \in DOMAIN t |-> t[x]]
         /\ DOMAIN t \subseteq Seq(Nat)
         /\ \A p \in DOMAIN t :
               /\ t[p].live = TRUE
               /\ t[p] = [t[p] EXCEPT !.live = TRUE]
               /\ t[p] # Injected
<1>1. ASSUME NEW p \in DOMAIN t
      PROVE  /\ t[p].live = TRUE
             /\ t[p] = [t[p] EXCEPT !.live = TRUE]
             /\ t[p] # Injected
  <2>1. t[p] \in [kind : {"rule", "group", "repeat", "or",
                          "string", "hex", "command"},
                  name : STRING, live : {TRUE}]
    BY DEF IsTree
  <2>2. IsOr(t[p]) => t[p].name # "injected"
    BY DEF IsTree
  <2>3. Injected.kind = "or" /\ Injected.name = "injected"
    BY DEF Injected, Label
  <2>4. t[p] # Injected
    BY <2>2, <2>3 DEF IsOr
  <2>5. t[p].live = TRUE
    BY <2>1
  <2>6. t[p] = [t[p] EXCEPT !.live = TRUE]
    BY <2>1, <2>5
  <2> QED BY <2>4, <2>5, <2>6
<1>2. t = [x \in DOMAIN t |-> t[x]] /\ DOMAIN t \subseteq Seq(Nat)
  BY DEF IsTree
<1> QED BY <1>1, <1>2

LEMMA LeavesBare ==
  ASSUME NEW t, IsTree(t),
         NEW L \in SUBSET {p \in DOMAIN t : IsLeaf(t[p])}
  PROVE  Bare(t, L)
BY TreeFacts, TreeAbove DEF Bare

LEMMA ReplaceNone ==
  ASSUME NEW t, IsTree(t)
  PROVE  Replace(t, {}) = t
<1>1. Grown(t, {}) = {}
  BY DEF Grown
<1>2. Replace(t, {}) = [x \in DOMAIN t |-> t[x]]
  BY <1>1 DEF Replace
<1> QED BY <1>2, TreeFacts

\* A node that is no leaf keeps its command.
LEMMA CommandKept ==
  ASSUME NEW t, IsTree(t),
         NEW L \in SUBSET {p \in DOMAIN t : IsLeaf(t[p])},
         NEW x \in DOMAIN t, ~IsLeaf(t[x])
  PROVE  Command(Replace(t, L), x) = Command(t, x)
<1> DEFINE r == Replace(t, L)
           son == Append(x, 1)
<1>1. Bare(t, L) /\ x \in Seq(Nat)
  BY LeavesBare, TreeFacts
<1>2. x \in DOMAIN t \ L /\ r[x] = t[x]
  BY <1>1, ReplaceOld
<1>3. CASE son \in DOMAIN t \ L
  <2>1. son \in DOMAIN r /\ r[son] = t[son]
    BY <1>1, <1>3, ReplaceOld
  <2> QED BY <1>2, <1>3, <2>1 DEF Command
<1>4. CASE son \in L
  <2>2. son \in DOMAIN r /\ r[son] = InjectLeaf(t[son])[<< >>]
    BY <1>1, <1>4, ReplaceAt
  <2>3. CASE t[son].kind = "command"
    <3>1. r[son] = t[son]
      BY <2>2, <2>3, OtherInjected
    <3> QED BY <1>2, <1>4, <2>2, <3>1 DEF Command
  <2>4. CASE t[son].kind # "command"
    <3>1. r[son].kind # "command"
      <4>1. CASE t[son].kind = "string" /\ t[son].name # ""
        <5>1. Injected.kind = "or"
          BY DEF Injected, Label
        <5>2. r[son] = Injected
          BY <2>2, <4>1, StringInjected
        <5> QED BY <5>1, <5>2
      <4>2. CASE t[son].kind = "string" /\ t[son].name = ""
        <5>1. r[son] = [t[son] EXCEPT !.live = FALSE]
          BY <2>2, <4>2, OtherInjected
        <5> QED BY <1>4, <2>4, <5>1 DEF IsTree
      <4>3. CASE t[son].kind # "string"
        BY <2>2, <2>4, <4>3, OtherInjected
      <4> QED BY <4>1, <4>2, <4>3
    <3> QED BY <2>4, <3>1 DEF Command
  <2> QED BY <2>3, <2>4
<1>5. CASE son \notin DOMAIN t
  <2>1. ASSUME son \in DOMAIN r PROVE FALSE
    <3>1. PICK p \in L : Above(p, son)
      BY <1>1, <1>5, <2>1, ReplaceGrown
    <3>2. p \in DOMAIN t /\ p \in Seq(Nat) /\ p # son
      BY <1>5, TreeFacts
    <3>3. Above(p, x)
      BY <1>1, <3>1, <3>2, AboveAppend
    <3> QED BY <1>1, <1>2, <3>3 DEF Bare
  <2> QED BY <1>5, <2>1 DEF Command
<1> QED BY <1>3, <1>4, <1>5

-----------------------------------------------------------------------------
(* Composites that send *)

\* From s down the two trees are the same.
SameBelow(t, r, s) ==
    \A x \in Seq(Nat) :
        Above(s, x) => /\ x \in DOMAIN t <=> x \in DOMAIN r
                       /\ x \in DOMAIN t => t[x] = r[x]

LEMMA SameCommand ==
  ASSUME NEW t, NEW r, NEW s \in Seq(Nat), SameBelow(t, r, s),
         NEW q \in Seq(Nat), Above(s, q), q \in DOMAIN t
  PROVE  Command(t, q) = Command(r, q)
<1>1. Append(q, 1) \in Seq(Nat) /\ Above(s, Append(q, 1))
  BY DEF Above
<1> QED BY <1>1 DEF Command, SameBelow

LEMMA SameLeaf ==
  ASSUME NEW t, NEW r, NEW s \in Seq(Nat), SameBelow(t, r, s),
         DOMAIN t \subseteq Seq(Nat), DOMAIN r \subseteq Seq(Nat),
         NEW p \in DataLeaves(t, s)
  PROVE  p \in DataLeaves(r, s)
<1>1. p \in DOMAIN t /\ IsLeaf(t[p]) /\ StrictlyAbove(s, p)
  BY DEF DataLeaves
<1>2. p \in DOMAIN r /\ IsLeaf(r[p])
  BY <1>1 DEF SameBelow, StrictlyAbove
<1>3. ASSUME NEW q \in DOMAIN r, Above(s, q), StrictlyAbove(q, p)
      PROVE  Acted(r, s, q) /\ IsDataSon(r, q, p[Len(q) + 1])
  <2>1. q \in DOMAIN t /\ q \in Seq(Nat)
    BY <1>3 DEF SameBelow
  <2>2. Acted(t, s, q) /\ IsDataSon(t, q, p[Len(q) + 1])
    BY <1>3, <2>1 DEF DataLeaves
  <2>3. Acted(r, s, q)
    BY <2>2 DEF Acted, SameBelow
  <2>4. Command(t, q) = Command(r, q)
    BY <1>3, <2>1, SameCommand
  <2> QED BY <2>2, <2>3, <2>4 DEF IsDataSon
<1> QED BY <1>1, <1>2, <1>3 DEF DataLeaves

LEMMA SameLeaves ==
  ASSUME NEW t, NEW r, NEW s \in Seq(Nat), SameBelow(t, r, s),
         DOMAIN t \subseteq Seq(Nat), DOMAIN r \subseteq Seq(Nat)
  PROVE  DataLeaves(t, s) = DataLeaves(r, s)
<1>1. SameBelow(r, t, s)
  BY DEF SameBelow
<1>2. ASSUME NEW p \in DataLeaves(t, s) PROVE p \in DataLeaves(r, s)
  BY SameLeaf
<1>3. ASSUME NEW p \in DataLeaves(r, s) PROVE p \in DataLeaves(t, s)
  BY <1>1, SameLeaf
<1> QED BY <1>2, <1>3

\* The leaves below a set of composites.
LeavesBelow(t, S) == UNION {DataLeaves(t, s) : s \in S}

LEMMA LeavesBelowFacts ==
  ASSUME NEW t, NEW S
  PROVE  /\ LeavesBelow(t, S) \in SUBSET {p \in DOMAIN t : IsLeaf(t[p])}
         /\ \A p \in LeavesBelow(t, S) :
               \E s \in S : p \in DataLeaves(t, s) /\ StrictlyAbove(s, p)
         /\ \A s : LeavesBelow(t, S \cup {s}) = LeavesBelow(t, S) \cup DataLeaves(t, s)
BY DEF LeavesBelow, DataLeaves

\* No composite of Sends is above another one.
LEMMA SendsApart ==
  ASSUME NEW t, NEW s \in Sends(t), NEW r \in Sends(t), s # r
  PROVE  ~Above(s, r)
BY DEF Sends

\* What was injected below other composites has changed nothing below this one.
LEMMA OthersApart ==
  ASSUME NEW t, IsTree(t), NEW D \in SUBSET Sends(t), NEW s \in Sends(t) \ D
  PROVE  SameBelow(t, Replace(t, LeavesBelow(t, D)), s)
<1> DEFINE L == LeavesBelow(t, D)
<1>1. Bare(t, L) /\ L \subseteq DOMAIN t
  BY LeavesBelowFacts, LeavesBare
<1>2. DOMAIN t \subseteq Seq(Nat) /\ Sends(t) \subseteq DOMAIN t
  BY TreeFacts DEF Sends
<1>3. ASSUME NEW x \in Seq(Nat), Above(s, x), NEW p \in L, Above(p, x)
      PROVE  FALSE
  <2>1. PICK d \in D : StrictlyAbove(d, p)
    BY LeavesBelowFacts
  <2>2. Above(d, x)
    BY <1>1, <1>2, <1>3, <2>1, AboveTransitive DEF StrictlyAbove
  <2>3. Above(s, d) \/ Above(d, s)
    BY <1>2, <1>3, <2>2, AboveComparable
  <2> QED BY <2>3, SendsApart
<1>4. ASSUME NEW x \in Seq(Nat), Above(s, x)
      PROVE  x \notin L
  BY <1>3, <1>4, AboveSelf
<1>5. ASSUME NEW x \in Seq(Nat), Above(s, x), x \in DOMAIN t
      PROVE  x \in DOMAIN Replace(t, L) /\ t[x] = Replace(t, L)[x]
  BY <1>1, <1>4, <1>5, ReplaceOld
<1>6. ASSUME NEW x \in Seq(Nat), Above(s, x), x \in DOMAIN Replace(t, L)
      PROVE  x \in DOMAIN t
  <2>1. ASSUME x \notin DOMAIN t PROVE FALSE
    <3>1. PICK p \in L : Above(p, x)
      BY <1>1, <1>6, <2>1, ReplaceGrown
    <3> QED BY <1>3, <1>6, <3>1
  <2> QED BY <2>1
<1> HIDE DEF L
<1>7. SameBelow(t, Replace(t, L), s)
  BY <1>5, <1>6 DEF SameBelow
<1> QED BY <1>7 DEF L

\* So it is the same to inject below one more composite now, or to have done
\* so in the tree that was built.
LEMMA InjectOneMore ==
  ASSUME NEW t, IsTree(t), NEW D \in SUBSET Sends(t), NEW s \in Sends(t) \ D
  PROVE  InjectBelow(Replace(t, LeavesBelow(t, D)), s)
            = Replace(t, LeavesBelow(t, D \cup {s}))
<1> DEFINE L == LeavesBelow(t, D)
           M == DataLeaves(t, s)
           r == Replace(t, L)
<1>1. Bare(t, L) /\ M \in SUBSET {p \in DOMAIN t : IsLeaf(t[p])}
  BY LeavesBelowFacts, LeavesBare DEF DataLeaves
<1>2. Bare(t, M)
  BY <1>1, LeavesBare
<1>3. DOMAIN t \subseteq Seq(Nat) /\ s \in Seq(Nat)
  BY TreeFacts DEF Sends
<1>4. DOMAIN r \subseteq Seq(Nat) /\ SameBelow(t, r, s)
  BY <1>1, ReplaceDomain, OthersApart
<1>5. DataLeaves(r, s) = M
  BY <1>3, <1>4, SameLeaves
<1>6. \A p \in M : StrictlyAbove(s, p)
  BY DEF DataLeaves
<1>7. L \cap M = {}
  <2>1. ASSUME NEW p \in L \cap M PROVE FALSE
    <3>1. PICK d \in D : StrictlyAbove(d, p)
      BY LeavesBelowFacts
    <3>2. Above(s, d) \/ Above(d, s)
      BY <1>1, <1>3, <1>6, <3>1, AboveComparable DEF StrictlyAbove, Sends
    <3> QED BY <3>2, SendsApart
  <2> QED BY <2>1
<1>8. Bare(r, M)
  <2>1. M \subseteq DOMAIN r
    BY <1>5 DEF DataLeaves
  <2>2. ASSUME NEW p \in M, NEW x \in DOMAIN r, Above(p, x) PROVE x = p
    <3>1. Above(s, x)
      BY <1>1, <1>3, <1>4, <1>6, <2>2, AboveTransitive DEF StrictlyAbove
    <3>2. x \in DOMAIN t
      BY <1>4, <3>1 DEF SameBelow
    <3> QED BY <1>2, <2>2, <3>2 DEF Bare
  <2> QED BY <1>4, <2>1, <2>2 DEF Bare
<1>9. Replace(r, M) = Replace(t, L \cup M)
  BY <1>1, <1>2, <1>7, <1>8, ReplaceTwice
<1>10. L \cup M = LeavesBelow(t, D \cup {s})
  BY LeavesBelowFacts
<1> QED BY <1>5, <1>9, <1>10 DEF InjectBelow

-----------------------------------------------------------------------------
(* The invariant *)

\* Before the parser is done, and when it does not get that far.
Unparsed == built = Null /\ tree = Null /\ sends = {}

\* From then on the tree is the one that was built, with every leaf below
\* some composites that send replaced: composites that are not to come.
Parsed ==
    /\ IsTree(built)
    /\ sends \subseteq Sends(built)
    /\ \E D \in SUBSET Sends(built) :
          /\ D \cap sends = {}
          /\ tree = Replace(built, LeavesBelow(built, D))

InjectionInv ==
    \/ /\ pc \in {"parse", "segfault", "overflow"}
       /\ Unparsed
    \/ /\ pc \notin {"parse", "overflow"}
       /\ pc = "inject" => tree = built
       /\ Parsed

LEMMA InjectionInvInit == InjectionInit => InjectionInv
BY DEF InjectionInit, InjectionInv, Unparsed

LEMMA BuiltParsed ==
  ASSUME NEW t, IsTree(t)
  PROVE  t = Replace(t, LeavesBelow(t, {}))
<1>1. LeavesBelow(t, {}) = {}
  BY DEF LeavesBelow
<1> QED BY <1>1, ReplaceNone

LEMMA InjectionInvNext == InjectionInv /\ [InjectionNext]_injectionVars => InjectionInv'
<1> SUFFICES ASSUME InjectionInv, [InjectionNext]_injectionVars
             PROVE  InjectionInv'
  OBVIOUS
<1>1. CASE EndParsing
  <2>1. Unparsed
    BY <1>1 DEF EndParsing, InjectionInv
  <2>2. CASE pc' = "inject" /\ IsTree(tree') /\ built' = tree'
    <3>1. tree' = Replace(built', LeavesBelow(built', {}))
      BY <2>2, BuiltParsed
    <3>2. sends' = {} /\ IsTree(built')
      BY <1>1, <2>1, <2>2 DEF EndParsing, Unparsed
    <3>3. Parsed'
      BY <3>1, <3>2 DEF Parsed
    <3> QED BY <2>2, <3>3 DEF InjectionInv
  <2>3. CASE pc' \in {"segfault", "overflow"} /\ UNCHANGED <<built, tree>>
    BY <1>1, <2>1, <2>3 DEF EndParsing, InjectionInv, Unparsed
  <2> QED BY <1>1, <2>2, <2>3 DEF EndParsing
<1>2. CASE FindSendComposite
  <2>1. Parsed /\ tree = built
    BY <1>2 DEF FindSendComposite, InjectionInv
  <2>2. built' = built /\ tree' = built' /\ sends' \subseteq Sends(built')
    BY <1>2, <2>1 DEF FindSendComposite
  <2>3. IsTree(built') /\ tree' = Replace(built', LeavesBelow(built', {}))
    BY <2>1, <2>2, BuiltParsed DEF Parsed
  <2>4. Parsed'
    BY <2>2, <2>3 DEF Parsed
  <2> QED BY <1>2, <2>4 DEF FindSendComposite, InjectionInv
<1>3. CASE Inject
  <2>1. Parsed
    BY <1>3 DEF Inject, InjectionInv
  <2>2. PICK D \in SUBSET Sends(built) :
          /\ D \cap sends = {}
          /\ tree = Replace(built, LeavesBelow(built, D))
    BY <2>1 DEF Parsed
  <2>3. PICK s \in sends : tree' = InjectBelow(tree, s) /\ sends' = sends \ {s}
    BY <1>3 DEF Inject
  <2>4. s \in Sends(built) \ D
    BY <2>1, <2>2, <2>3 DEF Parsed
  <2>5. tree' = Replace(built, LeavesBelow(built, D \cup {s}))
    BY <2>1, <2>2, <2>3, <2>4, InjectOneMore DEF Parsed
  <2>6. built' = built
    BY <1>3 DEF Inject
  <2>7. /\ IsTree(built')
        /\ sends' \subseteq Sends(built')
        /\ D \cup {s} \in SUBSET Sends(built')
        /\ (D \cup {s}) \cap sends' = {}
        /\ tree' = Replace(built', LeavesBelow(built', D \cup {s}))
    BY <2>1, <2>2, <2>3, <2>4, <2>5, <2>6 DEF Parsed
  <2>8. Parsed'
    BY <2>7 DEF Parsed
  <2> QED BY <1>3, <2>8 DEF Inject, InjectionInv
<1>4. CASE UseNoPerformer \/ EndInjection \/ LeaveInjection
  <2>1. /\ Parsed
        /\ UNCHANGED <<built, tree, sends>>
        /\ pc' \in {"segfault", "injected", "run", "exit"}
    BY <1>4 DEF UseNoPerformer, EndInjection, LeaveInjection, InjectionInv
  <2>2. Parsed'
    BY <2>1 DEF Parsed
  <2> QED BY <2>1, <2>2 DEF InjectionInv
<1>5. CASE UNCHANGED injectionVars
  BY <1>5 DEF injectionVars, InjectionInv, Unparsed, Parsed
<1> QED BY <1>1, <1>2, <1>3, <1>4, <1>5 DEF InjectionNext

LEMMA InjectionInvAlways == InjectionSpec => []InjectionInv
BY InjectionInvInit, InjectionInvNext, PTL DEF InjectionSpec

-----------------------------------------------------------------------------
(* Theorems *)

\* What is known of the tree once the parser has made one: D are the
\* composites below which was injected, and L the leaves that were replaced.
Replaced(D, L) ==
    /\ \A s \in D : s \in DOMAIN built /\ Command(built, s) = "send"
    /\ \A p \in L : \E s \in D : p \in DataLeaves(built, s) /\ StrictlyAbove(s, p)
    /\ \A p \in L :
          /\ p \in DOMAIN built
          /\ p \in DOMAIN tree
          /\ tree[p] = InjectLeaf(built[p])[<< >>]
          /\ \A q \in DOMAIN InjectLeaf(built[p]) :
                p \o q \in DOMAIN tree /\ tree[p \o q] = InjectLeaf(built[p])[q]
    /\ \A x \in DOMAIN built : x \notin L => x \in DOMAIN tree /\ tree[x] = built[x]
    /\ \A x \in DOMAIN tree : x \notin DOMAIN built \/ x \in L =>
          \E p \in L : \E q \in DOMAIN InjectLeaf(built[p]) :
             /\ Above(p, x)
             /\ x = p <=> q = << >>
             /\ tree[x] = InjectLeaf(built[p])[q]
    /\ \A x \in DOMAIN built : ~IsLeaf(built[x]) => Command(tree, x) = Command(built, x)

LEMMA ParsedFacts ==
  ASSUME Parsed
  PROVE  /\ IsTree(built)
         /\ DOMAIN tree \subseteq Seq(Nat)
         /\ \E D, L : Replaced(D, L)
<1>1. PICK D \in SUBSET Sends(built) : tree = Replace(built, LeavesBelow(built, D))
  BY DEF Parsed
<1>2. PICK L : L = LeavesBelow(built, D)
  OBVIOUS
<1>3. IsTree(built) /\ tree = Replace(built, L)
  BY <1>1, <1>2 DEF Parsed
<1>4. L \in SUBSET {p \in DOMAIN built : IsLeaf(built[p])}
  BY <1>2, LeavesBelowFacts
<1>5. Bare(built, L)
  BY <1>3, <1>4, LeavesBare
<1>6. DOMAIN tree \subseteq Seq(Nat)
  BY <1>3, <1>5, ReplaceDomain
<1>7. \A s \in D : s \in DOMAIN built /\ Command(built, s) = "send"
  BY DEF Sends
<1>8. \A p \in L : \E s \in D : p \in DataLeaves(built, s) /\ StrictlyAbove(s, p)
  BY <1>2, LeavesBelowFacts
<1>9. ASSUME NEW p \in L
      PROVE  /\ p \in DOMAIN built
             /\ p \in DOMAIN tree
             /\ tree[p] = InjectLeaf(built[p])[<< >>]
  BY <1>3, <1>4, <1>5, ReplaceAt
<1>10. ASSUME NEW p \in L, NEW q \in DOMAIN InjectLeaf(built[p])
       PROVE  p \o q \in DOMAIN tree /\ tree[p \o q] = InjectLeaf(built[p])[q]
  BY <1>3, <1>5, ReplaceNew
<1>11. ASSUME NEW x \in DOMAIN built, x \notin L
       PROVE  x \in DOMAIN tree /\ tree[x] = built[x]
  BY <1>3, <1>5, <1>11, ReplaceOld
<1>12. ASSUME NEW x \in DOMAIN tree, x \notin DOMAIN built \/ x \in L
       PROVE  \E p \in L : \E q \in DOMAIN InjectLeaf(built[p]) :
                 /\ Above(p, x)
                 /\ x = p <=> q = << >>
                 /\ tree[x] = InjectLeaf(built[p])[q]
  <2>1. PICK p \in L : \E q \in DOMAIN InjectLeaf(built[p]) :
            x = p \o q /\ Above(p, x) /\ (x = p <=> q = << >>)
    BY <1>3, <1>5, <1>12, ReplaceGrown
  <2>2. PICK q \in DOMAIN InjectLeaf(built[p]) :
            x = p \o q /\ Above(p, x) /\ (x = p <=> q = << >>)
    BY <2>1
  <2> QED BY <1>10, <2>2
<1>13. ASSUME NEW x \in DOMAIN built, ~IsLeaf(built[x])
       PROVE  Command(tree, x) = Command(built, x)
  BY <1>3, <1>4, <1>13, CommandKept
<1>14. Replaced(D, L)
  BY <1>7, <1>8, <1>9, <1>10, <1>11, <1>12, <1>13 DEF Replaced
<1> QED BY <1>3, <1>6, <1>14

\* Injection keeps the test that was written, whatever tree the parser made:
\* createFaults leaves the leaf as alternative 0 of the or node that inject
\* puts in its place, and nothing else of the tree changes.
THEOREM KeepsTheTest == InjectionSpec => []InjectionKeeps
<1>1. InjectionInv => InjectionKeeps
  <2> SUFFICES ASSUME InjectionInv PROVE InjectionKeeps
    OBVIOUS
  <2>1. CASE Unparsed
    <3>1. DOMAIN tree = DOMAIN built
      BY <2>1 DEF Unparsed
    <3>2. ASSUME NEW p \in DOMAIN built
          PROVE  p \in DOMAIN tree /\ tree[p] = [built[p] EXCEPT !.live = tree[p].live]
      BY <2>1 DEF Unparsed, Null, Label
    <3> QED BY <3>1, <3>2 DEF InjectionKeeps
  <2>2. CASE Parsed
    <3>1. PICK D, L : Replaced(D, L)
      BY <2>2, ParsedFacts
    <3>2. \A p \in DOMAIN built :
             /\ built[p] \in [kind : {"rule", "group", "repeat", "or",
                                      "string", "hex", "command"},
                              name : STRING, live : {TRUE}]
             /\ p \in Seq(Nat)
      <4>1. IsTree(built)
        BY <2>2, ParsedFacts
      <4> QED BY <4>1, TreeFacts DEF IsTree
    <3>3. ASSUME NEW p \in L, built[p].kind = "string", built[p].name # ""
          PROVE  /\ tree[p] = Injected
                 /\ Append(p, 1) \in DOMAIN tree
                 /\ tree[Append(p, 1)] = built[p]
                 /\ \E q \in DOMAIN built :
                      StrictlyAbove(q, p) /\ Command(built, q) = "send"
      <4> DEFINE one == <<1>>
      <4>1. one \in DOMAIN InjectLeaf(built[p]) /\ InjectLeaf(built[p])[one] = built[p]
        BY <3>3, StringInjected
      <4>2. p \in DOMAIN built /\ p \o one = Append(p, 1)
        BY <3>1, <3>2 DEF Replaced
      <4> HIDE DEF one
      <4>3. p \o one \in DOMAIN tree /\ tree[p \o one] = InjectLeaf(built[p])[one]
        BY <3>1, <4>1, Zenon DEF Replaced
      <4>4. tree[p] = Injected
        BY <3>1, <3>3, StringInjected, ZenonT(40) DEF Replaced
      <4>5. \E q \in DOMAIN built : StrictlyAbove(q, p) /\ Command(built, q) = "send"
        BY <3>1 DEF Replaced
      <4> QED BY <4>1, <4>2, <4>3, <4>4, <4>5
    <3>4. ASSUME NEW p \in L, built[p].kind # "string" \/ built[p].name = ""
          PROVE  tree[p] = [built[p] EXCEPT !.live = tree[p].live]
      <4>1. p \in DOMAIN built /\ tree[p] = InjectLeaf(built[p])[<< >>]
        BY <3>1 DEF Replaced
      <4>2. tree[p] = IF built[p].kind = "string"
                      THEN [built[p] EXCEPT !.live = FALSE] ELSE built[p]
        BY <3>4, <4>1, OtherInjected
      <4> QED BY <3>2, <4>1, <4>2
    <3>5. ASSUME NEW p \in DOMAIN built, p \notin L
          PROVE  tree[p] = [built[p] EXCEPT !.live = tree[p].live]
      <4>1. tree[p] = built[p]
        BY <3>1, <3>5 DEF Replaced
      <4> QED BY <3>2, <4>1
    <3>6. ASSUME NEW p \in DOMAIN tree \ DOMAIN built
          PROVE  \E q \in DOMAIN built : StrictlyAbove(q, p) /\ tree[q] = Injected
      <4>1. PICK q \in L : \E x \in DOMAIN InjectLeaf(built[q]) :
               Above(q, p) /\ (p = q <=> x = << >>)
        BY <3>1 DEF Replaced
      <4>2. q \in DOMAIN built /\ p # q
        BY <3>1 DEF Replaced
      <4>3. built[q].kind = "string" /\ built[q].name # ""
        BY <4>1, <4>2, NewNodes
      <4> QED BY <3>3, <4>1, <4>2, <4>3 DEF StrictlyAbove
    <3>7. \A p \in DOMAIN built : p \in DOMAIN tree
      BY <3>1 DEF Replaced
    <3> QED BY <3>3, <3>4, <3>5, <3>6, <3>7 DEF InjectionKeeps
  <2> QED BY <2>1, <2>2 DEF InjectionInv
<1> QED BY <1>1, InjectionInvAlways, PTL

\* inject deletes the leaf that it replaces after createFaults has copied it:
\* only an empty string, of which there is no copy, stays in the tree.
THEOREM DeletesOnlyEmpty == InjectionSpec => []DanglingOnlyEmpty
<1>1. InjectionInv => DanglingOnlyEmpty
  <2> SUFFICES ASSUME InjectionInv, NEW p \in DOMAIN tree, ~tree[p].live
               PROVE  tree[p].kind = "string" /\ tree[p].name = ""
    BY DEF DanglingOnlyEmpty
  <2>1. CASE Unparsed
    BY <2>1 DEF Unparsed, Null, Label
  <2>2. CASE Parsed
    <3>1. PICK D, L : Replaced(D, L)
      BY <2>2, ParsedFacts
    <3>2. \A x \in DOMAIN built :
             built[x] \in [kind : {"rule", "group", "repeat", "or",
                                   "string", "hex", "command"},
                           name : STRING, live : {TRUE}]
      BY <2>2, ParsedFacts DEF IsTree
    <3>3. p \notin DOMAIN built \/ p \in L
      BY <3>1, <3>2 DEF Replaced
    <3>4. PICK x \in L : \E q \in DOMAIN InjectLeaf(built[x]) :
                    tree[p] = InjectLeaf(built[x])[q]
      BY <3>1, <3>3 DEF Replaced
    <3>5. PICK q \in DOMAIN InjectLeaf(built[x]) : tree[p] = InjectLeaf(built[x])[q]
      BY <3>4
    <3>6. x \in DOMAIN built /\ built[x].live = TRUE
      BY <3>1, <3>2 DEF Replaced
    <3>7. Injected.live /\ Label("rule", "anomaly").live /\ Label("hex", "fault").live
      BY DEF Injected, Label
    <3>8. q = << >>
      BY <3>5, <3>6, <3>7, NewNodes
    <3>9. tree[p] = InjectLeaf(built[x])[<< >>]
      BY <3>5, <3>8
    <3>10. built[x].kind = "string" /\ built[x].name = ""
      <4>1. CASE built[x].kind = "string" /\ built[x].name # ""
        BY <3>7, <3>9, <4>1, StringInjected
      <4>2. CASE built[x].kind # "string"
        BY <3>6, <3>9, <4>2, OtherInjected
      <4> QED BY <4>1, <4>2
    <3>11. tree[p] = [built[x] EXCEPT !.live = FALSE]
      BY <3>9, <3>10, OtherInjected
    <3> QED BY <3>2, <3>6, <3>10, <3>11
  <2> QED BY <2>1, <2>2 DEF InjectionInv
<1> QED BY <1>1, InjectionInvAlways, PTL

\* Injection leaves the operands of variable and memorize commands alone:
\* getDataSons and the actions that getAction does not make keep inject away
\* from them, and the anomalies that are there do not change who is who.
THEOREM KeepsOperands == InjectionSpec => []OperandsKept
<1>1. InjectionInv => OperandsKept
  <2> SUFFICES ASSUME InjectionInv, NEW q \in DOMAIN tree, tree[q] = Injected
               PROVE  \E s \in DOMAIN tree :
                         /\ StrictlyAbove(s, q) /\ Command(tree, s) = "send"
                         /\ \A p \in DOMAIN tree :
                               Above(s, p) /\ StrictlyAbove(p, q) =>
                                  /\ Command(tree, p) # "variable"
                                  /\ Command(tree, p) = "memorize" => q[Len(p) + 1] = 3
    BY DEF OperandsKept
  <2>1. Injected.kind = "or" /\ Injected.name = "injected"
    BY DEF Injected, Label
  <2>2. CASE Unparsed
    BY <2>1, <2>2 DEF Unparsed, Null, Label
  <2>3. CASE Parsed
    <3>1. PICK D, L : Replaced(D, L)
      BY <2>3, ParsedFacts
    <3>2. IsTree(built)
      BY <2>3, ParsedFacts
    <3>3. q \notin DOMAIN built \/ q \in L
      <4>1. \A x \in DOMAIN built : built[x] # Injected
        BY <3>2, TreeFacts
      <4> QED BY <3>1, <4>1 DEF Replaced
    <3>4. PICK x \in L : \E y \in DOMAIN InjectLeaf(built[x]) :
                    /\ q = x <=> y = << >>
                    /\ tree[q] = InjectLeaf(built[x])[y]
      BY <3>1, <3>3 DEF Replaced
    <3>5. PICK y \in DOMAIN InjectLeaf(built[x]) :
                    /\ q = x <=> y = << >>
                    /\ tree[q] = InjectLeaf(built[x])[y]
      BY <3>4
    <3>6. /\ Label("rule", "anomaly") # Injected
          /\ Label("hex", "fault") # Injected
      <4>1. /\ Label("rule", "anomaly").kind = "rule"
            /\ Label("hex", "fault").kind = "hex"
        BY DEF Label
      <4> QED BY <2>1, <4>1
    <3>7. q = x
      <4>1. ASSUME q # x PROVE FALSE
        <5>1. built[x].kind = "string" /\ InjectLeaf(built[x])[y] = built[x]
          BY <2>1, <3>5, <3>6, <4>1, NewNodes
        <5> QED BY <2>1, <3>5, <5>1
      <4> QED BY <4>1
    <3>8. q \in DOMAIN built
      BY <3>1, <3>7 DEF Replaced
    <3>9. PICK s \in D : q \in DataLeaves(built, s) /\ StrictlyAbove(s, q)
      BY <3>1, <3>7 DEF Replaced
    <3>10. /\ s \in DOMAIN built /\ Command(built, s) = "send"
           /\ s \in Seq(Nat)
      BY <3>1, <3>2, TreeFacts DEF Replaced
    <3>11. ASSUME NEW p \in Seq(Nat), Above(s, p), StrictlyAbove(p, q)
           PROVE  /\ p \in DOMAIN built
                  /\ Command(tree, p) = Command(built, p)
      <4>1. p \in DOMAIN built /\ ~IsLeaf(built[p])
        BY <3>2, <3>8, <3>11, TreeAbove DEF StrictlyAbove
      <4> QED BY <3>1, <4>1 DEF Replaced
    <3>12. s \in DOMAIN tree
      BY <3>1, <3>10 DEF Replaced
    <3>13. Command(tree, s) = "send"
      BY <3>9, <3>10, <3>11, AboveSelf
    <3>14. ASSUME NEW p \in DOMAIN tree, Above(s, p), StrictlyAbove(p, q)
           PROVE  /\ Command(tree, p) # "variable"
                  /\ Command(tree, p) = "memorize" => q[Len(p) + 1] = 3
      <4>1. p \in Seq(Nat)
        BY <2>3, ParsedFacts
      <4>2. p \in DOMAIN built /\ Command(tree, p) = Command(built, p)
        BY <3>11, <3>14, <4>1
      <4>3. IsDataSon(built, p, q[Len(p) + 1])
        BY <3>9, <3>14, <4>2 DEF DataLeaves
      <4> QED BY <4>2, <4>3 DEF IsDataSon
    <3> QED BY <3>9, <3>12, <3>13, <3>14
  <2> QED BY <2>2, <2>3 DEF InjectionInv
<1> QED BY <1>1, InjectionInvAlways, PTL
=============================================================================
