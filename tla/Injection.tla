----------------------------- MODULE Injection ------------------------------
(***************************************************************************)
(* The automatic injection of anomalies (option -j): main(),               *)
(* AnomalyInjector and the injector performers, on the tree that the       *)
(* parser made.                                                            *)
(*                                                                         *)
(* A tree is a function from the positions of its nodes to their labels.   *)
(* The position of a node is the sequence of the numbers of the sons on    *)
(* the way to it, so the root is at << >>.                                 *)
(***************************************************************************)
EXTENDS Naturals, Sequences

CONSTANT Performer   \* values of the option -j

ASSUME PerformerAssumption == Performer \subseteq Nat

VARIABLES
    pc,         \* where main() is
    built,      \* the tree as it was built
    tree,       \* and as it is
    sends,      \* send_actions: what is left of them
    performer   \* -j

injectionVars == <<pc, built, tree, sends, performer>>

\* A node that was deleted where it is is not live.
Label(kind, name) == [kind |-> kind, name |-> name, live |-> TRUE]
Null == [p \in {<< >>} |-> Label("null", "")]

\* dynamic_cast and isLeaf.
IsOr(label) == label.kind = "or"
IsLeaf(label) == label.kind \in {"string", "hex", "command"}

\* Position p is that of a node above q, or of q itself.
Above(p, q) == Len(p) <= Len(q) /\ \A k \in 1 .. Len(p) : p[k] = q[k]
StrictlyAbove(p, q) == Above(p, q) /\ p # q

\* What is left of x below p.
Rest(p, x) == SubSeq(x, Len(p) + 1, Len(x))

\* What buildTree makes.  Sons are numbered from 1 and leaves have none.
IsTree(t) ==
    /\ t \in [DOMAIN t -> [kind : {"rule", "group", "repeat", "or",
                                   "string", "hex", "command"},
                           name : STRING, live : {TRUE}]]
    /\ << >> \in DOMAIN t
    /\ \A p \in DOMAIN t :
          /\ p \in Seq(Nat \ {0})
          /\ IsOr(t[p]) => t[p].name # "injected"
          /\ \A k \in 0 .. Len(p) - 1 :
                LET above == SubSeq(p, 1, k)
                IN /\ above \in DOMAIN t
                   /\ ~IsLeaf(t[above])
                   /\ \A i \in 1 .. p[k + 1] : Append(above, i) \in DOMAIN t

-----------------------------------------------------------------------------
(* AnomalyInjector *)

\* The command an action is made from: that of the first son of a composite.
Command(t, p) ==
    IF /\ t[p].kind \in {"rule", "group"}
       /\ Append(p, 1) \in DOMAIN t
       /\ t[Append(p, 1)].kind = "command"
    THEN t[Append(p, 1)].name ELSE "none"

\* findSendComposite: the composites that send and are below no other one.
\* It looks at sons only, not at the root.
Sends(t) ==
    LET sending == {p \in DOMAIN t \ {<< >>} : Command(t, p) = "send"}
    IN {p \in sending : \A q \in sending : Above(q, p) => q = p}

\* It finds them in this order.
Before(p, q) ==
    \E k \in 1 .. Len(p) : /\ k <= Len(q)
                           /\ p[k] < q[k]
                           /\ \A j \in 1 .. k - 1 : p[j] = q[j]

\* getAction of the sending composite s made actions for what is below it,
\* but not for what is below or and repeat nodes.
Acted(t, s, p) ==
    \A q \in DOMAIN t :
        Above(s, q) /\ StrictlyAbove(q, p) => t[q].kind \notin {"or", "repeat"}

\* Mutant: the commands' own operands are data too.
IsDataSonAll(t, p, i) == TRUE

\* getDataSons: "memorize" has one, "variable" none.
IsDataSon(t, p, i) ==
    /\ Command(t, p) # "variable"
    /\ Command(t, p) = "memorize" => i = 3

\* The leaves that inject(s) comes to: each node on the way has an action
\* that has the next one among its data.
DataLeaves(t, s) ==
    {p \in DOMAIN t :
        /\ IsLeaf(t[p])
        /\ StrictlyAbove(s, p)
        /\ \A q \in DOMAIN t :
              Above(s, q) /\ StrictlyAbove(q, p) =>
                 Acted(t, s, q) /\ IsDataSon(t, q, p[Len(q) + 1])}

\* The anomalies of InjectorPerformer::addFaults.
Faults == 7
Injected == Label("or", "injected")

\* Mutant: the leaf that is kept comes behind the anomalies.
CreateFaultsFirst(leaf) ==
    IF leaf.name = "" THEN [p \in {<< >>} |-> [leaf EXCEPT !.live = FALSE]]
    ELSE [p \in {<< >>} \cup ({<<i>> : i \in 1 .. Faults + 1}
                             \cup {<<i, 1>> : i \in 1 .. Faults}) |->
             CASE p = << >> -> Injected
               [] p = <<Faults + 1>> -> leaf
               [] Len(p) = 1 /\ p # <<Faults + 1>> -> Label("rule", "anomaly")
               [] Len(p) = 2 -> Label("hex", "fault")]

\* createFaults: a copy of the leaf, then the anomalies.  An empty string is
\* returned itself, and inject deletes it.
CreateFaults(leaf) ==
    IF leaf.name = "" THEN [p \in {<< >>} |-> [leaf EXCEPT !.live = FALSE]]
    ELSE [p \in {<< >>} \cup ({<<i>> : i \in 1 .. Faults + 1}
                             \cup {<<i, 1>> : i \in 2 .. Faults + 1}) |->
             CASE p = << >> -> Injected
               [] p = <<1>> -> leaf
               [] Len(p) = 1 /\ p # <<1>> -> Label("rule", "anomaly")
               [] Len(p) = 2 -> Label("hex", "fault")]

\* Mutant: leaves of other kinds are not copied before they are deleted.
InjectLeafItself(leaf) ==
    IF leaf.kind = "string" THEN CreateFaults(leaf)
    ELSE [p \in {<< >>} |-> [leaf EXCEPT !.live = FALSE]]

\* The injector-performer; only strings have anomalies, others are copied.
InjectLeaf(leaf) ==
    IF leaf.kind = "string" THEN CreateFaults(leaf) ELSE [p \in {<< >>} |-> leaf]

\* Leaves give way to what the performer makes of them.
Grown(t, leaves) ==
    UNION {{p \o q : q \in DOMAIN InjectLeaf(t[p])} : p \in leaves}
Replace(t, leaves) ==
    [x \in DOMAIN t \cup Grown(t, leaves) |->
        IF x \in Grown(t, leaves)
        THEN LET p == CHOOSE p \in leaves : Above(p, x)
             IN InjectLeaf(t[p])[Rest(p, x)]
        ELSE t[x]]

\* AnomalyInjector::inject.
InjectBelow(t, s) == Replace(t, DataLeaves(t, s))

-----------------------------------------------------------------------------
(* main() *)

InjectionInit ==
    /\ pc = "parse"
    /\ built = Null
    /\ tree = Null
    /\ sends = {}
    /\ performer \in Performer

\* The parser leaves a tree, or does not get that far.
EndParsing ==
    /\ pc = "parse"
    /\ \/ /\ pc' = "inject"
          /\ IsTree(tree')
          /\ built' = tree'
       \/ /\ pc' \in {"segfault", "overflow"}
          /\ UNCHANGED <<built, tree>>
    /\ UNCHANGED <<sends, performer>>

\* configure makes modes 1 to 4 active.
FindSendComposite ==
    /\ pc = "inject"
    /\ pc' = "sends"
    /\ sends' = IF performer \in 1 .. 4 THEN Sends(tree) ELSE {}
    /\ UNCHANGED <<built, tree, performer>>

\* One iteration of main's loop.  inject has no return value: main() goes on
\* or not.
Inject ==
    /\ pc = "sends"
    /\ performer = 1
    /\ \E s \in sends :
          /\ \A r \in sends \ {s} : Before(s, r)
          /\ tree' = InjectBelow(tree, s)
          /\ sends' = sends \ {s}
    /\ pc' \in {"sends", "injected"}
    /\ UNCHANGED <<built, performer>>

\* There is a performer for -j1 only; the first son of a composite that
\* sends is a leaf, for which the others are used.
UseNoPerformer ==
    /\ pc = "sends"
    /\ performer # 1
    /\ sends # {}
    /\ pc' = "segfault"
    /\ UNCHANGED <<built, tree, sends, performer>>

EndInjection ==
    /\ pc = "sends"
    /\ sends = {}
    /\ pc' = "injected"
    /\ UNCHANGED <<built, tree, sends, performer>>

\* exit(1), or the test cases.
LeaveInjection ==
    /\ pc = "injected"
    /\ pc' \in {"run", "exit"}
    /\ UNCHANGED <<built, tree, sends, performer>>

InjectionNext ==
    \/ EndParsing
    \/ FindSendComposite
    \/ Inject
    \/ UseNoPerformer
    \/ EndInjection
    \/ LeaveInjection

InjectionSpec == InjectionInit /\ [][InjectionNext]_injectionVars

-----------------------------------------------------------------------------
(* Properties *)

\* Injection keeps the test that was written: every node is still where it
\* was, or is alternative 0 of an or node in its place, the one that is run
\* without faults.  What is new is below such an or node, and these are only
\* in the place of leaves below composites that send.
InjectionKeeps ==
    /\ \A p \in DOMAIN built :
          /\ p \in DOMAIN tree
          /\ \/ tree[p] = [built[p] EXCEPT !.live = tree[p].live]
             \/ /\ tree[p] = Injected
                /\ Append(p, 1) \in DOMAIN tree
                /\ tree[Append(p, 1)] = built[p]
                /\ \E q \in DOMAIN built :
                      StrictlyAbove(q, p) /\ Command(built, q) = "send"
    /\ \A p \in DOMAIN tree \ DOMAIN built :
          \E q \in DOMAIN built : StrictlyAbove(q, p) /\ tree[q] = Injected

\* Every leaf that injection deletes is replaced, except an empty string,
\* which stays in the tree though it is deleted.
DanglingOnlyEmpty ==
    \A p \in DOMAIN tree :
        ~tree[p].live => tree[p].kind = "string" /\ tree[p].name = ""

\* "action will use some child for its functionalities and that are not
\* involved when autoinjection system are active" (action.cc): from the
\* composite that sends down to an or node that injection made, no node is a
\* variable command, and a memorize command has it in its data: the operands
\* of these commands, and what is in them, are left alone.
OperandsKept ==
    \A q \in {x \in DOMAIN tree : tree[x] = Injected} :
        \E s \in DOMAIN tree :
            /\ StrictlyAbove(s, q) /\ Command(tree, s) = "send"
            /\ \A p \in DOMAIN tree :
                  Above(s, p) /\ StrictlyAbove(p, q) =>
                     /\ Command(tree, p) # "variable"
                     /\ Command(tree, p) = "memorize" => q[Len(p) + 1] = 3
=============================================================================
