------------------------------ MODULE Grammar -------------------------------
(***************************************************************************)
(* From an ABNF file to the tree that is run: the rules as the parser      *)
(* reduces them (parser.yy, driver.cc, symbol.cc) and Composite::buildTree. *)
(* What main() does with the tree is in Injection.                         *)
(*                                                                         *)
(* While it is built a node is a value with its sons in it.  That is       *)
(* enough since every reference to a rule is expanded into a copy.         *)
(***************************************************************************)
EXTENDS Injection, FiniteSets

CONSTANTS
    Rule,       \* the rules a file may have
    MaxRules    \* bound: rules of a file

ASSUME GrammarAssumption == MaxRules \in Nat

VARIABLES
    rules,      \* the rules that were read
    values,     \* ParserDriver::values: the first definition of each name
    valid       \* ABNFParser::parsingResult

vars == <<pc, rules, values, built, tree, valid, sends, performer>>

Node(kind, name, sons) == [kind |-> kind, name |-> name, sons |-> sons]

-----------------------------------------------------------------------------
(* Semantic actions.  An alternation is a sequence of concatenations, which *)
(* are sequences of elements.                                               *)

\* Symbol::addTreeLink: or nodes are merged, the new sons in front.
TreeLink(start, nodes) ==
    LET RECURSIVE Link(_, _)
        Link(node, rest) ==
            IF rest = << >> THEN node
            ELSE LET end == Head(rest)
                 IN Link([node EXCEPT !.sons =
                             IF IsOr(node) /\ IsOr(end) THEN end.sons \o @
                             ELSE Append(@, end)], Tail(rest))
    IN Link(start, nodes)

\* A group or the elements of a rule may begin with a command.
CommandNode(command) ==
    IF command = "none" THEN << >> ELSE <<Node("command", command, << >>)>>

\* The nodes of an alternation: those of a concatenation, or one or node to
\* which every node of every concatenation is linked.
\* An option in brackets is made like a group, and is never left out.
RECURSIVE ElementNode(_), Nodes(_)
ElementNode(e) ==
    CASE e.is \in {"string", "hex", "rule"} -> Node(e.is, e.name, << >>)
      [] e.is = "group" -> TreeLink(Node("group", "()", << >>),
                                    CommandNode(e.command) \o Nodes(e.alt))
      [] e.is = "repeat" -> TreeLink(Node("repeat", e.name, << >>),
                                     <<ElementNode(e.of)>>)
Nodes(alt) ==
    LET last == alt[Len(alt)]
        concatenation == [i \in 1 .. Len(last) |-> ElementNode(last[i])]
    IN IF Len(alt) = 1 THEN concatenation
       ELSE <<TreeLink(TreeLink(Node("or", "/", << >>),
                                Nodes(SubSeq(alt, 1, Len(alt) - 1))),
                       concatenation)>>

\* Several nodes become one group.
Grouped(nodes) ==
    IF Len(nodes) = 1 THEN nodes[1] ELSE Node("group", "()", nodes)

\* Mutant: an or node that is there is not used again, its sons are.
IncrAlternativeSpread(sons, nodes) ==
    <<Node("or", "/", sons \o <<Grouped(nodes)>>)>>

\* ParserDriver::addIncrAlternative: the new alternative goes behind what was
\* there, as the second one, or in front of an or node that was there.
IncrAlternative(sons, nodes) ==
    LET sonsOfA == Grouped(sons)
        new == Grouped(nodes)
    IN IF IsOr(sonsOfA)
       THEN <<[sonsOfA EXCEPT !.sons = <<new>> \o @]>>
       ELSE <<Node("or", "/", <<sonsOfA, new>>)>>

-----------------------------------------------------------------------------
(* The tree *)

\* Composite::buildTree expands each rule by copies of the sons of its first
\* definition; `path` holds the rules that are being expanded.  Expanding one
\* of them again would not end: there the node is marked.
RECURSIVE BuildTree(_, _, _)
BuildTree(node, defs, path) ==
    LET known == node.kind = "rule" /\ node.name \in DOMAIN defs
        sons == IF known THEN defs[node.name] ELSE node.sons
        below == IF known THEN path \cup {node.name} ELSE path
    IN IF known /\ node.name \in path
       THEN [node EXCEPT !.kind = "endless"]
       ELSE [node EXCEPT !.sons =
                [i \in DOMAIN sons |-> BuildTree(sons[i], defs, below)]]

\* The same tree, as a function from positions.
RECURSIVE Endless(_), Positions(_)
Endless(node) ==
    \/ node.kind = "endless"
    \/ \E i \in DOMAIN node.sons : Endless(node.sons[i])
Positions(node) ==
    LET below == [i \in DOMAIN node.sons |-> Positions(node.sons[i])]
    IN [p \in {<< >>} \cup UNION {{<<i>> \o q : q \in DOMAIN below[i]} :
                                   i \in DOMAIN below} |->
           IF p = << >> THEN Label(node.kind, node.name)
           ELSE below[Head(p)][Tail(p)]]

\* Mutant: the rules below the first one are not marked as referenced.
UnreferencedBelow(t, defs) ==
    DOMAIN defs \ {t[<< >>].name}

\* undefinedRules, and checkUnreferencedSymbols.
Undefined(t) ==
    {p \in DOMAIN t : Append(p, 1) \notin DOMAIN t /\ ~IsLeaf(t[p])}
Unreferenced(t, defs) ==
    DOMAIN defs \ {t[p].name : p \in {q \in DOMAIN t : t[q].kind = "rule"}}

-----------------------------------------------------------------------------
(* main() *)

Init ==
    /\ InjectionInit
    /\ rules = << >>
    /\ values = [n \in {} |-> << >>]
    /\ valid = FALSE

Insert(defs, name, sons) ==
    [n \in DOMAIN defs \cup {name} |-> IF n = name THEN sons ELSE defs[n]]

\* rule: "rulename" = elements.  addValue keeps the first of a name.
DefineRule(rule) ==
    /\ pc = "parse"
    /\ Len(rules) < MaxRules
    /\ rule.op = "="
    /\ rules' = Append(rules, rule)
    /\ values' = IF rule.name \in DOMAIN values THEN values
                 ELSE Insert(values, rule.name,
                             CommandNode(rule.command) \o Nodes(rule.alt))
    /\ UNCHANGED <<pc, built, tree, valid, sends, performer>>

\* Mutant: main() goes on without a tree.
AddAlternativeGoesOn(rule) ==
    /\ pc = "parse"
    /\ Len(rules) < MaxRules
    /\ rule.op = "=/"
    /\ rules' = Append(rules, rule)
    /\ IF rule.name \in DOMAIN values
       THEN /\ values' = Insert(values, rule.name,
                                IncrAlternative(values[rule.name],
                                                Nodes(rule.alt)))
            /\ UNCHANGED pc
       ELSE pc' = "inject" /\ UNCHANGED values
    /\ UNCHANGED <<built, tree, valid, sends, performer>>

\* rule: "rulename" =/ elements.  Without an earlier definition the parser
\* aborts: parse() goes on without a tree, and main() uses it.
AddAlternative(rule) ==
    /\ pc = "parse"
    /\ Len(rules) < MaxRules
    /\ rule.op = "=/"
    /\ rules' = Append(rules, rule)
    /\ IF rule.name \in DOMAIN values
       THEN /\ values' = Insert(values, rule.name,
                                IncrAlternative(values[rule.name],
                                                Nodes(rule.alt)))
            /\ UNCHANGED pc
       ELSE /\ pc' = "segfault"
            /\ UNCHANGED values
    /\ UNCHANGED <<built, tree, valid, sends, performer>>

\* The end of the file: the tree of the first rule, or the end of the stack.
Build ==
    /\ pc = "parse"
    /\ IF rules = << >>
       THEN pc' = "segfault" /\ UNCHANGED <<built, tree, valid>>
       ELSE LET t == BuildTree(Node("rule", rules[1].name, << >>), values, {})
            IN IF Endless(t)
               THEN pc' = "overflow" /\ UNCHANGED <<built, tree, valid>>
               ELSE /\ pc' = "inject"
                    /\ tree' = Positions(t)
                    /\ built' = tree'
                    /\ valid' = /\ Undefined(tree') = {}
                                /\ Unreferenced(tree', values) = {}
    /\ UNCHANGED <<rules, values, sends, performer>>

\* exit(1), or the test cases.
Run ==
    /\ LeaveInjection
    /\ pc' = IF valid THEN "run" ELSE "exit"

\* getAction, and what main() does for -j.
InjectAnomalies ==
    \/ FindSendComposite
    \/ Inject
    \/ UseNoPerformer
    \/ EndInjection

Done ==
    /\ pc \in {"run", "exit", "segfault", "overflow"}
    /\ UNCHANGED vars

Next ==
    \/ \E rule \in Rule : DefineRule(rule) \/ AddAlternative(rule)
    \/ Build
    \/ (InjectAnomalies \/ Run) /\ UNCHANGED <<rules, values, valid>>
    \/ Done

Spec == Init /\ [][Next]_vars /\ WF_vars(Build \/ InjectAnomalies \/ Run)

-----------------------------------------------------------------------------
(* What the rules mean as ABNF *)

\* The rules that define a name: its first definition and the alternatives
\* that were added to it.
Definitions(name) ==
    LET of == {i \in DOMAIN rules : rules[i].name = name}
        first == {i \in of : rules[i].op = "=" /\ \A k \in of : i <= k}
    IN {rules[i] : i \in first \cup {i \in of : rules[i].op = "=/"}}

RECURSIVE NamesIn(_)
NamesIn(alt) ==
    UNION {LET e == alt[i][k]
           IN CASE e.is = "rule" -> {e.name}
                [] e.is = "group" -> NamesIn(e.alt)
                [] e.is = "repeat" -> NamesIn(<<<<e.of>>>>)
                [] OTHER -> {}
           : <<i, k>> \in {p \in (1 .. 9) \X (1 .. 9) :
                              p[1] \in DOMAIN alt /\ p[2] \in DOMAIN alt[p[1]]}}

Uses(name) == UNION {NamesIn(d.alt) : d \in Definitions(name)}

\* The names that are used by these names, and by those, and so on.
RECURSIVE Reach(_)
Reach(names) ==
    LET more == names \cup UNION {Uses(n) : n \in names}
    IN IF more = names THEN names ELSE Reach(more)

Reachable == Reach({rules[1].name})
Cyclic == \E n \in Reachable : n \in Reach(Uses(n))
Defined == {rules[i].name : i \in DOMAIN rules}

\* The sequences of leaves that an alternation, an element or a name stands
\* for; a repetition is "2".
Then(A, B) == {a \o b : a \in A, b \in B}
RECURSIVE Strings(_), ElementStrings(_), ConcatenationStrings(_)
Strings(alt) == UNION {ConcatenationStrings(alt[i]) : i \in DOMAIN alt}
ConcatenationStrings(c) ==
    IF c = << >> THEN {<< >>}
    ELSE Then(ElementStrings(Head(c)), ConcatenationStrings(Tail(c)))
ElementStrings(e) ==
    CASE e.is = "rule" -> UNION {Strings(d.alt) : d \in Definitions(e.name)}
      [] e.is = "group" -> Strings(e.alt)
      [] e.is = "repeat" -> Then(ElementStrings(e.of), ElementStrings(e.of))
      [] OTHER -> {<<e.name>>}

\* The sequences of leaves that a run of a node can consist of.
RECURSIVE Runs(_, _)
Runs(t, p) ==
    LET RECURSIVE From(_)
        From(i) == IF Append(p, i) \notin DOMAIN t THEN {<< >>}
                   ELSE Then(Runs(t, Append(p, i)), From(i + 1))
        sons == {q \in DOMAIN t : StrictlyAbove(p, q) /\ Len(q) = Len(p) + 1}
    IN CASE t[p].kind = "command" -> {<< >>}
         [] IsLeaf(t[p]) /\ t[p].kind # "command" -> {<<t[p].name>>}
         [] IsOr(t[p]) -> UNION {Runs(t, q) : q \in sons}
         [] t[p].kind = "repeat" -> Then(From(1), From(1))
         [] OTHER -> From(1)

\* In an alternation with several alternatives each is a single element:
\* those of several elements are written as groups.
RECURSIVE WellGrouped(_)
WellGrouped(alt) ==
    /\ Len(alt) > 1 => \A i \in DOMAIN alt : Len(alt[i]) = 1
    /\ \A i \in DOMAIN alt : \A k \in DOMAIN alt[i] :
          alt[i][k].is = "group" => WellGrouped(alt[i][k].alt)

-----------------------------------------------------------------------------
(* Properties *)

\* If alternatives of several elements are written as groups, the tree runs
\* exactly what the rules mean as ABNF, alternatives added by =/ included.
\* (Otherwise each element would be an alternative of its own.)
BuildsLanguage ==
    pc = "inject" /\ valid /\ (\A i \in DOMAIN rules : WellGrouped(rules[i].alt))
        => Runs(tree, << >>) = UNION {Strings(d.alt) : d \in Definitions(rules[1].name)}

\* What becomes of a file: buildTree does not end exactly if a rule that is
\* used uses itself; tests run only if every name that is used is defined
\* and every name that is defined is used; anything worse happens only to
\* an empty file, to =/ of a name that is not defined, and with -j2 to -j4.
Diagnosed ==
    /\ pc = "overflow" => Cyclic
    /\ pc \in {"inject", "sends", "injected", "run", "exit"} => ~Cyclic
    /\ pc \in {"run", "exit"} =>
          (pc = "run" <=> Reachable = Defined)
    /\ pc = "segfault" =>
          \/ rules = << >>
          \/ performer \in 2 .. 4
          \/ \E i \in DOMAIN rules :
                /\ rules[i].op = "=/"
                /\ \A k \in 1 .. i - 1 : rules[k].name # rules[i].name

\* What main() does from the end of the file on is what Injection describes:
\* the parser hands it a proper tree once, or none, and nothing else of the
\* parser touches it.
ImplementsInjection == InjectionSpec

\* "invalid rule: a symbol can't be defined by itself" (parser.yy): a file
\* with such a rule is rejected.
SelfDefinitionRejected ==
    pc = "overflow" =>
        \A i \in DOMAIN rules : rules[i].name \notin NamesIn(rules[i].alt)
=============================================================================
