----------------------------- MODULE MCGrammar ------------------------------
(***************************************************************************)
(* Files of a few rules for the names "r" and "s", for Grammar.            *)
(***************************************************************************)
EXTENDS Grammar

Str(name) == [is |-> "string", name |-> name]
Hex == [is |-> "hex", name |-> "%x00"]
Ref(name) == [is |-> "rule", name |-> name]
Group(command, alt) == [is |-> "group", command |-> command, alt |-> alt]
Twice(e) == [is |-> "repeat", name |-> "2", of |-> e]

\* Alternations: single elements, several, several alternatives, groups of
\* either, and a reference.
Alternations ==
    { <<<<Str("x")>>>>,
      <<<<Str("x"), Str("")>>>>,
      <<<<Ref("s")>>>>,
      <<<<Ref("s"), Hex>>>>,
      <<<<Str("x")>>, <<Ref("s")>>, <<Hex>>>>,
      <<<<Str("x"), Hex>>, <<Str("y")>>>>,
      <<<<Group("none", <<<<Str("y"), Ref("s")>>>>)>>, <<Twice(Str("x"))>>>>,
      <<<<Twice(Group("none", <<<<Str("y")>>, <<Hex>>>>))>>>>,
      <<<<Group("send", <<<<Str("y"), Group("none", <<<<Str("x")>>, <<Ref("s")>>>>)>>>>)>>>>,
      <<<<Group("send", <<<<Str("y")>>>>),
          Group("send", <<<<Ref("s"),
                            Group("memorize", <<<<Str("v"), Str("x")>>>>),
                            Group("variable", <<<<Str("v")>>>>)>>>>)>>>> }

Rules ==
    [name : {"r", "s"}, op : {"="}, command : {"none", "send"}, alt : Alternations]
    \cup
    [name : {"r", "s"}, op : {"=/"}, command : {"none"}, alt : Alternations]
=============================================================================
