---------------------------- MODULE MCReadFrames ----------------------------
(***************************************************************************)
(* A protocol model with reads, checks, variables and an or node.          *)
(***************************************************************************)
EXTENDS ReadFrames, TLC

CONSTANTS good, bad     \* packets
CONSTANTS v1, v2, v3    \* variables

Son(op, arg) == [op |-> op, arg |-> arg]

\* The request memorizes v1, and v2 in an alternative of an or node.  The
\* answer must be good, and binds v2 if it is not bound.  The second answer
\* may be anything and binds v3, which the last message sends back, with v1.
Dialogue ==
    <<[op |-> "send",
       sons |-> <<Son("memorize", v1), Son("value", 0), Son("memorize", v2),
                  Son("or", 2)>>],
      [op |-> "read", sons |-> <<Son("check", {good}), Son("variable", v2)>>],
      [op |-> "read", sons |-> <<Son("variable", v3)>>],
      [op |-> "send", sons |-> <<Son("variable", v1), Son("variable", v3)>>]>>
=============================================================================
