----------------------------- MODULE MCCampaign -----------------------------
(***************************************************************************)
(* Small protocol models for Campaign.                                     *)
(***************************************************************************)
EXTENDS Campaign, TLC

CONSTANTS o1, o2, o3, o4, o5, o6  \* or nodes
CONSTANT v1                       \* a variable

Item(op, arg) == [op |-> op, arg |-> arg]

\* Two frames and a read between them that may fail.  The first frame binds
\* the variable v1 and holds o1; the second one holds o2, which has o3 in
\* one of its alternatives, o4 after it, and uses v1.  When the read fails the
\* second frame is not run.
Frames == {o1, o2, o3, o4}
FramesWidth == o1 :> 3 @@ o2 :> 3 @@ o3 :> 2 @@ o4 :> 2
FramesEager == <<o1, o2, o4>>
FramesWalk ==
    <<Item("variable", v1), Item("inject", o1),
      Item("read", 9),
      Item("getAction", o3), Item("inject", o3), Item("inject", o2),
      Item("inject", o4), Item("variable", v1)>>

\* Six or nodes of two alternatives in one frame, o6 in an alternative of o5:
\* as many faults as an injection id has bits when MaxId = 2^5.
Many == {o1, o2, o3, o4, o5, o6}
ManyWidth == [o \in Many |-> 2]
ManyEager == <<o1, o2, o3, o4, o5>>
ManyWalk ==
    <<Item("inject", o1), Item("inject", o2), Item("inject", o3),
      Item("inject", o4), Item("inject", o6), Item("inject", o5)>>
=============================================================================
