--------------------------- MODULE WebPageProofs ----------------------------
(***************************************************************************)
(* Proofs about WebPage: jQuery's queues never stall, jQuery.active counts *)
(* the requests under way, and the types of the page's variables.          *)
(***************************************************************************)
EXTENDS WebPage, TLAPS, FiniteSetTheorems, SequenceTheorems,
        WellFoundedInduction

(* Types *)

\* The callbacks of animations, and those of requests.
FxCallback ==
    [fn : {"none", "show_libraries", "enable"}, arg : {0}]
        \cup [fn : {"show_report"}, arg : 0 .. MaxCalls]
SuccessCallback ==
    [fn : {"none", "notified", "libraries", "editor", "created", "deleted",
           "checked"}, arg : {0}]
        \cup [fn : {"validated"}, arg : 0 .. MaxCalls]
        \cup [fn : {"files"}, arg : Library \cup {"all"}]
CompleteCallback == [fn : {"none", "notify"}, arg : {0}]
AnyCallback == FxCallback \cup SuccessCallback \cup CompleteCallback

\* What is in a queue.
Item == [effect : {"fx", "slide"}, kind : {"show", "hide"},
         speed : {"slow", "fast"}, old : FxCallback]

\* Only the first item of a queue may be the mark.
FxQueue ==
    {q \in Seq(Item \cup {Inprogress}) :
        \A i \in DOMAIN q : i # 1 => q[i] \in Item}

\* What is on the stack.
Operation ==
    [op : {"queue", "run", "complete"}, elem : Elem, item : Item]
        \cup [op : {"dequeue"}, elem : Elem]
        \cup [op : {"cleanup"}, elem : Elem, array : Array]
        \cup [op : {"tickEnd"}, timer : Nat]
        \cup [op : {"call"}, callback : AnyCallback]
        \cup [op : {"ajax"}, success : SuccessCallback,
              complete : CompleteCallback]
        \cup [op : {"done"}]

\* The variables of jQuery.queue and jQuery.fx.
FxTypes ==
    /\ data \in [Elem -> Array \cup {NoArray}]
    /\ arrays \in [Array -> FxQueue]
    /\ timers \in Seq([elem : Elem, item : Item])
    /\ timerId \in BOOLEAN
    /\ visible \in [Elem -> BOOLEAN]

\* The variables of jQuery.ajax.
AjaxTypes ==
    /\ xhr \in [Request -> [state : {0, 1}, success : SuccessCallback,
                            complete : CompleteCallback]]
    /\ active \in Nat

\* The variables of the page.
PageTypes ==
    /\ html \in 0 .. MaxCalls
    /\ library_select \in Library \cup {"all"}
    /\ files_list \in Library \cup {"all"}
    /\ link_disabled \in BOOLEAN
    /\ bound \in Nat \ {0}
    /\ timeouts \in Seq({"slideUp", "update_file_list"})
    /\ calls \in 0 .. MaxCalls
    /\ thrown \in Nat

-----------------------------------------------------------------------------
(* The inductive invariant *)

\* The operations in the middle of which a queue is out of order.
Hot(op) == op.op \in {"dequeue", "run", "complete"}
\* The operations that end a script, those that run the callback of a
\* validation, and those that lead to a new editor.
Closing(op) == op.op \in {"tickEnd", "done"}
Validating(op) == op.op = "call" /\ op.callback.fn = "validated"
Editing(op) ==
    \/ op.op = "ajax" /\ op.success.fn = "editor"
    \/ op.op = "call" /\ op.callback.fn = "editor"

\* The script ends by counting an answered request.
Answering(s) == s # << >> /\ s[Len(s)].op = "done"

\* Where operations may be in a script.
Placed(s) ==
    \A i \in DOMAIN s :
        /\ Hot(s[i]) \/ Editing(s[i]) \/ Validating(s[i]) => i = 1
        /\ Closing(s[i]) => i = Len(s)
        /\ Validating(s[i]) => Answering(s)

\* The script that is running is in order.
ScriptInv == Placed(stack)

\* No operation of the script ends timer t.
Keeps(s, t) == \A i \in DOMAIN s : s[i].op = "tickEnd" => s[i].timer # t

\* A timer that the script is going to end exists, and timers are ticked.
EndInv ==
    /\ \A i \in DOMAIN stack : stack[i].op = "tickEnd"
                                  => stack[i].timer \in DOMAIN timers
    /\ timers # << >> => timerId

\* The queue of an element begins with the mark of a running animation.
Marked(e) ==
    data[e] # NoArray => /\ arrays[data[e]] # << >>
                         /\ Head(arrays[data[e]]) = Inprogress
\* The element has a timer that goes on after this script.
Driven(e) ==
    data[e] # NoArray => \E t \in DOMAIN timers : /\ timers[t].elem = e
                                                 /\ Keeps(stack, t)
\* The script is in the middle of an operation on the queue of e.
HotAt(s, e) == s # << >> /\ Hot(s[1]) /\ s[1].elem = e

\* Elements do not share queues; every queue is marked and driven, or it is
\* the one that is being worked on.
QueueInv ==
    /\ \A d, e \in Elem : data[d] = data[e] /\ data[d] # NoArray => d = e
    /\ \A e \in Elem : HotAt(stack, e) \/ (Marked(e) /\ Driven(e))
    /\ Running("run") => Marked(stack[1].elem)

\* The requests that have no answer yet, and those among them for an
\* editor.
Open == {r \in Request : xhr[r].state = 1}
Editors == {r \in Request : xhr[r].state = 1 /\ xhr[r].success.fn = "editor"}

\* jQuery.active counts the requests under way, the one whose callbacks are
\* running, and those whose callback threw.
ActiveInv ==
    /\ IsFiniteSet(Open)
    /\ active = thrown + Cardinality(Open) + IF Answering(stack) THEN 1 ELSE 0

\* Every binding of Alt+x, made or about to be made, is due to something
\* the user did, except the first.
BoundInv ==
    bound + Cardinality(Editors) + (IF stack # << >> /\ Editing(stack[1]) THEN 1 ELSE 0)
        <= calls + 1

\* The invariant of jQuery and its use by the page.
JInv ==
    /\ stack \in Seq(Operation)
    /\ FxTypes
    /\ AjaxTypes
    /\ ScriptInv
    /\ EndInv
    /\ QueueInv
    /\ ActiveInv
    /\ BoundInv

\* The inductive invariant.
IInv == JInv /\ PageTypes

-----------------------------------------------------------------------------
(* Lemmas about scripts *)

\* The script after its first operation was replaced, position by position.
Replaces(S, s, ops, new) ==
    /\ new \in Seq(S)
    /\ DOMAIN new = 1 .. Len(new)
    /\ Len(new) = Len(ops) + Len(s) - 1
    /\ Len(ops) \in Nat /\ Len(s) \in Nat \ {0}
    /\ \A i \in 1 .. Len(new) :
          new[i] = IF i <= Len(ops) THEN ops[i] ELSE s[i - Len(ops) + 1]
    /\ new = << >> <=> Len(new) = 0

\* What Becomes does to a sequence.
LEMMA BecomesAt ==
  ASSUME NEW S, NEW s \in Seq(S), s # << >>, NEW ops \in Seq(S)
  PROVE  Replaces(S, s, ops, ops \o Tail(s))
<1> DEFINE new == ops \o Tail(s)
<1>1. /\ Tail(s) \in Seq(S) /\ Len(Tail(s)) = Len(s) - 1
      /\ \A i \in 1 .. Len(Tail(s)) : Tail(s)[i] = s[i + 1]
  BY HeadTailProperties
<1>2. Len(s) \in Nat \ {0} /\ Len(ops) \in Nat
  BY EmptySeq, LenProperties
<1>3. /\ new \in Seq(S)
      /\ Len(new) = Len(ops) + Len(Tail(s))
      /\ \A i \in 1 .. Len(ops) + Len(Tail(s)) :
            new[i] = IF i <= Len(ops) THEN ops[i] ELSE Tail(s)[i - Len(ops)]
  BY <1>1, ConcatProperties
<1>4. DOMAIN new = 1 .. Len(new) /\ (new = << >> <=> Len(new) = 0)
  BY <1>3, LenProperties, EmptySeq
<1> HIDE DEF new
<1>5. ASSUME NEW i \in 1 .. Len(new)
      PROVE  new[i] = IF i <= Len(ops) THEN ops[i] ELSE s[i - Len(ops) + 1]
  <2>1. CASE i <= Len(ops)
    BY <1>1, <1>2, <1>3, <2>1
  <2>2. CASE ~(i <= Len(ops))
    <3>1. i - Len(ops) \in 1 .. Len(Tail(s))
      BY <1>1, <1>2, <1>3, <2>2
    <3> QED BY <1>1, <1>2, <1>3, <2>2, <3>1
  <2> QED BY <2>1, <2>2
<1>6. Replaces(S, s, ops, new)
  BY <1>1, <1>2, <1>3, <1>4, <1>5 DEF Replaces
<1> QED BY <1>6 DEF new

\* Operations that may replace a first operation which is not a closing one.
Fits(ops) ==
    \A i \in DOMAIN ops :
        /\ ~Closing(ops[i]) /\ ~Editing(ops[i]) /\ ~Validating(ops[i])
        /\ i # 1 => ~Hot(ops[i])

\* What remains true of a script when such operations replace its first one.
Continues(s, ops, new) ==
    /\ Placed(new)
    /\ Answering(new) <=> Answering(s)
    /\ \A t : Keeps(s, t) => Keeps(new, t)
    /\ new # << >> => /\ ~Editing(new[1])
                      /\ Hot(new[1]) => new[1] = ops[1] /\ ops # << >>
    /\ ops # << >> => new # << >> /\ new[1] = ops[1]
    /\ \A i \in DOMAIN new : new[i].op = "tickEnd" =>
          \E j \in DOMAIN s : s[j] = new[i]

\* A script stays in order if its first operation is replaced by operations
\* that fit.
LEMMA PlacedBecomes ==
  ASSUME NEW S, NEW s \in Seq(S), s # << >>, Placed(s), ~Closing(s[1]),
         NEW ops \in Seq(S), Fits(ops), NEW new, Replaces(S, s, ops, new)
  PROVE  Continues(s, ops, new)
<1>1. /\ new \in Seq(S)
      /\ DOMAIN new = 1 .. Len(new)
      /\ Len(new) = Len(ops) + Len(s) - 1
      /\ Len(ops) \in Nat /\ Len(s) \in Nat \ {0}
      /\ \A i \in 1 .. Len(new) :
            new[i] = IF i <= Len(ops) THEN ops[i] ELSE s[i - Len(ops) + 1]
      /\ new = << >> <=> Len(new) = 0
  BY Zenon DEF Replaces
<1>2. /\ DOMAIN s = 1 .. Len(s) /\ DOMAIN ops = 1 .. Len(ops)
      /\ ops # << >> <=> Len(ops) # 0
  BY LenProperties, EmptySeq
<1>3. ASSUME NEW i \in DOMAIN new
      PROVE  \/ i <= Len(ops) /\ i \in DOMAIN ops /\ new[i] = ops[i]
             \/ /\ i > Len(ops) /\ i - Len(ops) + 1 \in DOMAIN s
                /\ i - Len(ops) + 1 # 1
                /\ new[i] = s[i - Len(ops) + 1]
  BY <1>1, <1>2, SMTT(40)
<1>4. Answering(new) <=> Answering(s)
  <2>1. CASE Len(s) = 1
    <3>1. ~Answering(s)
      BY <2>1 DEF Answering, Closing
    <3>2. ~Answering(new)
      <4>1. CASE new = << >>
        BY <4>1 DEF Answering
      <4>2. CASE new # << >>
        <5>1. Len(new) = Len(ops) /\ Len(ops) \in DOMAIN ops
              /\ Len(new) \in DOMAIN new
          BY <1>1, <1>2, <2>1, <4>2
        <5>2. new[Len(new)] = ops[Len(ops)]
          BY <1>1, <5>1
        <5> QED BY <5>1, <5>2 DEF Answering, Fits, Closing
      <4> QED BY <4>1, <4>2
    <3> QED BY <3>1, <3>2
  <2>2. CASE Len(s) # 1
    <3>0. ASSUME NEW a \in Nat, NEW b \in Nat \ {0}, b # 1, NEW n, n = a + b - 1
          PROVE  n \in 1 .. n /\ n > a /\ n - a + 1 = b
      BY <3>0
    <3>1. Len(new) \in 1 .. Len(new) /\ Len(new) > Len(ops)
          /\ Len(new) - Len(ops) + 1 = Len(s)
      BY <1>1, <2>2, <3>0, Zenon
    <3>2. new[Len(new)] = s[Len(s)]
      BY <1>1, <3>1
    <3>3. new # << >> /\ s # << >>
      BY <1>1, <3>1
    <3> QED BY <3>2, <3>3 DEF Answering
  <2> QED BY <2>1, <2>2
<1>5. Placed(new)
  <2> SUFFICES ASSUME NEW i \in DOMAIN new
               PROVE  /\ Hot(new[i]) \/ Editing(new[i]) \/ Validating(new[i]) => i = 1
                      /\ Closing(new[i]) => i = Len(new)
                      /\ Validating(new[i]) => Answering(new)
    BY DEF Placed
  <2>1. CASE i <= Len(ops) /\ i \in DOMAIN ops /\ new[i] = ops[i]
    BY <2>1 DEF Fits
  <2>2. CASE /\ i > Len(ops) /\ i - Len(ops) + 1 \in DOMAIN s
             /\ i - Len(ops) + 1 # 1
             /\ new[i] = s[i - Len(ops) + 1]
    <3> DEFINE j == i - Len(ops) + 1
    <3>1. ~Hot(new[i]) /\ ~Editing(new[i]) /\ ~Validating(new[i])
      BY <2>2, Zenon DEF Placed
    <3>2. Closing(new[i]) => j = Len(s)
      BY <2>2, Zenon DEF Placed
    <3>3. j = Len(s) => i = Len(new)
      BY <1>1
    <3> QED BY <3>1, <3>2, <3>3, Zenon
  <2> QED BY <1>3, <2>1, <2>2
<1>6. ASSUME NEW i \in DOMAIN new, new[i].op = "tickEnd"
      PROVE  \E j \in DOMAIN s : s[j] = new[i]
  <2>1. ASSUME i \in DOMAIN ops, new[i] = ops[i]
        PROVE  FALSE
    BY <1>6, <2>1 DEF Fits, Closing
  <2> QED BY <1>3, <2>1
<1>7. ASSUME NEW t, Keeps(s, t)
      PROVE  Keeps(new, t)
  BY <1>6, <1>7, Zenon DEF Keeps
<1>8. ASSUME ops # << >>
      PROVE  new # << >> /\ new[1] = ops[1]
  BY <1>1, <1>2, <1>8
<1>9. ASSUME new # << >>
      PROVE  ~Editing(new[1]) /\ (Hot(new[1]) => new[1] = ops[1] /\ ops # << >>)
  <2>1. 1 \in DOMAIN new
    BY <1>1, <1>9
  <2>2. CASE 1 \in DOMAIN ops /\ new[1] = ops[1] /\ 1 <= Len(ops)
    BY <1>2, <2>2 DEF Fits
  <2>3. CASE 1 - Len(ops) + 1 \in DOMAIN s /\ 1 - Len(ops) + 1 # 1
             /\ new[1] = s[1 - Len(ops) + 1]
    BY <2>3, Zenon DEF Placed
  <2> QED BY <1>3, <2>1, <2>2, <2>3
<1> QED BY <1>4, <1>5, <1>6, <1>7, <1>8, <1>9 DEF Continues

-----------------------------------------------------------------------------
(* Lemmas about operations *)

\* What an operation of each kind holds.
LEMMA OperationFields ==
  ASSUME NEW op \in Operation
  PROVE  /\ op.op \in {"queue", "run", "complete", "dequeue", "cleanup"}
               => op.elem \in Elem
         /\ op.op \in {"queue", "run", "complete"} => op.item \in Item
         /\ op.op = "cleanup" => op.array \in Array
         /\ op.op = "tickEnd" => op.timer \in Nat
         /\ op.op = "call" => op.callback \in AnyCallback
         /\ op.op = "ajax" => /\ op.success \in SuccessCallback
                             /\ op.complete \in CompleteCallback
BY DEF Operation

\* What the fields of callbacks and items may be.
LEMMA CallbackFields ==
  ASSUME NEW callback \in AnyCallback
  PROVE  /\ callback.fn \in {"validated", "show_report"}
               => callback.arg \in 0 .. MaxCalls
         /\ callback.fn = "files" => callback.arg \in Library \cup {"all"}
BY DEF AnyCallback, FxCallback, SuccessCallback, CompleteCallback

LEMMA FxFields ==
  ASSUME NEW callback \in FxCallback
  PROVE  /\ callback \in AnyCallback
         /\ callback.fn \notin {"validated", "editor"}
BY DEF AnyCallback, FxCallback

LEMMA CompleteFields ==
  ASSUME NEW callback \in CompleteCallback
  PROVE  /\ callback \in AnyCallback
         /\ callback.fn \notin {"validated", "editor"}
BY DEF AnyCallback, CompleteCallback

LEMMA ItemFields ==
  ASSUME NEW item \in Item
  PROVE  /\ item.old \in FxCallback
         /\ item # Inprogress
BY DEF Item, Inprogress, Animation

\* The operations that scripts are built from are of the type, and of their
\* kind.
LEMMA FxOperations ==
  ASSUME NEW e \in Elem, NEW item \in Item
  PROVE  /\ QueueOp(e, item) \in Operation
         /\ QueueOp(e, item).op = "queue"
         /\ RunOp(e, item) \in Operation
         /\ RunOp(e, item).op = "run" /\ RunOp(e, item).elem = e
         /\ CompleteOp(e, item) \in Operation
         /\ CompleteOp(e, item).op = "complete"
         /\ CompleteOp(e, item).elem = e
         /\ DequeueOp(e) \in Operation
         /\ DequeueOp(e).op = "dequeue" /\ DequeueOp(e).elem = e
<1>1. QueueOp(e, item) \in Operation /\ QueueOp(e, item).op = "queue"
  BY DEF Operation, QueueOp
<1>2. /\ RunOp(e, item) \in Operation
      /\ RunOp(e, item).op = "run" /\ RunOp(e, item).elem = e
  BY DEF Operation, RunOp
<1>3. /\ CompleteOp(e, item) \in Operation
      /\ CompleteOp(e, item).op = "complete" /\ CompleteOp(e, item).elem = e
  BY DEF Operation, CompleteOp
<1>4. /\ DequeueOp(e) \in Operation
      /\ DequeueOp(e).op = "dequeue" /\ DequeueOp(e).elem = e
  BY DEF Operation, DequeueOp
<1> QED BY <1>1, <1>2, <1>3, <1>4

\* The operations have their types.
LEMMA CleanupOperation ==
  ASSUME NEW e \in Elem, NEW a \in Array
  PROVE  CleanupOp(e, a) \in Operation /\ CleanupOp(e, a).op = "cleanup"
BY DEF Operation, CleanupOp

LEMMA ClosingOperations ==
  ASSUME NEW t \in Nat
  PROVE  /\ TickEndOp(t) \in Operation
         /\ TickEndOp(t).op = "tickEnd" /\ TickEndOp(t).timer = t
         /\ DoneOp \in Operation /\ DoneOp.op = "done"
BY DEF Operation, TickEndOp, DoneOp

LEMMA CallOperation ==
  ASSUME NEW callback \in AnyCallback
  PROVE  /\ CallOp(callback) \in Operation
         /\ CallOp(callback).op = "call"
         /\ CallOp(callback).callback = callback
BY DEF Operation, CallOp

LEMMA AjaxOperation ==
  ASSUME NEW success \in SuccessCallback, NEW complete \in CompleteCallback
  PROVE  /\ AjaxOp(success, complete) \in Operation
         /\ AjaxOp(success, complete).op = "ajax"
         /\ AjaxOp(success, complete).success = success
         /\ AjaxOp(success, complete).complete = complete
BY DEF Operation, AjaxOp

\* The animations and callbacks of the page.
LEMMA PageItems ==
  ASSUME NEW kind \in {"show", "hide"}, NEW speed \in {"slow", "fast"},
         NEW old \in FxCallback
  PROVE  /\ Animation(kind, speed, old) \in Item
         /\ NoCallback \in FxCallback => Slide(kind, speed) \in Item
BY DEF Item, Animation, Slide

\* The callbacks of application.js have their types.
LEMMA PageCallbacks ==
  ASSUME NEW n \in 0 .. MaxCalls, NEW library \in Library \cup {"all"}
  PROVE  /\ NoCallback \in FxCallback
         /\ NoCallback \in SuccessCallback
         /\ NoCallback \in CompleteCallback
         /\ Callback("notify", 0) \in CompleteCallback
         /\ \A fn \in {"show_libraries", "enable"} :
               Callback(fn, 0) \in FxCallback
         /\ Callback("show_report", n) \in FxCallback
         /\ \A fn \in {"notified", "libraries", "editor", "created",
                        "deleted", "checked"} :
               Callback(fn, 0) \in SuccessCallback
         /\ Callback("validated", n) \in SuccessCallback
         /\ Callback("files", library) \in SuccessCallback
BY DEF FxCallback, SuccessCallback, CompleteCallback, Callback, NoCallback

-----------------------------------------------------------------------------
(* Steps that only replace operations *)

\* Scripts that start nothing in the middle of a queue.
Cold(ops) == Fits(ops) /\ \A i \in DOMAIN ops : ~Hot(ops[i])

\* The first operation of a script.
LEMMA StackFacts ==
  ASSUME stack \in Seq(Operation), stack # << >>
  PROVE  /\ Head(stack) = stack[1] /\ stack[1] \in Operation
         /\ Len(stack) \in Nat \ {0} /\ DOMAIN stack = 1 .. Len(stack)
         /\ 1 \in DOMAIN stack
<1>1. Len(stack) \in Nat \ {0} /\ DOMAIN stack = 1 .. Len(stack)
      /\ stack \in [1 .. Len(stack) -> Operation]
  BY EmptySeq, LenProperties
<1>2. 1 \in 1 .. Len(stack)
  BY <1>1
<1>3. Head(stack) = stack[1]
  OBVIOUS
<1> QED BY <1>1, <1>2, <1>3

\* The requests of editors are finitely many.
LEMMA EditorsFinite ==
  ASSUME IsFiniteSet(Open)
  PROVE  /\ IsFiniteSet(Editors)
         /\ Cardinality(Open) \in Nat /\ Cardinality(Editors) \in Nat
<1>1. Editors \subseteq Open
  BY DEF Editors, Open
<1>2. IsFiniteSet(Editors)
  BY <1>1, FS_Subset
<1> QED BY <1>2, FS_CardinalityType

\* A step that replaces the first operation of the stack keeps it in order.
LEMMA BecomesFits ==
  ASSUME stack \in Seq(Operation), ScriptInv, stack # << >>,
         ~Closing(stack[1]),
         NEW ops \in Seq(Operation), Fits(ops), Becomes(ops)
  PROVE  /\ stack' \in Seq(Operation)
         /\ ScriptInv'
         /\ Continues(stack, ops, stack')
<1>1. Replaces(Operation, stack, ops, stack')
  BY BecomesAt DEF Becomes
<1>2. Continues(stack, ops, stack')
  BY <1>1, PlacedBecomes DEF ScriptInv
<1>3. stack' \in Seq(Operation)
  BY <1>1 DEF Replaces
<1> QED BY <1>2, <1>3 DEF Continues, ScriptInv

\* A script of such operations is in order from the start.
LEMMA StartsFits ==
  ASSUME NEW ops \in Seq(Operation), Fits(ops)
  PROVE  /\ Placed(ops) /\ ~Answering(ops)
         /\ \A t : Keeps(ops, t)
         /\ ops # << >> => ~Editing(ops[1])
<1>1. DOMAIN ops = 1 .. Len(ops) /\ Len(ops) \in Nat
      /\ (ops # << >> => Len(ops) \in Nat \ {0})
  BY LenProperties, EmptySeq
<1>2. ops # << >> => 1 \in DOMAIN ops /\ Len(ops) \in DOMAIN ops
  BY <1>1
<1>3. ~Answering(ops) /\ (ops # << >> => ~Editing(ops[1]))
  BY <1>2 DEF Answering, Fits, Closing
<1>4. \A t : Keeps(ops, t)
  BY DEF Keeps, Fits, Closing
<1>5. Placed(ops)
  BY DEF Placed, Fits
<1> QED BY <1>3, <1>4, <1>5

\* What a step that leaves timers, queues or requests alone preserves.
LEMMA EndStays ==
  ASSUME EndInv, UNCHANGED <<timers, timerId>>,
         \A i \in DOMAIN stack' : stack'[i].op = "tickEnd" =>
               \E j \in DOMAIN stack : stack[j] = stack'[i]
  PROVE  EndInv'
BY Zenon DEF EndInv

LEMMA QueueStays ==
  ASSUME QueueInv, UNCHANGED <<data, arrays, timers>>,
         stack # << >> => ~Hot(stack[1]),
         stack' # << >> => ~Hot(stack'[1]) /\ Head(stack') = stack'[1],
         \A t : Keeps(stack, t) => Keeps(stack', t)
  PROVE  QueueInv'
<1>1. \A e \in Elem : Marked(e) /\ Driven(e)
  BY DEF QueueInv, HotAt
<1>2. \A e \in Elem : Marked(e)' /\ Driven(e)'
  BY <1>1 DEF Marked, Driven
<1>3. ~Running("run")'
  BY DEF Running, Hot
<1> QED BY <1>2, <1>3 DEF QueueInv

LEMMA ActiveStays ==
  ASSUME ActiveInv, UNCHANGED <<xhr, active, thrown>>,
         Answering(stack') <=> Answering(stack)
  PROVE  ActiveInv'
BY DEF ActiveInv, Open

LEMMA BoundStays ==
  ASSUME ActiveInv, BoundInv, UNCHANGED <<xhr, bound>>,
         calls \in Nat, calls' \in Nat, calls' >= calls, bound \in Nat,
         stack' # << >> => ~Editing(stack'[1])
  PROVE  BoundInv'
<1>1. Cardinality(Editors) \in Nat
  BY EditorsFinite DEF ActiveInv
<1>2. Editors' = Editors
  BY DEF Editors
<1>3. bound + Cardinality(Editors) <= calls + 1
  BY <1>1 DEF BoundInv
<1>4. bound' + Cardinality(Editors') + 0 <= calls' + 1
  BY <1>1, <1>2, <1>3
<1>5. (IF stack' # << >> /\ Editing(stack'[1]) THEN 1 ELSE 0) = 0
  OBVIOUS
<1> QED BY <1>4, <1>5 DEF BoundInv

\* A step that replaces a call, or what a request answered, by operations
\* that leave the queues alone.
LEMMA ScriptStep ==
  ASSUME IInv, stack # << >>, ~Closing(stack[1]), ~Hot(stack[1]),
         NEW ops \in Seq(Operation), Cold(ops), Becomes(ops), UNCHANGED fx
  PROVE  /\ (stack \in Seq(Operation))' /\ FxTypes' /\ ScriptInv'
         /\ EndInv' /\ QueueInv'
         /\ Answering(stack') <=> Answering(stack)
         /\ stack' # << >> => ~Editing(stack'[1])
<1>1. /\ stack \in Seq(Operation) /\ ScriptInv /\ EndInv /\ QueueInv
      /\ FxTypes
  BY DEF IInv, JInv
<1>2. Fits(ops)
  BY DEF Cold
<1>3. /\ stack' \in Seq(Operation) /\ ScriptInv'
      /\ Continues(stack, ops, stack')
  BY <1>1, <1>2, BecomesFits
<1>4. FxTypes'
  BY <1>1 DEF FxTypes, fx
<1>5. EndInv'
  BY <1>1, <1>3, EndStays DEF Continues, fx
<1>6. stack' # << >> => ~Hot(stack'[1]) /\ Head(stack') = stack'[1]
  <2>1. stack' # << >> => Head(stack') = stack'[1]
    BY <1>3
  <2>2. ops # << >> => 1 \in DOMAIN ops
    <3>1. ops # << >> => Len(ops) \in Nat \ {0}
      BY EmptySeq
    <3>2. DOMAIN ops = 1 .. Len(ops)
      BY LenProperties
    <3> QED BY <3>1, <3>2
  <2>3. ops # << >> => ~Hot(ops[1])
    BY <2>2 DEF Cold
  <2>4. stack' # << >> => (Hot(stack'[1]) => stack'[1] = ops[1] /\ ops # << >>)
    BY <1>3 DEF Continues
  <2> QED BY <2>1, <2>3, <2>4
<1>7. QueueInv'
  <2>1. \A t : Keeps(stack, t) => Keeps(stack', t)
    BY <1>3 DEF Continues
  <2> QED BY <1>1, <1>6, <2>1, QueueStays DEF fx
<1>8. /\ Answering(stack') <=> Answering(stack)
      /\ stack' # << >> => ~Editing(stack'[1])
  BY <1>3 DEF Continues
<1> QED BY <1>3, <1>4, <1>5, <1>7, <1>8

\* A callback that does nothing to requests or to the counters.
LEMMA CallStep ==
  ASSUME IInv, Running("call"), NEW ops \in Seq(Operation), Cold(ops),
         Becomes(ops), UNCHANGED <<fx, ajaxVars, bound, calls, thrown>>
  PROVE  JInv'
<1>1. stack # << >> /\ ~Closing(stack[1]) /\ ~Hot(stack[1])
  BY StackFacts DEF IInv, JInv, Running, Closing, Hot
<1>2. /\ (stack \in Seq(Operation))' /\ FxTypes' /\ ScriptInv'
      /\ EndInv' /\ QueueInv'
      /\ Answering(stack') <=> Answering(stack)
      /\ stack' # << >> => ~Editing(stack'[1])
  BY <1>1, ScriptStep
<1>3. AjaxTypes'
  BY DEF IInv, JInv, AjaxTypes, ajaxVars
<1>4. ActiveInv'
  BY <1>2, ActiveStays DEF IInv, JInv, ajaxVars
<1>5. BoundInv'
  <2>1. calls \in Nat /\ bound \in Nat
    BY DEF IInv, PageTypes
  <2>2. calls' \in Nat /\ calls' >= calls
    BY <2>1
  <2> QED BY <1>2, <2>1, <2>2, BoundStays DEF IInv, JInv, ajaxVars
<1> QED BY <1>2, <1>3, <1>4, <1>5 DEF JInv

\* A new script of such operations.
LEMMA StartStep ==
  ASSUME IInv, stack = << >>, NEW ops \in Seq(Operation), Cold(ops),
         stack' = ops, calls' \in Nat, calls' >= calls,
         UNCHANGED <<fx, ajaxVars, bound, thrown>>
  PROVE  JInv'
<1>1. /\ Placed(ops) /\ ~Answering(ops) /\ \A t : Keeps(ops, t)
      /\ ops # << >> => ~Editing(ops[1])
  BY StartsFits DEF Cold
<1>2. FxTypes' /\ AjaxTypes'
  BY DEF IInv, JInv, FxTypes, fx, AjaxTypes, ajaxVars
<1>3. EndInv'
  <2>1. \A i \in DOMAIN ops : ops[i].op # "tickEnd"
    BY DEF Cold, Fits, Closing
  <2> QED BY <2>1 DEF IInv, JInv, EndInv, fx
<1>4. QueueInv'
  <2>1. stack' # << >> => ~Hot(stack'[1]) /\ Head(stack') = stack'[1]
    <3>1. stack' # << >> => Len(ops) \in Nat \ {0}
      BY EmptySeq
    <3>2. DOMAIN ops = 1 .. Len(ops)
      BY LenProperties
    <3>3. stack' # << >> => 1 \in DOMAIN ops
      BY <3>1, <3>2
    <3> QED BY <3>3 DEF Cold
  <2> QED BY <1>1, <2>1, QueueStays DEF IInv, JInv, fx
<1>5. ActiveInv'
  BY <1>1, ActiveStays DEF IInv, JInv, ajaxVars, Answering
<1>6. BoundInv'
  <2>1. calls \in Nat /\ bound \in Nat
    BY DEF IInv, PageTypes
  <2> QED BY <1>1, <2>1, BoundStays DEF IInv, JInv, ajaxVars
<1> QED BY <1>1, <1>2, <1>3, <1>4, <1>5, <1>6 DEF JInv, ScriptInv

-----------------------------------------------------------------------------
(* The page *)

\* What the scripts of the page call, save for the request of an editor.
Plain(op) ==
    /\ op \in Operation
    /\ op.op \in {"queue", "ajax"}
    /\ ~Editing(op)

\* Plain operations fit anywhere in a script.
LEMMA PlainIsCold ==
  ASSUME NEW ops, \A i \in DOMAIN ops : Plain(ops[i])
  PROVE  Cold(ops)
<1>1. ASSUME NEW op, Plain(op)
      PROVE  ~Hot(op) /\ ~Closing(op) /\ ~Editing(op) /\ ~Validating(op)
  BY <1>1 DEF Plain, Hot, Closing, Validating
<1> QED BY <1>1 DEF Cold, Fits

\* Scripts of up to two plain operations.
LEMMA ShortScripts ==
  ASSUME NEW a, Plain(a), NEW b, Plain(b)
  PROVE  /\ << >> \in Seq(Operation) /\ Cold(<< >>)
         /\ <<a>> \in Seq(Operation) /\ Cold(<<a>>)
         /\ <<a, b>> \in Seq(Operation) /\ Cold(<<a, b>>)
<1>1. a \in Operation /\ b \in Operation
  BY DEF Plain
<1>2. /\ << >> \in Seq(Operation) /\ <<a>> \in Seq(Operation)
      /\ <<a, b>> \in Seq(Operation)
  BY <1>1
<1>3. Cold(<< >>)
  BY DEF Cold, Fits
<1>4. \A i \in DOMAIN <<a>> : Plain(<<a>>[i])
  OBVIOUS
<1>5. \A i \in DOMAIN <<a, b>> : Plain(<<a, b>>[i])
  OBVIOUS
<1> QED BY <1>2, <1>3, <1>4, <1>5, PlainIsCold

\* Animations and requests are plain.
LEMMA PlainQueue ==
  ASSUME NEW e \in Elem, NEW kind \in {"show", "hide"},
         NEW speed \in {"slow", "fast"}, NEW old \in FxCallback
  PROVE  Plain(QueueOp(e, Animation(kind, speed, old)))
<1>1. Animation(kind, speed, old) \in Item
  BY PageItems
<1> QED BY <1>1, FxOperations DEF Plain, Editing

LEMMA PlainSlide ==
  ASSUME NEW e \in Elem, NEW kind \in {"show", "hide"},
         NEW speed \in {"slow", "fast"}
  PROVE  Plain(QueueOp(e, Slide(kind, speed)))
<1>1. NoCallback \in FxCallback
  BY DEF NoCallback, FxCallback
<1>2. Slide(kind, speed) \in Item
  BY <1>1, PageItems
<1> QED BY <1>2, FxOperations DEF Plain, Editing

LEMMA PlainAjax ==
  ASSUME NEW success \in SuccessCallback, success.fn # "editor",
         NEW complete \in CompleteCallback
  PROVE  Plain(AjaxOp(success, complete))
BY AjaxOperation DEF Plain, Editing

\* What PageAssumption says of elements.
LEMMA PageElements ==
  /\ {flash_messages, validator_report, library_select_div} \subseteq Elem
  /\ Accordions \subseteq Elem
  /\ MaxCalls \in Nat
BY PageAssumption

\* The functions of application.js.
LEMMA PageFunctions ==
  ASSUME NEW n \in 0 .. MaxCalls, NEW library \in Library \cup {"all"}
  PROVE  /\ Plain(notify)
         /\ Plain(update_file_list(library))
         /\ Plain(update_libraries_list)
         /\ Plain(validate_abnf(n))
         /\ Plain(AjaxOp(NoCallback, Callback("notify", 0)))
         /\ \A fn \in {"created", "deleted", "checked"} :
               Plain(AjaxOp(Callback(fn, 0), NoCallback))
         /\ Plain(FadeOut(validator_report, Callback("show_report", n)))
         /\ Plain(FadeOut(library_select_div, Callback("show_libraries", 0)))
         /\ Plain(FadeIn(validator_report)) /\ Plain(FadeIn(library_select_div))
         /\ Plain(QueueOp(flash_messages, Slide("show", "slow")))
         /\ Plain(QueueOp(flash_messages, Slide("hide", "slow")))
<1>1. \A fn, arg : Callback(fn, arg).fn = fn
  BY DEF Callback
<1>2. NoCallback.fn # "editor"
  BY DEF NoCallback
<1>3. Plain(notify) /\ Plain(update_file_list(library))
      /\ Plain(update_libraries_list) /\ Plain(validate_abnf(n))
  BY <1>1, PageCallbacks, PlainAjax
     DEF notify, update_file_list, update_libraries_list, validate_abnf
<1>4. /\ Plain(AjaxOp(NoCallback, Callback("notify", 0)))
      /\ \A fn \in {"created", "deleted", "checked"} :
               Plain(AjaxOp(Callback(fn, 0), NoCallback))
  BY <1>1, <1>2, PageCallbacks, PlainAjax
<1>5. Plain(FadeOut(validator_report, Callback("show_report", n)))
  BY PageCallbacks, PlainQueue, PageElements DEF FadeOut
<1>6. Plain(FadeOut(library_select_div, Callback("show_libraries", 0)))
  BY PageCallbacks, PlainQueue, PageElements DEF FadeOut
<1>7. Plain(FadeIn(validator_report)) /\ Plain(FadeIn(library_select_div))
  BY PageCallbacks, PlainQueue, PageElements DEF FadeIn
<1>8. /\ Plain(QueueOp(flash_messages, Slide("show", "slow")))
      /\ Plain(QueueOp(flash_messages, Slide("hide", "slow")))
  BY PlainSlide, PageElements
<1> QED BY <1>3, <1>4, <1>5, <1>6, <1>7, <1>8

\* The callbacks.
LEMMA CallbackNext ==
  ASSUME IInv, \/ NothingToCall \/ Notified \/ Follow \/ ShowReport
               \/ FadeLibraries \/ ShowLibraries \/ ShowFiles \/ EnableLinks
  PROVE  IInv'
<1>0. PageTypes
  BY DEF IInv
<1>1. 0 \in 0 .. MaxCalls /\ "all" \in Library \cup {"all"}
  BY PageElements
<1>2. << >> \in Seq(Operation) /\ Cold(<< >>)
  BY <1>1, PageFunctions, ShortScripts
<1>3. ASSUME NEW fn, Calling(fn)
      PROVE  /\ Running("call")
             /\ fn \in {"validated", "show_report"} => Arg \in 0 .. MaxCalls
             /\ fn = "files" => Arg \in Library \cup {"all"}
  <2>1. Running("call") /\ Head(stack).callback.fn = fn
    BY <1>3 DEF Calling
  <2>2. Head(stack) \in Operation /\ Head(stack).op = "call"
    BY <2>1, StackFacts DEF IInv, JInv, Running
  <2>3. Head(stack).callback \in AnyCallback
    BY <2>2, OperationFields
  <2> QED BY <2>1, <2>3, CallbackFields DEF Arg
<1>4. CASE NothingToCall
  <2>1. JInv'
    BY <1>2, <1>3, <1>4, CallStep DEF NothingToCall, pageVars
  <2>2. PageTypes'
    BY <1>0, <1>4 DEF NothingToCall, pageVars, PageTypes
  <2> QED BY <2>1, <2>2 DEF IInv
<1>5. CASE Notified
  <2> DEFINE op == QueueOp(flash_messages, Slide("show", "slow"))
  <2>1. <<op>> \in Seq(Operation) /\ Cold(<<op>>)
    BY <1>1, PageFunctions, ShortScripts
  <2>2. JInv'
    <3> HIDE DEF op
    <3>1. Becomes(<<op>>) /\ Running("call")
          /\ UNCHANGED <<fx, ajaxVars, bound, calls, thrown>>
      BY <1>3, <1>5 DEF Notified, op
    <3> QED BY <2>1, <3>1, CallStep
  <2>3. PageTypes'
    BY <1>0, <1>5 DEF Notified, PageTypes
  <2> QED BY <2>2, <2>3 DEF IInv
<1>6. CASE Follow
  <2>1. UNCHANGED <<fx, ajaxVars, bound, calls, thrown>> /\ Running("call")
    BY <1>3, <1>6 DEF Follow
  <2>2. PageTypes'
    <3>1. timeouts' = timeouts \/ timeouts' = Append(timeouts, "update_file_list")
      BY <1>6, Zenon DEF Follow
    <3>2. timeouts' \in Seq({"slideUp", "update_file_list"})
      BY <1>0, <3>1 DEF PageTypes
    <3>3. UNCHANGED <<html, library_select, files_list, link_disabled, bound,
                      calls, thrown>>
      BY <1>6, Zenon DEF Follow
    <3> QED BY <1>0, <3>2, <3>3 DEF PageTypes
  <2>3. \E ops \in Seq(Operation) : Cold(ops) /\ Becomes(ops)
    <3>1. /\ <<notify>> \in Seq(Operation) /\ Cold(<<notify>>)
          /\ <<notify, update_libraries_list>> \in Seq(Operation)
          /\ Cold(<<notify, update_libraries_list>>)
      BY <1>1, PageFunctions, ShortScripts
    <3> DEFINE op == AjaxOp(NoCallback, Callback("notify", 0))
    <3>2. <<op>> \in Seq(Operation) /\ Cold(<<op>>)
      BY <1>1, PageFunctions, ShortScripts
    <3>3. \/ Becomes(<<notify>>) \/ Becomes(<<notify, update_libraries_list>>)
          \/ Becomes(<<op>>)
      BY <1>6 DEF Follow
    <3> HIDE DEF op
    <3> QED BY <3>1, <3>2, <3>3
  <2>4. JInv'
    BY <2>1, <2>3, CallStep
  <2> QED BY <2>2, <2>4 DEF IInv
<1>7. CASE ShowReport
  <2>1. <<FadeIn(validator_report)>> \in Seq(Operation)
        /\ Cold(<<FadeIn(validator_report)>>)
    BY <1>1, PageFunctions, ShortScripts
  <2>2. JInv'
    BY <1>3, <1>7, <2>1, CallStep DEF ShowReport
  <2>3. PageTypes'
    BY <1>0, <1>3, <1>7 DEF ShowReport, PageTypes
  <2> QED BY <2>2, <2>3 DEF IInv
<1>8. CASE FadeLibraries
  <2> DEFINE op == FadeOut(library_select_div, Callback("show_libraries", 0))
  <2>1. <<op>> \in Seq(Operation) /\ Cold(<<op>>)
    BY <1>1, PageFunctions, ShortScripts
  <2>2. JInv'
    <3> HIDE DEF op
    <3>1. Becomes(<<op>>) /\ Running("call")
          /\ UNCHANGED <<fx, ajaxVars, bound, calls, thrown>>
      BY <1>3, <1>8 DEF FadeLibraries, op, pageVars
    <3> QED BY <2>1, <3>1, CallStep
  <2>3. PageTypes'
    BY <1>0, <1>8 DEF FadeLibraries, PageTypes, pageVars
  <2> QED BY <2>2, <2>3 DEF IInv
<1>9. CASE ShowLibraries
  <2>1. <<FadeIn(library_select_div)>> \in Seq(Operation)
        /\ Cold(<<FadeIn(library_select_div)>>)
    BY <1>1, PageFunctions, ShortScripts
  <2>2. JInv'
    BY <1>3, <1>9, <2>1, CallStep DEF ShowLibraries
  <2>3. PageTypes'
    BY <1>0, <1>9 DEF ShowLibraries, PageTypes
  <2> QED BY <2>2, <2>3 DEF IInv
<1>10. CASE ShowFiles
  <2>1. JInv'
    BY <1>2, <1>3, <1>10, CallStep DEF ShowFiles
  <2>2. PageTypes'
    BY <1>0, <1>3, <1>10 DEF ShowFiles, PageTypes
  <2> QED BY <2>1, <2>2 DEF IInv
<1>11. CASE EnableLinks
  <2>1. JInv'
    BY <1>2, <1>3, <1>11, CallStep DEF EnableLinks
  <2>2. PageTypes'
    BY <1>0, <1>11 DEF EnableLinks, PageTypes
  <2> QED BY <2>1, <2>2 DEF IInv
<1> QED BY <1>4, <1>5, <1>6, <1>7, <1>8, <1>9, <1>10, <1>11

\* The answer of a validation is read, or throws on the way: then the rest
\* of the script, which would have counted the request, is lost.
LEMMA ValidatedNext ==
  ASSUME IInv, Validated
  PROVE  IInv'
<1>1. /\ stack # << >> /\ stack[1].op = "call"
      /\ stack[1].callback.fn = "validated" /\ 1 \in DOMAIN stack
      /\ Head(stack) = stack[1] /\ stack[1] \in Operation
  BY StackFacts DEF Validated, Calling, Running, IInv, JInv
<1>2. Running("call") /\ Arg \in 0 .. MaxCalls
  <2>1. stack[1].callback \in AnyCallback
    BY <1>1, OperationFields
  <2> QED BY <1>1, <2>1, CallbackFields DEF Arg, Running
<1>3. ASSUME Becomes(<<FadeOut(validator_report, Callback("show_report", Arg))>>),
             UNCHANGED thrown
      PROVE  IInv'
  <2> DEFINE op == FadeOut(validator_report, Callback("show_report", Arg))
  <2>1. <<op>> \in Seq(Operation) /\ Cold(<<op>>)
    BY <1>2, PageFunctions, ShortScripts
  <2>2. Becomes(<<op>>) /\ UNCHANGED <<fx, ajaxVars, bound, calls, thrown>>
    BY <1>3 DEF Validated
  <2>3. JInv'
    <3> HIDE DEF op
    <3> QED BY <1>2, <2>1, <2>2, CallStep
  <2>4. PageTypes'
    BY <1>3 DEF Validated, PageTypes, IInv
  <2> QED BY <2>3, <2>4 DEF IInv
<1>4. ASSUME Throw, thrown' = thrown + 1
      PROVE  IInv'
  <2>1. stack' = << >> /\ UNCHANGED <<fx, ajaxVars, bound, calls>>
    BY <1>4 DEF Validated, Throw
  <2>2. Answering(stack)
    BY <1>1 DEF IInv, JInv, ScriptInv, Placed, Validating
  <2>3. ~Hot(stack[1])
    BY <1>1 DEF Hot
  <2>4. (stack \in Seq(Operation))' /\ ScriptInv'
    BY <2>1 DEF ScriptInv, Placed
  <2>5. FxTypes' /\ AjaxTypes'
    BY <2>1 DEF IInv, JInv, FxTypes, fx, AjaxTypes, ajaxVars
  <2>6. EndInv'
    BY <2>1 DEF IInv, JInv, EndInv, fx
  <2>7. QueueInv'
    <3>1. \A t : Keeps(stack', t)
      BY <2>1 DEF Keeps
    <3> QED BY <2>1, <2>3, <3>1, QueueStays DEF IInv, JInv, fx
  <2>8. ActiveInv'
    <3>1. ~Answering(stack') /\ Open' = Open /\ active' = active
      BY <2>1 DEF Answering, Open, ajaxVars
    <3>2. IsFiniteSet(Open) /\ active = thrown + Cardinality(Open) + 1
      BY <2>2 DEF IInv, JInv, ActiveInv
    <3>3. Cardinality(Open) \in Nat /\ thrown \in Nat
      BY <3>2, FS_CardinalityType DEF IInv, PageTypes
    <3>4. active' = thrown' + Cardinality(Open') + 0
      BY <1>4, <3>1, <3>2, <3>3
    <3> QED BY <3>1, <3>2, <3>4 DEF ActiveInv
  <2>9. BoundInv'
    <3>1. calls \in Nat /\ bound \in Nat
      BY DEF IInv, PageTypes
    <3>2. calls' \in Nat /\ calls' >= calls
      BY <2>1, <3>1
    <3> QED BY <2>1, <3>1, <3>2, BoundStays DEF IInv, JInv, ajaxVars
  <2>10. PageTypes'
    BY <1>4 DEF Validated, PageTypes, IInv
  <2> QED BY <2>4, <2>5, <2>6, <2>7, <2>8, <2>9, <2>10 DEF IInv, JInv
<1> QED BY <1>3, <1>4 DEF Validated

\* The new editor binds its key once more.
LEMMA ReplaceEditorNext ==
  ASSUME IInv, ReplaceEditor
  PROVE  IInv'
<1>1. /\ stack # << >> /\ stack[1].op = "call" /\ Editing(stack[1])
  BY StackFacts DEF ReplaceEditor, Calling, Running, IInv, JInv, Editing
<1>2. << >> \in Seq(Operation) /\ Cold(<< >>)
  BY DEF Cold, Fits
<1>3. Becomes(<< >>) /\ UNCHANGED <<fx, ajaxVars, calls, thrown>>
      /\ bound' = bound + 1
  BY DEF ReplaceEditor
<1>4. /\ (stack \in Seq(Operation))' /\ FxTypes' /\ ScriptInv'
      /\ EndInv' /\ QueueInv'
      /\ Answering(stack') <=> Answering(stack)
      /\ stack' # << >> => ~Editing(stack'[1])
  BY <1>1, <1>2, <1>3, ScriptStep DEF Closing, Hot
<1>5. AjaxTypes'
  BY <1>3 DEF IInv, JInv, AjaxTypes, ajaxVars
<1>6. ActiveInv'
  BY <1>3, <1>4, ActiveStays DEF IInv, JInv, ajaxVars
<1>7. BoundInv'
  <2>1. Cardinality(Editors) \in Nat /\ calls \in Nat /\ bound \in Nat
    BY EditorsFinite DEF ActiveInv, IInv, JInv, PageTypes
  <2>2. bound + Cardinality(Editors) + 1 <= calls + 1
    BY <1>1 DEF BoundInv, IInv, JInv
  <2>3. Editors' = Editors /\ calls' = calls
    BY <1>3 DEF Editors, ajaxVars
  <2>4. bound' + Cardinality(Editors') + 0 <= calls' + 1
    BY <1>3, <2>1, <2>2, <2>3
  <2>5. (IF stack' # << >> /\ Editing(stack'[1]) THEN 1 ELSE 0) = 0
    BY <1>4
  <2> QED BY <2>4, <2>5 DEF BoundInv
<1>8. PageTypes'
  BY DEF ReplaceEditor, PageTypes, IInv
<1> QED BY <1>4, <1>5, <1>6, <1>7, <1>8 DEF IInv, JInv

\* One element is taken out of a sequence; the others are still in it.
OneLess(S, s, i, r) ==
    /\ r \in Seq(S)
    /\ \A j \in DOMAIN s \ {i} : \E k \in DOMAIN r : r[k] = s[j]

\* A sequence without one of its elements.
LEMMA TakenOut ==
  ASSUME NEW S, NEW s \in Seq(S), NEW i \in DOMAIN s
  PROVE  OneLess(S, s, i, SubSeq(s, 1, i - 1) \o SubSeq(s, i + 1, Len(s)))
<1> DEFINE a == SubSeq(s, 1, i - 1)
           b == SubSeq(s, i + 1, Len(s))
           r == a \o b
<1>1. Len(s) \in Nat /\ DOMAIN s = 1 .. Len(s) /\ s \in [1 .. Len(s) -> S]
  BY LenProperties
<1>2. i \in 1 .. Len(s) /\ i - 1 \in Int /\ i + 1 \in Int
  BY <1>1
<1>3. /\ \A j \in 1 .. i - 1 : s[j] \in S
      /\ \A j \in i + 1 .. Len(s) : s[j] \in S
  BY <1>1, <1>2
<1>4. /\ a \in Seq(S)
      /\ Len(a) = IF 1 <= i - 1 THEN (i - 1) - 1 + 1 ELSE 0
      /\ \A j \in 1 .. (i - 1) - 1 + 1 : a[j] = s[1 + j - 1]
  BY <1>2, <1>3, SubSeqProperties
<1>5. /\ b \in Seq(S)
      /\ Len(b) = IF i + 1 <= Len(s) THEN Len(s) - (i + 1) + 1 ELSE 0
      /\ \A j \in 1 .. Len(s) - (i + 1) + 1 : b[j] = s[(i + 1) + j - 1]
  BY <1>1, <1>2, <1>3, SubSeqProperties
<1> HIDE DEF a, b
<1>6. /\ r \in Seq(S) /\ Len(r) = Len(a) + Len(b)
      /\ \A k \in 1 .. Len(a) + Len(b) :
            r[k] = IF k <= Len(a) THEN a[k] ELSE b[k - Len(a)]
  BY <1>4, <1>5, ConcatProperties
<1>7. DOMAIN r = 1 .. Len(r)
  BY <1>6, LenProperties
<1> HIDE DEF r
<1>8. Len(a) = i - 1 /\ Len(b) = Len(s) - i
  BY <1>1, <1>2, <1>4, <1>5
<1>9. ASSUME NEW j \in DOMAIN s \ {i}
      PROVE  \E k \in DOMAIN r : r[k] = s[j]
  <2>1. CASE j < i
    <3>1. j \in DOMAIN r /\ j <= Len(a) /\ j \in 1 .. Len(a) + Len(b)
      BY <1>1, <1>2, <1>6, <1>7, <1>8, <2>1, SMTT(40)
    <3>2. j \in 1 .. (i - 1) - 1 + 1 /\ 1 + j - 1 = j
      BY <1>1, <1>2, <2>1
    <3>3. a[j] = s[1 + j - 1]
      BY <1>4, <3>2
    <3> QED BY <1>6, <3>1, <3>2, <3>3
  <2>2. CASE j > i
    <3>1. /\ j - 1 \in DOMAIN r /\ ~(j - 1 <= Len(a))
          /\ j - 1 \in 1 .. Len(a) + Len(b) /\ j - 1 - Len(a) = j - i
      BY <1>1, <1>2, <1>6, <1>7, <1>8, <2>2, SMTT(40)
    <3>2. /\ j - i \in 1 .. Len(s) - (i + 1) + 1
          /\ (i + 1) + (j - i) - 1 = j
      BY <1>1, <1>2, <2>2
    <3>3. b[j - i] = s[j]
      BY <1>5, <3>2
    <3> QED BY <1>6, <3>1, <3>3
  <2> QED BY <1>1, <1>2, <2>1, <2>2
<1>10. OneLess(S, s, i, r)
  BY <1>6, <1>9 DEF OneLess
<1> QED BY <1>10 DEF r, a, b

\* A timeout of the page.
LEMMA TimeoutNext ==
  ASSUME IInv, NEW i \in DOMAIN timeouts, Timeout(i)
  PROVE  IInv'
<1>1. /\ timeouts \in Seq({"slideUp", "update_file_list"}) /\ PageTypes
      /\ library_select \in Library \cup {"all"} /\ calls \in Nat
  BY DEF IInv, PageTypes
<1>2. timeouts' \in Seq({"slideUp", "update_file_list"})
  <2>1. OneLess({"slideUp", "update_file_list"}, timeouts, i, timeouts')
    BY <1>1, TakenOut DEF Timeout
  <2> QED BY <2>1 DEF OneLess
<1>3. UNCHANGED <<html, library_select, files_list, link_disabled, bound,
                  calls, thrown, fx, ajaxVars>> /\ stack = << >>
  BY Zenon DEF Timeout
<1>4. PageTypes'
  BY <1>1, <1>2, <1>3 DEF PageTypes
<1>5. \E ops \in Seq(Operation) : Cold(ops) /\ stack' = ops
  <2> DEFINE a == QueueOp(flash_messages, Slide("hide", "slow"))
             b == update_file_list(library_select)
  <2>1. 0 \in 0 .. MaxCalls
    BY PageElements
  <2>2. Plain(a) /\ Plain(b)
    BY <1>1, <2>1, PageFunctions
  <2>3. stack' = <<a>> \/ stack' = <<b>>
    BY DEF Timeout
  <2> HIDE DEF a, b
  <2> QED BY <2>2, <2>3, ShortScripts
<1>6. calls' \in Nat /\ calls' >= calls
  BY <1>1, <1>3
<1>7. JInv'
  BY <1>3, <1>5, <1>6, StartStep
<1> QED BY <1>4, <1>7 DEF IInv

\* A function on the first numbers is a sequence.
LEMMA ScriptOf ==
  ASSUME NEW n \in Nat, NEW f \in [1 .. n -> Operation],
         \A i \in 1 .. n : Plain(f[i])
  PROVE  f \in Seq(Operation) /\ Cold(f)
<1>1. f \in Seq(Operation)
  BY SeqDef, Zenon
<1>2. DOMAIN f = 1 .. n
  OBVIOUS
<1> QED BY <1>1, <1>2, PlainIsCold

\* Alt+x is handled as often as bound handlers call bound triggers.
LEMMA HotKeyScript ==
  ASSUME NEW n \in Nat, NEW k \in 0 .. MaxCalls
  PROVE  LET ops == [i \in 1 .. n |-> validate_abnf(k)]
         IN ops \in Seq(Operation) /\ Cold(ops)
<1> DEFINE ops == [i \in 1 .. n |-> validate_abnf(k)]
<1>1. Plain(validate_abnf(k))
  BY PageFunctions
<1>2. validate_abnf(k) \in Operation
  BY <1>1 DEF Plain
<1>3. ops \in [1 .. n -> Operation] /\ \A i \in 1 .. n : Plain(ops[i])
  BY <1>1, <1>2
<1> HIDE DEF ops
<1>4. ops \in Seq(Operation) /\ Cold(ops)
  BY <1>3, ScriptOf
<1> QED BY <1>4 DEF ops

\* The visible accordions are finitely many.
LEMMA AccordionsFinite ==
  ASSUME NEW others \in SUBSET Accordions
  PROVE  /\ Len(Accordion) \in Nat /\ DOMAIN Accordion = 1 .. Len(Accordion)
         /\ Cardinality(others) \in Nat
         /\ others # {} => Len(Accordion) # 0
         /\ others = {} <=> Cardinality(others) = 0
<1>1. /\ Len(Accordion) \in Nat /\ DOMAIN Accordion = 1 .. Len(Accordion)
  BY PageAssumption, LenProperties
<1>2. IsFiniteSet(1 .. Len(Accordion))
  BY <1>1, FS_Interval
<1>3. IsFiniteSet(Accordions)
  <2>1. Accordion \in [1 .. Len(Accordion) -> Accordions]
    BY PageAssumption, LenProperties
  <2>2. Accordion \in Surjection(1 .. Len(Accordion), Accordions)
    BY <1>1, <2>1 DEF Accordions, Surjection
  <2> QED BY <1>2, <2>2, FS_Surjection
<1>4. IsFiniteSet(others)
  BY <1>3, FS_Subset
<1>5. Cardinality(others) \in Nat
  BY <1>4, FS_CardinalityType
<1>6. others # {} => Len(Accordion) # 0
  BY <1>1 DEF Accordions
<1>7. others = {} <=> Cardinality(others) = 0
  BY <1>4, FS_EmptySet
<1> QED BY <1>1, <1>5, <1>6, <1>7

\* my_accordion hides all accordions as often as others are visible.
LEMMA AccordionScript ==
  ASSUME NEW div \in Accordions
  PROVE  AccordionOps(div) \in Seq(Operation) /\ Cold(AccordionOps(div))
<1> DEFINE others == {a \in Accordions \ {div} : visible[a]}
           m == Len(Accordion)
           hideAll == [i \in DOMAIN Accordion |->
                          QueueOp(Accordion[i],
                                  Animation("hide", "slow", NoCallback))]
           times == Cardinality(others) * m
           hide == [i \in 1 .. times |-> hideAll[((i - 1) % m) + 1]]
           last == QueueOp(div, Animation("show", "slow", Callback("enable", 0)))
<1>1. /\ m \in Nat /\ DOMAIN Accordion = 1 .. m /\ Cardinality(others) \in Nat
      /\ others # {} => m # 0
      /\ others = {} => Cardinality(others) = 0
  <2> HIDE DEF others, hide, hideAll, times
  <2>1. others \in SUBSET Accordions
    BY DEF others
  <2> QED BY <2>1, AccordionsFinite
<1>2. /\ NoCallback \in FxCallback /\ Callback("enable", 0) \in FxCallback
  <2>1. 0 \in 0 .. MaxCalls
    BY PageElements
  <2> QED BY <2>1, PageCallbacks
<1>3. Plain(last)
  BY <1>2, PlainQueue, PageElements
<1>4. \A i \in 1 .. m : Plain(hideAll[i]) /\ hideAll[i] \in Operation
  <2>1. ASSUME NEW i \in 1 .. m
        PROVE  Plain(QueueOp(Accordion[i], Animation("hide", "slow", NoCallback)))
    <3>1. Accordion[i] \in Elem
      BY <1>1, PageElements DEF Accordions
    <3> QED BY <1>2, <3>1, PlainQueue
  <2>2. \A i \in 1 .. m :
          hideAll[i] = QueueOp(Accordion[i], Animation("hide", "slow", NoCallback))
    BY <1>1
  <2> QED BY <2>1, <2>2 DEF Plain
<1>5. times \in Nat /\ (m = 0 => times = 0)
  <2> HIDE DEF others, m
  <2>1. \A a, b \in Nat : a * b \in Nat /\ (b = 0 => a * b = 0)
    OBVIOUS
  <2> QED BY <1>1, <2>1
<1> HIDE DEF hideAll, others, times, last, m
<1>6. ASSUME NEW i \in 1 .. times
      PROVE  ((i - 1) % m) + 1 \in 1 .. m
  <2>1. m \in Nat \ {0} /\ i - 1 \in Nat
    BY <1>1, <1>5
  <2>2. \A x \in Nat, y \in Nat \ {0} : x % y \in 0 .. y - 1
    OBVIOUS
  <2>3. (i - 1) % m \in 0 .. m - 1
    BY <2>1, <2>2
  <2> QED BY <2>1, <2>3
<1>7. /\ \A i \in 1 .. times : Plain(hide[i]) /\ hide[i] \in Operation
      /\ hide \in [1 .. times -> Operation]
  BY <1>4, <1>6
<1> HIDE DEF hide
<1>8. hide \in Seq(Operation) /\ DOMAIN hide = 1 .. times /\ Len(hide) = times
  BY <1>5, <1>7, ScriptOf, LenProperties
<1>9. <<last>> \in Seq(Operation) /\ Len(<<last>>) = 1 /\ <<last>>[1] = last
  BY <1>3 DEF Plain
<1> DEFINE ops == hide \o <<last>>
<1>10. /\ ops \in Seq(Operation) /\ Len(ops) = times + 1
       /\ \A i \in 1 .. times + 1 :
             ops[i] = IF i <= times THEN hide[i] ELSE <<last>>[i - times]
  BY <1>8, <1>9, ConcatProperties
<1>11. DOMAIN ops = 1 .. times + 1
  BY <1>10, LenProperties
<1> HIDE DEF ops
<1>12. ASSUME NEW i \in DOMAIN ops
       PROVE  Plain(ops[i])
  <2>1. CASE i <= times
    BY <1>5, <1>7, <1>10, <1>11, <2>1
  <2>2. CASE ~(i <= times)
    <3>1. i - times = 1
      BY <1>5, <1>11, <2>2
    <3> QED BY <1>3, <1>9, <1>10, <1>11, <2>2, <3>1
  <2> QED BY <2>1, <2>2
<1>13. Cold(ops)
  BY <1>12, PlainIsCold
<1>14. AccordionOps(div) = ops
  BY DEF AccordionOps, ops, hide, hideAll, others, times, last, m
<1> QED BY <1>10, <1>13, <1>14

\* The user starts a script.
LEMMA UserStartsNext ==
  ASSUME IInv, NEW ops \in Seq(Operation), Cold(ops), UserStarts(ops),
         library_select' \in Library \cup {"all"}
  PROVE  IInv'
<1>1. /\ calls' = calls + 1 /\ calls < MaxCalls /\ calls \in 0 .. MaxCalls
      /\ MaxCalls \in Nat
  BY PageElements DEF IInv, PageTypes, UserStarts
<1>2. calls' \in Nat /\ calls' >= calls /\ calls' \in 0 .. MaxCalls
  BY <1>1
<1>3. JInv'
  BY <1>2, StartStep DEF UserStarts
<1>4. PageTypes'
  BY <1>2 DEF IInv, PageTypes, UserStarts
<1> QED BY <1>3, <1>4 DEF IInv

\* The request whose answer is a new editor.
LEMMA SaveNext ==
  ASSUME IInv, Save
  PROVE  IInv'
<1> DEFINE op == AjaxOp(Callback("editor", 0), Callback("notify", 0))
<1>1. /\ op \in Operation /\ op.op = "ajax" /\ Editing(op)
  <2>1. 0 \in 0 .. MaxCalls /\ "all" \in Library \cup {"all"}
    BY PageElements
  <2>2. /\ Callback("editor", 0) \in SuccessCallback
        /\ Callback("notify", 0) \in CompleteCallback
        /\ Callback("editor", 0).fn = "editor"
    BY <2>1, PageCallbacks DEF Callback
  <2> QED BY <2>2, AjaxOperation DEF Editing
<1>2. /\ stack = << >> /\ stack' = <<op>> /\ calls < MaxCalls
      /\ calls' = calls + 1
      /\ UNCHANGED <<fx, ajaxVars, html, library_select, files_list,
                     link_disabled, bound, timeouts, thrown>>
  BY DEF Save, UserStarts
<1> HIDE DEF op
<1>3. ~Hot(op) /\ ~Closing(op) /\ ~Validating(op)
  BY <1>1 DEF Hot, Closing, Validating
<1>4. /\ stack' \in Seq(Operation) /\ stack' # << >> /\ Len(stack') = 1
      /\ DOMAIN stack' = {1} /\ stack'[1] = op /\ Head(stack') = op
  BY <1>1, <1>2
<1>5. ScriptInv' /\ ~Answering(stack') /\ (\A t : Keeps(stack', t))
  <2>1. ~Answering(stack')
    BY <1>1, <1>4 DEF Answering
  <2>2. Placed(stack')
    BY <1>3, <1>4 DEF Placed
  <2>3. \A t : Keeps(stack', t)
    BY <1>1, <1>4 DEF Keeps
  <2> QED BY <2>1, <2>2, <2>3 DEF ScriptInv
<1>6. FxTypes' /\ AjaxTypes'
  BY <1>2 DEF IInv, JInv, FxTypes, fx, AjaxTypes, ajaxVars
<1>7. EndInv'
  BY <1>1, <1>2, <1>4 DEF IInv, JInv, EndInv, fx
<1>8. QueueInv'
  BY <1>2, <1>3, <1>4, <1>5, QueueStays DEF IInv, JInv, fx
<1>9. ActiveInv'
  <2>1. ~Answering(stack)
    BY <1>2 DEF Answering
  <2> QED BY <1>2, <1>5, <2>1, ActiveStays DEF IInv, JInv, ajaxVars
<1>10. BoundInv'
  <2>1. Cardinality(Editors) \in Nat /\ calls \in Nat /\ bound \in Nat
    BY EditorsFinite DEF ActiveInv, IInv, JInv, PageTypes
  <2>2. bound + Cardinality(Editors) + 0 <= calls + 1
    BY <1>2 DEF BoundInv, IInv, JInv
  <2>3. Editors' = Editors /\ bound' = bound
    BY <1>2 DEF Editors, ajaxVars
  <2>4. bound' + Cardinality(Editors') + 1 <= calls' + 1
    BY <1>2, <2>1, <2>2, <2>3
  <2> QED BY <1>1, <1>4, <2>4 DEF BoundInv
<1>11. PageTypes'
  <2>1. calls' \in 0 .. MaxCalls
    BY <1>2, PageElements DEF IInv, PageTypes
  <2> QED BY <1>2, <2>1 DEF IInv, PageTypes
<1> QED BY <1>4, <1>5, <1>6, <1>7, <1>8, <1>9, <1>10, <1>11 DEF IInv, JInv

\* Everything a user does starts a script of plain operations, or a request
\* for an editor.
LEMMA UserNext ==
  ASSUME IInv, User
  PROVE  IInv'
<1>1. /\ library_select \in Library \cup {"all"} /\ bound \in Nat
      /\ calls \in 0 .. MaxCalls /\ MaxCalls \in Nat
  BY PageElements DEF IInv, PageTypes
<1>2. ASSUME NEW ops, UserStarts(ops)
      PROVE  calls + 1 \in 0 .. MaxCalls
  BY <1>1, <1>2 DEF UserStarts
<1>3. ASSUME NEW op, Plain(op), UserStarts(<<op>>),
             library_select' \in Library \cup {"all"}
      PROVE  IInv'
  BY <1>3, ShortScripts, UserStartsNext
<1>4. "all" \in Library \cup {"all"} /\ 0 \in 0 .. MaxCalls
  BY <1>1
<1>5. CASE Validate
  <2>1. UserStarts(<<validate_abnf(calls + 1)>>) /\ UNCHANGED library_select
    BY <1>5 DEF Validate
  <2>2. Plain(validate_abnf(calls + 1))
    BY <1>2, <1>4, <2>1, PageFunctions
  <2> QED BY <1>1, <1>3, <2>1, <2>2
<1>6. CASE HotKey
  <2> DEFINE ops == [i \in 1 .. bound * bound |-> validate_abnf(calls + 1)]
  <2>1. UserStarts(ops) /\ UNCHANGED library_select
    BY <1>6 DEF HotKey
  <2>2. bound * bound \in Nat /\ calls + 1 \in 0 .. MaxCalls
    BY <1>1, <1>2, <2>1
  <2>3. ops \in Seq(Operation) /\ Cold(ops)
    BY <2>2, HotKeyScript
  <2> HIDE DEF ops
  <2> QED BY <1>1, <2>1, <2>3, UserStartsNext
<1>7. ASSUME NEW library \in Library \cup {"all"}, SelectLibrary(library)
      PROVE  IInv'
  <2>1. UserStarts(<<update_file_list(library)>>) /\ library_select' = library
    BY <1>7 DEF SelectLibrary
  <2>2. Plain(update_file_list(library))
    BY <1>4, PageFunctions
  <2> QED BY <1>3, <2>1, <2>2
<1>8. ASSUME NEW fn \in {"created", "deleted", "checked"},
             UserStarts(<<AjaxOp(Callback(fn, 0), NoCallback)>>),
             UNCHANGED library_select
      PROVE  IInv'
  <2>1. Plain(AjaxOp(Callback(fn, 0), NoCallback))
    BY <1>4, PageFunctions
  <2> QED BY <1>1, <1>3, <1>8, <2>1
<1>9. CASE CreateLibrary \/ DeleteLibrary \/ LaunchSimulation
  BY <1>8, <1>9 DEF CreateLibrary, DeleteLibrary, LaunchSimulation
<1>10. ASSUME NEW div \in Accordions, my_accordion(div)
       PROVE  IInv'
  <2>1. AccordionOps(div) \in Seq(Operation) /\ Cold(AccordionOps(div))
    BY AccordionScript
  <2>2. /\ stack = << >> /\ stack' = AccordionOps(div) /\ calls < MaxCalls
        /\ calls' = calls + 1 /\ link_disabled' = TRUE
        /\ UNCHANGED <<fx, ajaxVars, bound, thrown, html, library_select,
                       files_list, timeouts>>
    BY <1>10 DEF my_accordion
  <2>3. calls' \in Nat /\ calls' >= calls /\ calls' \in 0 .. MaxCalls
    BY <1>1, <2>2
  <2>4. JInv'
    BY <2>1, <2>2, <2>3, StartStep
  <2>5. PageTypes'
    BY <2>2, <2>3 DEF IInv, PageTypes
  <2> QED BY <2>4, <2>5 DEF IInv
<1> QED BY <1>5, <1>6, <1>7, <1>9, <1>10, SaveNext DEF User

-----------------------------------------------------------------------------
(* Requests *)

\* The least element of a set of numbers.
LEMMA LeastOf ==
  ASSUME NEW S \in SUBSET Nat, S # {}
  PROVE  \E x \in S : \A y \in S : x <= y
<1>1. PICK x \in S : \A y \in S : ~ (<<y, x>> \in OpToRel(<, Nat))
  BY NatLessThanWellFounded, WFMin, Zenon
<1>2. ASSUME NEW y \in S, y < x
      PROVE  <<y, x>> \in OpToRel(<, Nat)
  <2>1. <<y, x>> \in Nat \X Nat /\ <<y, x>>[1] < <<y, x>>[2]
    BY <1>2
  <2> QED BY <2>1, Zenon DEF OpToRel
<1>3. \A y \in S : ~ (y < x)
  BY <1>1, <1>2, Zenon
<1> QED BY <1>3

\* The numbers of the page stay as they are in the steps of jQuery.
LEMMA PageStays ==
  ASSUME IInv, UNCHANGED pageVars
  PROVE  /\ PageTypes' /\ UNCHANGED <<bound, calls, thrown>>
         /\ calls \in Nat /\ calls' \in Nat /\ calls' >= calls
         /\ bound \in Nat /\ thrown \in Nat
<1>1. PageTypes' /\ UNCHANGED <<bound, calls, thrown>>
  BY DEF IInv, PageTypes, pageVars
<1>2. calls \in Nat /\ bound \in Nat /\ thrown \in Nat
  BY DEF IInv, PageTypes
<1> QED BY <1>1, <1>2

\* One more, or one less, request under way.
LEMMA Counting ==
  ASSUME NEW S, NEW T, NEW r, IsFiniteSet(S)
  PROVE  /\ Cardinality(S) \in Nat
         /\ (r \notin S /\ T = S \cup {r}) =>
               IsFiniteSet(T) /\ Cardinality(T) = Cardinality(S) + 1
         /\ (r \in S /\ T = S \ {r}) =>
               IsFiniteSet(T) /\ Cardinality(T) = Cardinality(S) - 1
BY FS_CardinalityType, FS_AddElement, FS_RemoveElement

\* A request is sent: one more is under way.
LEMMA AjaxNext ==
  ASSUME IInv, Ajax, UNCHANGED pageVars
  PROVE  IInv'
<1> DEFINE free == {r \in Request : xhr[r].state = 0}
           r == CHOOSE x \in free : \A y \in free : x <= y
           op == stack[1]
           req == [state |-> 1, success |-> op.success, complete |-> op.complete]
<1>1. /\ stack # << >> /\ op.op = "ajax" /\ Head(stack) = op
      /\ op \in Operation
  BY StackFacts DEF Ajax, Running, IInv, JInv
<1>2. /\ op.success \in SuccessCallback /\ op.complete \in CompleteCallback
  BY <1>1, OperationFields
<1>3. /\ free # {} /\ xhr' = [xhr EXCEPT ![r] = req] /\ active' = active + 1
      /\ Becomes(<< >>) /\ UNCHANGED fx
  BY <1>1 DEF Ajax
<1>4. r \in Request /\ xhr[r].state = 0
  <2>1. free \in SUBSET Nat
    BY IdAssumption
  <2>2. \E x \in free : \A y \in free : x <= y
    <3> HIDE DEF free
    <3> QED BY <1>3, <2>1, LeastOf
  <2>3. r \in free
    BY <2>2
  <2> QED BY <2>3
<1>5. << >> \in Seq(Operation) /\ Cold(<< >>)
  BY DEF Cold, Fits
<1>6. /\ (stack \in Seq(Operation))' /\ FxTypes' /\ ScriptInv'
      /\ EndInv' /\ QueueInv'
      /\ Answering(stack') <=> Answering(stack)
      /\ stack' # << >> => ~Editing(stack'[1])
  BY <1>1, <1>3, <1>5, ScriptStep DEF Closing, Hot
<1> HIDE DEF free, r
<1>7. /\ req \in [state : {0, 1}, success : SuccessCallback,
                  complete : CompleteCallback]
      /\ req.state = 1 /\ req.success = op.success
  BY <1>2
<1>8. AjaxTypes'
  <2> HIDE DEF req
  <2> QED BY <1>3, <1>4, <1>7 DEF IInv, JInv, AjaxTypes
<1>9. \A x \in Request : xhr'[x] = IF x = r THEN req ELSE xhr[x]
  <2> HIDE DEF req
  <2> QED BY <1>3, <1>4 DEF IInv, JInv, AjaxTypes
<1> HIDE DEF req, op
<1>10. r \notin Open /\ Open' = Open \cup {r}
  BY <1>4, <1>7, <1>9 DEF Open
<1>11. /\ IsFiniteSet(Open) /\ IsFiniteSet(Editors)
       /\ Cardinality(Open) \in Nat /\ Cardinality(Editors) \in Nat
  BY EditorsFinite DEF IInv, JInv, ActiveInv
<1>12. UNCHANGED <<bound, calls, thrown>> /\ PageTypes' /\ bound \in Nat
       /\ calls \in Nat /\ thrown \in Nat
  BY PageStays
<1>13. ActiveInv'
  <2>1. IsFiniteSet(Open') /\ Cardinality(Open') = Cardinality(Open) + 1
    BY <1>10, <1>11, Counting
  <2>2. PICK k \in {0, 1} : k = IF Answering(stack) THEN 1 ELSE 0
    OBVIOUS
  <2>3. active = thrown + Cardinality(Open) + k
    BY <2>2 DEF IInv, JInv, ActiveInv
  <2>4. active' = thrown' + Cardinality(Open') + k
    BY <1>3, <1>11, <1>12, <2>1, <2>3
  <2> QED BY <1>6, <2>1, <2>2, <2>4 DEF ActiveInv
<1>14. BoundInv'
  <2>1. Editing(stack[1]) <=> op.success.fn = "editor"
    BY <1>1 DEF op, Editing
  <2>2. r \notin Editors
    BY <1>4 DEF Editors
  <2>3. CASE op.success.fn = "editor"
    <3>1. Editors' = Editors \cup {r}
      BY <1>4, <1>7, <1>9, <2>3 DEF Editors
    <3>2. Cardinality(Editors') = Cardinality(Editors) + 1
      BY <1>11, <2>2, <3>1, Counting
    <3>3. bound + Cardinality(Editors) + 1 <= calls + 1
      BY <1>1, <2>1, <2>3 DEF IInv, JInv, BoundInv
    <3>4. bound' + Cardinality(Editors') + 0 <= calls' + 1
      BY <1>11, <1>12, <3>2, <3>3
    <3> QED BY <1>6, <3>4 DEF BoundInv
  <2>4. CASE op.success.fn # "editor"
    <3>1. Editors' = Editors
      BY <1>4, <1>7, <1>9, <2>4 DEF Editors
    <3>2. bound + Cardinality(Editors) + 0 <= calls + 1
      BY <2>1, <2>4 DEF IInv, JInv, BoundInv
    <3>3. bound' + Cardinality(Editors') + 0 <= calls' + 1
      BY <1>12, <3>1, <3>2
    <3> QED BY <1>6, <3>3 DEF BoundInv
  <2> QED BY <2>3, <2>4
<1> QED BY <1>6, <1>8, <1>12, <1>13, <1>14 DEF IInv, JInv

\* The script of an answer, operation by operation.
LEMMA ThreeOperations ==
  ASSUME NEW a \in Operation, NEW b \in Operation, NEW c \in Operation,
         NEW new, new = <<a>> \o <<b, c>>
  PROVE  /\ new \in Seq(Operation) /\ new # << >> /\ Len(new) = 3
         /\ DOMAIN new = {1, 2, 3} /\ Head(new) = new[1]
         /\ new[1] = a /\ new[2] = b /\ new[3] = c
<1> DEFINE ops == <<a>> \o <<b, c>>
<1>1. /\ <<a>> \in Seq(Operation) /\ <<b, c>> \in Seq(Operation)
      /\ Len(<<a>>) = 1 /\ Len(<<b, c>>) = 2
      /\ <<a>>[1] = a /\ <<b, c>>[1] = b /\ <<b, c>>[2] = c
  OBVIOUS
<1>2. /\ ops \in Seq(Operation) /\ Len(ops) = Len(<<a>>) + Len(<<b, c>>)
      /\ \A i \in 1 .. Len(<<a>>) + Len(<<b, c>>) :
            ops[i] = IF i <= Len(<<a>>) THEN <<a>>[i] ELSE <<b, c>>[i - Len(<<a>>)]
  BY <1>1, ConcatProperties, Zenon
<1> HIDE DEF ops
<1>3. Len(ops) = 3 /\ ops[1] = a /\ ops[2] = b /\ ops[3] = c
  BY <1>1, <1>2
<1>4. DOMAIN ops = 1 .. Len(ops) /\ ops # << >>
  BY <1>2, <1>3, LenProperties, EmptySeq, SMTT(40)
<1>5. DOMAIN ops = {1, 2, 3} /\ Head(ops) = ops[1]
  BY <1>2, <1>3, <1>4
<1> QED BY <1>2, <1>3, <1>4, <1>5 DEF ops

\* What done() of a request calls.
LEMMA DoneScript ==
  ASSUME NEW request \in [state : {0, 1}, success : SuccessCallback,
                          complete : CompleteCallback],
         NEW ok \in BOOLEAN, NEW ops, ops = DoneOps(request, ok)
  PROVE  /\ ops \in Seq(Operation) /\ ops # << >>
         /\ Placed(ops) /\ Answering(ops)
         /\ (\A t : Keeps(ops, t))
         /\ ~Hot(ops[1]) /\ Head(ops) = ops[1]
         /\ Editing(ops[1]) => request.success.fn = "editor"
         /\ \A i \in DOMAIN ops : ops[i].op # "tickEnd"
<1> DEFINE s == CallOp(request.success)
           c == CallOp(request.complete)
<1>1. /\ request.success \in AnyCallback /\ request.complete \in CompleteCallback
  BY DEF AnyCallback
<1>2. /\ s \in Operation /\ s.op = "call" /\ s.callback = request.success
  BY <1>1, CallOperation
<1>3. /\ c \in Operation /\ c.op = "call" /\ c.callback = request.complete
      /\ c.callback.fn \notin {"validated", "editor"}
  BY <1>1, CompleteFields, CallOperation
<1>4. DoneOp \in Operation /\ DoneOp.op = "done"
  BY ClosingOperations
<1>5. CASE ok
  <2>1. ops = <<s>> \o <<c, DoneOp>>
    BY <1>5 DEF DoneOps
  <2> HIDE DEF s, c
  <2>2. /\ ops \in Seq(Operation) /\ ops # << >> /\ Len(ops) = 3
        /\ DOMAIN ops = {1, 2, 3} /\ Head(ops) = ops[1]
        /\ ops[1] = s /\ ops[2] = c /\ ops[3] = DoneOp
    BY <1>2, <1>3, <1>4, <2>1, ThreeOperations
  <2> HIDE <2>1
  <2>3. Answering(ops)
    BY <1>4, <2>2 DEF Answering
  <2>4. Placed(ops)
    BY <1>2, <1>3, <1>4, <2>2, <2>3
       DEF Placed, Hot, Editing, Validating, Closing
  <2>5. /\ ~Hot(ops[1]) /\ (Editing(ops[1]) => request.success.fn = "editor")
        /\ \A i \in DOMAIN ops : ops[i].op # "tickEnd"
    BY <1>2, <1>3, <1>4, <2>2 DEF Hot, Editing
  <2>6. \A t : Keeps(ops, t)
    BY <2>5 DEF Keeps
  <2> QED BY <2>2, <2>3, <2>4, <2>5, <2>6
<1>6. CASE ~ok
  <2>1. ops = <<c, DoneOp>>
    BY <1>6 DEF DoneOps
  <2> HIDE DEF s, c
  <2>2. /\ ops \in Seq(Operation) /\ ops # << >> /\ Len(ops) = 2
        /\ DOMAIN ops = {1, 2} /\ Head(ops) = ops[1]
        /\ ops[1] = c /\ ops[2] = DoneOp
    BY <1>3, <1>4, <2>1
  <2> HIDE <2>1
  <2>3. Answering(ops)
    BY <1>4, <2>2 DEF Answering
  <2>4. Placed(ops)
    BY <1>3, <1>4, <2>2, <2>3
       DEF Placed, Hot, Editing, Validating, Closing
  <2>5. /\ ~Hot(ops[1]) /\ ~Editing(ops[1])
        /\ \A i \in DOMAIN ops : ops[i].op # "tickEnd"
    BY <1>3, <1>4, <2>2 DEF Hot, Editing
  <2>6. \A t : Keeps(ops, t)
    BY <2>5 DEF Keeps
  <2> QED BY <2>2, <2>3, <2>4, <2>5, <2>6
<1> QED BY <1>5, <1>6

\* A request is answered: its callbacks are run, and it counts until they
\* end.
LEMMA RespondNext ==
  ASSUME IInv, NEW r \in Request, NEW ok \in BOOLEAN, Respond(r, ok),
         UNCHANGED pageVars
  PROVE  IInv'
<1>1. /\ stack = << >> /\ xhr[r].state = 1
      /\ xhr' = [xhr EXCEPT ![r] = NoRequest]
      /\ stack' = DoneOps(xhr[r], ok) /\ UNCHANGED <<fx, active>>
  BY DEF Respond
<1>2. xhr[r] \in [state : {0, 1}, success : SuccessCallback,
                  complete : CompleteCallback]
  BY DEF IInv, JInv, AjaxTypes
<1>3. /\ stack' \in Seq(Operation) /\ stack' # << >>
      /\ Placed(stack') /\ Answering(stack')
      /\ (\A t : Keeps(stack', t))
      /\ ~Hot(stack'[1]) /\ Head(stack') = stack'[1]
      /\ Editing(stack'[1]) => xhr[r].success.fn = "editor"
      /\ \A i \in DOMAIN stack' : stack'[i].op # "tickEnd"
  BY <1>1, <1>2, DoneScript
<1>4. FxTypes' /\ ScriptInv' /\ EndInv'
  <2>1. FxTypes'
    BY <1>1 DEF IInv, JInv, FxTypes, fx
  <2>2. EndInv'
    BY <1>1, <1>3 DEF IInv, JInv, EndInv, fx
  <2> QED BY <1>3, <2>1, <2>2 DEF ScriptInv
<1>5. QueueInv'
  BY <1>1, <1>3, QueueStays DEF IInv, JInv, fx
<1>6. NoRequest \in [state : {0, 1}, success : SuccessCallback,
                     complete : CompleteCallback] /\ NoRequest.state = 0
  <2>1. 0 \in 0 .. MaxCalls
    BY PageElements
  <2>2. NoCallback \in SuccessCallback /\ NoCallback \in CompleteCallback
    BY <2>1, PageCallbacks
  <2> QED BY <2>2 DEF NoRequest
<1>7. AjaxTypes' /\ \A x \in Request : xhr'[x] = IF x = r THEN NoRequest ELSE xhr[x]
  BY <1>1, <1>6 DEF IInv, JInv, AjaxTypes
<1>8. /\ r \in Open /\ Open' = Open \ {r} /\ Editors' = Editors \ {r}
      /\ (r \in Editors <=> xhr[r].success.fn = "editor")
  BY <1>1, <1>6, <1>7 DEF Open, Editors
<1>9. /\ IsFiniteSet(Open) /\ IsFiniteSet(Editors)
      /\ Cardinality(Open) \in Nat /\ Cardinality(Editors) \in Nat
  BY EditorsFinite DEF IInv, JInv, ActiveInv
<1>10. UNCHANGED <<bound, calls, thrown>> /\ PageTypes' /\ bound \in Nat
       /\ calls \in Nat /\ thrown \in Nat
  BY PageStays
<1>11. ActiveInv'
  <2>1. IsFiniteSet(Open') /\ Cardinality(Open') = Cardinality(Open) - 1
    BY <1>8, <1>9, Counting
  <2>2. active = thrown + Cardinality(Open) + 0
    BY <1>1 DEF IInv, JInv, ActiveInv, Answering
  <2>3. active' = thrown' + Cardinality(Open') + 1
    BY <1>1, <1>9, <1>10, <2>1, <2>2
  <2> QED BY <1>3, <2>1, <2>3 DEF ActiveInv
<1>12. BoundInv'
  <2>1. bound + Cardinality(Editors) + 0 <= calls + 1
    BY <1>1 DEF IInv, JInv, BoundInv
  <2>2. CASE r \in Editors
    <3>1. Cardinality(Editors') = Cardinality(Editors) - 1
      BY <1>8, <1>9, <2>2, Counting
    <3>2. /\ bound' + Cardinality(Editors') + 1 <= calls' + 1
          /\ bound' + Cardinality(Editors') + 0 <= calls' + 1
      BY <1>9, <1>10, <2>1, <3>1
    <3> QED BY <3>2 DEF BoundInv
  <2>3. CASE r \notin Editors
    <3>1. Editors' = Editors /\ ~Editing(stack'[1])
      BY <1>3, <1>8, <2>3
    <3>2. bound' + Cardinality(Editors') + 0 <= calls' + 1
      BY <1>10, <2>1, <3>1
    <3> QED BY <3>1, <3>2 DEF BoundInv
  <2> QED BY <2>2, <2>3
<1> QED BY <1>3, <1>4, <1>5, <1>7, <1>10, <1>11, <1>12 DEF IInv, JInv

\* The end of done() is the end of the script.
LEMMA LastOperation ==
  ASSUME IInv, stack # << >>, Closing(stack[1]), Becomes(<< >>)
  PROVE  Len(stack) = 1 /\ stack' = << >>
<1>1. Len(stack) \in Nat \ {0} /\ 1 \in DOMAIN stack
      /\ stack \in Seq(Operation) /\ Placed(stack)
  BY StackFacts DEF IInv, JInv, ScriptInv
<1>2. Len(stack) = 1
  BY <1>1, Zenon DEF Placed
<1>3. /\ << >> \in Seq(Operation) /\ Len(<< >>) = 0
  BY EmptySeq
<1>4. Replaces(Operation, stack, << >>, << >> \o Tail(stack))
  BY <1>1, <1>3, BecomesAt
<1>5. Replaces(Operation, stack, << >>, stack')
  BY <1>4 DEF Becomes
<1> QED BY <1>2, <1>3, <1>5 DEF Replaces

\* The callbacks have ended without throwing.
LEMMA DoneNext ==
  ASSUME IInv, Done, UNCHANGED pageVars
  PROVE  IInv'
<1>1. /\ stack # << >> /\ stack[1].op = "done" /\ active' = active - 1
      /\ Becomes(<< >>) /\ UNCHANGED <<fx, xhr>>
  BY StackFacts DEF IInv, JInv, Done, Running
<1>2. Len(stack) = 1 /\ stack' = << >>
  BY <1>1, LastOperation DEF Closing
<1>3. Answering(stack) /\ ~Answering(stack') /\ ~Hot(stack[1])
  BY <1>1, <1>2 DEF Answering, Hot
<1>4. (stack \in Seq(Operation))' /\ ScriptInv' /\ FxTypes' /\ EndInv'
  <2>1. stack' \in Seq(Operation) /\ ScriptInv'
    BY <1>2 DEF ScriptInv, Placed
  <2>2. FxTypes'
    BY <1>1 DEF IInv, JInv, FxTypes, fx
  <2>3. EndInv'
    BY <1>1, <1>2 DEF IInv, JInv, EndInv, fx
  <2> QED BY <2>1, <2>2, <2>3
<1>5. QueueInv'
  <2>1. \A t : Keeps(stack', t)
    BY <1>2 DEF Keeps
  <2> QED BY <1>1, <1>2, <1>3, <2>1, QueueStays DEF IInv, JInv, fx
<1>6. UNCHANGED <<bound, calls, thrown>> /\ PageTypes' /\ bound \in Nat
      /\ calls \in Nat /\ calls' \in Nat /\ calls' >= calls /\ thrown \in Nat
  BY PageStays
<1>7. ActiveInv' /\ AjaxTypes'
  <2>1. Open' = Open /\ IsFiniteSet(Open) /\ Cardinality(Open) \in Nat
    BY <1>1, EditorsFinite DEF IInv, JInv, ActiveInv, Open
  <2>2. active = thrown + Cardinality(Open) + 1
    BY <1>3 DEF IInv, JInv, ActiveInv
  <2>3. active' = thrown' + Cardinality(Open') + 0 /\ active' \in Nat
    BY <1>1, <1>6, <2>1, <2>2
  <2>4. AjaxTypes'
    BY <1>1, <2>3 DEF IInv, JInv, AjaxTypes
  <2> QED BY <1>3, <2>1, <2>3, <2>4 DEF ActiveInv
<1>8. BoundInv'
  BY <1>1, <1>2, <1>6, BoundStays DEF IInv, JInv
<1> QED BY <1>4, <1>5, <1>6, <1>7, <1>8 DEF IInv, JInv

-----------------------------------------------------------------------------
(* Queues and animations *)

\* Queues that are empty or have one item.
LEMMA EmptyQueue == << >> \in FxQueue
BY DEF FxQueue

LEMMA NewQueue ==
  ASSUME NEW item \in Item
  PROVE  <<item>> \in FxQueue /\ <<item>> # << >> /\ Head(<<item>>) = item
BY DEF FxQueue

\* An item that joins a queue does not change its first one.
LEMMA LongerQueue ==
  ASSUME NEW q \in FxQueue, q # << >>, NEW item \in Item
  PROVE  /\ Append(q, item) \in FxQueue /\ Append(q, item) # << >>
         /\ Head(Append(q, item)) = Head(q)
<1> DEFINE S == Item \cup {Inprogress}
           r == Append(q, item)
<1>1. q \in Seq(S) /\ \A i \in DOMAIN q : i # 1 => q[i] \in Item
  BY DEF FxQueue
<1>2. Len(q) \in Nat \ {0} /\ DOMAIN q = 1 .. Len(q)
  BY <1>1, EmptySeq, LenProperties
<1>3. /\ r \in Seq(S) /\ r # << >> /\ Len(r) = Len(q) + 1
      /\ \A i \in 1 .. Len(q) : r[i] = q[i]
      /\ r[Len(q) + 1] = item
  BY <1>1, AppendProperties
<1>4. DOMAIN r = 1 .. Len(r)
  BY <1>3, LenProperties
<1>5. Head(r) = r[1] /\ Head(q) = q[1]
  BY <1>1, <1>3
<1> HIDE DEF r, S
<1>6. ASSUME NEW i \in DOMAIN r, i # 1
      PROVE  r[i] \in Item
  <2>1. i \in 1 .. Len(q) \/ i = Len(q) + 1
    BY <1>2, <1>3, <1>4
  <2> QED BY <1>1, <1>2, <1>3, <1>6, <2>1
<1>7. r \in FxQueue
  BY <1>3, <1>6 DEF FxQueue, S
<1>8. r[1] = q[1]
  BY <1>2, <1>3
<1> QED BY <1>3, <1>5, <1>7, <1>8 DEF r

\* What is left behind the mark are items; the first of them runs behind a
\* new mark.
LEMMA NextInQueue ==
  ASSUME NEW q \in FxQueue, NEW w, w = WithoutInprogress(q), w # << >>
  PROVE  /\ Head(w) \in Item
         /\ <<Inprogress>> \o Tail(w) \in FxQueue
         /\ <<Inprogress>> \o Tail(w) # << >>
         /\ Head(<<Inprogress>> \o Tail(w)) = Inprogress
<1> DEFINE S == Item \cup {Inprogress}
<1>1. q \in Seq(S) /\ \A i \in DOMAIN q : i # 1 => q[i] \in Item
  BY DEF FxQueue
<1>2. q # << >>
  BY DEF WithoutInprogress
<1>3. /\ Len(q) \in Nat \ {0} /\ DOMAIN q = 1 .. Len(q)
      /\ q \in [1 .. Len(q) -> S] /\ Head(q) = q[1]
  <2>1. Len(q) \in Nat \ {0}
    BY <1>1, <1>2, EmptySeq
  <2>2. DOMAIN q = 1 .. Len(q) /\ q \in [1 .. Len(q) -> S]
    BY <1>1, LenProperties
  <2> QED BY <1>1, <1>2, <2>1, <2>2
<1>4. /\ w \in Seq(S) /\ Len(w) \in Nat \ {0} /\ DOMAIN w = 1 .. Len(w)
      /\ \A i \in DOMAIN w : w[i] \in Item
  <2>1. CASE Head(q) = Inprogress
    <3>1. w = Tail(q)
      BY <1>2, <2>1 DEF WithoutInprogress
    <3>2. /\ w \in Seq(S) /\ Len(w) = Len(q) - 1
          /\ \A i \in 1 .. Len(w) : w[i] = q[i + 1]
      BY <1>1, <1>2, <3>1, HeadTailProperties
    <3>3. Len(w) \in Nat \ {0} /\ DOMAIN w = 1 .. Len(w)
      BY <3>2, EmptySeq, LenProperties
    <3>4. ASSUME NEW i \in DOMAIN w
          PROVE  w[i] \in Item
      <4>1. i + 1 \in DOMAIN q /\ i + 1 # 1 /\ i \in 1 .. Len(w)
        BY <1>3, <3>2, <3>3
      <4> QED BY <1>1, <3>2, <4>1
    <3> QED BY <3>2, <3>3, <3>4
  <2>2. CASE Head(q) # Inprogress
    <3>1. w = q
      BY <2>2 DEF WithoutInprogress
    <3>2. q[1] \in Item
      BY <1>3, <2>2
    <3> QED BY <1>1, <1>3, <3>1, <3>2
  <2> QED BY <2>1, <2>2
<1> HIDE DEF S
<1>5. Head(w) \in Item
  <2>1. Head(w) = w[1] /\ 1 \in DOMAIN w
    BY <1>4
  <2> QED BY <1>4, <2>1
<1> DEFINE m == <<Inprogress>>
           r == m \o Tail(w)
<1>6. m \in Seq(S) /\ m # << >> /\ Len(m) = 1 /\ m[1] = Inprogress
  BY DEF S
<1>7. Replaces(S, w, m, r)
  BY <1>4, <1>6, BecomesAt
<1> HIDE DEF m, r
<1>8. /\ r \in Seq(S) /\ Len(r) = Len(w) /\ DOMAIN r = 1 .. Len(r)
      /\ \A i \in 1 .. Len(r) : r[i] = IF i <= 1 THEN m[i] ELSE w[i]
      /\ r # << >>
  BY <1>4, <1>6, <1>7 DEF Replaces
<1>9. r[1] = Inprogress /\ \A i \in DOMAIN r : i # 1 => r[i] \in Item
  BY <1>4, <1>6, <1>8
<1>10. r \in FxQueue
  BY <1>8, <1>9 DEF FxQueue, S
<1>11. Head(r) = r[1]
  BY <1>8
<1> QED BY <1>5, <1>8, <1>9, <1>10, <1>11 DEF r, m

\* A step of a queue or an animation changes no request.
LEMMA FxStep ==
  ASSUME IInv, stack # << >>, ~Closing(stack[1]),
         NEW ops \in Seq(Operation), Fits(ops), Becomes(ops),
         UNCHANGED <<ajaxVars, pageVars>>, FxTypes', EndInv', QueueInv'
  PROVE  IInv'
<1>1. /\ stack' \in Seq(Operation) /\ ScriptInv'
      /\ Continues(stack, ops, stack')
  BY BecomesFits DEF IInv, JInv
<1>2. /\ PageTypes' /\ UNCHANGED <<bound, calls, thrown>>
      /\ calls \in Nat /\ calls' \in Nat /\ calls' >= calls /\ bound \in Nat
  BY PageStays
<1>3. AjaxTypes'
  BY DEF IInv, JInv, AjaxTypes, ajaxVars
<1>4. ActiveInv'
  BY <1>1, <1>2, ActiveStays DEF IInv, JInv, ajaxVars, Continues
<1>5. BoundInv'
  BY <1>1, <1>2, BoundStays DEF IInv, JInv, ajaxVars, Continues
<1> QED BY <1>1, <1>2, <1>3, <1>4, <1>5 DEF IInv, JInv

\* Two operations, the second of which leaves the queues alone.
LEMMA FitsShort ==
  ASSUME NEW a \in Operation, ~Closing(a), ~Editing(a), ~Validating(a),
         NEW b \in Operation, ~Closing(b), ~Editing(b), ~Validating(b), ~Hot(b)
  PROVE  /\ << >> \in Seq(Operation) /\ Fits(<< >>)
         /\ <<a>> \in Seq(Operation) /\ Fits(<<a>>) /\ <<a>> # << >>
         /\ <<a>>[1] = a
         /\ <<a, b>> \in Seq(Operation) /\ Fits(<<a, b>>) /\ <<a, b>> # << >>
         /\ <<a, b>>[1] = a
<1>1. << >> \in Seq(Operation) /\ Fits(<< >>)
  BY DEF Fits
<1>2. <<a>> \in Seq(Operation) /\ Fits(<<a>>) /\ <<a>> # << >> /\ <<a>>[1] = a
  BY DEF Fits
<1>3. /\ <<a, b>> \in Seq(Operation) /\ <<a, b>> # << >> /\ <<a, b>>[1] = a
      /\ DOMAIN <<a, b>> = {1, 2} /\ <<a, b>>[2] = b
  OBVIOUS
<1>4. Fits(<<a, b>>)
  BY <1>3 DEF Fits
<1> QED BY <1>1, <1>2, <1>3, <1>4

\* What a step that takes an operation from the stack finds.
LEMMA FxFacts ==
  ASSUME IInv, stack # << >>
  PROVE  /\ Head(stack) = stack[1] /\ stack[1] \in Operation
         /\ FxTypes /\ EndInv
         /\ \A d, e \in Elem : data[d] = data[e] /\ data[d] # NoArray => d = e
         /\ ~Hot(stack[1]) => \A e \in Elem : Marked(e) /\ Driven(e)
         /\ Hot(stack[1]) => \A e \in Elem \ {stack[1].elem} :
                                Marked(e) /\ Driven(e)
BY StackFacts DEF IInv, JInv, QueueInv, HotAt

\* A timer goes on.
LEMMA DrivenStays ==
  ASSUME NEW e \in Elem, Driven(e), UNCHANGED timers,
         data'[e] # NoArray => data[e] # NoArray,
         \A t : Keeps(stack, t) => Keeps(stack', t)
  PROVE  Driven(e)'
BY DEF Driven

\* An animation is queued: it is dequeued next if the queue was empty.
LEMMA QueueNext ==
  ASSUME IInv, Queue, UNCHANGED pageVars
  PROVE  IInv'
<1> DEFINE e == stack[1].elem
           item == stack[1].item
<1>1. stack # << >> /\ Head(stack) = stack[1] /\ stack[1] \in Operation
      /\ stack[1].op = "queue"
  BY StackFacts DEF IInv, JInv, Queue, Running
<1>2. e \in Elem /\ item \in Item /\ item # Inprogress
  BY <1>1, OperationFields, ItemFields
<1>3. ~Hot(stack[1]) /\ ~Closing(stack[1])
  BY <1>1 DEF Hot, Closing
<1>4. /\ FxTypes /\ EndInv /\ \A d \in Elem : Marked(d) /\ Driven(d)
      /\ \A d, x \in Elem : data[d] = data[x] /\ data[d] # NoArray => d = x
  BY <1>1, <1>3, FxFacts
<1>5. UNCHANGED <<timers, timerId, visible, ajaxVars>>
  BY DEF Queue
<1>6. CASE data[e] = NoArray
  <2> DEFINE a == FreshArray
             op == DequeueOp(e)
  <2>1. a \in Array /\ a # NoArray /\ \A d \in Elem : data[d] # a
    <3>1. FreeArrays # {} /\ FreeArrays \in SUBSET Nat
      BY <1>1, <1>6, IdAssumption DEF Queue, FreeArrays
    <3>2. \E x \in FreeArrays : \A y \in FreeArrays : x <= y
      BY <3>1, LeastOf
    <3>3. a \in FreeArrays
      BY <3>2 DEF FreshArray
    <3> QED BY <3>3, IdAssumption DEF FreeArrays
  <2>2. /\ data' = [data EXCEPT ![e] = a]
        /\ arrays' = [arrays EXCEPT ![a] = <<item>>]
        /\ Becomes(<<op>>)
    <3>1. Head(<<item>>) # Inprogress
      BY <1>2
    <3>2. Head(stack).elem = e /\ Head(stack).item = item
      BY <1>1
    <3> HIDE DEF e, item, op
    <3>3. /\ data' = [data EXCEPT ![e] = a]
          /\ arrays' = [arrays EXCEPT ![a] = <<item>>]
      BY <1>6, <3>2 DEF Queue
    <3>4. Becomes(<<DequeueOp(e)>>)
      BY <1>6, <3>1, <3>2 DEF Queue
    <3> QED BY <3>3, <3>4 DEF op
  <2> HIDE DEF a, e, item
  <2>3. FxTypes'
    BY <1>2, <1>4, <1>5, <2>1, <2>2, NewQueue DEF FxTypes
  <2>4. /\ data'[e] = a /\ \A d \in Elem \ {e} : data'[d] = data[d]
        /\ \A x \in Array \ {a} : arrays'[x] = arrays[x]
    BY <1>2, <1>4, <2>1, <2>2 DEF FxTypes
  <2>5. op \in Operation /\ op.op = "dequeue" /\ op.elem = e
    BY <1>2, FxOperations
  <2> HIDE DEF op
  <2>6. ~Closing(op) /\ ~Editing(op) /\ ~Validating(op) /\ Hot(op)
    BY <2>5 DEF Closing, Editing, Validating, Hot
  <2>7. <<op>> \in Seq(Operation) /\ Fits(<<op>>) /\ <<op>> # << >>
        /\ <<op>>[1] = op
    BY <2>5, <2>6 DEF Fits
  <2> DEFINE ops == <<op>>
  <2> HIDE DEF ops
  <2>8. /\ ops \in Seq(Operation) /\ Fits(ops) /\ ops # << >>
        /\ ops[1] = op /\ Becomes(ops)
    BY <2>2, <2>7 DEF ops
  <2>9. Continues(stack, ops, stack') /\ stack' \in Seq(Operation)
    BY <1>1, <1>3, <2>8, BecomesFits DEF IInv, JInv
  <2>10. EndInv'
    BY <1>4, <1>5, <2>9, EndStays DEF Continues
  <2>11. QueueInv'
    <3>1. /\ stack' # << >> /\ stack'[1] = op /\ Head(stack') = stack'[1]
          /\ \A t : Keeps(stack, t) => Keeps(stack', t)
      BY <2>8, <2>9 DEF Continues
    <3>2. HotAt(stack', e) /\ ~Running("run")'
      BY <2>5, <2>6, <3>1 DEF HotAt, Running
    <3>3. ASSUME NEW d \in Elem \ {e}
          PROVE  Marked(d)' /\ Driven(d)'
      <4>1. Marked(d)' 
        BY <1>4, <2>1, <2>4 DEF Marked, FxTypes
      <4> QED BY <1>4, <1>5, <2>4, <3>1, <4>1, DrivenStays
    <3>4. \A d, x \in Elem : data'[d] = data'[x] /\ data'[d] # NoArray => d = x
      BY <1>4, <2>1, <2>4
    <3> QED BY <3>2, <3>3, <3>4 DEF QueueInv
  <2> QED BY <1>1, <1>3, <1>5, <2>3, <2>8, <2>10, <2>11, FxStep
<1>7. CASE data[e] # NoArray
  <2> DEFINE a == data[e]
             q == Append(arrays[a], item)
  <2>1. a \in Array /\ arrays[a] \in FxQueue /\ arrays[a] # << >>
        /\ Head(arrays[a]) = Inprogress
    BY <1>2, <1>4, <1>7 DEF FxTypes, Marked
  <2>2. q \in FxQueue /\ q # << >> /\ Head(q) = Inprogress
    BY <1>2, <2>1, LongerQueue
  <2>3. /\ data' = [data EXCEPT ![e] = a] /\ arrays' = [arrays EXCEPT ![a] = q]
        /\ Becomes(<< >>)
    BY <1>1, <1>7, <2>2 DEF Queue
  <2> HIDE DEF q
  <2>4. data' = data
    BY <1>4, <2>3 DEF FxTypes
  <2>5. FxTypes' /\ arrays'[a] = q /\ \A x \in Array \ {a} : arrays'[x] = arrays[x]
    BY <1>4, <1>5, <2>1, <2>2, <2>3, <2>4 DEF FxTypes
  <2>6. << >> \in Seq(Operation) /\ Fits(<< >>)
    BY DEF Fits
  <2>7. Continues(stack, << >>, stack') /\ stack' \in Seq(Operation)
    BY <1>1, <1>3, <2>3, <2>6, BecomesFits DEF IInv, JInv
  <2>8. EndInv'
    BY <1>4, <1>5, <2>7, EndStays DEF Continues
  <2>9. QueueInv'
    <3>1. /\ stack' # << >> => ~Hot(stack'[1]) /\ Head(stack') = stack'[1]
          /\ \A t : Keeps(stack, t) => Keeps(stack', t)
      BY <2>7 DEF Continues
    <3>2. ~Running("run")'
      BY <3>1 DEF Hot, Running
    <3> HIDE DEF e, item
    <3>3. ASSUME NEW d \in Elem
          PROVE  Marked(d)' /\ Driven(d)'
      <4>1. Marked(d)' 
        <5>1. CASE data[d] = a
          BY <2>2, <2>4, <2>5, <5>1 DEF Marked
        <5>2. CASE data[d] # a
          BY <1>4, <2>4, <2>5, <5>2 DEF Marked, FxTypes
        <5> QED BY <5>1, <5>2
      <4> QED BY <1>4, <1>5, <2>4, <3>1, <4>1, DrivenStays
    <3>4. \A d, x \in Elem : data'[d] = data'[x] /\ data'[d] # NoArray => d = x
      BY <1>4, <2>4
    <3> QED BY <3>2, <3>3, <3>4 DEF QueueInv
  <2> QED BY <1>1, <1>3, <1>5, <2>3, <2>5, <2>6, <2>8, <2>9, FxStep
<1> QED BY <1>6, <1>7

\* The steps after which no queue is out of order.
LEMMA QueuesInOrder ==
  ASSUME \A e \in Elem : Marked(e)' /\ Driven(e)',
         stack' # << >> => ~Hot(stack'[1]) /\ Head(stack') = stack'[1],
         \A d, e \in Elem : data'[d] = data'[e] /\ data'[d] # NoArray => d = e
  PROVE  QueueInv'
<1>1. ~Running("run")'
  BY DEF Running, Hot
<1> QED BY <1>1 DEF QueueInv

\* The first animation is taken from the queue, which gets its mark.
LEMMA DequeueNext ==
  ASSUME IInv, Dequeue, UNCHANGED pageVars
  PROVE  IInv'
<1>0. PICK e : e = stack[1].elem
  OBVIOUS
<1> DEFINE a == data[e]
           q == IF a = NoArray THEN << >> ELSE WithoutInprogress(arrays[a])
<1>1. stack # << >> /\ Head(stack) = stack[1] /\ stack[1] \in Operation
      /\ stack[1].op = "dequeue"
  BY StackFacts DEF IInv, JInv, Dequeue, Running
<1>2. e \in Elem
  BY <1>0, <1>1, OperationFields
<1>3. Hot(stack[1]) /\ ~Closing(stack[1])
  BY <1>1 DEF Hot, Closing
<1>4. /\ FxTypes /\ EndInv /\ \A d \in Elem \ {e} : Marked(d) /\ Driven(d)
      /\ \A d, x \in Elem : data[d] = data[x] /\ data[d] # NoArray => d = x
  BY <1>0, <1>1, <1>3, FxFacts
<1>5. UNCHANGED <<timers, timerId, visible, ajaxVars>>
  BY DEF Dequeue
<1>6. Head(stack).elem = e
  BY <1>0, <1>1
<1>7. CASE q # << >>
  <2> DEFINE item == Head(q)
             new == <<Inprogress>> \o Tail(q)
             op == RunOp(e, item)
             end == CleanupOp(e, a)
  <2>1. a # NoArray /\ q = WithoutInprogress(arrays[a])
    BY <1>7
  <2>2. /\ arrays' = [arrays EXCEPT ![a] = new]
        /\ Becomes(<<op, end>>) /\ UNCHANGED data
    BY <1>6, <1>7 DEF Dequeue
  <2>3. a \in Array /\ arrays[a] \in FxQueue
    BY <1>2, <1>4, <2>1 DEF FxTypes
  <2>4. /\ item \in Item /\ new \in FxQueue /\ new # << >>
        /\ Head(new) = Inprogress
    <3> HIDE DEF q
    <3> QED BY <1>7, <2>1, <2>3, NextInQueue
  <2>5. /\ op \in Operation /\ op.op = "run" /\ op.elem = e
        /\ end \in Operation /\ end.op = "cleanup"
    <3> HIDE DEF item, a
    <3> QED BY <1>2, <2>3, <2>4, FxOperations, CleanupOperation
  <2> HIDE DEF op, end, new, q
  <2>6. FxTypes' /\ arrays'[a] = new /\ \A x \in Array \ {a} : arrays'[x] = arrays[x]
    BY <1>4, <1>5, <2>2, <2>3, <2>4 DEF FxTypes
  <2>7. /\ ~Closing(op) /\ ~Editing(op) /\ ~Validating(op) /\ Hot(op)
        /\ ~Closing(end) /\ ~Editing(end) /\ ~Validating(end) /\ ~Hot(end)
    BY <2>5 DEF Closing, Editing, Validating, Hot
  <2> DEFINE ops == <<op, end>>
  <2>8. /\ ops \in Seq(Operation) /\ Fits(ops) /\ ops # << >>
        /\ ops[1] = op /\ Becomes(ops)
    BY <2>2, <2>5, <2>7, FitsShort
  <2> HIDE DEF ops
  <2>9. Continues(stack, ops, stack') /\ stack' \in Seq(Operation)
    BY <1>1, <1>3, <2>8, BecomesFits DEF IInv, JInv
  <2>10. EndInv'
    BY <1>4, <1>5, <2>9, EndStays DEF Continues
  <2>11. QueueInv'
    <3>1. /\ stack' # << >> /\ stack'[1] = op
          /\ \A t : Keeps(stack, t) => Keeps(stack', t)
      BY <2>8, <2>9 DEF Continues
    <3>2. HotAt(stack', e) /\ stack'[1].elem = e
      BY <2>5, <2>7, <3>1 DEF HotAt
    <3>3. Marked(e)'
      BY <2>2, <2>4, <2>6 DEF Marked
    <3>4. ASSUME NEW d \in Elem \ {e}
          PROVE  Marked(d)' /\ Driven(d)'
      <4>1. data[d] # NoArray => data[d] # a /\ data[d] \in Array
        BY <1>2, <1>4, <2>1 DEF FxTypes
      <4>2. Marked(d)'
        BY <1>4, <2>2, <2>6, <4>1 DEF Marked
      <4> QED BY <1>4, <1>5, <2>2, <3>1, <4>2, DrivenStays
    <3>5. \A d, x \in Elem : data'[d] = data'[x] /\ data'[d] # NoArray => d = x
      BY <1>4, <2>2
    <3>6. Marked(stack[1].elem)'
      BY <3>2, <3>3 DEF Marked
    <3> QED BY <3>2, <3>4, <3>5, <3>6 DEF QueueInv
  <2> QED BY <1>1, <1>3, <1>5, <2>6, <2>8, <2>10, <2>11, FxStep
<1>8. CASE q = << >>
  <2>1. /\ arrays' = IF a = NoArray THEN arrays ELSE [arrays EXCEPT ![a] = << >>]
        /\ data' = [data EXCEPT ![e] = NoArray] /\ Becomes(<< >>)
    BY <1>6, <1>8 DEF Dequeue
  <2> HIDE DEF q
  <2>2. a # NoArray => a \in Array
    BY <1>2, <1>4 DEF FxTypes
  <2>3. /\ data'[e] = NoArray /\ \A d \in Elem \ {e} : data'[d] = data[d]
        /\ \A x \in Array \ {a} : arrays'[x] = arrays[x]
    BY <1>2, <1>4, <2>1, <2>2 DEF FxTypes
  <2>4. FxTypes'
    BY <1>2, <1>4, <1>5, <2>1, <2>2, EmptyQueue DEF FxTypes
  <2>5. << >> \in Seq(Operation) /\ Fits(<< >>)
    BY DEF Fits
  <2>6. Continues(stack, << >>, stack') /\ stack' \in Seq(Operation)
    BY <1>1, <1>3, <2>1, <2>5, BecomesFits DEF IInv, JInv
  <2>7. EndInv'
    BY <1>4, <1>5, <2>6, EndStays DEF Continues
  <2>8. QueueInv'
    <3>1. /\ stack' # << >> => ~Hot(stack'[1]) /\ Head(stack') = stack'[1]
          /\ \A t : Keeps(stack, t) => Keeps(stack', t)
      BY <2>6 DEF Continues
    <3>2. ASSUME NEW d \in Elem
          PROVE  Marked(d)' /\ Driven(d)'
      <4>1. CASE d = e
        BY <2>3, <4>1 DEF Marked, Driven
      <4>2. CASE d # e
        <5>1. data[d] # NoArray => data[d] # a /\ data[d] \in Array
          BY <1>2, <1>4, <4>2 DEF FxTypes
        <5>2. Marked(d)'
          BY <1>4, <2>3, <4>2, <5>1 DEF Marked
        <5> QED BY <1>4, <1>5, <2>3, <3>1, <4>2, <5>2, DrivenStays
      <4> QED BY <4>1, <4>2
    <3>3. \A d, x \in Elem : data'[d] = data'[x] /\ data'[d] # NoArray => d = x
      BY <1>2, <1>4, <2>3
    <3> QED BY <3>1, <3>2, <3>3, QueuesInOrder
  <2> QED BY <1>1, <1>3, <1>5, <2>1, <2>4, <2>5, <2>7, <2>8, FxStep
<1> QED BY <1>7, <1>8

\* The end of dequeue: an element may lose its queue, no queue changes.
LEMMA CleanupNext ==
  ASSUME IInv, Cleanup, UNCHANGED pageVars
  PROVE  IInv'
<1> DEFINE e == stack[1].elem
<1>1. stack # << >> /\ Head(stack) = stack[1] /\ stack[1] \in Operation
      /\ stack[1].op = "cleanup"
  BY StackFacts DEF IInv, JInv, Cleanup, Running
<1>2. e \in Elem
  BY <1>1, OperationFields
<1>3. ~Hot(stack[1]) /\ ~Closing(stack[1])
  BY <1>1 DEF Hot, Closing
<1>4. /\ FxTypes /\ EndInv /\ \A d \in Elem : Marked(d) /\ Driven(d)
      /\ \A d, x \in Elem : data[d] = data[x] /\ data[d] # NoArray => d = x
  BY <1>1, <1>3, FxFacts
<1>5. UNCHANGED <<arrays, timers, timerId, visible, ajaxVars>> /\ Becomes(<< >>)
  BY DEF Cleanup
<1>6. data' = data \/ data' = [data EXCEPT ![e] = NoArray]
  BY <1>1 DEF Cleanup
<1> HIDE DEF e
<1>7. FxTypes' /\ \A d \in Elem : data'[d] # NoArray => data'[d] = data[d]
  BY <1>2, <1>4, <1>5, <1>6 DEF FxTypes
<1>8. << >> \in Seq(Operation) /\ Fits(<< >>)
  BY DEF Fits
<1>9. Continues(stack, << >>, stack') /\ stack' \in Seq(Operation)
  BY <1>1, <1>3, <1>5, <1>8, BecomesFits DEF IInv, JInv
<1>10. EndInv'
  BY <1>4, <1>5, <1>9, EndStays DEF Continues
<1>11. QueueInv'
  <2>1. /\ stack' # << >> => ~Hot(stack'[1]) /\ Head(stack') = stack'[1]
        /\ \A t : Keeps(stack, t) => Keeps(stack', t)
    BY <1>9 DEF Continues
  <2>2. ASSUME NEW d \in Elem
        PROVE  Marked(d)' /\ Driven(d)'
    <3>1. Marked(d)'
      BY <1>4, <1>5, <1>7 DEF Marked
    <3> QED BY <1>4, <1>5, <1>7, <2>1, <3>1, DrivenStays
  <2>3. \A d, x \in Elem : data'[d] = data'[x] /\ data'[d] # NoArray => d = x
    BY <1>4, <1>7
  <2> QED BY <2>1, <2>2, <2>3, QueuesInOrder
<1> QED BY <1>1, <1>3, <1>5, <1>7, <1>8, <1>10, <1>11, FxStep

\* An animation ends at once, or a timer for it is started: no operation of
\* the script ends that timer, since it did not exist before.
LEMMA AnimateNext ==
  ASSUME IInv, Animate, UNCHANGED pageVars
  PROVE  IInv'
<1>0. PICK e, item : e = stack[1].elem /\ item = stack[1].item
  OBVIOUS
<1>1. stack # << >> /\ Head(stack) = stack[1] /\ stack[1] \in Operation
      /\ stack[1].op = "run"
  BY StackFacts DEF IInv, JInv, Animate, Running
<1>2. e \in Elem /\ item \in Item
  BY <1>0, <1>1, OperationFields
<1>3. Hot(stack[1]) /\ ~Closing(stack[1])
  BY <1>1 DEF Hot, Closing
<1>4. /\ FxTypes /\ EndInv /\ \A d \in Elem \ {e} : Marked(d) /\ Driven(d)
      /\ \A d, x \in Elem : data[d] = data[x] /\ data[d] # NoArray => d = x
  BY <1>0, <1>1, <1>3, FxFacts
<1>5. Marked(e)
  BY <1>0, <1>1 DEF IInv, JInv, QueueInv, Running
<1>6. UNCHANGED ajaxVars
  BY DEF Animate
<1>7. Head(stack).elem = e /\ Head(stack).item = item
  BY <1>0, <1>1
<1>8. CASE item.effect = "fx" /\ visible[e] = (item.kind = "show")
  <2>1. Becomes(<<CompleteOp(e, item)>>) /\ UNCHANGED fx
    BY <1>7, <1>8 DEF Animate
  <2>2. PICK op : op = CompleteOp(e, item)
    OBVIOUS
  <2>3. op \in Operation /\ op.op = "complete" /\ op.elem = e
    BY <1>2, <2>2, FxOperations
  <2>4. ~Closing(op) /\ ~Editing(op) /\ ~Validating(op) /\ Hot(op)
    BY <2>3 DEF Closing, Editing, Validating, Hot
  <2> DEFINE ops == <<op>>
  <2>5. /\ ops \in Seq(Operation) /\ Fits(ops) /\ ops # << >>
        /\ ops[1] = op /\ Becomes(ops)
    BY <2>1, <2>2, <2>3, <2>4 DEF Fits
  <2> HIDE DEF ops
  <2>6. Continues(stack, ops, stack') /\ stack' \in Seq(Operation)
    BY <1>1, <1>3, <2>5, BecomesFits DEF IInv, JInv
  <2>7. EndInv' /\ FxTypes'
    <3>1. EndInv'
      BY <1>4, <2>1, <2>6, EndStays DEF Continues, fx
    <3> QED BY <1>4, <2>1, <3>1 DEF FxTypes, fx
  <2>8. QueueInv'
    <3>1. /\ stack' # << >> /\ stack'[1] = op /\ Head(stack') = stack'[1]
          /\ \A t : Keeps(stack, t) => Keeps(stack', t)
      BY <2>5, <2>6 DEF Continues
    <3>2. HotAt(stack', e) /\ ~Running("run")'
      BY <2>3, <2>4, <3>1 DEF HotAt, Running
    <3>3. ASSUME NEW d \in Elem \ {e}
          PROVE  Marked(d)' /\ Driven(d)'
      <4>1. Marked(d)'
        BY <1>4, <2>1 DEF Marked, fx
      <4> QED BY <1>4, <2>1, <3>1, <4>1, DrivenStays DEF fx
    <3> QED BY <1>4, <2>1, <3>2, <3>3 DEF QueueInv, fx
  <2> QED BY <1>1, <1>3, <1>6, <2>5, <2>7, <2>8, FxStep
<1>9. CASE ~(item.effect = "fx" /\ visible[e] = (item.kind = "show"))
  <2>1. Becomes(<< >>) /\ UNCHANGED <<data, arrays>> /\ Custom(e, item)
    BY <1>7, <1>9 DEF Animate
  <2>2. PICK timer : timer = [elem |-> e, item |-> item]
    OBVIOUS
  <2>3. timer \in [elem : Elem, item : Item] /\ timer.elem = e
    BY <1>2, <2>2
  <2>4. timers' = Append(timers, timer) /\ timerId' = TRUE
        /\ visible' = [visible EXCEPT ![e] = TRUE]
    BY <2>1, <2>2 DEF Custom
  <2>5. /\ timers' \in Seq([elem : Elem, item : Item])
        /\ DOMAIN timers = 1 .. Len(timers) /\ Len(timers) \in Nat
        /\ DOMAIN timers' = 1 .. Len(timers) + 1
        /\ \A t \in DOMAIN timers : timers'[t] = timers[t]
        /\ timers'[Len(timers) + 1] = timer
    <3>1. timers \in Seq([elem : Elem, item : Item])
      BY <1>4 DEF FxTypes
    <3>2. DOMAIN timers = 1 .. Len(timers) /\ Len(timers) \in Nat
      BY <3>1, LenProperties
    <3>3. /\ timers' \in Seq([elem : Elem, item : Item])
          /\ Len(timers') = Len(timers) + 1
          /\ \A i \in 1 .. Len(timers) : timers'[i] = timers[i]
          /\ timers'[Len(timers) + 1] = timer
      BY <2>3, <2>4, <3>1, AppendProperties
    <3>4. DOMAIN timers' = 1 .. Len(timers')
      BY <3>3, LenProperties
    <3> QED BY <3>2, <3>3, <3>4
  <2>6. FxTypes'
    BY <1>2, <1>4, <2>1, <2>4, <2>5 DEF FxTypes
  <2>7. << >> \in Seq(Operation) /\ Fits(<< >>)
    BY DEF Fits
  <2>8. Continues(stack, << >>, stack') /\ stack' \in Seq(Operation)
    BY <1>1, <1>3, <2>1, <2>7, BecomesFits DEF IInv, JInv
  <2>9. ASSUME NEW i \in DOMAIN stack', stack'[i].op = "tickEnd"
        PROVE  stack'[i].timer \in DOMAIN timers
    <3>1. PICK j \in DOMAIN stack : stack[j] = stack'[i]
      BY <2>8, <2>9 DEF Continues
    <3> QED BY <1>4, <2>9, <3>1 DEF EndInv
  <2>10. EndInv'
    BY <2>4, <2>5, <2>9 DEF EndInv
  <2>11. QueueInv'
    <3>1. /\ stack' # << >> => ~Hot(stack'[1]) /\ Head(stack') = stack'[1]
          /\ \A t : Keeps(stack, t) => Keeps(stack', t)
      BY <2>8 DEF Continues
    <3>2. Keeps(stack', Len(timers) + 1)
      BY <2>5, <2>9 DEF Keeps
    <3>3. Driven(e)'
      BY <2>3, <2>5, <3>2 DEF Driven
    <3>4. ASSUME NEW d \in Elem \ {e}
          PROVE  Driven(d)'
      <4>1. CASE data[d] = NoArray
        BY <2>1, <4>1 DEF Driven
      <4>2. CASE data[d] # NoArray
        <5>1. PICK t \in DOMAIN timers : timers[t].elem = d /\ Keeps(stack, t)
          BY <1>4, <4>2 DEF Driven
        <5>2. t \in DOMAIN timers' /\ timers'[t].elem = d /\ Keeps(stack', t)
          BY <2>5, <3>1, <5>1
        <5> QED BY <5>2 DEF Driven
      <4> QED BY <4>1, <4>2
    <3>5. \A d \in Elem : Marked(d)'
      BY <1>4, <1>5, <2>1 DEF Marked
    <3>6. \A d, x \in Elem : data'[d] = data'[x] /\ data'[d] # NoArray => d = x
      BY <1>4, <2>1
    <3> QED BY <3>1, <3>3, <3>4, <3>5, <3>6, QueuesInOrder
  <2> QED BY <1>1, <1>3, <1>6, <2>1, <2>6, <2>7, <2>10, <2>11, FxStep
<1> QED BY <1>8, <1>9

\* An animation is complete: its callback and the next one follow.
LEMMA CompleteNext ==
  ASSUME IInv, Complete, UNCHANGED pageVars
  PROVE  IInv'
<1>0. PICK e, old : e = stack[1].elem /\ old = stack[1].item.old
  OBVIOUS
<1>1. stack # << >> /\ Head(stack) = stack[1] /\ stack[1] \in Operation
      /\ stack[1].op = "complete"
  BY StackFacts DEF IInv, JInv, Complete, Running
<1>2. e \in Elem /\ old \in FxCallback
  BY <1>0, <1>1, OperationFields, ItemFields
<1>3. Hot(stack[1]) /\ ~Closing(stack[1])
  BY <1>1 DEF Hot, Closing
<1>4. /\ FxTypes /\ EndInv /\ \A d \in Elem \ {e} : Marked(d) /\ Driven(d)
      /\ \A d, x \in Elem : data[d] = data[x] /\ data[d] # NoArray => d = x
  BY <1>0, <1>1, <1>3, FxFacts
<1>5. UNCHANGED <<fx, ajaxVars>> /\ Becomes(<<DequeueOp(e), CallOp(old)>>)
  BY <1>0, <1>1 DEF Complete
<1>6. PICK op, call : op = DequeueOp(e) /\ call = CallOp(old)
  OBVIOUS
<1>7. op \in Operation /\ op.op = "dequeue" /\ op.elem = e
  <2>1. PICK item : item \in Item
    BY <1>1, OperationFields
  <2> QED BY <1>2, <1>6, <2>1, FxOperations
<1>8. /\ call \in Operation /\ call.op = "call"
      /\ call.callback.fn \notin {"validated", "editor"}
  BY <1>2, <1>6, FxFields, CallOperation
<1>9. /\ ~Closing(op) /\ ~Editing(op) /\ ~Validating(op) /\ Hot(op)
      /\ ~Closing(call) /\ ~Editing(call) /\ ~Validating(call) /\ ~Hot(call)
  BY <1>7, <1>8 DEF Closing, Editing, Validating, Hot
<1> DEFINE ops == <<op, call>>
<1>10. /\ ops \in Seq(Operation) /\ Fits(ops) /\ ops # << >>
       /\ ops[1] = op /\ Becomes(ops)
  BY <1>5, <1>6, <1>7, <1>8, <1>9, FitsShort
<1> HIDE DEF ops
<1>11. Continues(stack, ops, stack') /\ stack' \in Seq(Operation)
  BY <1>1, <1>3, <1>10, BecomesFits DEF IInv, JInv
<1>12. EndInv' /\ FxTypes'
  <2>1. EndInv'
    BY <1>4, <1>5, <1>11, EndStays DEF Continues, fx
  <2> QED BY <1>4, <1>5, <2>1 DEF FxTypes, fx
<1>13. QueueInv'
  <2>1. /\ stack' # << >> /\ stack'[1] = op /\ Head(stack') = stack'[1]
        /\ \A t : Keeps(stack, t) => Keeps(stack', t)
    BY <1>10, <1>11 DEF Continues
  <2>2. HotAt(stack', e) /\ ~Running("run")'
    BY <1>7, <1>9, <2>1 DEF HotAt, Running
  <2>3. ASSUME NEW d \in Elem \ {e}
        PROVE  Marked(d)' /\ Driven(d)'
    <3>1. Marked(d)'
      BY <1>4, <1>5 DEF Marked, fx
    <3> QED BY <1>4, <1>5, <2>1, <3>1, DrivenStays DEF fx
  <2> QED BY <1>4, <1>5, <2>2, <2>3 DEF QueueInv, fx
<1> QED BY <1>1, <1>3, <1>5, <1>10, <1>12, <1>13, FxStep

\* The timer is removed when its callbacks have run; every queue is driven by
\* another one.
LEMMA TickEndNext ==
  ASSUME IInv, TickEnd, UNCHANGED pageVars
  PROVE  IInv'
<1>0. PICK u : u = stack[1].timer
  OBVIOUS
<1>1. stack # << >> /\ Head(stack) = stack[1] /\ stack[1].op = "tickEnd"
      /\ 1 \in DOMAIN stack
  BY StackFacts DEF IInv, JInv, TickEnd, Running
<1>2. ~Hot(stack[1]) /\ Closing(stack[1])
  BY <1>1 DEF Hot, Closing
<1>3. /\ FxTypes /\ EndInv /\ \A d \in Elem : Marked(d) /\ Driven(d)
      /\ \A d, x \in Elem : data[d] = data[x] /\ data[d] # NoArray => d = x
  BY <1>1, <1>2, FxFacts
<1>4. /\ timers' = SubSeq(timers, 1, u - 1) \o SubSeq(timers, u + 1, Len(timers))
      /\ timerId' = (timers' # << >>) /\ Becomes(<< >>)
      /\ UNCHANGED <<data, arrays, visible, ajaxVars>>
  BY <1>0, <1>1 DEF TickEnd
<1>5. Len(stack) = 1 /\ stack' = << >>
  BY <1>1, <1>2, <1>4, LastOperation
<1>6. u \in DOMAIN timers
  BY <1>0, <1>1, <1>3 DEF EndInv
<1>7. /\ timers' \in Seq([elem : Elem, item : Item])
      /\ \A t \in DOMAIN timers \ {u} :
            \E k \in DOMAIN timers' : timers'[k] = timers[t]
  <2>1. timers \in Seq([elem : Elem, item : Item])
    BY <1>3 DEF FxTypes
  <2>2. OneLess([elem : Elem, item : Item], timers, u, timers')
    BY <1>4, <1>6, <2>1, TakenOut
  <2> QED BY <2>2 DEF OneLess
<1>8. FxTypes'
  BY <1>3, <1>4, <1>7 DEF FxTypes
<1>9. EndInv' /\ ScriptInv' /\ (stack \in Seq(Operation))'
  <2>1. timers' # << >> => timerId'
    BY <1>4, Zenon
  <2>2. DOMAIN stack' = {} /\ stack' \in Seq(Operation)
    BY <1>5
  <2> QED BY <2>1, <2>2 DEF EndInv, ScriptInv, Placed
<1>10. QueueInv'
  <2>1. ASSUME NEW d \in Elem
        PROVE  Marked(d)' /\ Driven(d)'
    <3>1. Marked(d)'
      BY <1>3, <1>4 DEF Marked
    <3>2. CASE data[d] = NoArray
      BY <1>4, <3>1, <3>2 DEF Driven
    <3>3. CASE data[d] # NoArray
      <4>1. PICK t \in DOMAIN timers : timers[t].elem = d /\ Keeps(stack, t)
        BY <1>3, <3>3 DEF Driven
      <4>2. t # u
        BY <1>0, <1>1, <4>1 DEF Keeps
      <4>3. PICK k \in DOMAIN timers' : timers'[k] = timers[t]
        BY <1>7, <4>2
      <4>4. Keeps(stack', k)
        BY <1>5 DEF Keeps
      <4> QED BY <3>1, <4>1, <4>3, <4>4 DEF Driven
    <3> QED BY <3>2, <3>3
  <2> QED BY <1>3, <1>4, <1>5, <2>1, QueuesInOrder
<1>11. /\ PageTypes' /\ UNCHANGED <<bound, calls, thrown>>
       /\ calls \in Nat /\ calls' \in Nat /\ calls' >= calls /\ bound \in Nat
  BY PageStays
<1>12. AjaxTypes' /\ ActiveInv' /\ BoundInv'
  <2>1. AjaxTypes'
    BY <1>4 DEF IInv, JInv, AjaxTypes, ajaxVars
  <2>2. ~Answering(stack) /\ ~Answering(stack')
    BY <1>1, <1>5 DEF Answering
  <2>3. ActiveInv'
    BY <1>4, <1>11, <2>2, ActiveStays DEF IInv, JInv, ajaxVars
  <2>4. BoundInv'
    BY <1>4, <1>5, <1>11, BoundStays DEF IInv, JInv, ajaxVars
  <2> QED BY <2>1, <2>3, <2>4
<1> QED BY <1>8, <1>9, <1>10, <1>11, <1>12 DEF IInv, JInv

\* The time of an animation is over; the timer that ends is the one of the
\* element that is completed.
LEMMA TickNext ==
  ASSUME IInv, NEW t \in DOMAIN timers, Tick(t), UNCHANGED pageVars
  PROVE  IInv'
<1>0. PICK e, item : e = timers[t].elem /\ item = timers[t].item
  OBVIOUS
<1>1. /\ stack = << >> /\ timerId
      /\ stack' = <<CompleteOp(e, item), TickEndOp(t)>>
      /\ visible' = IF item.kind = "hide" THEN [visible EXCEPT ![e] = FALSE]
                    ELSE visible
      /\ UNCHANGED <<data, arrays, timers, timerId, ajaxVars>>
  BY <1>0 DEF Tick
<1>2. /\ FxTypes /\ EndInv /\ \A d \in Elem : Marked(d) /\ Driven(d)
      /\ \A d, x \in Elem : data[d] = data[x] /\ data[d] # NoArray => d = x
  BY <1>1 DEF IInv, JInv, QueueInv, HotAt
<1>3. e \in Elem /\ item \in Item /\ t \in Nat
  <2>1. timers \in [1 .. Len(timers) -> [elem : Elem, item : Item]]
        /\ DOMAIN timers = 1 .. Len(timers)
    BY <1>2, LenProperties DEF FxTypes
  <2> QED BY <1>0, <2>1
<1>4. PICK op, end : op = CompleteOp(e, item) /\ end = TickEndOp(t)
  OBVIOUS
<1>5. /\ op \in Operation /\ op.op = "complete" /\ op.elem = e
      /\ end \in Operation /\ end.op = "tickEnd" /\ end.timer = t
  BY <1>3, <1>4, FxOperations, ClosingOperations
<1>6. /\ stack' \in Seq(Operation) /\ stack' # << >> /\ Len(stack') = 2
      /\ DOMAIN stack' = {1, 2} /\ Head(stack') = stack'[1]
      /\ stack'[1] = op /\ stack'[2] = end
  BY <1>1, <1>4, <1>5
<1>7. /\ Hot(op) /\ ~Closing(op) /\ ~Editing(op) /\ ~Validating(op)
      /\ ~Hot(end) /\ ~Editing(end) /\ ~Validating(end)
  BY <1>5 DEF Hot, Closing, Editing, Validating
<1>8. ScriptInv'
  <2>1. Placed(stack')
    BY <1>6, <1>7 DEF Placed
  <2> QED BY <2>1 DEF ScriptInv
<1>9. FxTypes'
  BY <1>1, <1>2, <1>3 DEF FxTypes
<1>10. EndInv'
  BY <1>1, <1>2, <1>5, <1>6 DEF EndInv
<1>11. QueueInv'
  <2>1. HotAt(stack', e) /\ ~Running("run")'
    BY <1>5, <1>6, <1>7 DEF HotAt, Running
  <2>2. ASSUME NEW d \in Elem \ {e}
        PROVE  Marked(d)' /\ Driven(d)'
    <3>1. Marked(d)'
      BY <1>1, <1>2 DEF Marked
    <3>2. CASE data[d] = NoArray
      BY <1>1, <3>1, <3>2 DEF Driven
    <3>3. CASE data[d] # NoArray
      <4>1. PICK k \in DOMAIN timers : timers[k].elem = d
        BY <1>2, <3>3 DEF Driven
      <4>2. k # t
        BY <1>0, <4>1
      <4>3. Keeps(stack', k)
        BY <1>5, <1>6, <4>2 DEF Keeps
      <4> QED BY <1>1, <3>1, <4>1, <4>3 DEF Driven
    <3> QED BY <3>2, <3>3
  <2> QED BY <1>1, <1>2, <2>1, <2>2 DEF QueueInv
<1>12. /\ PageTypes' /\ UNCHANGED <<bound, calls, thrown>>
       /\ calls \in Nat /\ calls' \in Nat /\ calls' >= calls /\ bound \in Nat
  BY PageStays
<1>13. AjaxTypes' /\ ActiveInv' /\ BoundInv'
  <2>1. AjaxTypes'
    BY <1>1 DEF IInv, JInv, AjaxTypes, ajaxVars
  <2>2. ~Answering(stack) /\ ~Answering(stack')
    BY <1>1, <1>5, <1>6 DEF Answering
  <2>3. ActiveInv'
    BY <1>1, <1>12, <2>2, ActiveStays DEF IInv, JInv, ajaxVars
  <2>4. BoundInv'
    BY <1>1, <1>6, <1>7, <1>12, BoundStays DEF IInv, JInv, ajaxVars
  <2> QED BY <2>1, <2>3, <2>4
<1> QED BY <1>6, <1>8, <1>9, <1>10, <1>11, <1>12, <1>13 DEF IInv, JInv

-----------------------------------------------------------------------------
(* Theorems *)

\* A characteristic function.
LEMMA MembershipType ==
  ASSUME NEW S, NEW T
  PROVE  [x \in S |-> x \in T] \in [S -> BOOLEAN]
BY SMT

\* The first state: nothing is queued, nothing requested.
LEMMA InitInv == Init => IInv
<1> SUFFICES ASSUME Init PROVE IInv
  OBVIOUS
<1> USE DEF Init, JQueryInit
<1>1. stack \in Seq(Operation) /\ ScriptInv /\ EndInv /\ QueueInv
  <2>1. stack \in Seq(Operation) /\ DOMAIN stack = {} /\ stack = << >>
    OBVIOUS
  <2>2. ScriptInv /\ EndInv
    BY <2>1 DEF ScriptInv, Placed, EndInv
  <2>3. QueueInv
    BY <2>1 DEF QueueInv, Marked, Driven, Running
  <2> QED BY <2>1, <2>2, <2>3
<1>2. FxTypes
  <2>1. visible \in [Elem -> BOOLEAN]
    <3>1. visible = [e \in Elem |-> e \in Shown]
      BY Zenon
    <3> QED BY <3>1, MembershipType
  <2>2. timerId \in BOOLEAN
    BY Zenon
  <2>3. timers \in Seq([elem : Elem, item : Item])
    <3>1. timers = << >>
      BY Zenon
    <3> QED BY <3>1, EmptySeq
  <2>4. data \in [Elem -> Array \cup {NoArray}] /\ arrays \in [Array -> FxQueue]
    BY EmptyQueue, Zenon
  <2> QED BY <2>1, <2>2, <2>3, <2>4, Zenon DEF FxTypes
<1>3. AjaxTypes
  <2>1. 0 \in 0 .. MaxCalls
    BY PageElements
  <2>2. NoCallback \in SuccessCallback /\ NoCallback \in CompleteCallback
    BY <2>1, PageCallbacks
  <2>3. NoRequest \in [state : {0, 1}, success : SuccessCallback,
                       complete : CompleteCallback]
    BY <2>2 DEF NoRequest
  <2> QED BY <2>3 DEF AjaxTypes
<1>4. Open = {} /\ Editors = {}
  BY DEF Open, Editors, NoRequest
<1>5. IsFiniteSet({}) /\ Cardinality({}) = 0
  BY FS_EmptySet
<1>6. ActiveInv /\ BoundInv
  BY <1>4, <1>5 DEF ActiveInv, BoundInv, Answering
<1>7. PageTypes
  <2>1. html \in 0 .. MaxCalls /\ calls \in 0 .. MaxCalls /\ bound \in Nat \ {0}
        /\ thrown \in Nat
    BY PageElements
  <2>2. timeouts \in Seq({"slideUp", "update_file_list"})
    OBVIOUS
  <2>3. library_select \in Library \cup {"all"} /\ files_list \in Library \cup {"all"}
        /\ link_disabled \in BOOLEAN
    BY Zenon
  <2> QED BY <2>1, <2>2, <2>3 DEF PageTypes
<1> QED BY <1>1, <1>2, <1>3, <1>6, <1>7 DEF IInv, JInv

\* Nothing happens.
LEMMA StutterInv ==
  ASSUME IInv, UNCHANGED vars
  PROVE  IInv'
<1> USE DEF vars, jQueryVars, pageVars, fx, ajaxVars
<1>1. (stack \in Seq(Operation))' /\ ScriptInv' /\ EndInv'
  BY DEF IInv, JInv, ScriptInv, EndInv
<1>2. QueueInv'
  BY DEF IInv, JInv, QueueInv, Marked, Driven, Running
<1>3. FxTypes' /\ AjaxTypes' /\ PageTypes'
  BY DEF IInv, JInv, FxTypes, AjaxTypes, PageTypes
<1>4. ActiveInv' /\ BoundInv'
  BY DEF IInv, JInv, ActiveInv, BoundInv, Open, Editors
<1> QED BY <1>1, <1>2, <1>3, <1>4 DEF IInv, JInv

\* Everything the browser does.
LEMMA BrowserNext ==
  ASSUME IInv, Browser
  PROVE  IInv'
<1>1. CASE JQueryStep /\ UNCHANGED pageVars
  BY <1>1, QueueNext, DequeueNext, CleanupNext, AnimateNext, CompleteNext,
     TickEndNext, AjaxNext, DoneNext DEF JQueryStep
<1>2. CASE \/ NothingToCall \/ Notified \/ Follow \/ ShowReport
           \/ FadeLibraries \/ ShowLibraries \/ ShowFiles \/ EnableLinks
  BY <1>2, CallbackNext
<1>3. CASE Validated \/ ReplaceEditor
  BY <1>3, ValidatedNext, ReplaceEditorNext
<1>4. CASE \E t \in DOMAIN timers : Tick(t) /\ UNCHANGED pageVars
  BY <1>4, TickNext
<1>5. CASE \E i \in DOMAIN timeouts : Timeout(i)
  BY <1>5, TimeoutNext
<1>6. CASE \E r \in Request, ok \in BOOLEAN :
             Respond(r, ok) /\ UNCHANGED pageVars
  BY <1>6, RespondNext
<1> QED BY <1>1, <1>2, <1>3, <1>4, <1>5, <1>6 DEF Browser

\* The invariant holds in every state the page can reach: scripts are in
\* order, every queue is in order or its element is the one being worked on,
\* and jQuery.active and the bindings of Alt+x are accounted for.
THEOREM Inductive == Spec => []IInv
<1>1. ASSUME IInv, [Next]_vars
      PROVE  IInv'
  <2>1. CASE User
    BY <1>1, <2>1, UserNext
  <2>2. CASE Browser
    BY <1>1, <2>2, BrowserNext
  <2>3. CASE Idle \/ UNCHANGED vars
    BY <1>1, <2>3, StutterInv DEF Idle
  <2> QED BY <1>1, <2>1, <2>2, <2>3 DEF Next
<1> QED BY <1>1, InitInv, PTL DEF Spec

\* Every variable of jQuery and of the page has its type; in particular Alt+x
\* is bound at most once per thing the user did, and once at first.
THEOREM TypeCorrect == Spec => []TypeOK
<1>1. IInv => TypeOK
  <2> SUFFICES ASSUME IInv PROVE TypeOK
    OBVIOUS
  <2>1. FxTypes /\ AjaxTypes /\ PageTypes /\ BoundInv /\ ActiveInv
    BY DEF IInv, JInv
  <2>2. \A t \in DOMAIN timers : timers[t].elem \in Elem
    <3>1. timers \in [1 .. Len(timers) -> [elem : Elem, item : Item]]
          /\ DOMAIN timers = 1 .. Len(timers)
      BY <2>1, LenProperties DEF FxTypes
    <3> QED BY <3>1
  <2>3. \A i \in DOMAIN timeouts : timeouts[i] \in {"slideUp", "update_file_list"}
    <3>1. timeouts \in [1 .. Len(timeouts) -> {"slideUp", "update_file_list"}]
          /\ DOMAIN timeouts = 1 .. Len(timeouts)
      BY <2>1, LenProperties DEF PageTypes
    <3> QED BY <3>1
  <2>4. \A r \in Request : xhr[r].state \in 0 .. 1
    BY <2>1 DEF AjaxTypes
  <2>5. bound \in 1 .. MaxCalls + 1
    <3>1. Cardinality(Editors) \in Nat
      BY <2>1, EditorsFinite DEF ActiveInv
    <3>2. bound \in Nat \ {0} /\ calls \in 0 .. MaxCalls /\ MaxCalls \in Nat
      BY <2>1, PageElements DEF PageTypes
    <3>3. \/ bound + Cardinality(Editors) + 1 <= calls + 1
          \/ bound + Cardinality(Editors) + 0 <= calls + 1
      BY <2>1 DEF BoundInv
    <3> QED BY <3>1, <3>2, <3>3
  <2> QED BY <2>1, <2>2, <2>3, <2>4, <2>5
         DEF TypeOK, FxTypes, AjaxTypes, PageTypes
<1> QED BY <1>1, Inductive, PTL

\* No animation is stuck and no queued one forgotten: between scripts, every
\* queue of jQuery.queue belongs to an element whose animation is running,
\* and fx.tick is called as long as there are timers.
THEOREM QueuesMove == Spec => []NoStall
<1>1. IInv => NoStall
  BY DEF IInv, JInv, QueueInv, HotAt, EndInv, Marked, Driven, NoStall
<1> QED BY <1>1, Inductive, PTL

\* Between scripts jQuery.active is the number of requests under way plus
\* that of the callbacks that threw, whatever callbacks do meanwhile.
THEOREM RequestsCounted == Spec => []ActiveCount
<1>1. IInv => ActiveCount
  <2> SUFFICES ASSUME IInv, stack = << >>
               PROVE  active = thrown + Cardinality(Open)
    BY DEF ActiveCount, Open
  <2>1. active = thrown + Cardinality(Open) + 0 /\ IsFiniteSet(Open)
    BY DEF IInv, JInv, ActiveInv, Answering
  <2>2. Cardinality(Open) \in Nat /\ thrown \in Nat
    BY <2>1, FS_CardinalityType DEF IInv, PageTypes
  <2> QED BY <2>1, <2>2
<1> QED BY <1>1, Inductive, PTL
=============================================================================
