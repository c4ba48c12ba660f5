------------------------------- MODULE JQuery -------------------------------
(***************************************************************************)
(* The parts of jQuery (public/javascripts/jquery.js of the web interface) *)
(* that the pages rely on: the fx queue of an element, animations and      *)
(* their timers, and ajax requests with their callbacks; and the slides of *)
(* jQuery UI, which jrails.js puts in the place of jQuery's own.           *)
(*                                                                         *)
(* A page has one thread.  `stack` is what is left of the script that is   *)
(* running, the next operation first; while it is not empty no timer and   *)
(* no answer is handled.  Operations call one another and callbacks, so    *)
(* one may run in the middle of another: that is what the stack is for.    *)
(*                                                                         *)
(* A queue is an array, kept under the key "fxqueue" in the data of its    *)
(* element.  An operation holds on to the array it read, whatever becomes  *)
(* of the entry meanwhile, so arrays have identities.                      *)
(***************************************************************************)
EXTENDS Naturals, Sequences, FiniteSets

CONSTANTS
    Elem,       \* the elements that are animated
    Shown,      \* those that the page does not hide at first
    Array,      \* identities of queue arrays
    Request     \* identities of requests that are not yet answered

NoArray == 0

ASSUME IdAssumption ==
    /\ Shown \subseteq Elem
    /\ Array \subseteq Nat \ {NoArray}
    /\ Request \subseteq Nat \ {0}

VARIABLES
    stack,      \* operations of the running script
    data,       \* jQuery._data(elem, "fxqueue")
    arrays,     \* contents of the arrays
    timers,     \* jQuery.timers: the running animations
    timerId,    \* the interval that calls fx.tick is set
    visible,    \* the element is not display: none
    xhr,        \* the jqXHR of each request
    active      \* jQuery.active

fx == <<data, arrays, timers, timerId, visible>>
ajaxVars == <<xhr, active>>
jQueryVars == <<stack, fx, ajaxVars>>

\* A callback of the page: a name and what its closure holds.
NoCallback == [fn |-> "none", arg |-> 0]

\* A jqXHR: whether it was sent and not answered (state 1 of $.ajax), and its
\* callbacks.  An answered one is forgotten.
NoRequest == [state |-> 0, success |-> NoCallback, complete |-> NoCallback]

\* What animate() puts into a queue, and the mark of a running animation.
Animation(kind, speed, old) ==
    [effect |-> "fx", kind |-> kind, speed |-> speed, old |-> old]

\* What slideDown and slideUp put there: jQuery UI's effect "slide".
Slide(kind, speed) ==
    [effect |-> "slide", kind |-> kind, speed |-> speed, old |-> NoCallback]
Inprogress == Animation("inprogress", "none", NoCallback)

\* The operations a script is made of.
QueueOp(e, item) == [op |-> "queue", elem |-> e, item |-> item]
DequeueOp(e) == [op |-> "dequeue", elem |-> e]
RunOp(e, item) == [op |-> "run", elem |-> e, item |-> item]
CleanupOp(e, a) == [op |-> "cleanup", elem |-> e, array |-> a]
CompleteOp(e, item) == [op |-> "complete", elem |-> e, item |-> item]
TickEndOp(t) == [op |-> "tickEnd", timer |-> t]
CallOp(callback) == [op |-> "call", callback |-> callback]
AjaxOp(success, complete) ==
    [op |-> "ajax", success |-> success, complete |-> complete]
DoneOp == [op |-> "done"]

\* The script is about to make an operation of this kind.
Running(op) == stack # << >> /\ Head(stack).op = op

\* It is replaced by the operations it consists of.
Becomes(ops) == stack' = ops \o Tail(stack)

JQueryInit ==
    /\ stack = << >>
    /\ data = [e \in Elem |-> NoArray]
    /\ arrays = [a \in Array |-> << >>]
    /\ timers = << >>
    /\ timerId = FALSE
    /\ visible = [e \in Elem |-> e \in Shown]
    /\ xhr = [r \in Request |-> NoRequest]
    /\ active = 0

-----------------------------------------------------------------------------
(* Queues *)

\* The arrays nobody refers to any more; there are as many as are needed.
FreeArrays ==
    Array \ ({data[e] : e \in Elem} \cup
             {stack[i].array : i \in {j \in DOMAIN stack :
                                         stack[j].op = "cleanup"}})
FreshArray == CHOOSE a \in FreeArrays : \A b \in FreeArrays : a <= b

\* jQuery.fn.queue on one element: the item goes to the end of the queue, a
\* new one if there is none, and is taken at once unless an animation runs.
Queue ==
    /\ Running("queue")
    /\ data[Head(stack).elem] = NoArray => FreeArrays # {}
    /\ LET e == Head(stack).elem
           a == IF data[e] = NoArray THEN FreshArray ELSE data[e]
           q == IF data[e] = NoArray THEN <<Head(stack).item>>
                ELSE Append(arrays[a], Head(stack).item)
       IN /\ data' = [data EXCEPT ![e] = a]
          /\ arrays' = [arrays EXCEPT ![a] = q]
          /\ Becomes(IF Head(q) = Inprogress THEN << >> ELSE <<DequeueOp(e)>>)
    /\ UNCHANGED <<timers, timerId, visible, ajaxVars>>

\* dequeue removes the mark first.
WithoutInprogress(q) ==
    IF q # << >> /\ Head(q) = Inprogress THEN Tail(q) ELSE q

\* Mutant: the end of the queue is not noticed.
DequeueLeaveEmpty ==
    /\ Running("dequeue")
    /\ LET e == Head(stack).elem
           a == data[e]
           q == IF a = NoArray THEN << >> ELSE WithoutInprogress(arrays[a])
       IN IF q # << >>
          THEN /\ arrays' = [arrays EXCEPT ![a] = <<Inprogress>> \o Tail(q)]
               /\ Becomes(<<RunOp(e, Head(q)), CleanupOp(e, a)>>)
               /\ UNCHANGED data
          ELSE /\ Becomes(<< >>)
               /\ UNCHANGED <<data, arrays>>
    /\ UNCHANGED <<timers, timerId, visible, ajaxVars>>

\* jQuery.dequeue: the mark goes, the next item runs behind a new mark.  The
\* entry of an empty queue is removed.
Dequeue ==
    /\ Running("dequeue")
    /\ LET e == Head(stack).elem
           a == data[e]
           q == IF a = NoArray THEN << >> ELSE WithoutInprogress(arrays[a])
       IN IF q # << >>
          THEN /\ arrays' = [arrays EXCEPT ![a] = <<Inprogress>> \o Tail(q)]
               /\ Becomes(<<RunOp(e, Head(q)), CleanupOp(e, a)>>)
               /\ UNCHANGED data
          ELSE /\ arrays' = IF a = NoArray THEN arrays
                            ELSE [arrays EXCEPT ![a] = << >>]
               /\ data' = [data EXCEPT ![e] = NoArray]
               /\ Becomes(<< >>)
    /\ UNCHANGED <<timers, timerId, visible, ajaxVars>>

\* The end of jQuery.dequeue, after fn.call: `if ( !queue.length )` looks at
\* the array it took the item from, removeData removes the entry of today.
Cleanup ==
    /\ Running("cleanup")
    /\ data' = IF arrays[Head(stack).array] = << >>
               THEN [data EXCEPT ![Head(stack).elem] = NoArray]
               ELSE data
    /\ Becomes(<< >>)
    /\ UNCHANGED <<arrays, timers, timerId, visible, ajaxVars>>

-----------------------------------------------------------------------------
(* Animations.  All properties of one animation start and end together. *)

\* fx.show and fx.hide call fx.custom, which starts a timer and the interval;
\* fx.show makes the element visible, one that is hidden later is visible.
Custom(e, item) ==
    /\ timers' = Append(timers, [elem |-> e, item |-> item])
    /\ timerId' = TRUE
    /\ visible' = [visible EXCEPT ![e] = TRUE]

\* The function that was queued.  For animate(), showing what is visible, or
\* hiding what is hidden, is complete at once; otherwise the animation starts.
\* A slide always does: it shows the element, in a wrapper, even to hide it,
\* and animates its position with queue: false.
Animate ==
    /\ Running("run")
    /\ LET e == Head(stack).elem
           item == Head(stack).item
       IN IF item.effect = "fx" /\ visible[e] = (item.kind = "show")
          THEN /\ Becomes(<<CompleteOp(e, item)>>)
               /\ UNCHANGED fx
          ELSE /\ Custom(e, item)
               /\ Becomes(<< >>)
               /\ UNCHANGED <<data, arrays>>
    /\ UNCHANGED ajaxVars

\* opt.complete of jQuery.speed: the next in the queue first, then the
\* callback of the caller.  A slide has no callback; it removes the wrapper
\* and takes the next itself.
Complete ==
    /\ Running("complete")
    /\ LET op == Head(stack)
       IN Becomes(<<DequeueOp(op.elem), CallOp(op.item.old)>>)
    /\ UNCHANGED <<fx, ajaxVars>>

\* fx.tick finds that the time of an animation is over; fx.step, or the
\* callback of a slide, hides the element if it was to be hidden.  Animations of the same
\* speed end in the order in which they began.
Tick(t) ==
    /\ stack = << >>
    /\ timerId
    /\ \A u \in 1 .. t - 1 : timers[u].item.speed # timers[t].item.speed
    /\ LET e == timers[t].elem
       IN /\ visible' = IF timers[t].item.kind = "hide"
                        THEN [visible EXCEPT ![e] = FALSE] ELSE visible
          /\ stack' = <<CompleteOp(e, timers[t].item), TickEndOp(t)>>
    /\ UNCHANGED <<data, arrays, timers, timerId, ajaxVars>>

\* The rest of fx.tick: the timer is removed only after its callbacks ran;
\* without timers the interval is cleared.
TickEnd ==
    /\ Running("tickEnd")
    /\ LET t == Head(stack).timer
       IN timers' = SubSeq(timers, 1, t - 1) \o
                    SubSeq(timers, t + 1, Len(timers))
    /\ timerId' = (timers' # << >>)
    /\ Becomes(<< >>)
    /\ UNCHANGED <<data, arrays, visible, ajaxVars>>

-----------------------------------------------------------------------------
(* Requests *)

\* jQuery.ajax: a jqXHR with its deferreds, then transport.send.
Ajax ==
    /\ Running("ajax")
    /\ LET free == {r \in Request : xhr[r].state = 0}
           r == CHOOSE x \in free : \A y \in free : x <= y
       IN /\ free # {}
          /\ xhr' = [xhr EXCEPT ![r] =
                        [state |-> 1, success |-> Head(stack).success,
                         complete |-> Head(stack).complete]]
    /\ active' = active + 1
    /\ Becomes(<< >>)
    /\ UNCHANGED fx

\* done() of a request: either success of the deferred or nothing (the pages
\* have no error callbacks), then complete, then the counter.
DoneOps(request, ok) ==
    (IF ok THEN <<CallOp(request.success)>> ELSE << >>)
        \o <<CallOp(request.complete), DoneOp>>

\* The answer, or an error, arrives: the callback of the transport calls
\* done(), once.  Answers come in any order.
Respond(r, ok) ==
    /\ stack = << >>
    /\ xhr[r].state = 1
    /\ xhr' = [xhr EXCEPT ![r] = NoRequest]
    /\ stack' = DoneOps(xhr[r], ok)
    /\ UNCHANGED <<fx, active>>

\* The end of done(): --jQuery.active.
Done ==
    /\ Running("done")
    /\ active' = active - 1
    /\ Becomes(<< >>)
    /\ UNCHANGED <<fx, xhr>>

\* Mutant: resolveWith goes on after a callback that threw.
ThrowCaught == Becomes(<< >>)

\* A callback throws.  resolveWith only notes that it has fired; the rest of
\* the script is lost, the end of done() included.
Throw == stack' = << >>

JQueryStep ==
    \/ Queue
    \/ Dequeue
    \/ Cleanup
    \/ Animate
    \/ Complete
    \/ TickEnd
    \/ Ajax
    \/ Done

-----------------------------------------------------------------------------
(* Properties *)

\* Between scripts, a queue that is not empty belongs to an element with a
\* running animation, whose end will take the next item, and animations are
\* driven by the interval: none is stuck, and no queued one is forgotten.
NoStall ==
    stack = << >> =>
        /\ \A e \in Elem : data[e] # NoArray =>
              /\ arrays[data[e]] # << >>
              /\ Head(arrays[data[e]]) = Inprogress
              /\ \E t \in DOMAIN timers : timers[t].elem = e
        /\ timers # << >> => timerId
=============================================================================
