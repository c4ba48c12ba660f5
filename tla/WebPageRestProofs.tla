------------------------- MODULE WebPageRestProofs --------------------------
(***************************************************************************)
(* Proofs about WebPage: what the page looks like when nothing is left to  *)
(* do.                                                                     *)
(***************************************************************************)
EXTENDS WebPageProofs

(* What is under way on the page *)

\* Elements whose animations have callbacks that animate nothing.
Solo == {flash_messages} \cup Accordions

\* The callback of fadeOut that shows the element again.
Opener(e) == IF e = validator_report THEN "show_report" ELSE "show_libraries"

\* The animations that the page makes of an element.
Suits(e, item) ==
    /\ e \in Shown /\ item.kind = "hide" => item.old.fn = Opener(e)
    /\ item.old.fn = "enable" <=> e \in Accordions /\ item.kind = "show"

\* The animations that wait in the queue of e.
Waiting(e) ==
    IF data[e] = NoArray THEN << >> ELSE WithoutInprogress(arrays[data[e]])

\* The timers of e that go on after this script.
Going(e) == {t \in DOMAIN timers : timers[t].elem = e /\ Keeps(stack, t)}

\* The script begins with this.
At(op, e) == stack # << >> /\ stack[1].op = op /\ stack[1].elem = e
Shows == stack[1].item.kind = "show"
Calls(op, fn) == op.op = "call" /\ op.callback.fn = fn
AtCall(fn) == stack # << >> /\ Calls(stack[1], fn)

\* The animations that a script queues for e: none, the last is of this kind,
\* or only the last may show it.
Queues(op, e) == op.op = "queue" /\ op.elem = e
NoneOf(s, e) == \A i \in DOMAIN s : ~Queues(s[i], e)
LastIs(s, e, kind) ==
    \E i \in DOMAIN s : /\ Queues(s[i], e) /\ s[i].item.kind = kind
                        /\ \A j \in DOMAIN s : j > i => ~Queues(s[j], e)
OnlyLast(s, e) ==
    \A i \in DOMAIN s : Queues(s[i], e) /\ s[i].item.kind = "show" =>
        \A j \in DOMAIN s : j > i => ~Queues(s[j], e)

\* The last of what is under way for e, or was, is of this kind.
Later(e, kind) ==
    IF Waiting(e) # << >> THEN Waiting(e)[Len(Waiting(e))].kind = kind
    ELSE IF At("run", e) THEN stack[1].item.kind = kind
    ELSE IF Going(e) # {} THEN \E t \in Going(e) : timers[t].item.kind = kind
    ELSE visible[e] = (kind = "show")
Ends(e, kind) ==
    \/ LastIs(stack, e, kind)
    \/ NoneOf(stack, e) /\ Later(e, kind)

-----------------------------------------------------------------------------
(* The invariant *)

\* Every animation is one that the page makes, wherever it is.
SuitsInv ==
    /\ \A i \in DOMAIN stack : stack[i].op \in {"queue", "run", "complete"}
          => Suits(stack[i].elem, stack[i].item)
    /\ \A e \in Elem : \A i \in DOMAIN Waiting(e) : Suits(e, Waiting(e)[i])
    /\ \A t \in DOMAIN timers : Suits(timers[t].elem, timers[t].item)

\* The report and the list of libraries are invisible only in the middle of a
\* script, which goes on by showing them.
ShownInv ==
    \A e \in Shown : ~visible[e] =>
        \/ At("complete", e) /\ stack[1].item.kind = "hide"
        \/ /\ At("dequeue", e)
           /\ \/ 2 \in DOMAIN stack /\ Calls(stack[2], Opener(e))
              \/ Waiting(e) # << >>
        \/ At("run", e)
        \/ AtCall(Opener(e)) /\ data[e] = NoArray
        \/ At("queue", e) /\ data[e] = NoArray

\* What a script does before it comes to the end of a dequeue.
Sheltered(op) ==
    \/ op.op \in {"dequeue", "run", "complete", "cleanup"}
    \/ /\ op.op = "call"
       /\ op.callback.fn \in {"none", "enable", "show_report", "show_libraries"}
    \/ op.op = "queue" /\ op.elem \in Shown

\* The ends of dequeue: the array is no other element's, and if it is empty
\* the queue is gone, unless a callback may have made a new one.
CleanAt(j) ==
    /\ \A i \in DOMAIN stack : i < j => Sheltered(stack[i])
    /\ \A e \in Elem : data[e] = stack[j].array => e = stack[j].elem
    /\ stack[j].elem \in Solo /\ arrays[stack[j].array] = << >>
          => data[stack[j].elem] = NoArray
CleanInv == \A j \in DOMAIN stack : stack[j].op = "cleanup" => CleanAt(j)

\* A solo element has one animation at a time, and none without a queue.
OneTimer(e) ==
    /\ data[e] = NoArray \/ HotAt(stack, e) => Going(e) = {}
    /\ \A t, u \in Going(e) : t = u
    /\ Going(e) # {} => visible[e]
TimerInv ==
    /\ \A e \in Solo : OneTimer(e)
    /\ \A e \in Elem : At("run", e) => data[e] # NoArray

\* A callback that may throw is in a script without animations.
ThrowInv ==
    AtCall("validated") =>
        \A j \in DOMAIN stack : stack[j].op # "queue" /\ ~Calls(stack[j], "enable")

\* The message is going to be hidden, as the last thing.
FlashInv ==
    \/ \E i \in DOMAIN timeouts : timeouts[i] = "slideUp"
    \/ Ends(flash_messages, "hide")

\* The accordion whose link was obeyed last is shown last.
OpenedInv ==
    \A a \in Accordions : Ends(a, IF a = opened THEN "show" ELSE "hide")

\* The links are disabled for accordion a, and nothing more waits for it.
Final(a) ==
    /\ link_disabled /\ a = opened
    /\ NoneOf(stack, a) /\ Waiting(a) = << >>

\* Only the accordion whose link was obeyed last is shown, as the last thing
\* that is done to it, and the links do not work until then.
ShowInv(a) ==
    /\ OnlyLast(stack, a)
    /\ LastIs(stack, a, "show") => link_disabled /\ a = opened
    /\ \A i \in DOMAIN Waiting(a) : Waiting(a)[i].kind = "show" =>
          /\ link_disabled /\ a = opened /\ NoneOf(stack, a)
          /\ i = Len(Waiting(a))
    /\ (At("run", a) \/ At("complete", a)) /\ Shows => Final(a)
    /\ \A t \in Going(a) : timers[t].item.kind = "show" => Final(a)
EnableAt(i) ==
    /\ opened \in Accordions /\ Final(opened)
    /\ \/ i = 1 /\ data[opened] = NoArray
       \/ i = 2 /\ At("dequeue", opened)
LinkInv ==
    /\ \A a \in Accordions : ShowInv(a)
    /\ \A i \in DOMAIN stack : Calls(stack[i], "enable") => EnableAt(i)
    /\ opened \in Accordions \cup {"none"}
    /\ ~link_disabled /\ opened \in Accordions =>
          /\ data[opened] = NoArray
          /\ NoneOf(stack, opened) /\ ~HotAt(stack, opened)

\* While the links are disabled an accordion is being shown.
Showing(a) ==
    \/ LastIs(stack, a, "show")
    \/ \E i \in DOMAIN Waiting(a) : Waiting(a)[i].kind = "show"
    \/ (At("run", a) \/ At("complete", a)) /\ Shows
    \/ \E t \in Going(a) : timers[t].item.kind = "show"
    \/ \E i \in DOMAIN stack : Calls(stack[i], "enable")
ShowingInv == link_disabled => opened \in Accordions /\ Showing(opened)

PageInv ==
    /\ SuitsInv
    /\ ShownInv
    /\ CleanInv
    /\ TimerInv
    /\ ThrowInv
    /\ FlashInv
    /\ OpenedInv
    /\ LinkInv
    /\ ShowingInv

\* Nothing is left to do for the browser.
AtRest ==
    /\ stack = << >> /\ timers = << >> /\ timeouts = << >>
    /\ \A r \in Request : xhr[r].state # 1

-----------------------------------------------------------------------------
(* Lemmas about elements and scripts *)

\* The elements are different ones.
LEMMA Elements ==
  /\ Solo \subseteq Elem /\ Shown \subseteq Elem /\ Accordions \subseteq Elem
  /\ Accordions \subseteq Solo /\ flash_messages \in Solo
  /\ flash_messages \notin Accordions
  /\ Elem = Solo \cup Shown /\ Solo \cap Shown = {}
  /\ Shown = {validator_report, library_select_div}
  /\ validator_report # library_select_div
  /\ validator_report \notin Accordions /\ library_select_div \notin Accordions
  /\ "none" \notin Accordions
BY PageAssumption DEF Solo

\* Where the operations of a script come from when its first one was replaced.
LEMMA Moves ==
  ASSUME NEW S, NEW s, NEW ops, NEW new, Replaces(S, s, ops, new),
         NEW n, n = Len(ops),
         DOMAIN s = 1 .. Len(s), DOMAIN ops = 1 .. Len(ops)
  PROVE  /\ n \in Nat /\ DOMAIN new \subseteq Nat \ {0} /\ DOMAIN s \subseteq Nat \ {0}
         /\ DOMAIN ops \subseteq DOMAIN new
         /\ \A i \in DOMAIN new : i <= n => i \in DOMAIN ops /\ new[i] = ops[i]
         /\ \A i \in DOMAIN ops : i <= n
         /\ \A i \in DOMAIN new : i > n =>
               i - n + 1 \in DOMAIN s /\ i - n + 1 > 1 /\ new[i] = s[i - n + 1]
         /\ \A j \in DOMAIN s : j > 1 =>
               j - 1 + n \in DOMAIN new /\ j - 1 + n > n /\ new[j - 1 + n] = s[j]
<1> USE DEF Replaces
<1>1. Len(ops) \in Nat /\ Len(s) \in Nat \ {0} /\ Len(new) = Len(ops) + Len(s) - 1
      /\ DOMAIN new = 1 .. Len(new)
  OBVIOUS
<1>2. \A i \in DOMAIN new : i > n =>
               i - n + 1 \in DOMAIN s /\ i - n + 1 > 1 /\ new[i] = s[i - n + 1]
  BY <1>1
<1>3. \A j \in DOMAIN s : j > 1 =>
               j - 1 + n \in DOMAIN new /\ j - 1 + n > n /\ new[j - 1 + n] = s[j]
  <2> SUFFICES ASSUME NEW j \in DOMAIN s, j > 1
               PROVE  j - 1 + n \in DOMAIN new /\ j - 1 + n > n /\ new[j - 1 + n] = s[j]
    OBVIOUS
  <2>1. j - 1 + n \in DOMAIN new /\ j - 1 + n > n /\ (j - 1 + n) - n + 1 = j
    BY <1>1
  <2> QED BY <1>2, <2>1
<1>4. /\ DOMAIN ops \subseteq DOMAIN new
      /\ \A i \in DOMAIN new : i <= n => i \in DOMAIN ops /\ new[i] = ops[i]
  BY <1>1
<1> QED BY <1>1, <1>2, <1>3, <1>4

\* What a script queues for e when its first operation is replaced by
\* operations that queue nothing for e.
LEMMA QueuesMove2 ==
  ASSUME NEW S, NEW s, NEW ops, NEW new, Replaces(S, s, ops, new),
         DOMAIN s = 1 .. Len(s), DOMAIN ops = 1 .. Len(ops),
         NEW e, NoneOf(ops, e)
  PROVE  /\ NoneOf(s, e) => NoneOf(new, e)
         /\ ~Queues(s[1], e) /\ NoneOf(new, e) => NoneOf(s, e)
         /\ OnlyLast(s, e) => OnlyLast(new, e)
         /\ OnlyLast(s, e) /\ Queues(s[1], e) /\ s[1].item.kind = "show" => NoneOf(new, e)
         /\ \A kind :
              /\ LastIs(new, e, kind) => LastIs(s, e, kind)
              /\ LastIs(s, e, kind) /\ ~Queues(s[1], e) => LastIs(new, e, kind)
              /\ LastIs(s, e, kind) /\ Queues(s[1], e)
                    => \/ LastIs(new, e, kind)
                       \/ NoneOf(new, e) /\ s[1].item.kind = kind
<1> DEFINE n == Len(ops)
<1>1. /\ n \in Nat /\ DOMAIN new \subseteq Nat \ {0} /\ DOMAIN s \subseteq Nat \ {0}
      /\ DOMAIN ops \subseteq DOMAIN new
      /\ \A i \in DOMAIN new : i <= n => i \in DOMAIN ops /\ new[i] = ops[i]
      /\ \A i \in DOMAIN new : i > n =>
            i - n + 1 \in DOMAIN s /\ i - n + 1 > 1 /\ new[i] = s[i - n + 1]
      /\ \A j \in DOMAIN s : j > 1 =>
            j - 1 + n \in DOMAIN new /\ j - 1 + n > n /\ new[j - 1 + n] = s[j]
  BY Moves, SMTT(40)
<1> HIDE DEF n
<1>2. \A i \in DOMAIN new : Queues(new[i], e) =>
         i > n /\ i - n + 1 \in DOMAIN s /\ i - n + 1 > 1 /\ new[i] = s[i - n + 1]
  BY <1>1 DEF NoneOf
<1>3. NoneOf(s, e) => NoneOf(new, e)
  BY <1>2 DEF NoneOf
<1>4. ASSUME ~Queues(s[1], e), NoneOf(new, e), NEW j \in DOMAIN s, Queues(s[j], e)
      PROVE  FALSE
  <2>1. j > 1
    BY <1>1, <1>4
  <2> QED BY <1>1, <1>4, <2>1 DEF NoneOf
<1>5. ASSUME OnlyLast(s, e) PROVE OnlyLast(new, e)
  <2> SUFFICES ASSUME NEW i \in DOMAIN new, Queues(new[i], e), new[i].item.kind = "show",
                      NEW j \in DOMAIN new, j > i, Queues(new[j], e)
               PROVE  FALSE
    BY DEF OnlyLast
  <2>1. /\ i - n + 1 \in DOMAIN s /\ new[i] = s[i - n + 1]
        /\ j - n + 1 \in DOMAIN s /\ new[j] = s[j - n + 1]
    BY <1>2
  <2>2. j - n + 1 > i - n + 1
    BY <1>1
  <2> QED BY <1>5, <2>1, <2>2 DEF OnlyLast
<1>6. ASSUME OnlyLast(s, e), Queues(s[1], e), s[1].item.kind = "show",
             NEW i \in DOMAIN new, Queues(new[i], e)
      PROVE  FALSE
  <2>1. /\ i - n + 1 \in DOMAIN s /\ i - n + 1 > 1 /\ new[i] = s[i - n + 1]
    BY <1>2, <1>6
  <2>2. 1 \in DOMAIN s
    BY DEF Replaces
  <2> QED BY <1>6, <2>1, <2>2 DEF OnlyLast
<1>7. ASSUME NEW kind, LastIs(new, e, kind) PROVE LastIs(s, e, kind)
  <2>1. PICK i \in DOMAIN new : /\ Queues(new[i], e) /\ new[i].item.kind = kind
                                /\ \A j \in DOMAIN new : j > i => ~Queues(new[j], e)
    BY <1>7 DEF LastIs
  <2>2. i > n /\ i - n + 1 \in DOMAIN s /\ i - n + 1 > 1 /\ new[i] = s[i - n + 1]
    BY <1>2, <2>1
  <2>3. ASSUME NEW j \in DOMAIN s, j > i - n + 1, Queues(s[j], e) PROVE FALSE
    <3>1. j > 1 /\ j - 1 + n > i
      BY <1>1, <2>2, <2>3, SMTT(40)
    <3> QED BY <1>1, <2>1, <2>3, <3>1
  <2> QED BY <2>1, <2>2, <2>3 DEF LastIs
<1>8. ASSUME NEW kind, LastIs(s, e, kind)
      PROVE  \/ LastIs(new, e, kind)
             \/ NoneOf(new, e) /\ Queues(s[1], e) /\ s[1].item.kind = kind
  <2>1. PICK i \in DOMAIN s : /\ Queues(s[i], e) /\ s[i].item.kind = kind
                              /\ \A j \in DOMAIN s : j > i => ~Queues(s[j], e)
    BY <1>8 DEF LastIs
  <2>2. CASE i > 1
    <3>1. i - 1 + n \in DOMAIN new /\ new[i - 1 + n] = s[i]
      BY <1>1, <2>2
    <3>2. ASSUME NEW j \in DOMAIN new, j > i - 1 + n, Queues(new[j], e) PROVE FALSE
      <4>1. j - n + 1 \in DOMAIN s /\ new[j] = s[j - n + 1] /\ j - n + 1 > i
        BY <1>1, <1>2, <3>2
      <4> QED BY <2>1, <3>2, <4>1
    <3> QED BY <2>1, <3>1, <3>2 DEF LastIs
  <2>3. CASE ~(i > 1)
    <3>1. i = 1
      BY <1>1, <2>3
    <3>2. NoneOf(new, e)
      BY <1>1, <1>2, <2>1, <3>1 DEF NoneOf
    <3> QED BY <2>1, <3>1, <3>2
  <2> QED BY <2>2, <2>3
<1> QED BY <1>3, <1>4, <1>5, <1>6, <1>7, <1>8 DEF NoneOf

-----------------------------------------------------------------------------
(* Lemmas about queues *)

\* The mark is no animation of the page.
LEMMA MarkIsNoItem == Inprogress \notin Item
BY DEF Item, Inprogress, Animation

\* What is behind the mark of a queue is a sequence of items.
LEMMA WaitingItems ==
  ASSUME NEW q \in FxQueue
  PROVE  WithoutInprogress(q) \in Seq(Item)
<1> DEFINE S == Item \cup {Inprogress}
           w == WithoutInprogress(q)
<1>1. q \in Seq(S) /\ \A i \in DOMAIN q : i # 1 => q[i] \in Item
  BY DEF FxQueue
<1>2. CASE q = << >>
  BY <1>2, EmptySeq DEF WithoutInprogress
<1>3. CASE q # << >>
  <2>1. /\ Len(q) \in Nat \ {0} /\ DOMAIN q = 1 .. Len(q)
        /\ q \in [1 .. Len(q) -> S] /\ Head(q) = q[1]
    <3>1. Len(q) \in Nat \ {0}
      BY <1>1, <1>3, EmptySeq
    <3>2. DOMAIN q = 1 .. Len(q) /\ q \in [1 .. Len(q) -> S]
      BY <1>1, LenProperties
    <3> QED BY <1>1, <1>3, <3>1, <3>2
  <2>2. /\ Tail(q) \in Seq(S) /\ Len(Tail(q)) = Len(q) - 1
        /\ \A i \in 1 .. Len(Tail(q)) : Tail(q)[i] = q[i + 1]
    BY <1>1, <1>3, HeadTailProperties
  <2>3. w \in Seq(S) /\ \A i \in 1 .. Len(w) : w[i] \in Item
    <3>1. CASE q[1] = Inprogress
      <4>1. w = Tail(q)
        BY <1>3, <2>1, <3>1 DEF WithoutInprogress
      <4>2. \A i \in 1 .. Len(Tail(q)) : i + 1 \in DOMAIN q /\ i + 1 # 1
        BY <2>1, <2>2
      <4> QED BY <1>1, <2>2, <4>1, <4>2
    <3>2. CASE q[1] # Inprogress
      <4>1. w = q
        BY <2>1, <3>2 DEF WithoutInprogress
      <4>2. q[1] \in Item
        BY <2>1, <3>2
      <4> QED BY <1>1, <2>1, <4>1, <4>2
    <3> QED BY <3>1, <3>2
  <2> HIDE DEF w
  <2>4. Len(w) \in Nat /\ DOMAIN w = 1 .. Len(w) /\ w \in [1 .. Len(w) -> S]
    BY <2>3, LenProperties
  <2>5. w \in [1 .. Len(w) -> Item]
    BY <2>3, <2>4
  <2>6. w \in Seq(Item)
    BY <2>4, <2>5, SeqDef
  <2> QED BY <2>6 DEF w
<1> QED BY <1>2, <1>3

\* An item that joins a marked queue waits behind the others.
LEMMA JoinsWaiting ==
  ASSUME NEW q \in FxQueue, q # << >>, Head(q) = Inprogress, NEW item \in Item
  PROVE  WithoutInprogress(Append(q, item)) = Append(WithoutInprogress(q), item)
<1> DEFINE S == Item \cup {Inprogress}
           r == Append(q, item)
<1>1. q \in Seq(S)
  BY DEF FxQueue
<1>2. r # << >> /\ Head(r) = Head(q) /\ Tail(r) = Append(Tail(q), item)
  BY <1>1, HeadTailAppend, LongerQueue
<1> HIDE DEF r
<1>3. WithoutInprogress(r) = Tail(r) /\ WithoutInprogress(q) = Tail(q)
  BY <1>2 DEF WithoutInprogress
<1> QED BY <1>2, <1>3 DEF r

\* The only item of a new queue waits.
LEMMA AloneWaiting ==
  ASSUME NEW item \in Item
  PROVE  WithoutInprogress(<<item>>) = Append(<< >>, item)
<1>1. Head(<<item>>) = item /\ item # Inprogress
  BY MarkIsNoItem
<1>2. WithoutInprogress(<<item>>) = <<item>>
  BY <1>1 DEF WithoutInprogress
<1> QED BY <1>2

\* Behind the new mark the rest of the items waits.
LEMMA RestWaiting ==
  ASSUME NEW w \in Seq(Item), w # << >>
  PROVE  WithoutInprogress(<<Inprogress>> \o Tail(w)) = Tail(w)
<1> DEFINE S == Item \cup {Inprogress}
           m == <<Inprogress>>
           t == Tail(w)
           r == m \o t
<1>1. t \in Seq(Item)
  BY HeadTailProperties
<1>2. t \in Seq(S)
  BY <1>1, SeqMonotonic
<1>3. m \in Seq(S) /\ Len(m) = 1 /\ m[1] = Inprogress
  OBVIOUS
<1> HIDE DEF m, t
<1>4. /\ r \in Seq(S) /\ Len(r) = 1 + Len(t)
      /\ \A i \in 1 .. 1 + Len(t) : r[i] = IF i <= 1 THEN m[i] ELSE t[i - 1]
  <2>1. /\ r \in Seq(S) /\ Len(r) = Len(m) + Len(t)
        /\ \A i \in 1 .. Len(m) + Len(t) :
              r[i] = IF i <= Len(m) THEN m[i] ELSE t[i - Len(m)]
    BY <1>2, <1>3, ConcatProperties
  <2> HIDE DEF r
  <2> QED BY <1>3, <2>1
<1>5. Len(t) \in Nat
  BY <1>2, LenProperties
<1> HIDE DEF r
<1>6. r # << >>
  BY <1>4, <1>5, EmptySeq
<1>7. Head(r) = Inprogress
  <2>1. Head(r) = r[1] /\ 1 \in 1 .. 1 + Len(t)
    BY <1>4, <1>5, <1>6
  <2> QED BY <1>3, <1>4, <2>1
<1>8. Tail(r) = t
  <2>1. /\ Tail(r) \in Seq(S) /\ Len(Tail(r)) = Len(r) - 1
        /\ \A i \in 1 .. Len(Tail(r)) : Tail(r)[i] = r[i + 1]
    BY <1>4, <1>6, HeadTailProperties
  <2>2. Len(Tail(r)) = Len(t)
    BY <1>4, <1>5, <2>1
  <2>3. \A i \in 1 .. Len(t) : Tail(r)[i] = t[i]
    <3> TAKE i \in 1 .. Len(t)
    <3>1. /\ i + 1 \in 1 .. 1 + Len(t) /\ ~(i + 1 <= 1) /\ (i + 1) - 1 = i
          /\ i \in 1 .. Len(Tail(r))
      BY <1>5, <2>2
    <3>2. Tail(r)[i] = r[i + 1]
      BY <2>1, <3>1
    <3>3. r[i + 1] = t[(i + 1) - 1]
      BY <1>4, <3>1
    <3> QED BY <3>1, <3>2, <3>3
  <2> QED BY <1>2, <2>1, <2>2, <2>3, SeqEqual
<1>9. WithoutInprogress(r) = t
  BY <1>6, <1>7, <1>8 DEF WithoutInprogress
<1> QED BY <1>9 DEF r, m, t

\* What waits are items.
LEMMA WaitingType ==
  ASSUME FxTypes, NEW e \in Elem
  PROVE  /\ Waiting(e) \in Seq(Item)
         /\ Len(Waiting(e)) \in Nat /\ DOMAIN Waiting(e) = 1 .. Len(Waiting(e))
         /\ Waiting(e) # << >> => Len(Waiting(e)) \in DOMAIN Waiting(e)
         /\ data[e] = NoArray => Waiting(e) = << >>
<1>1. Waiting(e) \in Seq(Item)
  <2>1. CASE data[e] = NoArray
    BY <2>1, EmptySeq DEF Waiting
  <2>2. CASE data[e] # NoArray
    <3>1. arrays[data[e]] \in FxQueue
      BY <2>2 DEF FxTypes
    <3> QED BY <2>2, <3>1, WaitingItems DEF Waiting
  <2> QED BY <2>1, <2>2
<1>2. Len(Waiting(e)) \in Nat /\ DOMAIN Waiting(e) = 1 .. Len(Waiting(e))
  BY <1>1, LenProperties
<1>3. Waiting(e) # << >> => Len(Waiting(e)) \in Nat \ {0}
  BY <1>1, EmptySeq
<1>4. data[e] = NoArray => Waiting(e) = << >>
  BY DEF Waiting
<1> QED BY <1>1, <1>2, <1>3, <1>4

\* The last one of a queue when an item joins it, and the others when the
\* first one goes.
LEMMA LastWaiting ==
  ASSUME NEW w \in Seq(Item), NEW item \in Item
  PROVE  /\ Append(w, item) # << >> /\ Append(w, item)[Len(Append(w, item))] = item
         /\ Len(Append(w, item)) = Len(w) + 1
         /\ \A i \in DOMAIN Append(w, item) :
               \/ i = Len(Append(w, item)) /\ Append(w, item)[i] = item
               \/ i \in DOMAIN w /\ Append(w, item)[i] = w[i]
         /\ DOMAIN w \subseteq DOMAIN Append(w, item)
         /\ \A i \in DOMAIN w : Append(w, item)[i] = w[i]
         /\ Len(w) + 1 \in DOMAIN Append(w, item)
<1> DEFINE r == Append(w, item)
<1>1. /\ r \in Seq(Item) /\ r # << >> /\ Len(r) = Len(w) + 1
      /\ \A i \in 1 .. Len(w) : r[i] = w[i]
      /\ r[Len(w) + 1] = item
  BY AppendProperties
<1> HIDE DEF r
<1>2. Len(w) \in Nat /\ DOMAIN w = 1 .. Len(w) /\ DOMAIN r = 1 .. Len(r)
  BY <1>1, LenProperties
<1>3. \A i \in DOMAIN r : i = Len(w) + 1 \/ i \in DOMAIN w
  BY <1>1, <1>2
<1>4. Len(w) + 1 \in DOMAIN r /\ DOMAIN w \subseteq DOMAIN r
  BY <1>1, <1>2
<1>5. \A i \in DOMAIN w : r[i] = w[i]
  BY <1>1, <1>2
<1> QED BY <1>1, <1>3, <1>4, <1>5 DEF r

LEMMA FirstWaiting ==
  ASSUME NEW w \in Seq(Item), w # << >>
  PROVE  /\ Head(w) = w[1] /\ 1 \in DOMAIN w
         /\ \A i \in DOMAIN Tail(w) : i + 1 \in DOMAIN w /\ Tail(w)[i] = w[i + 1]
         /\ \A j \in DOMAIN w : j > 1 => j - 1 \in DOMAIN Tail(w) /\ Tail(w)[j - 1] = w[j]
         /\ Tail(w) = << >> => Len(w) = 1
         /\ Tail(w) # << >> => Tail(w)[Len(Tail(w))] = w[Len(w)] /\ Len(w) > 1
         /\ Len(Tail(w)) = Len(w) - 1 /\ Len(w) \in Nat \ {0}
<1>1. /\ Tail(w) \in Seq(Item) /\ Len(Tail(w)) = Len(w) - 1
      /\ \A i \in 1 .. Len(Tail(w)) : Tail(w)[i] = w[i + 1]
  BY HeadTailProperties
<1>2. Len(w) \in Nat \ {0} /\ DOMAIN w = 1 .. Len(w)
      /\ DOMAIN Tail(w) = 1 .. Len(Tail(w)) /\ Len(Tail(w)) \in Nat
  BY <1>1, LenProperties, EmptySeq
<1>3. Head(w) = w[1] /\ 1 \in DOMAIN w
  BY <1>2
<1>4. Tail(w) = << >> <=> Len(Tail(w)) = 0
  BY <1>1, EmptySeq
<1> DEFINE t == Tail(w)
<1> HIDE DEF t
<1>5. \A i \in DOMAIN t : i + 1 \in DOMAIN w /\ t[i] = w[i + 1]
  BY <1>1, <1>2 DEF t
<1>6. ASSUME NEW j \in DOMAIN w, j > 1 PROVE j - 1 \in DOMAIN t /\ t[j - 1] = w[j]
  <2>1. j - 1 \in DOMAIN t /\ (j - 1) + 1 = j
    BY <1>1, <1>2, <1>6 DEF t
  <2> QED BY <1>5, <2>1
<1>7. t # << >> => t[Len(t)] = w[Len(w)] /\ Len(w) > 1
  <2>1. t # << >> => Len(w) \in DOMAIN w /\ Len(w) > 1 /\ Len(w) - 1 = Len(t)
    BY <1>1, <1>2, <1>4 DEF t
  <2> QED BY <1>6, <2>1
<1>8. t = << >> => Len(w) = 1
  BY <1>1, <1>2, <1>4 DEF t
<1> QED BY <1>1, <1>2, <1>3, <1>5, <1>6, <1>7, <1>8 DEF t

-----------------------------------------------------------------------------
(* What jQuery's operations do, in terms of what waits and what goes on *)

\* The first operation of the script is replaced by these.
Moved(ops) ==
    /\ stack # << >> /\ stack \in Seq(Operation) /\ stack[1] \in Operation
    /\ ~Closing(stack[1])
    /\ ops \in Seq(Operation) /\ Fits(ops)
    /\ Replaces(Operation, stack, ops, stack') /\ Continues(stack, ops, stack')

\* Nothing happens to an element.
Same(d) ==
    /\ Waiting(d)' = Waiting(d) /\ data'[d] = data[d]
    /\ visible'[d] = visible[d]
    /\ Going(d)' = Going(d) /\ \A t \in Going(d) : timers'[t] = timers[t]
Apart(e) == \A d \in Elem \ {e} : Same(d)

\* No array that is not empty becomes empty, save that of an element that
\* loses it, and no element gets an array that another operation holds.
Arrays ==
    /\ \A a \in Array : arrays'[a] = << >> /\ arrays[a] # << >> =>
          \E d \in Elem : data[d] = a /\ data'[d] = NoArray
    /\ \A d \in Elem : \/ data'[d] \in {data[d], NoArray}
                       \/ /\ data[d] = NoArray
                          /\ \A j \in DOMAIN stack : stack[j].op = "cleanup"
                                                      => stack[j].array # data'[d]

Queued(e, item, ops) ==
    /\ Moved(ops) /\ Apart(e) /\ Arrays
    /\ stack[1].op = "queue" /\ stack[1].elem = e /\ stack[1].item = item
    /\ Waiting(e)' = Append(Waiting(e), item) /\ data'[e] # NoArray
    /\ visible'[e] = visible[e] /\ Going(e)' = Going(e) /\ timers' = timers
    /\ \/ data[e] = NoArray /\ ops = <<DequeueOp(e)>>
       \/ data[e] # NoArray /\ ops = << >>

Taken(e, a, ops) ==
    /\ Moved(ops) /\ Apart(e) /\ Arrays
    /\ stack[1].op = "dequeue" /\ stack[1].elem = e
    /\ Waiting(e) # << >> /\ Waiting(e)' = Tail(Waiting(e))
    /\ data' = data /\ data[e] = a /\ a # NoArray /\ arrays'[a] # << >>
    /\ visible'[e] = visible[e] /\ Going(e)' = Going(e) /\ timers' = timers
    /\ ops = <<RunOp(e, Head(Waiting(e))), CleanupOp(e, a)>>

Emptied(e, ops) ==
    /\ Moved(ops) /\ Apart(e) /\ Arrays
    /\ stack[1].op = "dequeue" /\ stack[1].elem = e
    /\ Waiting(e) = << >> /\ Waiting(e)' = << >> /\ data'[e] = NoArray
    /\ visible'[e] = visible[e] /\ Going(e)' = Going(e) /\ timers' = timers
    /\ ops = << >>

Cleaned(e, ops) ==
    /\ Moved(ops) /\ Apart(e) /\ Arrays
    /\ stack[1].op = "cleanup" /\ stack[1].elem = e
    /\ \/ Same(e)
       \/ /\ arrays[stack[1].array] = << >>
          /\ data'[e] = NoArray /\ Waiting(e)' = << >>
    /\ visible'[e] = visible[e] /\ Going(e)' = Going(e) /\ timers' = timers
    /\ ops = << >>

Skipped(e, item, ops) ==
    /\ Moved(ops) /\ Apart(e) /\ Same(e) /\ Arrays /\ timers' = timers
    /\ stack[1].op = "run" /\ stack[1].elem = e /\ stack[1].item = item
    /\ visible[e] = (item.kind = "show")
    /\ ops = <<CompleteOp(e, item)>>

Started(e, item, n, ops) ==
    /\ Moved(ops) /\ Apart(e) /\ Arrays
    /\ stack[1].op = "run" /\ stack[1].elem = e /\ stack[1].item = item
    /\ Waiting(e)' = Waiting(e) /\ data'[e] = data[e] /\ visible'[e] = TRUE
    /\ n \notin DOMAIN timers /\ DOMAIN timers' = DOMAIN timers \cup {n}
    /\ Going(e)' = Going(e) \cup {n} /\ timers'[n] = [elem |-> e, item |-> item]
    /\ \A t \in DOMAIN timers : timers'[t] = timers[t]
    /\ ops = << >>

Completed(e, item, ops) ==
    /\ Moved(ops) /\ Apart(e) /\ Same(e) /\ Arrays /\ timers' = timers
    /\ stack[1].op = "complete" /\ stack[1].elem = e /\ stack[1].item = item
    /\ ops = <<DequeueOp(e), CallOp(item.old)>>

\* Queues and animations stay what they are.
Calm ==
    /\ UNCHANGED <<data, arrays, timers, visible>>
    /\ \A d \in Elem : Same(d)

\* The message is going to be hidden after its three seconds.
Slides == \E i \in DOMAIN timeouts : timeouts[i] = "slideUp"

\* A callback, or a request, in the middle of a script.
Acts(ops) ==
    /\ Moved(ops) /\ Calm /\ stack[1].op \in {"call", "ajax"} /\ opened' = opened
    /\ \A i \in DOMAIN ops :
          /\ ops[i].op \in {"queue", "ajax"}
          /\ ops[i].op = "queue" =>
                /\ Suits(ops[i].elem, ops[i].item)
                /\ ops[i].elem \in Shown \cup {flash_messages}
                /\ ops[i].elem = flash_messages => Slides'
          /\ Sheltered(stack[1]) => Sheltered(ops[i])
    /\ \A e \in Shown : AtCall(Opener(e)) => stack' # << >> /\ Queues(stack'[1], e)
    /\ Slides => Slides'
    /\ link_disabled' = (link_disabled /\ ~AtCall("enable"))

\* The end of a script, by an exception or without.
Drops ==
    /\ stack # << >> /\ stack' = << >> /\ Calm
    /\ UNCHANGED <<opened, link_disabled, timeouts>>
    /\ \/ stack[1].op = "done"
       \/ Calls(stack[1], "validated")
    /\ \A j \in DOMAIN stack : stack[j].op # "queue" /\ ~Calls(stack[j], "enable")

\* A new script, other than that of a click on an accordion.
Begins(ops) ==
    /\ stack = << >> /\ stack' = ops /\ ops \in Seq(Operation) /\ Calm
    /\ UNCHANGED <<opened, link_disabled>>
    /\ \A i \in DOMAIN ops :
          /\ ops[i].op \in {"queue", "ajax", "call", "done"}
          /\ ops[i].op = "queue" => ops[i].elem = flash_messages /\ Suits(ops[i].elem, ops[i].item)
          /\ ops[i].op = "call" =>
                ops[i].callback.fn \notin {"enable", "show_report", "show_libraries"}
    /\ AtCall("validated")' => \A i \in DOMAIN ops : ops[i].op # "queue"
    /\ NoneOf(ops, flash_messages) \/ LastIs(ops, flash_messages, "hide")
    /\ Slides => Slides' \/ LastIs(ops, flash_messages, "hide")

\* A click on an accordion that is obeyed.
Opens(div, ops) ==
    /\ stack = << >> /\ stack' = ops /\ ops \in Seq(Operation) /\ Calm
    /\ ~link_disabled /\ link_disabled' /\ opened' = div /\ div \in Accordions
    /\ UNCHANGED timeouts
    /\ \A i \in DOMAIN ops :
          /\ ops[i].op = "queue" /\ ops[i].elem \in Accordions
          /\ Suits(ops[i].elem, ops[i].item)
          /\ ops[i].item.kind = "show" => ops[i].elem = div /\ i = Len(ops)
    /\ LastIs(ops, div, "show")
    /\ \A a \in Accordions \ {div} :
          \/ LastIs(ops, a, "hide")
          \/ NoneOf(ops, a) /\ ~visible[a]

\* The time of an animation is over.
Ticked(t, e, item) ==
    /\ stack = << >> /\ stack' = <<CompleteOp(e, item), TickEndOp(t)>>
    /\ timers[t] = [elem |-> e, item |-> item] /\ t \in Going(e)
    /\ UNCHANGED <<data, arrays, timers>> /\ Apart(e)
    /\ Waiting(e)' = Waiting(e) /\ Going(e)' = Going(e) \ {t}
    /\ visible'[e] = (visible[e] /\ item.kind = "show")

\* A timer is removed.
TickEnded ==
    /\ stack # << >> /\ stack' = << >> /\ UNCHANGED <<data, arrays, visible>>
    /\ stack[1].op = "tickEnd" /\ Len(stack) = 1
    /\ \A d : Waiting(d)' = Waiting(d)
    /\ \A d : \A k \in Going(d)' : \E t \in Going(d) : timers'[k] = timers[t]
    /\ \A d : \A t \in Going(d) : \E k \in Going(d)' : timers'[k] = timers[t]
    /\ \A d : (\A t, u \in Going(d) : t = u) => \A k, l \in Going(d)' : k = l

\* What the operations of a script are, position by position.
LEMMA MovedAt ==
  ASSUME NEW ops, Moved(ops)
  PROVE  LET n == Len(ops)
         IN /\ n \in Nat /\ DOMAIN stack' \subseteq Nat \ {0}
            /\ DOMAIN stack \subseteq Nat \ {0} /\ 1 \in DOMAIN stack
            /\ DOMAIN ops \subseteq DOMAIN stack'
            /\ \A i \in DOMAIN stack' : i <= n => i \in DOMAIN ops /\ stack'[i] = ops[i]
            /\ \A i \in DOMAIN ops : i <= n
            /\ \A i \in DOMAIN stack' : i > n =>
                  /\ i - n + 1 \in DOMAIN stack /\ i - n + 1 > 1
                  /\ stack'[i] = stack[i - n + 1]
            /\ \A j \in DOMAIN stack : j > 1 =>
                  j - 1 + n \in DOMAIN stack' /\ j - 1 + n > n /\ stack'[j - 1 + n] = stack[j]
<1>1. DOMAIN stack = 1 .. Len(stack) /\ DOMAIN ops = 1 .. Len(ops)
  BY LenProperties DEF Moved
<1>2. 1 \in DOMAIN stack
  BY StackFacts DEF Moved
<1>3. Replaces(Operation, stack, ops, stack')
  BY DEF Moved
<1> QED BY <1>1, <1>2, <1>3, Moves, SMTT(40)

\* Every operation of the script was one of it before, or is new.
LEMMA MovedFrom ==
  ASSUME NEW ops, Moved(ops), NEW i \in DOMAIN stack'
  PROVE  \/ i \in DOMAIN ops /\ stack'[i] = ops[i]
         \/ \E j \in DOMAIN stack : j > 1 /\ stack'[i] = stack[j]
<1> DEFINE n == Len(ops)
<1>1. /\ n \in Nat /\ i \in Nat
      /\ i <= n => i \in DOMAIN ops /\ stack'[i] = ops[i]
      /\ i > n => /\ i - n + 1 \in DOMAIN stack /\ i - n + 1 > 1
                  /\ stack'[i] = stack[i - n + 1]
  BY MovedAt
<1> QED BY <1>1

\* Timers go on if none is started and the script does not end.
LEMMA GoingStays ==
  ASSUME NEW ops, Moved(ops), UNCHANGED timers
  PROVE  \A d : Going(d)' = Going(d) /\ \A t \in Going(d) : timers'[t] = timers[t]
<1>1. \A t : Keeps(stack, t) => Keeps(stack', t)
  BY DEF Moved, Continues
<1>2. ASSUME NEW t, Keeps(stack', t)
      PROVE  Keeps(stack, t)
  <2> SUFFICES ASSUME NEW j \in DOMAIN stack, stack[j].op = "tickEnd"
               PROVE  stack[j].timer # t
    BY DEF Keeps
  <2>1. j # 1
    BY DEF Moved, Closing
  <2>2. j > 1
    BY <2>1, MovedAt
  <2>3. j - 1 + Len(ops) \in DOMAIN stack' /\ stack'[j - 1 + Len(ops)] = stack[j]
    BY <2>2, MovedAt
  <2> QED BY <1>2, <2>3 DEF Keeps
<1> QED BY <1>1, <1>2 DEF Going

\* A step on a script that goes on.
LEMMA MovedStep ==
  ASSUME IInv, stack # << >>, ~Closing(stack[1]),
         NEW ops \in Seq(Operation), Fits(ops), Becomes(ops)
  PROVE  Moved(ops)
<1>1. Replaces(Operation, stack, ops, stack')
  BY BecomesAt DEF Becomes, IInv, JInv
<1>2. Continues(stack, ops, stack')
  BY <1>1, PlacedBecomes DEF IInv, JInv, ScriptInv
<1>3. stack \in Seq(Operation) /\ stack[1] \in Operation
  BY StackFacts DEF IInv, JInv
<1> QED BY <1>1, <1>2, <1>3 DEF Moved

\* Nothing happens to elements whose data and array stay.
LEMMA SameElement ==
  ASSUME NEW ops, Moved(ops), UNCHANGED timers, NEW d,
         data'[d] = data[d], visible'[d] = visible[d],
         data[d] # NoArray => arrays'[data[d]] = arrays[data[d]]
  PROVE  Same(d)
<1>1. Going(d)' = Going(d) /\ \A t \in Going(d) : timers'[t] = timers[t]
  BY GoingStays
<1>2. Waiting(d)' = Waiting(d)
  BY DEF Waiting
<1> QED BY <1>1, <1>2 DEF Same

LEMMA QueueEffect ==
  ASSUME IInv, Queue
  PROVE  \E e \in Elem, item \in Item : \E ops : Queued(e, item, ops)
<1>0. PICK e, item : e = stack[1].elem /\ item = stack[1].item
  OBVIOUS
<1>1. stack # << >> /\ Head(stack) = stack[1] /\ stack[1] \in Operation
      /\ stack[1].op = "queue"
  BY StackFacts DEF IInv, JInv, Queue, Running
<1>2. e \in Elem /\ item \in Item /\ item # Inprogress
  BY <1>0, <1>1, OperationFields, ItemFields
<1>3. ~Hot(stack[1]) /\ ~Closing(stack[1])
  BY <1>1 DEF Hot, Closing
<1>4. /\ FxTypes /\ \A d \in Elem : Marked(d)
      /\ \A d, x \in Elem : data[d] = data[x] /\ data[d] # NoArray => d = x
  BY <1>1, <1>3, FxFacts
<1>5. UNCHANGED <<timers, visible>>
  BY DEF Queue
<1>6. Head(stack).elem = e /\ Head(stack).item = item
  BY <1>0, <1>1
<1>7. CASE data[e] = NoArray
  <2>0. PICK a : a = FreshArray
    OBVIOUS
  <2>1. /\ a \in Array /\ a # NoArray /\ \A d \in Elem : data[d] # a
        /\ \A j \in DOMAIN stack : stack[j].op = "cleanup" => stack[j].array # a
    <3>1. FreeArrays # {} /\ FreeArrays \in SUBSET Nat
      BY <1>6, <1>7, IdAssumption DEF Queue, FreeArrays
    <3>2. \E x \in FreeArrays : \A y \in FreeArrays : x <= y
      BY <3>1, LeastOf
    <3>3. a \in FreeArrays
      BY <2>0, <3>2 DEF FreshArray
    <3> QED BY <3>3, IdAssumption DEF FreeArrays
  <2>2. /\ data' = [data EXCEPT ![e] = a]
        /\ arrays' = [arrays EXCEPT ![a] = <<item>>]
        /\ Becomes(<<DequeueOp(e)>>)
    <3>1. Head(<<item>>) # Inprogress
      BY <1>2
    <3> QED BY <1>6, <1>7, <2>0, <3>1 DEF Queue
  <2>3. /\ data'[e] = a /\ \A d \in Elem \ {e} : data'[d] = data[d]
        /\ arrays'[a] = <<item>> /\ \A x \in Array \ {a} : arrays'[x] = arrays[x]
    BY <1>2, <1>4, <2>1, <2>2 DEF FxTypes
  <2>4. PICK op : op = DequeueOp(e)
    OBVIOUS
  <2>5. op \in Operation /\ ~Closing(op) /\ ~Editing(op) /\ ~Validating(op)
    <3>1. op \in Operation /\ op.op = "dequeue"
      BY <1>2, <2>4, FxOperations
    <3> QED BY <3>1 DEF Closing, Editing, Validating
  <2>6. <<op>> \in Seq(Operation) /\ Fits(<<op>>)
    BY <2>5 DEF Fits
  <2>7. Moved(<<op>>)
    BY <1>1, <1>3, <2>2, <2>4, <2>6, MovedStep
  <2>8. Apart(e)
    <3> SUFFICES ASSUME NEW d \in Elem \ {e} PROVE Same(d)
      BY DEF Apart
    <3>1. data[d] # NoArray => data[d] \in Array \ {a}
      BY <1>4, <2>1 DEF FxTypes
    <3> QED BY <1>5, <2>3, <2>7, <3>1, SameElement
  <2>9. Waiting(e)' = Append(Waiting(e), item)
    <3>1. Waiting(e)' = WithoutInprogress(<<item>>)
      BY <2>1, <2>3 DEF Waiting
    <3> QED BY <1>2, <1>7, <3>1, AloneWaiting DEF Waiting
  <2>10. Arrays
    BY <1>7, <2>1, <2>3 DEF Arrays
  <2>11. Going(e)' = Going(e)
    BY <1>5, <2>7, GoingStays
  <2>12. Queued(e, item, <<op>>)
    BY <1>0, <1>1, <1>5, <1>7, <2>1, <2>3, <2>4, <2>7, <2>8, <2>9, <2>10, <2>11
       DEF Queued
  <2> QED BY <1>2, <2>12
<1>8. CASE data[e] # NoArray
  <2>0. PICK a, q : a = data[e] /\ q = Append(arrays[a], item)
    OBVIOUS
  <2>1. a \in Array /\ arrays[a] \in FxQueue /\ arrays[a] # << >>
        /\ Head(arrays[a]) = Inprogress
    BY <1>2, <1>4, <1>8, <2>0 DEF FxTypes, Marked
  <2>2. q \in FxQueue /\ q # << >> /\ Head(q) = Inprogress
    BY <1>2, <2>0, <2>1, LongerQueue
  <2>3. /\ data' = [data EXCEPT ![e] = a] /\ arrays' = [arrays EXCEPT ![a] = q]
        /\ Becomes(<< >>)
    BY <1>6, <1>8, <2>0, <2>2 DEF Queue
  <2>4. /\ data' = data
        /\ arrays'[a] = q /\ \A x \in Array \ {a} : arrays'[x] = arrays[x]
    BY <1>2, <1>4, <2>0, <2>1, <2>3 DEF FxTypes
  <2>5. << >> \in Seq(Operation) /\ Fits(<< >>)
    BY DEF Fits
  <2>6. Moved(<< >>)
    BY <1>1, <1>3, <2>3, <2>5, MovedStep
  <2>7. Apart(e)
    <3> SUFFICES ASSUME NEW d \in Elem \ {e} PROVE Same(d)
      BY DEF Apart
    <3>1. data[d] # NoArray => data[d] \in Array \ {a}
      BY <1>2, <1>4, <2>0 DEF FxTypes
    <3> QED BY <1>5, <2>4, <2>6, <3>1, SameElement
  <2>8. Waiting(e)' = Append(Waiting(e), item)
    <3>1. Waiting(e)' = WithoutInprogress(q)
      BY <1>8, <2>0, <2>4 DEF Waiting
    <3>2. Waiting(e) = WithoutInprogress(arrays[a])
      BY <1>8, <2>0 DEF Waiting
    <3> QED BY <1>2, <2>0, <2>1, <3>1, <3>2, JoinsWaiting
  <2>9. Arrays
    BY <2>2, <2>4 DEF Arrays
  <2>10. Going(e)' = Going(e)
    BY <1>5, <2>6, GoingStays
  <2>11. Queued(e, item, << >>)
    BY <1>0, <1>1, <1>5, <1>8, <2>4, <2>6, <2>7, <2>8, <2>9, <2>10 DEF Queued
  <2> QED BY <1>2, <2>11
<1> QED BY <1>7, <1>8

LEMMA DequeueEffect ==
  ASSUME IInv, Dequeue
  PROVE  \E e \in Elem : \E ops : (\E a \in Array : Taken(e, a, ops)) \/ Emptied(e, ops)
<1>0. PICK e, a : e = stack[1].elem /\ a = data[e]
  OBVIOUS
<1>1. stack # << >> /\ Head(stack) = stack[1] /\ stack[1] \in Operation
      /\ stack[1].op = "dequeue"
  BY StackFacts DEF IInv, JInv, Dequeue, Running
<1>2. e \in Elem
  BY <1>0, <1>1, OperationFields
<1>3. Hot(stack[1]) /\ ~Closing(stack[1])
  BY <1>1 DEF Hot, Closing
<1>4. /\ FxTypes
      /\ \A d, x \in Elem : data[d] = data[x] /\ data[d] # NoArray => d = x
  BY <1>1, FxFacts
<1>5. UNCHANGED <<timers, visible>>
  BY DEF Dequeue
<1>6. Head(stack).elem = e
  BY <1>0, <1>1
<1>7. PICK w : w = Waiting(e)
  OBVIOUS
<1>8. w = IF a = NoArray THEN << >> ELSE WithoutInprogress(arrays[a])
  BY <1>0, <1>7 DEF Waiting
<1>9. w \in Seq(Item)
  BY <1>2, <1>4, <1>7, WaitingType
<1>10. CASE w # << >>
  <2>0. PICK item, new : item = Head(w) /\ new = <<Inprogress>> \o Tail(w)
    OBVIOUS
  <2>1. a # NoArray /\ w = WithoutInprogress(arrays[a])
    BY <1>8, <1>10
  <2>2. /\ arrays' = [arrays EXCEPT ![a] = new]
        /\ Becomes(<<RunOp(e, item), CleanupOp(e, a)>>) /\ UNCHANGED data
    BY <1>0, <1>6, <1>8, <1>10, <2>0 DEF Dequeue
  <2>3. a \in Array /\ arrays[a] \in FxQueue
    BY <1>0, <1>2, <1>4, <2>1 DEF FxTypes
  <2>4. item \in Item /\ new # << >>
    BY <1>10, <2>0, <2>1, <2>3, NextInQueue
  <2>5. arrays'[a] = new /\ \A x \in Array \ {a} : arrays'[x] = arrays[x]
    BY <1>4, <2>2, <2>3 DEF FxTypes
  <2>6. PICK op, end : op = RunOp(e, item) /\ end = CleanupOp(e, a)
    OBVIOUS
  <2>7. /\ op \in Operation /\ ~Closing(op) /\ ~Editing(op) /\ ~Validating(op)
        /\ end \in Operation /\ ~Closing(end) /\ ~Editing(end) /\ ~Validating(end)
        /\ ~Hot(end)
    <3>1. op \in Operation /\ op.op = "run" /\ end \in Operation /\ end.op = "cleanup"
      BY <1>2, <2>3, <2>4, <2>6, FxOperations, CleanupOperation
    <3> QED BY <3>1 DEF Closing, Editing, Validating, Hot
  <2>8. <<op, end>> \in Seq(Operation) /\ Fits(<<op, end>>)
    BY <2>7, FitsShort
  <2>9. Moved(<<op, end>>)
    BY <1>1, <1>3, <2>2, <2>6, <2>8, MovedStep
  <2>10. Apart(e)
    <3> SUFFICES ASSUME NEW d \in Elem \ {e} PROVE Same(d)
      BY DEF Apart
    <3>1. data[d] # NoArray => data[d] \in Array \ {a}
      BY <1>0, <1>2, <1>4 DEF FxTypes
    <3> QED BY <1>5, <2>2, <2>5, <2>9, <3>1, SameElement
  <2>11. Waiting(e)' = Tail(w)
    <3>1. Waiting(e)' = WithoutInprogress(new)
      BY <1>0, <2>1, <2>2, <2>5 DEF Waiting
    <3> QED BY <1>9, <1>10, <2>0, <3>1, RestWaiting
  <2>12. Arrays
    BY <2>2, <2>4, <2>5 DEF Arrays
  <2>13. Going(e)' = Going(e)
    BY <1>5, <2>9, GoingStays
  <2>14. Taken(e, a, <<op, end>>)
    BY <1>0, <1>1, <1>5, <1>7, <1>10, <2>0, <2>1, <2>2, <2>4, <2>5, <2>6, <2>9, <2>10,
       <2>11, <2>12, <2>13 DEF Taken
  <2> QED BY <1>2, <2>3, <2>14
<1>11. CASE w = << >>
  <2>1. /\ arrays' = IF a = NoArray THEN arrays ELSE [arrays EXCEPT ![a] = << >>]
        /\ data' = [data EXCEPT ![e] = NoArray] /\ Becomes(<< >>)
    BY <1>0, <1>6, <1>8, <1>11 DEF Dequeue
  <2>2. a # NoArray => a \in Array
    BY <1>0, <1>2, <1>4 DEF FxTypes
  <2>3. /\ data'[e] = NoArray /\ \A d \in Elem \ {e} : data'[d] = data[d]
        /\ \A x \in Array \ {a} : arrays'[x] = arrays[x]
    BY <1>2, <1>4, <2>1, <2>2 DEF FxTypes
  <2>4. << >> \in Seq(Operation) /\ Fits(<< >>)
    BY DEF Fits
  <2>5. Moved(<< >>)
    BY <1>1, <1>3, <2>1, <2>4, MovedStep
  <2>6. Apart(e)
    <3> SUFFICES ASSUME NEW d \in Elem \ {e} PROVE Same(d)
      BY DEF Apart
    <3>1. data[d] # NoArray => data[d] \in Array \ {a}
      BY <1>0, <1>2, <1>4 DEF FxTypes
    <3> QED BY <1>5, <2>3, <2>5, <3>1, SameElement
  <2>7. Waiting(e)' = << >>
    BY <2>3 DEF Waiting
  <2>8. Arrays
    <3>1. ASSUME NEW x \in Array, arrays'[x] = << >>, arrays[x] # << >>
          PROVE  \E d \in Elem : data[d] = x /\ data'[d] = NoArray
      BY <1>0, <1>2, <2>3, <3>1
    <3>2. \A d \in Elem : data'[d] \in {data[d], NoArray}
      BY <2>3
    <3> QED BY <3>1, <3>2 DEF Arrays
  <2>9. Going(e)' = Going(e)
    BY <1>5, <2>5, GoingStays
  <2>10. Emptied(e, << >>)
    BY <1>0, <1>1, <1>5, <1>7, <1>11, <2>3, <2>5, <2>6, <2>7, <2>8, <2>9 DEF Emptied
  <2> QED BY <1>2, <2>10
<1> QED BY <1>10, <1>11

LEMMA CleanupEffect ==
  ASSUME IInv, Cleanup
  PROVE  \E e \in Elem : \E ops : Cleaned(e, ops)
<1>0. PICK e : e = stack[1].elem
  OBVIOUS
<1>1. stack # << >> /\ Head(stack) = stack[1] /\ stack[1] \in Operation
      /\ stack[1].op = "cleanup"
  BY StackFacts DEF IInv, JInv, Cleanup, Running
<1>2. e \in Elem
  BY <1>0, <1>1, OperationFields
<1>3. ~Closing(stack[1])
  BY <1>1 DEF Closing
<1>4. FxTypes
  BY <1>1, FxFacts
<1>5. UNCHANGED <<arrays, timers, visible>> /\ Becomes(<< >>)
  BY DEF Cleanup
<1>6. \/ data' = data
      \/ arrays[stack[1].array] = << >> /\ data' = [data EXCEPT ![e] = NoArray]
  BY <1>0, <1>1 DEF Cleanup
<1>7. << >> \in Seq(Operation) /\ Fits(<< >>)
  BY DEF Fits
<1>8. Moved(<< >>)
  BY <1>1, <1>3, <1>5, <1>7, MovedStep
<1>9. \A d \in Elem \ {e} : data'[d] = data[d]
  BY <1>2, <1>4, <1>6 DEF FxTypes
<1>10. Apart(e)
  BY <1>5, <1>8, <1>9, SameElement DEF Apart
<1>11. \/ data'[e] = data[e]
       \/ arrays[stack[1].array] = << >> /\ data'[e] = NoArray
  BY <1>2, <1>4, <1>6 DEF FxTypes
<1>12. \/ Same(e)
       \/ /\ arrays[stack[1].array] = << >>
          /\ data'[e] = NoArray /\ Waiting(e)' = << >>
  <2>1. CASE data'[e] = data[e]
    BY <1>5, <1>8, <2>1, SameElement
  <2>2. CASE arrays[stack[1].array] = << >> /\ data'[e] = NoArray
    BY <2>2 DEF Waiting
  <2> QED BY <1>11, <2>1, <2>2
<1>13. Arrays
  BY <1>5, <1>9, <1>11 DEF Arrays
<1>14. Going(e)' = Going(e)
  BY <1>5, <1>8, GoingStays
<1>15. Cleaned(e, << >>)
  BY <1>0, <1>1, <1>5, <1>8, <1>10, <1>12, <1>13, <1>14 DEF Cleaned
<1> QED BY <1>2, <1>15

LEMMA AnimateEffect ==
  ASSUME IInv, Animate
  PROVE  \E e \in Elem, item \in Item : \E ops :
            Skipped(e, item, ops) \/ \E n : Started(e, item, n, ops)
<1>0. PICK e, item : e = stack[1].elem /\ item = stack[1].item
  OBVIOUS
<1>1. stack # << >> /\ Head(stack) = stack[1] /\ stack[1] \in Operation
      /\ stack[1].op = "run"
  BY StackFacts DEF IInv, JInv, Animate, Running
<1>2. e \in Elem /\ item \in Item
  BY <1>0, <1>1, OperationFields
<1>3. ~Closing(stack[1])
  BY <1>1 DEF Closing
<1>4. FxTypes /\ EndInv
  BY <1>1, FxFacts
<1>5. Head(stack).elem = e /\ Head(stack).item = item
  BY <1>0, <1>1
<1>6. CASE item.effect = "fx" /\ visible[e] = (item.kind = "show")
  <2>1. Becomes(<<CompleteOp(e, item)>>) /\ UNCHANGED <<data, arrays, timers, visible>>
    BY <1>5, <1>6 DEF Animate, fx
  <2>2. PICK op : op = CompleteOp(e, item)
    OBVIOUS
  <2>3. op \in Operation /\ ~Closing(op) /\ ~Editing(op) /\ ~Validating(op)
    <3>1. op \in Operation /\ op.op = "complete"
      BY <1>2, <2>2, FxOperations
    <3> QED BY <3>1 DEF Closing, Editing, Validating
  <2>4. <<op>> \in Seq(Operation) /\ Fits(<<op>>)
    BY <2>3 DEF Fits
  <2>5. Moved(<<op>>)
    BY <1>1, <1>3, <2>1, <2>2, <2>4, MovedStep
  <2>6. Apart(e) /\ Same(e)
    BY <2>1, <2>5, SameElement DEF Apart
  <2>7. Arrays
    BY <2>1 DEF Arrays
  <2>8. Skipped(e, item, <<op>>)
    BY <1>0, <1>1, <1>6, <2>1, <2>2, <2>5, <2>6, <2>7 DEF Skipped
  <2> QED BY <1>2, <2>8
<1>7. CASE ~(item.effect = "fx" /\ visible[e] = (item.kind = "show"))
  <2>1. Becomes(<< >>) /\ UNCHANGED <<data, arrays>> /\ Custom(e, item)
    BY <1>5, <1>7 DEF Animate
  <2>2. PICK timer, n : timer = [elem |-> e, item |-> item] /\ n = Len(timers) + 1
    OBVIOUS
  <2>3. timers' = Append(timers, timer) /\ visible' = [visible EXCEPT ![e] = TRUE]
    BY <2>1, <2>2 DEF Custom
  <2>4. /\ n \notin DOMAIN timers /\ DOMAIN timers' = DOMAIN timers \cup {n}
        /\ \A t \in DOMAIN timers : timers'[t] = timers[t]
        /\ timers'[n] = timer
    <3>1. timers \in Seq([elem : Elem, item : Item])
      BY <1>4 DEF FxTypes
    <3>2. DOMAIN timers = 1 .. Len(timers) /\ Len(timers) \in Nat
      BY <3>1, LenProperties
    <3>3. timer \in [elem : Elem, item : Item]
      BY <1>2, <2>2
    <3>4. /\ timers' \in Seq([elem : Elem, item : Item])
          /\ Len(timers') = Len(timers) + 1
          /\ \A i \in 1 .. Len(timers) : timers'[i] = timers[i]
          /\ timers'[Len(timers) + 1] = timer
      BY <2>3, <3>1, <3>3, AppendProperties
    <3>5. DOMAIN timers' = 1 .. Len(timers')
      BY <3>4, LenProperties
    <3>6. n \notin DOMAIN timers /\ DOMAIN timers' = DOMAIN timers \cup {n}
      BY <2>2, <3>2, <3>4, <3>5
    <3> QED BY <2>2, <3>2, <3>4, <3>6
  <2>5. << >> \in Seq(Operation) /\ Fits(<< >>)
    BY DEF Fits
  <2>6. Moved(<< >>)
    BY <1>1, <1>3, <2>1, <2>5, MovedStep
  <2>7. /\ \A t : Keeps(stack, t) => Keeps(stack', t)
        /\ \A i \in DOMAIN stack' : stack'[i].op = "tickEnd" =>
              \E j \in DOMAIN stack : stack[j] = stack'[i]
    BY <2>6 DEF Moved, Continues
  <2>8. ASSUME NEW t, Keeps(stack', t) PROVE Keeps(stack, t)
    <3> SUFFICES ASSUME NEW j \in DOMAIN stack, stack[j].op = "tickEnd"
                 PROVE  stack[j].timer # t
      BY DEF Keeps
    <3>1. j > 1
      BY <1>3, <2>6, MovedAt DEF Closing
    <3>2. \E i \in DOMAIN stack' : stack'[i] = stack[j]
      BY <2>6, <3>1, MovedAt
    <3> QED BY <2>8, <3>2 DEF Keeps
  <2>9. Keeps(stack', n)
    <3> SUFFICES ASSUME NEW i \in DOMAIN stack', stack'[i].op = "tickEnd"
                 PROVE  stack'[i].timer # n
      BY DEF Keeps
    <3>1. PICK j \in DOMAIN stack : stack[j] = stack'[i]
      BY <2>7
    <3>2. stack'[i].timer \in DOMAIN timers
      BY <1>4, <3>1 DEF EndInv
    <3> QED BY <2>4, <3>2
  <2>10. Going(e)' = Going(e) \cup {n}
         /\ \A d \in Elem \ {e} : Going(d)' = Going(d)
    <3>1. \A t \in DOMAIN timers : Keeps(stack', t) <=> Keeps(stack, t)
      BY <2>7, <2>8
    <3>2. timers'[n].elem = e
      BY <2>2, <2>4
    <3>3. \A d : Going(d)' = {t \in DOMAIN timers' : timers'[t].elem = d /\ Keeps(stack', t)}
      BY DEF Going
    <3>4. Going(e)' = Going(e) \cup {n}
      <4>1. ASSUME NEW t PROVE t \in Going(e)' <=> t \in Going(e) \cup {n}
        BY <2>4, <2>9, <3>1, <3>2, <3>3 DEF Going
      <4> QED BY <4>1
    <3>5. ASSUME NEW d \in Elem \ {e} PROVE Going(d)' = Going(d)
      <4>1. ASSUME NEW t PROVE t \in Going(d)' <=> t \in Going(d)
        BY <2>4, <2>9, <3>1, <3>2, <3>3 DEF Going
      <4> QED BY <4>1
    <3> QED BY <3>4, <3>5
  <2>11. visible'[e] = TRUE /\ \A d \in Elem \ {e} : visible'[d] = visible[d]
    BY <1>2, <1>4, <2>3 DEF FxTypes
  <2>12. Apart(e) /\ Waiting(e)' = Waiting(e)
    <3>1. \A d : Waiting(d)' = Waiting(d)
      BY <2>1 DEF Waiting
    <3>2. \A d \in Elem : Going(d) \subseteq DOMAIN timers
      BY DEF Going
    <3> QED BY <2>1, <2>4, <2>10, <2>11, <3>1, <3>2 DEF Apart, Same
  <2>13. Arrays
    BY <2>1 DEF Arrays
  <2>14. Started(e, item, n, << >>)
    BY <1>0, <1>1, <2>1, <2>2, <2>4, <2>6, <2>10, <2>11, <2>12, <2>13 DEF Started
  <2> QED BY <1>2, <2>14
<1> QED BY <1>6, <1>7

LEMMA CompleteEffect ==
  ASSUME IInv, Complete
  PROVE  \E e \in Elem, item \in Item : \E ops : Completed(e, item, ops)
<1>0. PICK e, item : e = stack[1].elem /\ item = stack[1].item
  OBVIOUS
<1>1. stack # << >> /\ Head(stack) = stack[1] /\ stack[1] \in Operation
      /\ stack[1].op = "complete"
  BY StackFacts DEF IInv, JInv, Complete, Running
<1>2. e \in Elem /\ item \in Item /\ item.old \in FxCallback
  BY <1>0, <1>1, OperationFields, ItemFields
<1>3. ~Closing(stack[1])
  BY <1>1 DEF Closing
<1>4. UNCHANGED <<data, arrays, timers, visible>>
      /\ Becomes(<<DequeueOp(e), CallOp(item.old)>>)
  BY <1>0, <1>1 DEF Complete, fx
<1>5. PICK op, call : op = DequeueOp(e) /\ call = CallOp(item.old)
  OBVIOUS
<1>6. /\ op \in Operation /\ op.op = "dequeue" /\ call \in Operation /\ call.op = "call"
      /\ call.callback.fn \notin {"validated", "editor"}
  BY <1>2, <1>5, FxOperations, FxFields, CallOperation
<1>7. /\ ~Closing(op) /\ ~Editing(op) /\ ~Validating(op)
      /\ ~Closing(call) /\ ~Editing(call) /\ ~Validating(call) /\ ~Hot(call)
  BY <1>6 DEF Closing, Editing, Validating, Hot
<1>8. <<op, call>> \in Seq(Operation) /\ Fits(<<op, call>>)
  BY <1>6, <1>7, FitsShort
<1>9. Moved(<<op, call>>)
  BY <1>1, <1>3, <1>4, <1>5, <1>8, MovedStep
<1>10. Apart(e) /\ Same(e)
  BY <1>4, <1>9, SameElement DEF Apart
<1>11. Arrays
  BY <1>4 DEF Arrays
<1>12. Completed(e, item, <<op, call>>)
  BY <1>0, <1>1, <1>4, <1>5, <1>9, <1>10, <1>11 DEF Completed
<1> QED BY <1>2, <1>12

-----------------------------------------------------------------------------
(* What the scripts of the page do *)

\* The animations of the page suit their elements.
LEMMA PageSuits ==
  /\ \A n : Suits(validator_report, Animation("hide", "fast", Callback("show_report", n)))
  /\ Suits(library_select_div, Animation("hide", "fast", Callback("show_libraries", 0)))
  /\ \A e \in Shown : Suits(e, Animation("show", "fast", NoCallback))
  /\ \A kind : Suits(flash_messages, Slide(kind, "slow"))
  /\ \A a \in Accordions : /\ Suits(a, Animation("hide", "slow", NoCallback))
                           /\ Suits(a, Animation("show", "slow", Callback("enable", 0)))
<1> USE Elements DEF Suits, Animation, Slide, Callback, NoCallback, Opener
<1>1. \A n : Suits(validator_report, Animation("hide", "fast", Callback("show_report", n)))
  OBVIOUS
<1>2. Suits(library_select_div, Animation("hide", "fast", Callback("show_libraries", 0)))
  OBVIOUS
<1>3. \A e \in Shown : Suits(e, Animation("show", "fast", NoCallback))
  OBVIOUS
<1>4. \A kind : Suits(flash_messages, Slide(kind, "slow"))
  BY DEF Solo
<1>5. \A a \in Accordions : Suits(a, Animation("hide", "slow", NoCallback))
  BY DEF Solo
<1>6. \A a \in Accordions : Suits(a, Animation("show", "slow", Callback("enable", 0)))
  BY DEF Solo
<1> QED BY <1>1, <1>2, <1>3, <1>4, <1>5, <1>6

\* A step of the page leaves jQuery's queues alone.
LEMMA PageMoved ==
  ASSUME IInv, stack # << >>, ~Closing(stack[1]),
         NEW ops \in Seq(Operation), Cold(ops), Becomes(ops), UNCHANGED fx
  PROVE  Moved(ops) /\ Calm
<1>1. Moved(ops)
  BY MovedStep DEF Cold
<1>2. UNCHANGED <<data, arrays, timers, visible>>
  BY DEF fx
<1>3. \A d \in Elem : Same(d)
  BY <1>1, <1>2, SameElement
<1> QED BY <1>1, <1>2, <1>3 DEF Calm

\* A callback that queues nothing.
LEMMA ActsQuietly ==
  ASSUME IInv, stack # << >>, stack[1].op \in {"call", "ajax"},
         \A e \in Shown : ~AtCall(Opener(e)),
         NEW ops \in Seq(Operation), \A i \in DOMAIN ops : Plain(ops[i]) /\ ops[i].op = "ajax",
         ops = << >> \/ ~Sheltered(stack[1]),
         Becomes(ops), UNCHANGED <<fx, opened>>, Slides => Slides',
         link_disabled' = (link_disabled /\ ~AtCall("enable"))
  PROVE  Acts(ops)
<1>1. Cold(ops)
  BY PlainIsCold
<1>2. ~Closing(stack[1])
  BY DEF Closing
<1>3. Moved(ops) /\ Calm
  BY <1>1, <1>2, PageMoved
<1>4. ops = << >> => DOMAIN ops = {}
  OBVIOUS
<1> QED BY <1>3, <1>4 DEF Acts

\* A callback that queues one animation.
LEMMA ActsOnce ==
  ASSUME IInv, stack # << >>, stack[1].op = "call", ~AtCall("enable"),
         NEW e \in Shown \cup {flash_messages}, NEW item \in Item, Suits(e, item),
         Plain(QueueOp(e, item)),
         \A d \in Shown : AtCall(Opener(d)) => d = e,
         Sheltered(stack[1]) => e \in Shown, e = flash_messages => Slides',
         Becomes(<<QueueOp(e, item)>>), UNCHANGED <<fx, opened, link_disabled>>,
         link_disabled \in BOOLEAN, Slides => Slides'
  PROVE  \E ops : Acts(ops)
<1>1. PICK op : op = QueueOp(e, item)
  OBVIOUS
<1>2. op.op = "queue" /\ op.elem = e /\ op.item = item
  BY <1>1 DEF QueueOp
<1>3. <<op>> \in Seq(Operation) /\ Cold(<<op>>)
  BY <1>1, ShortScripts
<1>4. ~Closing(stack[1])
  BY DEF Closing
<1>5. Moved(<<op>>) /\ Calm
  BY <1>1, <1>3, <1>4, PageMoved
<1>6. stack' # << >> /\ stack'[1] = op
  BY <1>5 DEF Moved, Continues
<1>7. DOMAIN <<op>> = {1} /\ <<op>>[1] = op
  OBVIOUS
<1>8. Sheltered(stack[1]) => Sheltered(op)
  BY <1>2 DEF Sheltered
<1>9. \A d \in Shown : AtCall(Opener(d)) => stack' # << >> /\ Queues(stack'[1], d)
  BY <1>2, <1>6 DEF Queues
<1>10. link_disabled' = (link_disabled /\ ~AtCall("enable"))
  OBVIOUS
<1>11. Acts(<<op>>)
  BY <1>2, <1>5, <1>7, <1>8, <1>9, <1>10 DEF Acts
<1> QED BY <1>11

\* Timeouts are added at the end.
LEMMA SlidesStay ==
  ASSUME IInv, NEW timeout \in {"slideUp", "update_file_list"},
         timeouts' = timeouts \/ timeouts' = Append(timeouts, timeout)
  PROVE  /\ Slides => Slides'
         /\ timeouts' = Append(timeouts, timeout) /\ timeout = "slideUp" => Slides'
<1> DEFINE S == {"slideUp", "update_file_list"}
<1>1. timeouts \in Seq(S)
  BY DEF IInv, PageTypes
<1>2. CASE timeouts' = timeouts
  <2>1. Len(Append(timeouts, timeout)) # Len(timeouts)
    BY <1>1, AppendProperties, LenProperties
  <2> QED BY <1>2, <2>1 DEF Slides
<1>3. CASE timeouts' = Append(timeouts, timeout)
  <2>1. /\ timeouts' \in Seq(S) /\ Len(timeouts') = Len(timeouts) + 1
        /\ \A i \in 1 .. Len(timeouts) : timeouts'[i] = timeouts[i]
        /\ timeouts'[Len(timeouts) + 1] = timeout
    BY <1>1, <1>3, AppendProperties
  <2>2. Len(timeouts) \in Nat /\ DOMAIN timeouts = 1 .. Len(timeouts)
        /\ DOMAIN timeouts' = 1 .. Len(timeouts')
    BY <1>1, <2>1, LenProperties
  <2>3. Len(timeouts) + 1 \in DOMAIN timeouts' /\ DOMAIN timeouts \subseteq DOMAIN timeouts'
    BY <2>1, <2>2
  <2> QED BY <2>1, <2>2, <2>3 DEF Slides
<1> QED BY <1>2, <1>3

\* What a callback is called.
LEMMA CallingAt ==
  ASSUME IInv, NEW fn, Calling(fn)
  PROVE  /\ stack # << >> /\ stack[1].op = "call" /\ Running("call")
         /\ stack[1].callback.fn = fn /\ AtCall(fn)
         /\ \A other : AtCall(other) => other = fn
         /\ fn \in {"validated", "show_report"} => Arg \in 0 .. MaxCalls
         /\ link_disabled \in BOOLEAN
         /\ Sheltered(stack[1]) => fn \in {"none", "enable", "show_report", "show_libraries"}
<1>1. /\ stack # << >> /\ Head(stack) = stack[1] /\ stack[1] \in Operation
      /\ stack[1].op = "call" /\ stack[1].callback.fn = fn /\ Running("call")
  BY StackFacts DEF Calling, Running, IInv, JInv
<1>2. fn \in {"validated", "show_report"} => Arg \in 0 .. MaxCalls
  <2>1. stack[1].callback \in AnyCallback
    BY <1>1, OperationFields
  <2> QED BY <1>1, <2>1, CallbackFields DEF Arg
<1>3. link_disabled \in BOOLEAN
  BY DEF IInv, PageTypes
<1>4. AtCall(fn) /\ \A other : AtCall(other) => other = fn
  BY <1>1 DEF AtCall, Calls
<1>5. Sheltered(stack[1]) => fn \in {"none", "enable", "show_report", "show_libraries"}
  BY <1>1 DEF Sheltered
<1> QED BY <1>1, <1>2, <1>3, <1>4, <1>5

\* The callbacks that queue nothing.
LEMMA QuietCallbacks ==
  ASSUME IInv, \/ NothingToCall \/ Follow \/ ShowFiles \/ ReplaceEditor \/ EnableLinks
  PROVE  \E ops : Acts(ops)
<1>1. << >> \in Seq(Operation) /\ DOMAIN << >> = {}
  OBVIOUS
<1>2. \A e \in Shown : Opener(e) \in {"show_report", "show_libraries"}
  BY DEF Opener
<1>3. CASE NothingToCall \/ ShowFiles \/ ReplaceEditor
  <2>1. PICK fn \in {"none", "files", "editor"} : Calling(fn)
    BY <1>3 DEF NothingToCall, ShowFiles, ReplaceEditor
  <2>2. /\ stack # << >> /\ stack[1].op = "call" /\ link_disabled \in BOOLEAN
        /\ ~AtCall("enable") /\ \A e \in Shown : ~AtCall(Opener(e))
    BY <1>2, <2>1, CallingAt
  <2>3. Becomes(<< >>) /\ UNCHANGED <<fx, opened, link_disabled, timeouts>>
    BY <1>3 DEF NothingToCall, ShowFiles, ReplaceEditor, pageVars
  <2>4. Slides => Slides'
    BY <2>3 DEF Slides
  <2> QED BY <1>1, <2>2, <2>3, <2>4, ActsQuietly
<1>4. CASE EnableLinks
  <2>1. /\ stack # << >> /\ stack[1].op = "call" /\ AtCall("enable")
        /\ \A e \in Shown : ~AtCall(Opener(e))
    BY <1>2, <1>4, CallingAt DEF EnableLinks
  <2>2. Becomes(<< >>) /\ UNCHANGED <<fx, opened, timeouts>> /\ link_disabled' = FALSE
    BY <1>4 DEF EnableLinks
  <2>3. Slides => Slides'
    BY <2>2 DEF Slides
  <2>4. link_disabled' = (link_disabled /\ ~AtCall("enable"))
    BY <2>1, <2>2
  <2> QED BY <1>1, <2>1, <2>2, <2>3, <2>4, ActsQuietly
<1>5. CASE Follow
  <2>1. PICK fn \in {"notify", "created", "deleted", "checked"} : Calling(fn)
    BY <1>5 DEF Follow
  <2>2. /\ stack # << >> /\ stack[1].op = "call" /\ link_disabled \in BOOLEAN
        /\ ~AtCall("enable") /\ \A e \in Shown : ~AtCall(Opener(e))
        /\ ~Sheltered(stack[1])
    BY <1>2, <2>1, CallingAt
  <2>3. UNCHANGED <<fx, opened, link_disabled>>
    BY <1>5 DEF Follow
  <2>4. timeouts' = timeouts \/ timeouts' = Append(timeouts, "update_file_list")
    BY <1>5 DEF Follow
  <2>5. Slides => Slides'
    BY <2>4, SlidesStay
  <2>6. 0 \in 0 .. MaxCalls /\ "all" \in Library \cup {"all"}
    BY PageElements
  <2>7. PICK op : op = AjaxOp(NoCallback, Callback("notify", 0))
    OBVIOUS
  <2>8. /\ Plain(notify) /\ Plain(update_libraries_list) /\ Plain(op)
        /\ notify.op = "ajax" /\ update_libraries_list.op = "ajax" /\ op.op = "ajax"
    <3>1. Plain(notify) /\ Plain(update_libraries_list) /\ Plain(op)
      BY <2>6, <2>7, PageFunctions
    <3>2. notify.op = "ajax" /\ update_libraries_list.op = "ajax" /\ op.op = "ajax"
      BY <2>7 DEF notify, update_libraries_list, AjaxOp
    <3> QED BY <3>1, <3>2
  <2>9. \/ Becomes(<<notify>>) \/ Becomes(<<notify, update_libraries_list>>)
        \/ Becomes(<<op>>)
    BY <1>5, <2>7 DEF Follow
  <2>10. ASSUME NEW a, NEW b, Plain(a), Plain(b), a.op = "ajax", b.op = "ajax"
         PROVE  /\ <<a>> \in Seq(Operation) /\ <<a, b>> \in Seq(Operation)
                /\ \A i \in DOMAIN <<a>> : Plain(<<a>>[i]) /\ <<a>>[i].op = "ajax"
                /\ \A i \in DOMAIN <<a, b>> : Plain(<<a, b>>[i]) /\ <<a, b>>[i].op = "ajax"
    BY <2>10, ShortScripts
  <2>11. \E ops \in Seq(Operation) :
            /\ \A i \in DOMAIN ops : Plain(ops[i]) /\ ops[i].op = "ajax"
            /\ Becomes(ops)
    BY <2>8, <2>9, <2>10
  <2>12. link_disabled' = (link_disabled /\ ~AtCall("enable"))
    BY <2>2, <2>3
  <2> QED BY <2>2, <2>3, <2>5, <2>11, <2>12, ActsQuietly
<1> QED BY <1>3, <1>4, <1>5

\* The callbacks that queue an animation.
LEMMA FadingCallbacks ==
  ASSUME IInv, \/ Notified \/ ShowReport \/ FadeLibraries \/ ShowLibraries
               \/ /\ Calling("validated")
                  /\ Becomes(<<FadeOut(validator_report, Callback("show_report", Arg))>>)
                  /\ UNCHANGED <<fx, opened, link_disabled, timeouts>>
  PROVE  \E ops : Acts(ops)
<1>0. /\ validator_report \in Shown /\ library_select_div \in Shown
      /\ validator_report # library_select_div
      /\ flash_messages \notin Shown /\ 0 \in 0 .. MaxCalls
      /\ Shown = {validator_report, library_select_div}
  BY PageElements, Elements DEF Solo
<1>1. /\ Opener(validator_report) = "show_report"
      /\ Opener(library_select_div) = "show_libraries"
  BY <1>0 DEF Opener
<1>2. CASE Notified
  <2> DEFINE item == Slide("show", "slow")
  <2>1. item \in Item /\ Plain(QueueOp(flash_messages, item)) /\ Suits(flash_messages, item)
    BY <1>0, PageItems, PageCallbacks, PageFunctions, PageSuits
  <2>2. Calling("notified") /\ Becomes(<<QueueOp(flash_messages, item)>>)
        /\ UNCHANGED <<fx, opened, link_disabled>> /\ timeouts' = Append(timeouts, "slideUp")
    BY <1>2 DEF Notified
  <2> HIDE DEF item
  <2>3. Slides' 
    BY <2>2, SlidesStay
  <2>4. /\ stack # << >> /\ stack[1].op = "call" /\ link_disabled \in BOOLEAN
        /\ ~AtCall("enable") /\ ~Sheltered(stack[1])
        /\ ~AtCall("show_report") /\ ~AtCall("show_libraries")
    BY <2>2, CallingAt
  <2>5. \A d \in Shown : ~AtCall(Opener(d))
    BY <1>0, <1>1, <2>4
  <2> QED BY <2>1, <2>2, <2>3, <2>4, <2>5, ActsOnce
<1>3. CASE ShowReport
  <2> DEFINE item == Animation("show", "fast", NoCallback)
  <2>1. item \in Item /\ Plain(QueueOp(validator_report, item)) /\ Suits(validator_report, item)
    BY <1>0, PageItems, PageCallbacks, PageFunctions, PageSuits DEF FadeIn
  <2>2. Calling("show_report") /\ Becomes(<<QueueOp(validator_report, item)>>)
        /\ UNCHANGED <<fx, opened, link_disabled, timeouts>>
    BY <1>3 DEF ShowReport, FadeIn
  <2> HIDE DEF item
  <2>3. Slides => Slides'
    BY <2>2 DEF Slides
  <2>4. /\ stack # << >> /\ stack[1].op = "call" /\ link_disabled \in BOOLEAN
        /\ ~AtCall("enable") /\ ~AtCall("show_libraries")
    BY <2>2, CallingAt
  <2>5. \A d \in Shown : AtCall(Opener(d)) => d = validator_report
    BY <1>0, <1>1, <2>4
  <2> QED BY <1>0, <2>1, <2>2, <2>3, <2>4, <2>5, ActsOnce
<1>4. CASE ShowLibraries
  <2> DEFINE item == Animation("show", "fast", NoCallback)
  <2>1. item \in Item /\ Plain(QueueOp(library_select_div, item))
        /\ Suits(library_select_div, item)
    BY <1>0, PageItems, PageCallbacks, PageFunctions, PageSuits DEF FadeIn
  <2>2. Calling("show_libraries") /\ Becomes(<<QueueOp(library_select_div, item)>>)
        /\ UNCHANGED <<fx, opened, link_disabled, timeouts>>
    BY <1>4 DEF ShowLibraries, FadeIn
  <2> HIDE DEF item
  <2>3. Slides => Slides'
    BY <2>2 DEF Slides
  <2>4. /\ stack # << >> /\ stack[1].op = "call" /\ link_disabled \in BOOLEAN
        /\ ~AtCall("enable") /\ ~AtCall("show_report")
    BY <2>2, CallingAt
  <2>5. \A d \in Shown : AtCall(Opener(d)) => d = library_select_div
    BY <1>0, <1>1, <2>4
  <2> QED BY <1>0, <2>1, <2>2, <2>3, <2>4, <2>5, ActsOnce
<1>5. CASE FadeLibraries
  <2> DEFINE item == Animation("hide", "fast", Callback("show_libraries", 0))
  <2>1. item \in Item /\ Plain(QueueOp(library_select_div, item))
        /\ Suits(library_select_div, item)
    BY <1>0, PageItems, PageCallbacks, PageFunctions, PageSuits DEF FadeOut
  <2>2. Calling("libraries") /\ Becomes(<<QueueOp(library_select_div, item)>>)
        /\ UNCHANGED <<fx, opened, link_disabled, timeouts>>
    BY <1>5 DEF FadeLibraries, FadeOut, pageVars
  <2> HIDE DEF item
  <2>3. Slides => Slides'
    BY <2>2 DEF Slides
  <2>4. /\ stack # << >> /\ stack[1].op = "call" /\ link_disabled \in BOOLEAN
        /\ ~AtCall("enable") /\ ~AtCall("show_report") /\ ~AtCall("show_libraries")
    BY <2>2, CallingAt
  <2>5. \A d \in Shown : ~AtCall(Opener(d))
    BY <1>0, <1>1, <2>4
  <2> QED BY <1>0, <2>1, <2>2, <2>3, <2>4, <2>5, ActsOnce
<1>6. CASE /\ Calling("validated")
           /\ Becomes(<<FadeOut(validator_report, Callback("show_report", Arg))>>)
           /\ UNCHANGED <<fx, opened, link_disabled, timeouts>>
  <2> DEFINE item == Animation("hide", "fast", Callback("show_report", Arg))
  <2>0. Arg \in 0 .. MaxCalls
    BY <1>6, CallingAt
  <2>1. item \in Item /\ Plain(QueueOp(validator_report, item)) /\ Suits(validator_report, item)
    BY <2>0, PageItems, PageCallbacks, PageFunctions, PageSuits DEF FadeOut
  <2>2. Becomes(<<QueueOp(validator_report, item)>>)
    BY <1>6 DEF FadeOut
  <2> HIDE DEF item
  <2>3. Slides => Slides'
    BY <1>6 DEF Slides
  <2>4. /\ stack # << >> /\ stack[1].op = "call" /\ link_disabled \in BOOLEAN
        /\ ~AtCall("enable") /\ ~AtCall("show_report") /\ ~AtCall("show_libraries")
    BY <1>6, CallingAt
  <2>5. \A d \in Shown : ~AtCall(Opener(d))
    BY <1>0, <1>1, <2>4
  <2> QED BY <1>0, <1>6, <2>1, <2>2, <2>3, <2>4, <2>5, ActsOnce
<1> QED BY <1>2, <1>3, <1>4, <1>5, <1>6

\* A request is sent.
LEMMA AjaxEffect ==
  ASSUME IInv, Ajax, UNCHANGED pageVars
  PROVE  \E ops : Acts(ops)
<1>1. << >> \in Seq(Operation) /\ DOMAIN << >> = {}
  OBVIOUS
<1>2. stack # << >> /\ stack[1].op = "ajax"
  BY StackFacts DEF IInv, JInv, Ajax, Running
<1>3. ~AtCall("enable") /\ \A e \in Shown : ~AtCall(Opener(e))
  BY <1>2 DEF AtCall, Calls
<1>4. Becomes(<< >>) /\ UNCHANGED <<fx, opened, link_disabled, timeouts>>
  BY DEF Ajax, pageVars
<1>5. Slides => Slides'
  BY <1>4 DEF Slides
<1>6. link_disabled' = (link_disabled /\ ~AtCall("enable"))
  BY <1>3, <1>4 DEF IInv, PageTypes
<1> QED BY <1>1, <1>2, <1>3, <1>4, <1>5, <1>6, ActsQuietly

\* Nothing happens to queues and animations at the end of a script.
LEMMA CalmEnd ==
  ASSUME \A i \in DOMAIN stack : stack[i].op # "tickEnd",
         \A i \in DOMAIN stack' : stack'[i].op # "tickEnd",
         UNCHANGED <<data, arrays, timers, visible>>
  PROVE  Calm
<1>1. \A t : Keeps(stack, t) /\ Keeps(stack', t)
  BY DEF Keeps
<1>2. \A d : Going(d)' = Going(d) /\ Waiting(d)' = Waiting(d)
  BY <1>1 DEF Going, Waiting
<1>3. \A d \in Elem : Same(d)
  BY <1>2 DEF Same
<1> QED BY <1>3 DEF Calm

LEMMA DoneEffect ==
  ASSUME IInv, Done, UNCHANGED pageVars
  PROVE  Drops
<1>1. /\ stack # << >> /\ stack[1].op = "done" /\ Becomes(<< >>)
      /\ UNCHANGED <<data, arrays, timers, visible>>
  BY StackFacts DEF IInv, JInv, Done, Running, fx
<1>2. Len(stack) = 1 /\ stack' = << >>
  BY <1>1, LastOperation DEF Closing
<1>3. DOMAIN stack = {1} /\ DOMAIN stack' = {}
  BY <1>1, <1>2, StackFacts DEF IInv, JInv
<1>4. \A i \in DOMAIN stack : stack[i].op = "done"
  BY <1>1, <1>3
<1>5. Calm
  BY <1>1, <1>3, <1>4, CalmEnd
<1> QED BY <1>1, <1>2, <1>4, <1>5 DEF Drops, Calls, pageVars

\* A callback that throws has no animation in its script to lose.
LEMMA ThrowEffect ==
  ASSUME IInv, ThrowInv, Calling("validated"), Throw,
         UNCHANGED <<fx, opened, link_disabled, timeouts>>
  PROVE  Drops
<1>1. stack # << >> /\ stack[1].op = "call" /\ AtCall("validated") /\ Calls(stack[1], "validated")
  BY CallingAt DEF AtCall
<1>2. stack' = << >> /\ DOMAIN stack' = {}
  BY DEF Throw
<1>3. Placed(stack) /\ 1 \in DOMAIN stack
  BY <1>1, StackFacts DEF IInv, JInv, ScriptInv
<1>4. Answering(stack)
  BY <1>1, <1>3 DEF Placed, Validating, Calls
<1>5. \A i \in DOMAIN stack : stack[i].op # "tickEnd"
  BY <1>3, <1>4 DEF Placed, Closing, Answering
<1>6. Calm
  BY <1>2, <1>5, CalmEnd DEF fx
<1> QED BY <1>1, <1>2, <1>6 DEF Drops, ThrowInv

\* A script in which no animation is queued begins.
LEMMA BeginsQuietly ==
  ASSUME stack = << >>, NEW ops \in Seq(Operation), stack' = ops,
         \A i \in DOMAIN ops : ops[i].op \in {"ajax", "call", "done"},
         \A i \in DOMAIN ops : ops[i].op = "call" =>
                ops[i].callback.fn \notin {"enable", "show_report", "show_libraries"},
         UNCHANGED <<fx, opened, link_disabled>>, Slides => Slides'
  PROVE  Begins(ops)
<1>1. DOMAIN stack = {}
  OBVIOUS
<1>2. Calm
  BY <1>1, CalmEnd DEF fx
<1>3. NoneOf(ops, flash_messages)
  BY DEF NoneOf, Queues
<1> QED BY <1>2, <1>3 DEF Begins

\* What the user starts, save for the accordion.
LEMMA UserBegins ==
  ASSUME IInv, \/ Validate \/ HotKey \/ Save \/ CreateLibrary \/ DeleteLibrary
               \/ LaunchSimulation
               \/ \E library \in Library \cup {"all"} : SelectLibrary(library)
  PROVE  \E ops : Begins(ops)
<1>1. \E ops \in Seq(Operation) : /\ \A i \in DOMAIN ops : ops[i].op = "ajax"
                                  /\ UserStarts(ops)
  <2>1. calls \in Nat /\ bound \in Nat \ {0} /\ 0 \in 0 .. MaxCalls
    BY PageElements DEF IInv, PageTypes
  <2>2. ASSUME NEW ops, UserStarts(ops) PROVE calls + 1 \in 0 .. MaxCalls
    BY <2>1, <2>2, PageElements DEF UserStarts
  <2>3. ASSUME NEW a, a \in Operation, a.op = "ajax"
        PROVE  <<a>> \in Seq(Operation) /\ \A i \in DOMAIN <<a>> : <<a>>[i].op = "ajax"
    BY <2>3
  <2>4. CASE Validate
    <3>1. validate_abnf(calls + 1) \in Operation
      BY <2>2, <2>4, PageFunctions DEF Validate, Plain
    <3>2. validate_abnf(calls + 1).op = "ajax"
      BY DEF validate_abnf, AjaxOp
    <3> QED BY <2>3, <2>4, <3>1, <3>2 DEF Validate
  <2>5. CASE HotKey
    <3> DEFINE n == bound * bound
               ops == [i \in 1 .. n |-> validate_abnf(calls + 1)]
    <3>1. UserStarts(ops)
      BY <2>5 DEF HotKey
    <3>2. calls + 1 \in 0 .. MaxCalls /\ n \in Nat
      BY <2>1, <2>2, <3>1
    <3>3. ops \in Seq(Operation)
      BY <3>2, HotKeyScript
    <3>4. validate_abnf(calls + 1).op = "ajax"
      BY DEF validate_abnf, AjaxOp
    <3> HIDE DEF n
    <3>5. \A i \in DOMAIN ops : ops[i].op = "ajax"
      BY <3>4
    <3> HIDE DEF ops
    <3> QED BY <3>1, <3>3, <3>5
  <2>6. CASE \E library \in Library \cup {"all"} : SelectLibrary(library)
    <3>1. PICK library \in Library \cup {"all"} : UserStarts(<<update_file_list(library)>>)
      BY <2>6 DEF SelectLibrary
    <3>2. update_file_list(library) \in Operation
      BY <2>1, PageFunctions DEF Plain
    <3>3. update_file_list(library).op = "ajax"
      BY DEF update_file_list, AjaxOp
    <3> QED BY <2>3, <3>1, <3>2, <3>3
  <2>7. CASE Save \/ CreateLibrary \/ DeleteLibrary \/ LaunchSimulation
    <3>1. PICK fn \in {"editor", "created", "deleted", "checked"},
               complete \in {Callback("notify", 0), NoCallback} :
            UserStarts(<<AjaxOp(Callback(fn, 0), complete)>>)
      BY <2>7 DEF Save, CreateLibrary, DeleteLibrary, LaunchSimulation
    <3>2. /\ Callback(fn, 0) \in SuccessCallback /\ complete \in CompleteCallback
      BY <2>1, PageElements, PageCallbacks
    <3>3. AjaxOp(Callback(fn, 0), complete) \in Operation
      BY <3>2, AjaxOperation
    <3>4. AjaxOp(Callback(fn, 0), complete).op = "ajax"
      BY DEF AjaxOp
    <3> QED BY <2>3, <3>1, <3>3, <3>4
  <2> QED BY <2>4, <2>5, <2>6, <2>7
<1>2. PICK ops \in Seq(Operation) : /\ \A i \in DOMAIN ops : ops[i].op = "ajax"
                                    /\ UserStarts(ops)
  BY <1>1
<1>3. stack = << >> /\ stack' = ops /\ UNCHANGED <<fx, opened, link_disabled, timeouts>>
  BY <1>2 DEF UserStarts
<1>4. Slides => Slides'
  BY <1>3 DEF Slides
<1>5. Begins(ops)
  BY <1>2, <1>3, <1>4, BeginsQuietly
<1> QED BY <1>5

\* An answer begins with callbacks of its request.
LEMMA RespondBegins ==
  ASSUME IInv, NEW r \in Request, NEW ok \in BOOLEAN, Respond(r, ok), UNCHANGED pageVars
  PROVE  \E ops : Begins(ops)
<1>1. /\ stack = << >> /\ stack' = DoneOps(xhr[r], ok)
      /\ UNCHANGED <<fx, opened, link_disabled, timeouts>>
  BY DEF Respond, pageVars
<1>2. xhr[r] \in [state : {0, 1}, success : SuccessCallback, complete : CompleteCallback]
  BY DEF IInv, JInv, AjaxTypes
<1>3. PICK s, c : s = CallOp(xhr[r].success) /\ c = CallOp(xhr[r].complete)
  OBVIOUS
<1>4. /\ s \in Operation /\ s.op = "call"
      /\ s.callback.fn \notin {"enable", "show_report", "show_libraries"}
      /\ c \in Operation /\ c.op = "call"
      /\ c.callback.fn \notin {"enable", "show_report", "show_libraries"}
  <2>1. /\ xhr[r].success \in SuccessCallback /\ xhr[r].complete \in CompleteCallback
    BY <1>2
  <2>2. xhr[r].success \in AnyCallback /\ xhr[r].complete \in AnyCallback
    BY <2>1 DEF AnyCallback
  <2>3. /\ s \in Operation /\ s.op = "call" /\ s.callback = xhr[r].success
        /\ c \in Operation /\ c.op = "call" /\ c.callback = xhr[r].complete
    BY <1>3, <2>2, CallOperation
  <2>4. /\ xhr[r].success.fn \notin {"enable", "show_report", "show_libraries"}
        /\ xhr[r].complete.fn \notin {"enable", "show_report", "show_libraries"}
    BY <2>1 DEF SuccessCallback, CompleteCallback
  <2> QED BY <2>3, <2>4
<1>5. PICK done : done = DoneOp /\ done \in Operation /\ done.op = "done"
  BY ClosingOperations
<1>6. stack' = <<s>> \o <<c, done>> \/ stack' = <<c, done>>
  <2>1. ok => stack' = <<s>> \o <<c, done>>
    BY <1>1, <1>3, <1>5 DEF DoneOps
  <2>2. ~ok => stack' = <<c, done>>
    BY <1>1, <1>3, <1>5 DEF DoneOps
  <2> QED BY <2>1, <2>2
<1>7. PICK ops : ops = stack'
  OBVIOUS
<1>8. /\ ops \in Seq(Operation)
      /\ \A i \in DOMAIN ops : ops[i] \in {s, c, done}
  <2>1. CASE ops = <<s>> \o <<c, done>>
    <3>1. /\ ops \in Seq(Operation) /\ DOMAIN ops = {1, 2, 3}
          /\ ops[1] = s /\ ops[2] = c /\ ops[3] = done
      BY <1>4, <1>5, <2>1, ThreeOperations
    <3> QED BY <3>1
  <2>2. CASE ops = <<c, done>>
    BY <1>4, <1>5, <2>2
  <2> QED BY <1>6, <1>7, <2>1, <2>2
<1>9. Slides => Slides'
  BY <1>1 DEF Slides
<1>10. Begins(ops)
  BY <1>1, <1>4, <1>5, <1>7, <1>8, <1>9, BeginsQuietly
<1> QED BY <1>10

\* The greatest element of a set of numbers that has a bound.
LEMMA GreatestOf ==
  ASSUME NEW n \in Nat, NEW S \in SUBSET (1 .. n), S # {}
  PROVE  \E x \in S : \A y \in S : y <= x
<1> DEFINE T == {n - x : x \in S}
<1>1. T \in SUBSET Nat /\ T # {}
  <2>1. \A x \in S : n - x \in Nat
    OBVIOUS
  <2> QED BY <2>1
<1>2. PICK t \in T : \A u \in T : t <= u
  BY <1>1, LeastOf
<1>3. PICK x \in S : t = n - x
  OBVIOUS
<1>4. \A y \in S : n - x <= n - y
  BY <1>2, <1>3
<1>5. \A y \in S : y <= x
  BY <1>4
<1> QED BY <1>5

\* If all that is queued for an element is of one kind, so is the last.
LEMMA LastQueued ==
  ASSUME NEW s, NEW n \in Nat, DOMAIN s = 1 .. n, NEW e, NEW kind, ~NoneOf(s, e),
         \A i \in DOMAIN s : Queues(s[i], e) => s[i].item.kind = kind
  PROVE  LastIs(s, e, kind)
<1> DEFINE S == {i \in DOMAIN s : Queues(s[i], e)}
<1>1. S \in SUBSET (1 .. n) /\ S # {}
  BY DEF NoneOf
<1>2. PICK i \in S : \A j \in S : j <= i
  BY <1>1, GreatestOf
<1>3. \A j \in DOMAIN s : j > i => ~Queues(s[j], e)
  BY <1>1, <1>2
<1> QED BY <1>2, <1>3 DEF LastIs

\* What my_accordion queues: every accordion is hidden if another one is
\* visible, and the last animation shows the chosen one.
LEMMA AccordionQueues ==
  ASSUME NEW div \in Accordions, NEW ops, ops = AccordionOps(div)
  PROVE  /\ ops \in Seq(Operation) /\ DOMAIN ops = 1 .. Len(ops) /\ Len(ops) \in Nat \ {0}
         /\ ops[Len(ops)] = QueueOp(div, Animation("show", "slow", Callback("enable", 0)))
         /\ \A i \in DOMAIN ops : i # Len(ops) =>
               \E a \in Accordions :
                  ops[i] = QueueOp(a, Animation("hide", "slow", NoCallback))
         /\ \/ \A a \in Accordions : \E i \in DOMAIN ops :
                  i # Len(ops) /\ ops[i] = QueueOp(a, Animation("hide", "slow", NoCallback))
            \/ Len(ops) = 1 /\ \A a \in Accordions \ {div} : ~visible[a]
<1> DEFINE others == {a \in Accordions \ {div} : visible[a]}
           m == Len(Accordion)
           Hide(a) == QueueOp(a, Animation("hide", "slow", NoCallback))
           hideAll == [i \in DOMAIN Accordion |->
                          QueueOp(Accordion[i],
                                  Animation("hide", "slow", NoCallback))]
           times == Cardinality(others) * m
           hide == [i \in 1 .. times |-> hideAll[((i - 1) % m) + 1]]
           last == QueueOp(div, Animation("show", "slow", Callback("enable", 0)))
<1>0. ops = hide \o <<last>>
  BY DEF AccordionOps
<1>1. /\ m \in Nat /\ DOMAIN Accordion = 1 .. m /\ Cardinality(others) \in Nat
      /\ others # {} => m # 0
      /\ others = {} <=> Cardinality(others) = 0
  <2> HIDE DEF others, hide, hideAll, times
  <2>1. others \in SUBSET Accordions
    BY DEF others
  <2> QED BY <2>1, AccordionsFinite
<1>2. ops \in Seq(Operation)
  BY AccordionScript
<1>3. \A i \in 1 .. m : hideAll[i] = Hide(Accordion[i]) /\ Accordion[i] \in Accordions
  BY <1>1 DEF Accordions
<1>4. /\ times \in Nat /\ (m = 0 => times = 0) /\ (others = {} => times = 0)
      /\ (others # {} => times >= m)
  <2> DEFINE c == Cardinality(others)
  <2>1. others # {} => c \in Nat \ {0}
    BY <1>1
  <2>2. others = {} => c = 0
    BY <1>1
  <2> HIDE DEF others, m, c
  <2>3. \A a, b \in Nat : a * b \in Nat /\ (b = 0 => a * b = 0) /\ (a = 0 => a * b = 0)
    OBVIOUS
  <2>4. \A a \in Nat \ {0}, b \in Nat : a * b >= b
    <3> TAKE a \in Nat \ {0}, b \in Nat
    <3>1. a - 1 \in Nat /\ a = (a - 1) + 1
      OBVIOUS
    <3>2. (a - 1) * b \in Nat /\ ((a - 1) + 1) * b = (a - 1) * b + b
      BY <3>1
    <3> QED BY <3>1, <3>2
  <2> QED BY <1>1, <2>1, <2>2, <2>3, <2>4 DEF c
<1> HIDE DEF hideAll, others, times, last, m
<1>5. \A x \in Nat, y \in Nat \ {0} : x % y \in 0 .. y - 1 /\ (x < y => x % y = x)
  OBVIOUS
<1>6. ASSUME NEW i \in 1 .. times
      PROVE  ((i - 1) % m) + 1 \in 1 .. m
  <2>1. m \in Nat \ {0} /\ i - 1 \in Nat
    BY <1>1, <1>4
  <2>2. (i - 1) % m \in 0 .. m - 1
    BY <1>5, <2>1
  <2> QED BY <2>1, <2>2
<1>7. ASSUME NEW i \in 1 .. times
      PROVE  \E a \in Accordions : hide[i] = Hide(a)
  <2>1. hide[i] = hideAll[((i - 1) % m) + 1]
    OBVIOUS
  <2> QED BY <1>3, <1>6, <2>1
<1>8. ASSUME others # {}, NEW a \in Accordions
      PROVE  \E i \in 1 .. times : hide[i] = Hide(a)
  <2>1. PICK k \in 1 .. m : a = Accordion[k]
    BY <1>1 DEF Accordions
  <2>2. m \in Nat \ {0} /\ k - 1 \in Nat /\ k - 1 < m /\ k \in 1 .. times
    BY <1>1, <1>4, <1>8
  <2>3. ((k - 1) % m) + 1 = k
    <3>1. (k - 1) % m = k - 1
      BY <1>5, <2>2
    <3> QED BY <2>2, <3>1
  <2>4. hide[k] = hideAll[k]
    BY <2>2, <2>3
  <2> QED BY <1>3, <2>1, <2>2, <2>4
<1>9. hide \in Seq(Operation) /\ Len(hide) = times
  <2>1. \A a \in Accordions : Hide(a) \in Operation
    <3>1. 0 \in 0 .. MaxCalls
      BY PageElements
    <3>2. NoCallback \in FxCallback
      BY <3>1, PageCallbacks
    <3> QED BY <3>2, PageElements, PlainQueue DEF Plain
  <2> HIDE DEF Hide
  <2>2. hide \in [1 .. times -> Operation]
    <3>1. \A i \in 1 .. times : hide[i] \in Operation
      BY <1>7, <2>1
    <3> QED BY <3>1
  <2> HIDE DEF hide
  <2>3. hide \in Seq(Operation)
    BY <1>4, <2>2, SeqDef
  <2> QED BY <1>4, <2>2, <2>3, LenProperties
<1> HIDE DEF hide
<1>10. <<last>> \in Seq(Operation) /\ Len(<<last>>) = 1 /\ <<last>>[1] = last
  <2>1. last \in Operation
    <3>1. 0 \in 0 .. MaxCalls
      BY PageElements
    <3>2. Callback("enable", 0) \in FxCallback
      BY <3>1, PageCallbacks
    <3> QED BY <3>2, PageElements, PlainQueue DEF Plain, last
  <2> QED BY <2>1
<1>11. /\ Len(ops) = times + 1
       /\ \A i \in 1 .. times + 1 :
             ops[i] = IF i <= times THEN hide[i] ELSE <<last>>[i - times]
  <2>1. /\ Len(ops) = Len(hide) + Len(<<last>>)
        /\ \A i \in 1 .. Len(hide) + Len(<<last>>) :
             ops[i] = IF i <= Len(hide) THEN hide[i] ELSE <<last>>[i - Len(hide)]
    BY <1>0, <1>9, <1>10, ConcatProperties
  <2> HIDE <1>0
  <2> QED BY <1>4, <1>9, <1>10, <2>1
<1> HIDE <1>0
<1>12. DOMAIN ops = 1 .. Len(ops) /\ Len(ops) \in Nat \ {0}
  BY <1>2, <1>4, <1>11, LenProperties
<1>13. ops[Len(ops)] = last
  <2>1. ~(times + 1 <= times) /\ (times + 1) - times = 1 /\ times + 1 \in 1 .. times + 1
    BY <1>4
  <2> QED BY <1>10, <1>11, <2>1
<1>14. \A i \in 1 .. times : ops[i] = hide[i] /\ i \in DOMAIN ops /\ i # Len(ops)
  BY <1>4, <1>11, <1>12
<1>15. \A i \in DOMAIN ops : i # Len(ops) => i \in 1 .. times
  BY <1>4, <1>11, <1>12
<1>16. others = {} => Len(ops) = 1 /\ \A a \in Accordions \ {div} : ~visible[a]
  BY <1>4, <1>11 DEF others
<1>17. \A i \in DOMAIN ops : i # Len(ops) => \E a \in Accordions : ops[i] = Hide(a)
  BY <1>7, <1>14, <1>15
<1>18. others # {} => \A a \in Accordions : \E i \in DOMAIN ops :
          i # Len(ops) /\ ops[i] = Hide(a)
  BY <1>8, <1>14
<1> QED BY <1>2, <1>12, <1>13, <1>16, <1>17, <1>18 DEF last

LEMMA OpensEffect ==
  ASSUME NEW div \in Accordions, my_accordion(div)
  PROVE  \E ops : Opens(div, ops)
<1>1. PICK ops : ops = AccordionOps(div)
  OBVIOUS
<1>2. /\ stack = << >> /\ stack' = ops /\ ~link_disabled /\ link_disabled' /\ opened' = div
      /\ UNCHANGED <<fx, timeouts>>
  BY <1>1 DEF my_accordion
<1> DEFINE Hide(a) == QueueOp(a, Animation("hide", "slow", NoCallback))
           last == QueueOp(div, Animation("show", "slow", Callback("enable", 0)))
<1>3. /\ ops \in Seq(Operation) /\ DOMAIN ops = 1 .. Len(ops) /\ Len(ops) \in Nat \ {0}
      /\ ops[Len(ops)] = last
      /\ \A i \in DOMAIN ops : i # Len(ops) => \E a \in Accordions : ops[i] = Hide(a)
      /\ \/ \A a \in Accordions : \E i \in DOMAIN ops : i # Len(ops) /\ ops[i] = Hide(a)
         \/ Len(ops) = 1 /\ \A a \in Accordions \ {div} : ~visible[a]
  BY <1>1, AccordionQueues
<1>4. \A a \in Accordions : /\ Hide(a).op = "queue" /\ Hide(a).elem = a
                            /\ Hide(a).item.kind = "hide" /\ Suits(a, Hide(a).item)
  BY PageSuits DEF QueueOp, Animation
<1>5. /\ last.op = "queue" /\ last.elem = div /\ last.item.kind = "show"
      /\ Suits(div, last.item)
  BY PageSuits DEF QueueOp, Animation
<1> HIDE DEF Hide, last
<1>6. ASSUME NEW i \in DOMAIN ops
      PROVE  /\ ops[i].op = "queue" /\ ops[i].elem \in Accordions
             /\ Suits(ops[i].elem, ops[i].item)
             /\ ops[i].item.kind = "show" => ops[i].elem = div /\ i = Len(ops)
             /\ i # Len(ops) => ops[i].item.kind = "hide"
  <2>1. CASE i = Len(ops)
    BY <1>3, <1>5, <2>1
  <2>2. CASE i # Len(ops)
    BY <1>3, <1>4, <2>2
  <2> QED BY <2>1, <2>2
<1>7. LastIs(ops, div, "show")
  BY <1>3, <1>5, SMTT(40) DEF LastIs, Queues
<1>8. ASSUME NEW a \in Accordions \ {div}
      PROVE  LastIs(ops, a, "hide") \/ (NoneOf(ops, a) /\ ~visible[a])
  <2>1. \A i \in DOMAIN ops : Queues(ops[i], a) => ops[i].item.kind = "hide"
    BY <1>3, <1>5, <1>6 DEF Queues
  <2>2. CASE \E i \in DOMAIN ops : ops[i] = Hide(a)
    <3>1. ~NoneOf(ops, a)
      BY <1>4, <2>2 DEF NoneOf, Queues
    <3> QED BY <1>3, <2>1, <3>1, LastQueued
  <2>3. CASE Len(ops) = 1 /\ ~visible[a]
    <3>1. NoneOf(ops, a)
      BY <1>3, <1>5, <2>3 DEF NoneOf, Queues
    <3> QED BY <2>3, <3>1
  <2> QED BY <1>3, <2>2, <2>3
<1>9. Calm
  <2>1. DOMAIN stack = {} /\ \A i \in DOMAIN stack' : stack'[i].op # "tickEnd"
    BY <1>2, <1>6
  <2> QED BY <1>2, <2>1, CalmEnd DEF fx
<1>10. Opens(div, ops)
  BY <1>2, <1>3, <1>6, <1>7, <1>8, <1>9 DEF Opens
<1> QED BY <1>10

\* A timeout hides the message, or asks for the list of files.
LEMMA TimeoutBegins ==
  ASSUME IInv, NEW i \in DOMAIN timeouts, Timeout(i)
  PROVE  \E ops : Begins(ops)
<1>1. stack = << >> /\ UNCHANGED <<fx, opened, link_disabled>>
  BY DEF Timeout
<1>2. CASE timeouts[i] = "slideUp"
  <2>1. PICK op : op = QueueOp(flash_messages, Slide("hide", "slow"))
    OBVIOUS
  <2>2. /\ op \in Operation /\ op.op = "queue" /\ op.elem = flash_messages
        /\ op.item.kind = "hide" /\ Suits(flash_messages, op.item)
    <3>1. 0 \in 0 .. MaxCalls /\ "all" \in Library \cup {"all"}
      BY PageElements
    <3>2. op \in Operation
      BY <2>1, <3>1, PageFunctions DEF Plain
    <3>3. /\ op.op = "queue" /\ op.elem = flash_messages
          /\ op.item = Slide("hide", "slow")
      BY <2>1 DEF QueueOp
    <3> QED BY <3>2, <3>3, PageSuits DEF Slide
  <2>3. stack' = <<op>>
    BY <1>2, <2>1 DEF Timeout
  <2> DEFINE ops == <<op>>
  <2>4. ops \in Seq(Operation) /\ DOMAIN ops = {1} /\ ops[1] = op /\ stack' = ops
    BY <2>2, <2>3
  <2> HIDE DEF ops
  <2>5. Calm
    <3>1. DOMAIN stack = {} /\ \A j \in DOMAIN stack' : stack'[j].op # "tickEnd"
      BY <1>1, <2>2, <2>4
    <3> QED BY <1>1, <3>1, CalmEnd DEF fx
  <2>6. LastIs(ops, flash_messages, "hide")
    BY <2>2, <2>4 DEF LastIs, Queues
  <2>7. ~AtCall("validated")'
    BY <2>2, <2>4 DEF AtCall, Calls
  <2>8. Begins(ops)
    BY <1>1, <2>2, <2>4, <2>5, <2>6, <2>7 DEF Begins
  <2> QED BY <2>8
<1>3. CASE timeouts[i] # "slideUp"
  <2>1. PICK op : op = update_file_list(library_select)
    OBVIOUS
  <2>2. op \in Operation /\ op.op = "ajax"
    <3>1. library_select \in Library \cup {"all"} /\ 0 \in 0 .. MaxCalls
      BY PageElements DEF IInv, PageTypes
    <3>2. op \in Operation
      BY <2>1, <3>1, PageFunctions DEF Plain
    <3> QED BY <2>1, <3>2 DEF update_file_list, AjaxOp
  <2>3. stack' = <<op>>
    BY <1>3, <2>1 DEF Timeout
  <2>4. <<op>> \in Seq(Operation) /\ DOMAIN <<op>> = {1} /\ <<op>>[1] = op
    BY <2>2
  <2>5. Slides => Slides'
    <3> DEFINE S == {"slideUp", "update_file_list"}
    <3>1. timeouts \in Seq(S)
      BY DEF IInv, PageTypes
    <3>2. OneLess(S, timeouts, i, timeouts')
      BY <3>1, TakenOut DEF Timeout
    <3> QED BY <1>3, <3>2 DEF OneLess, Slides
  <2>6. Begins(<<op>>)
    BY <1>1, <2>2, <2>3, <2>4, <2>5, BeginsQuietly
  <2> QED BY <2>6
<1> QED BY <1>2, <1>3

\* Only the timers of one element change at the end of an animation.
LEMMA TickEffect ==
  ASSUME IInv, NEW t \in DOMAIN timers, Tick(t)
  PROVE  \E e \in Elem, item \in Item : Ticked(t, e, item)
<1>0. PICK e, item : e = timers[t].elem /\ item = timers[t].item
  OBVIOUS
<1>1. /\ stack = << >> /\ stack' = <<CompleteOp(e, item), TickEndOp(t)>>
      /\ visible' = IF item.kind = "hide" THEN [visible EXCEPT ![e] = FALSE]
                    ELSE visible
      /\ UNCHANGED <<data, arrays, timers>>
  BY <1>0 DEF Tick
<1>2. FxTypes
  BY DEF IInv, JInv
<1>3. e \in Elem /\ item \in Item /\ timers[t] = [elem |-> e, item |-> item]
  <2>1. timers \in [1 .. Len(timers) -> [elem : Elem, item : Item]]
        /\ DOMAIN timers = 1 .. Len(timers)
    BY <1>2, LenProperties DEF FxTypes
  <2> QED BY <1>0, <2>1
<1>4. PICK op, end : op = CompleteOp(e, item) /\ end = TickEndOp(t)
  OBVIOUS
<1>5. op.op = "complete" /\ end.op = "tickEnd" /\ end.timer = t
  BY <1>4 DEF CompleteOp, TickEndOp
<1>6. DOMAIN stack' = {1, 2} /\ stack'[1] = op /\ stack'[2] = end /\ DOMAIN stack = {}
  BY <1>1, <1>4
<1>7. \A u : Keeps(stack, u) /\ (Keeps(stack', u) <=> u # t)
  BY <1>5, <1>6 DEF Keeps
<1>8. Going(e)' = Going(e) \ {t} /\ t \in Going(e)
  BY <1>0, <1>1, <1>7 DEF Going
<1>9. \A d \in Elem \ {e} : Going(d)' = Going(d)
  BY <1>0, <1>1, <1>7 DEF Going
<1>10. \A d : Waiting(d)' = Waiting(d)
  BY <1>1 DEF Waiting
<1>11. \A d \in Elem \ {e} : visible'[d] = visible[d]
  BY <1>1, <1>2, <1>3 DEF FxTypes
<1>12. visible'[e] = (visible[e] /\ item.kind = "show")
  <2>1. item.kind \in {"show", "hide"} /\ visible[e] \in BOOLEAN
    BY <1>2, <1>3 DEF Item, FxTypes
  <2>2. item.kind = "hide" => visible'[e] = FALSE
    BY <1>1, <1>2, <1>3 DEF FxTypes
  <2>3. item.kind # "hide" => visible'[e] = visible[e]
    BY <1>1
  <2> QED BY <2>1, <2>2, <2>3
<1>13. Apart(e)
  BY <1>1, <1>9, <1>10, <1>11 DEF Apart, Same
<1>14. Ticked(t, e, item)
  BY <1>1, <1>3, <1>8, <1>10, <1>12, <1>13 DEF Ticked
<1> QED BY <1>3, <1>14

\* Where the elements of a sequence are when one was taken out.
LessOne(s, i, r) ==
    \A k \in DOMAIN r :
        /\ k \in Nat
        /\ \E j \in DOMAIN s \ {i} : r[k] = s[j] /\ j = IF k < i THEN k ELSE k + 1

LEMMA TakenOutAt ==
  ASSUME NEW S, NEW s \in Seq(S), NEW i \in DOMAIN s
  PROVE  LessOne(s, i, SubSeq(s, 1, i - 1) \o SubSeq(s, i + 1, Len(s)))
<1> DEFINE a == SubSeq(s, 1, i - 1)
           b == SubSeq(s, i + 1, Len(s))
           r == a \o b
<1>1. Len(s) \in Nat /\ DOMAIN s = 1 .. Len(s) /\ s \in [1 .. Len(s) -> S]
  BY LenProperties
<1>2. i \in 1 .. Len(s) /\ i - 1 \in Int /\ i + 1 \in Int
  BY <1>1
<1>3. /\ \A j \in 1 .. i - 1 : s[j] \in S
      /\ \A j \in i + 1 .. Len(s) : s[j] \in S
  BY <1>1, <1>2
<1>4. /\ a \in Seq(S)
      /\ Len(a) = IF 1 <= i - 1 THEN (i - 1) - 1 + 1 ELSE 0
      /\ \A j \in 1 .. (i - 1) - 1 + 1 : a[j] = s[1 + j - 1]
  BY <1>2, <1>3, SubSeqProperties
<1>5. /\ b \in Seq(S)
      /\ Len(b) = IF i + 1 <= Len(s) THEN Len(s) - (i + 1) + 1 ELSE 0
      /\ \A j \in 1 .. Len(s) - (i + 1) + 1 : b[j] = s[(i + 1) + j - 1]
  BY <1>1, <1>2, <1>3, SubSeqProperties
<1> HIDE DEF a, b
<1>7. /\ r \in Seq(S) /\ Len(r) = Len(a) + Len(b)
      /\ \A k \in 1 .. Len(a) + Len(b) :
            r[k] = IF k <= Len(a) THEN a[k] ELSE b[k - Len(a)]
  BY <1>4, <1>5, ConcatProperties
<1> HIDE DEF r
<1>8. DOMAIN r = 1 .. Len(r)
  BY <1>7, LenProperties
<1>9. Len(a) = i - 1 /\ Len(b) = Len(s) - i
  BY <1>1, <1>2, <1>4, <1>5
<1>10. ASSUME NEW k \in DOMAIN r
       PROVE  \E j \in DOMAIN s \ {i} : r[k] = s[j] /\ j = IF k < i THEN k ELSE k + 1
  <2>1. k \in Nat /\ k >= 1 /\ k <= Len(s) - 1 /\ k \in 1 .. Len(a) + Len(b)
    BY <1>1, <1>2, <1>7, <1>8, <1>9, SMTT(40)
  <2>2. CASE k < i
    <3>1. k <= Len(a) /\ k \in 1 .. (i - 1) - 1 + 1 /\ 1 + k - 1 = k /\ k \in DOMAIN s \ {i}
      BY <1>1, <1>2, <1>9, <2>1, <2>2, SMTT(40)
    <3>2. r[k] = a[k] /\ a[k] = s[1 + k - 1]
      BY <1>4, <1>7, <2>1, <3>1
    <3> QED BY <2>2, <3>1, <3>2
  <2>3. CASE ~(k < i)
    <3>1. /\ ~(k <= Len(a)) /\ k - Len(a) = k - (i - 1)
          /\ k - (i - 1) \in 1 .. Len(s) - (i + 1) + 1
          /\ (i + 1) + (k - (i - 1)) - 1 = k + 1
          /\ k + 1 \in DOMAIN s \ {i}
      <4>1. i \in Nat /\ i >= 1 /\ i <= Len(s) /\ k >= i
        BY <1>1, <1>2, <2>1, <2>3
      <4>2. k - (i - 1) >= 1 /\ k - (i - 1) <= Len(s) - i /\ k + 1 <= Len(s) /\ k + 1 # i
        BY <1>1, <2>1, <4>1
      <4> QED BY <1>1, <1>9, <2>1, <4>1, <4>2, SMTT(40)
    <3>2. r[k] = b[k - Len(a)]
      BY <1>7, <2>1, <3>1
    <3>3. b[k - (i - 1)] = s[(i + 1) + (k - (i - 1)) - 1]
      BY <1>5, <3>1
    <3>4. r[k] = s[k + 1]
      BY <3>1, <3>2, <3>3
    <3> QED BY <2>3, <3>1, <3>4
  <2> QED BY <2>2, <2>3
<1>11. \A k \in DOMAIN r : k \in Nat
  BY <1>8
<1>12. LessOne(s, i, r)
  BY <1>10, <1>11 DEF LessOne
<1> QED BY <1>12 DEF r, a, b

\* The timer whose callbacks have run is removed; the others go on.
LEMMA TickEndEffect ==
  ASSUME IInv, TickEnd
  PROVE  TickEnded
<1>0. PICK u : u = stack[1].timer
  OBVIOUS
<1>1. stack # << >> /\ Head(stack) = stack[1] /\ stack[1].op = "tickEnd"
      /\ DOMAIN stack = 1 .. Len(stack)
  BY StackFacts DEF IInv, JInv, TickEnd, Running
<1>2. /\ timers' = SubSeq(timers, 1, u - 1) \o SubSeq(timers, u + 1, Len(timers))
      /\ Becomes(<< >>) /\ UNCHANGED <<data, arrays, visible>>
  BY <1>0, <1>1 DEF TickEnd
<1>3. Len(stack) = 1 /\ stack' = << >>
  BY <1>1, <1>2, LastOperation DEF Closing
<1>4. timers \in Seq([elem : Elem, item : Item])
  BY DEF IInv, JInv, FxTypes
<1>5. u \in DOMAIN timers
  BY <1>0, <1>1, <1>3 DEF IInv, JInv, EndInv
<1>6. DOMAIN stack = {1} /\ DOMAIN stack' = {}
  BY <1>1, <1>3
<1>7. \A t : Keeps(stack', t) /\ (Keeps(stack, t) <=> t # u)
  BY <1>0, <1>1, <1>6 DEF Keeps
<1>8. \A k \in DOMAIN timers' :
         /\ k \in Nat
         /\ \E j \in DOMAIN timers \ {u} :
               timers'[k] = timers[j] /\ j = IF k < u THEN k ELSE k + 1
  <2>1. LessOne(timers, u, timers')
    BY <1>2, <1>4, <1>5, TakenOutAt
  <2> QED BY <2>1 DEF LessOne
<1>9. u \in Nat
  BY <1>4, <1>5, LenProperties
<1>10. \A d : \A k \in Going(d)' : \E t \in Going(d) :
          timers'[k] = timers[t] /\ t = IF k < u THEN k ELSE k + 1
  BY <1>7, <1>8 DEF Going
<1>11. \A d : \A t \in Going(d) : \E k \in Going(d)' : timers'[k] = timers[t]
  <2> TAKE d
  <2> TAKE t \in Going(d)
  <2>1. OneLess([elem : Elem, item : Item], timers, u, timers')
    BY <1>2, <1>4, <1>5, TakenOut
  <2>2. t \in DOMAIN timers \ {u} /\ timers[t].elem = d
    BY <1>7 DEF Going
  <2>3. PICK k \in DOMAIN timers' : timers'[k] = timers[t]
    BY <2>1, <2>2 DEF OneLess
  <2> QED BY <1>7, <2>2, <2>3 DEF Going
<1>12. \A d : (\A t, v \in Going(d) : t = v) => \A k, l \in Going(d)' : k = l
  <2> TAKE d
  <2> SUFFICES ASSUME \A t, v \in Going(d) : t = v, NEW k \in Going(d)', NEW l \in Going(d)'
               PROVE  k = l
    OBVIOUS
  <2>1. k \in Nat /\ l \in Nat
    BY <1>8 DEF Going
  <2>2. PICK t \in Going(d) : t = IF k < u THEN k ELSE k + 1
    BY <1>10
  <2>3. PICK v \in Going(d) : v = IF l < u THEN l ELSE l + 1
    BY <1>10
  <2>4. (IF k < u THEN k ELSE k + 1) = (IF l < u THEN l ELSE l + 1)
    BY <2>2, <2>3
  <2> QED BY <1>9, <2>1, <2>4
<1>13. \A d : Waiting(d)' = Waiting(d)
  BY <1>2 DEF Waiting
<1>14. \A d : \A k \in Going(d)' : \E t \in Going(d) : timers'[k] = timers[t]
  BY <1>10
<1> QED BY <1>1, <1>2, <1>3, <1>11, <1>12, <1>13, <1>14 DEF TickEnded

-----------------------------------------------------------------------------
(* What a step does *)

\* One of the steps described above.
Effect ==
    \/ /\ UNCHANGED <<opened, link_disabled, timeouts>>
       /\ \/ \E e \in Elem, item \in Item : \E ops :
                \/ Queued(e, item, ops)
                \/ Skipped(e, item, ops)
                \/ Completed(e, item, ops)
                \/ \E n : Started(e, item, n, ops)
          \/ \E e \in Elem, item \in Item : \E t : Ticked(t, e, item)
          \/ \E e \in Elem : \E ops :
                \/ \E a \in Array : Taken(e, a, ops)
                \/ Emptied(e, ops)
                \/ Cleaned(e, ops)
          \/ TickEnded
    \/ Drops
    \/ \E ops : Acts(ops) \/ Begins(ops)
    \/ \E div, ops : Opens(div, ops)
    \/ UNCHANGED vars

LEMMA StepEffect ==
  ASSUME IInv, ThrowInv, [Next]_vars
  PROVE  Effect
<1>1. CASE JQueryStep /\ UNCHANGED pageVars
  <2>1. UNCHANGED <<opened, link_disabled, timeouts>>
    BY <1>1 DEF pageVars
  <2>2. CASE Queue
    BY <2>1, <2>2, QueueEffect DEF Effect
  <2>3. CASE Dequeue
    BY <2>1, <2>3, DequeueEffect DEF Effect
  <2>4. CASE Cleanup
    BY <2>1, <2>4, CleanupEffect DEF Effect
  <2>5. CASE Animate
    BY <2>1, <2>5, AnimateEffect DEF Effect
  <2>6. CASE Complete
    BY <2>1, <2>6, CompleteEffect DEF Effect
  <2>7. CASE TickEnd
    BY <2>1, <2>7, TickEndEffect DEF Effect
  <2>8. CASE Ajax
    BY <1>1, <2>8, AjaxEffect DEF Effect
  <2>9. CASE Done
    BY <1>1, <2>9, DoneEffect DEF Effect
  <2> QED BY <1>1, <2>2, <2>3, <2>4, <2>5, <2>6, <2>7, <2>8, <2>9 DEF JQueryStep
<1>2. CASE NothingToCall \/ Follow \/ ShowFiles \/ ReplaceEditor \/ EnableLinks
  BY <1>2, QuietCallbacks DEF Effect
<1>3. CASE Notified \/ ShowReport \/ FadeLibraries \/ ShowLibraries
  BY <1>3, FadingCallbacks DEF Effect
<1>4. CASE Validated
  <2>1. Calling("validated") /\ UNCHANGED <<fx, opened, link_disabled, timeouts>>
    BY <1>4 DEF Validated
  <2>2. CASE Throw
    BY <2>1, <2>2, ThrowEffect DEF Effect
  <2>3. CASE Becomes(<<FadeOut(validator_report, Callback("show_report", Arg))>>)
    BY <2>1, <2>3, FadingCallbacks DEF Effect
  <2> QED BY <1>4, <2>2, <2>3 DEF Validated
<1>5. CASE \E t \in DOMAIN timers : Tick(t) /\ UNCHANGED pageVars
  <2>1. UNCHANGED <<opened, link_disabled, timeouts>>
    BY <1>5 DEF pageVars
  <2> QED BY <1>5, <2>1, TickEffect DEF Effect
<1>6. CASE \E i \in DOMAIN timeouts : Timeout(i)
  BY <1>6, TimeoutBegins DEF Effect
<1>7. CASE \E r \in Request, ok \in BOOLEAN : Respond(r, ok) /\ UNCHANGED pageVars
  BY <1>7, RespondBegins DEF Effect
<1>8. CASE \/ Validate \/ HotKey \/ Save \/ CreateLibrary \/ DeleteLibrary
           \/ LaunchSimulation
           \/ \E library \in Library \cup {"all"} : SelectLibrary(library)
  BY <1>8, UserBegins DEF Effect
<1>9. CASE \E div \in Accordions : my_accordion(div)
  BY <1>9, OpensEffect DEF Effect
<1>10. CASE UNCHANGED vars
  BY <1>10 DEF Effect
<1> QED BY <1>1, <1>2, <1>3, <1>4, <1>5, <1>6, <1>7, <1>8, <1>9, <1>10
       DEF Next, User, Browser, Idle

\* How a script goes on when its first operation was replaced by none or by
\* others.
LEMMA FirstNext ==
  ASSUME IInv, NEW ops, Moved(ops)
  PROVE  /\ ops # << >> => stack' # << >> /\ 1 \in DOMAIN ops /\ stack'[1] = ops[1]
         /\ ops = << >> /\ stack' # << >> =>
               /\ 2 \in DOMAIN stack /\ stack'[1] = stack[2]
               /\ ~Hot(stack'[1]) /\ ~Validating(stack'[1])
         /\ ops = << >> /\ 2 \in DOMAIN stack => stack' # << >> /\ stack'[1] = stack[2]
<1>1. /\ DOMAIN stack = 1 .. Len(stack) /\ DOMAIN ops = 1 .. Len(ops)
      /\ Len(stack) \in Nat \ {0} /\ Len(ops) \in Nat
      /\ Replaces(Operation, stack, ops, stack')
  <2>1. Replaces(Operation, stack, ops, stack') /\ stack \in Seq(Operation)
        /\ ops \in Seq(Operation)
    BY DEF Moved
  <2> QED BY <2>1, LenProperties DEF Replaces
<1>2. CASE ops # << >>
  <2>1. Len(ops) >= 1
    BY <1>1, <1>2, EmptySeq DEF Moved
  <2>2. Len(stack') >= 1 /\ stack'[1] = ops[1] /\ stack' # << >>
    BY <1>1, <2>1 DEF Replaces
  <2> QED BY <1>1, <1>2, <2>1, <2>2
<1>3. CASE ops = << >>
  <2>1. Len(ops) = 0
    BY <1>3
  <2>2. stack' # << >> => 2 \in DOMAIN stack /\ stack'[1] = stack[2]
    BY <1>1, <2>1 DEF Replaces
  <2>3. 2 \in DOMAIN stack => stack' # << >> /\ stack'[1] = stack[2]
    BY <1>1, <2>1 DEF Replaces
  <2>4. 2 \in DOMAIN stack => ~Hot(stack[2]) /\ ~Validating(stack[2])
    BY DEF IInv, JInv, ScriptInv, Placed
  <2> QED BY <1>3, <2>2, <2>3, <2>4
<1> QED BY <1>2, <1>3

-----------------------------------------------------------------------------
(* The animations are those that the page makes *)

\* The operations of a script suit if those that are new do.
LEMMA SuitsMoved ==
  ASSUME SuitsInv, NEW ops, Moved(ops),
         \A i \in DOMAIN ops : ops[i].op \in {"queue", "run", "complete"}
                                  => Suits(ops[i].elem, ops[i].item)
  PROVE  \A i \in DOMAIN stack' : stack'[i].op \in {"queue", "run", "complete"}
            => Suits(stack'[i].elem, stack'[i].item)
BY MovedFrom DEF SuitsInv

\* So do the animations that wait, if those of one element do.
LEMMA SuitsWaiting ==
  ASSUME SuitsInv, NEW e \in Elem, Apart(e),
         \A i \in DOMAIN Waiting(e)' : \E j \in DOMAIN Waiting(e) :
                                          Waiting(e)'[i] = Waiting(e)[j]
  PROVE  \A d \in Elem : \A i \in DOMAIN Waiting(d)' : Suits(d, Waiting(d)'[i])
<1> SUFFICES ASSUME NEW d \in Elem, NEW i \in DOMAIN Waiting(d)'
             PROVE  Suits(d, Waiting(d)'[i])
  OBVIOUS
<1>1. CASE d = e
  <2>1. PICK j \in DOMAIN Waiting(e) : Waiting(e)'[i] = Waiting(e)[j]
    BY <1>1
  <2> QED BY <1>1, <2>1 DEF SuitsInv
<1>2. CASE d # e
  <2>1. Waiting(d)' = Waiting(d)
    BY <1>2 DEF Apart, Same
  <2> QED BY <2>1 DEF SuitsInv
<1> QED BY <1>1, <1>2

LEMMA SuitsNext ==
  ASSUME IInv, SuitsInv, Effect
  PROVE  SuitsInv'
<1>0. /\ FxTypes /\ 1 \in {1}
      /\ \A t \in DOMAIN timers : Suits(timers[t].elem, timers[t].item)
      /\ \A d \in Elem : \A i \in DOMAIN Waiting(d) : Suits(d, Waiting(d)[i])
      /\ \A i \in DOMAIN stack : stack[i].op \in {"queue", "run", "complete"}
            => Suits(stack[i].elem, stack[i].item)
  BY DEF IInv, JInv, SuitsInv
<1>1. ASSUME NEW e \in Elem, NEW item \in Item, NEW ops, Queued(e, item, ops)
      PROVE  SuitsInv'
  <2>1. /\ Moved(ops) /\ Apart(e) /\ timers' = timers
        /\ stack[1].op = "queue" /\ stack[1].elem = e /\ stack[1].item = item
        /\ Waiting(e)' = Append(Waiting(e), item)
        /\ ops = << >> \/ ops = <<DequeueOp(e)>>
    BY <1>1 DEF Queued
  <2>2. \A i \in DOMAIN stack' : stack'[i].op \in {"queue", "run", "complete"}
            => Suits(stack'[i].elem, stack'[i].item)
    <3>1. \A i \in DOMAIN ops : ops[i].op = "dequeue"
      BY <2>1 DEF DequeueOp
    <3> QED BY <2>1, <3>1, SuitsMoved
  <2>3. Suits(e, item)
    BY <1>0, <2>1, MovedAt
  <2>4. ASSUME NEW d \in Elem, NEW i \in DOMAIN Waiting(d)'
        PROVE  Suits(d, Waiting(d)'[i])
    <3>1. CASE d = e
      <4>1. Waiting(e) \in Seq(Item)
        BY <1>0, WaitingType
      <4>2. \/ Append(Waiting(e), item)[i] = item
            \/ i \in DOMAIN Waiting(e) /\ Append(Waiting(e), item)[i] = Waiting(e)[i]
        BY <2>1, <2>4, <3>1, <4>1, LastWaiting
      <4> QED BY <1>0, <2>1, <2>3, <3>1, <4>2
    <3>2. CASE d # e
      BY <1>0, <2>1, <2>4, <3>2 DEF Apart, Same
    <3> QED BY <3>1, <3>2
  <2>5. \A d \in Elem : \A i \in DOMAIN Waiting(d)' : Suits(d, Waiting(d)'[i])
    BY <2>4
  <2> QED BY <1>0, <2>1, <2>2, <2>5 DEF SuitsInv
<1>2. ASSUME NEW e \in Elem, NEW a, NEW ops, Taken(e, a, ops)
      PROVE  SuitsInv'
  <2>1. /\ Moved(ops) /\ Apart(e) /\ timers' = timers
        /\ Waiting(e) # << >> /\ Waiting(e)' = Tail(Waiting(e))
        /\ ops = <<RunOp(e, Head(Waiting(e))), CleanupOp(e, a)>>
    BY <1>2 DEF Taken
  <2>2. Waiting(e) \in Seq(Item)
    BY <1>0, WaitingType
  <2>3. /\ Head(Waiting(e)) = Waiting(e)[1] /\ 1 \in DOMAIN Waiting(e)
        /\ \A i \in DOMAIN Tail(Waiting(e)) :
              i + 1 \in DOMAIN Waiting(e) /\ Tail(Waiting(e))[i] = Waiting(e)[i + 1]
    BY <2>1, <2>2, FirstWaiting
  <2>4. \A i \in DOMAIN ops : \/ ops[i].op = "cleanup"
                              \/ ops[i].elem = e /\ ops[i].item = Head(Waiting(e))
    BY <2>1 DEF RunOp, CleanupOp
  <2>5. Suits(e, Head(Waiting(e)))
    BY <1>0, <2>3
  <2>6. \A i \in DOMAIN stack' : stack'[i].op \in {"queue", "run", "complete"}
            => Suits(stack'[i].elem, stack'[i].item)
    BY <2>1, <2>4, <2>5, SuitsMoved
  <2>7. \A d \in Elem : \A i \in DOMAIN Waiting(d)' : Suits(d, Waiting(d)'[i])
    BY <2>1, <2>3, SuitsWaiting
  <2> QED BY <1>0, <2>1, <2>6, <2>7 DEF SuitsInv
<1>3. ASSUME NEW e \in Elem, NEW ops, Emptied(e, ops) \/ Cleaned(e, ops)
      PROVE  SuitsInv'
  <2>1. /\ Moved(ops) /\ Apart(e) /\ timers' = timers /\ ops = << >>
        /\ Waiting(e)' = Waiting(e) \/ Waiting(e)' = << >>
    BY <1>3 DEF Emptied, Cleaned, Same
  <2>2. \A i \in DOMAIN stack' : stack'[i].op \in {"queue", "run", "complete"}
            => Suits(stack'[i].elem, stack'[i].item)
    BY <2>1, SuitsMoved
  <2>3. \A d \in Elem : \A i \in DOMAIN Waiting(d)' : Suits(d, Waiting(d)'[i])
    BY <2>1, SuitsWaiting
  <2> QED BY <1>0, <2>1, <2>2, <2>3 DEF SuitsInv
<1>4. ASSUME NEW e \in Elem, NEW item \in Item, NEW ops,
             \/ Skipped(e, item, ops) \/ Completed(e, item, ops)
             \/ \E n : Started(e, item, n, ops)
      PROVE  SuitsInv'
  <2>1. /\ Moved(ops) /\ Apart(e) /\ Waiting(e)' = Waiting(e)
        /\ stack[1].op \in {"run", "complete"} /\ stack[1].elem = e /\ stack[1].item = item
        /\ \/ ops = << >> \/ ops = <<CompleteOp(e, item)>>
           \/ ops = <<DequeueOp(e), CallOp(item.old)>>
        /\ \/ timers' = timers
           \/ \E n : /\ DOMAIN timers' = DOMAIN timers \cup {n}
                     /\ timers'[n] = [elem |-> e, item |-> item]
                     /\ \A t \in DOMAIN timers : timers'[t] = timers[t]
    BY <1>4 DEF Skipped, Completed, Started, Same
  <2>2. Suits(e, item)
    BY <1>0, <2>1, MovedAt
  <2>3. \A i \in DOMAIN ops : \/ ops[i].op \in {"dequeue", "call"}
                              \/ ops[i].elem = e /\ ops[i].item = item
    BY <2>1 DEF CompleteOp, DequeueOp, CallOp
  <2>4. \A i \in DOMAIN stack' : stack'[i].op \in {"queue", "run", "complete"}
            => Suits(stack'[i].elem, stack'[i].item)
    BY <2>1, <2>2, <2>3, SuitsMoved
  <2>5. \A d \in Elem : \A i \in DOMAIN Waiting(d)' : Suits(d, Waiting(d)'[i])
    BY <2>1, SuitsWaiting
  <2>6. \A t \in DOMAIN timers' : Suits(timers'[t].elem, timers'[t].item)
    <3>1. CASE timers' = timers
      BY <1>0, <3>1
    <3>2. CASE timers' # timers
      <4>1. PICK n : /\ DOMAIN timers' = DOMAIN timers \cup {n}
                     /\ timers'[n] = [elem |-> e, item |-> item]
                     /\ \A t \in DOMAIN timers : timers'[t] = timers[t]
        BY <2>1, <3>2
      <4>2. timers'[n].elem = e /\ timers'[n].item = item
        BY <4>1
      <4> QED BY <1>0, <2>2, <4>1, <4>2
    <3> QED BY <3>1, <3>2
  <2> QED BY <2>4, <2>5, <2>6 DEF SuitsInv
<1>5. ASSUME NEW ops, Acts(ops) PROVE SuitsInv'
  <2>1. /\ Moved(ops) /\ timers' = timers /\ \A d \in Elem : Waiting(d)' = Waiting(d)
        /\ \A i \in DOMAIN ops : /\ ops[i].op \in {"queue", "ajax"}
                                 /\ ops[i].op = "queue" => Suits(ops[i].elem, ops[i].item)
    BY <1>5 DEF Acts, Calm, Same
  <2>2. \A i \in DOMAIN stack' : stack'[i].op \in {"queue", "run", "complete"}
            => Suits(stack'[i].elem, stack'[i].item)
    BY <2>1, SuitsMoved
  <2> QED BY <1>0, <2>1, <2>2 DEF SuitsInv
<1>6. ASSUME Drops \/ (\E ops : Begins(ops)) \/ (\E div, ops : Opens(div, ops))
      PROVE  SuitsInv'
  <2>1. timers' = timers /\ \A d \in Elem : Waiting(d)' = Waiting(d)
    BY <1>6 DEF Drops, Begins, Opens, Calm, Same
  <2>2. \A i \in DOMAIN stack' : stack'[i].op \in {"queue", "run", "complete"}
            => Suits(stack'[i].elem, stack'[i].item)
    <3>1. CASE Drops
      BY <3>1 DEF Drops
    <3>2. CASE (\E ops : Begins(ops)) \/ (\E div, ops : Opens(div, ops))
      BY <3>2 DEF Begins, Opens
    <3> QED BY <1>6, <3>1, <3>2
  <2> QED BY <1>0, <2>1, <2>2 DEF SuitsInv
<1>7. ASSUME NEW e \in Elem, NEW item \in Item, NEW t, Ticked(t, e, item)
      PROVE  SuitsInv'
  <2>1. /\ stack' = <<CompleteOp(e, item), TickEndOp(t)>> /\ timers' = timers
        /\ timers[t] = [elem |-> e, item |-> item] /\ t \in DOMAIN timers
        /\ Apart(e) /\ Waiting(e)' = Waiting(e)
    BY <1>7 DEF Ticked, Going
  <2>2. Suits(e, item)
    BY <1>0, <2>1
  <2>3. \A i \in DOMAIN stack' : \/ stack'[i].op = "tickEnd"
                                 \/ stack'[i].elem = e /\ stack'[i].item = item
    BY <2>1 DEF CompleteOp, TickEndOp
  <2>4. \A i \in DOMAIN stack' : stack'[i].op \in {"queue", "run", "complete"}
            => Suits(stack'[i].elem, stack'[i].item)
    BY <2>2, <2>3
  <2>5. \A d \in Elem : \A i \in DOMAIN Waiting(d)' : Suits(d, Waiting(d)'[i])
    BY <2>1, SuitsWaiting
  <2> QED BY <1>0, <2>1, <2>4, <2>5 DEF SuitsInv
<1>8. CASE TickEnded
  <2>1. /\ stack' = << >> /\ \A d : Waiting(d)' = Waiting(d)
        /\ \A d : \A k \in Going(d)' : \E t \in Going(d) : timers'[k] = timers[t]
    BY <1>8 DEF TickEnded
  <2>2. ASSUME NEW k \in DOMAIN timers'
        PROVE  Suits(timers'[k].elem, timers'[k].item)
    <3>0. PICK d : d = timers'[k].elem
      OBVIOUS
    <3>1. k \in Going(d)'
      BY <2>1, <2>2, <3>0 DEF Going, Keeps
    <3>2. PICK t \in Going(d) : timers'[k] = timers[t]
      BY <2>1, <3>1
    <3>3. t \in DOMAIN timers
      BY <3>2 DEF Going
    <3> QED BY <1>0, <3>2, <3>3
  <2>3. \A d \in Elem : \A i \in DOMAIN Waiting(d)' : Suits(d, Waiting(d)'[i])
    BY <1>0, <2>1
  <2> QED BY <2>1, <2>2, <2>3 DEF SuitsInv
<1>9. CASE UNCHANGED vars
  BY <1>9 DEF SuitsInv, Waiting, vars, jQueryVars, fx
<1> QED BY <1>1, <1>2, <1>3, <1>4, <1>5, <1>6, <1>7, <1>8, <1>9 DEF Effect

-----------------------------------------------------------------------------
(* The report, the list of libraries, and callbacks that throw *)

\* A script goes on without an operation on a queue unless it is given one.
LEMMA ColdNext ==
  ASSUME IInv, NEW ops, Moved(ops)
  PROVE  /\ ops = << >> \/ ~Hot(ops[1]) =>
               \A e : /\ ~HotAt(stack', e) /\ ~At("run", e)'
                      /\ ~At("complete", e)' /\ ~At("dequeue", e)'
         /\ ops = << >> \/ ops[1].op # "call" => ~AtCall("validated")'
<1>1. ops = << >> \/ ~Hot(ops[1]) => stack' = << >> \/ ~Hot(stack'[1])
  BY FirstNext
<1>2. ops = << >> \/ ops[1].op # "call" => stack' = << >> \/ ~Validating(stack'[1])
  BY FirstNext DEF Validating
<1> QED BY <1>1, <1>2 DEF HotAt, At, AtCall, Calls, Hot, Validating

\* The operations on the queue of an element put none on a queue, call no
\* callback of a request, and go on with that element.
LEMMA WorkOn ==
  ASSUME IInv, NEW e, NEW item, NEW ops,
         \/ Queued(e, item, ops) \/ Skipped(e, item, ops) \/ Completed(e, item, ops)
         \/ \E n : Started(e, item, n, ops)
         \/ \E a : Taken(e, a, ops)
         \/ Emptied(e, ops) \/ Cleaned(e, ops)
  PROVE  /\ Moved(ops) /\ Apart(e) /\ Arrays /\ stack[1].elem = e
         /\ stack[1].op \in {"queue", "dequeue", "run", "complete", "cleanup"}
         /\ \A d : d # e => /\ ~Queues(stack[1], d) /\ ~HotAt(stack, d) /\ ~HotAt(stack', d)
                            /\ ~At("run", d) /\ ~At("run", d)'
                            /\ ~At("complete", d) /\ ~At("complete", d)'
         /\ \A d : NoneOf(ops, d)
         /\ ~AtCall("validated")'
         /\ visible'[e] = visible[e] \/ visible'[e] = TRUE
<1>1. /\ Moved(ops) /\ Apart(e) /\ Arrays /\ stack[1].elem = e
      /\ stack[1].op \in {"queue", "dequeue", "run", "complete", "cleanup"}
      /\ \/ ops = << >> \/ ops = <<DequeueOp(e)>> \/ ops = <<CompleteOp(e, item)>>
         \/ ops = <<DequeueOp(e), CallOp(item.old)>>
         \/ \E a : ops = <<RunOp(e, Head(Waiting(e))), CleanupOp(e, a)>>
  BY DEF Queued, Skipped, Completed, Started, Taken, Emptied, Cleaned
<1>2. \A i \in DOMAIN ops : ops[i].op # "queue"
  BY <1>1 DEF DequeueOp, CompleteOp, CallOp, RunOp, CleanupOp
<1>3. \/ ops = << >>
      \/ ops[1].op \in {"dequeue", "run", "complete"} /\ ops[1].elem = e
  BY <1>1 DEF DequeueOp, CompleteOp, CallOp, RunOp, CleanupOp
<1>4. \A d : NoneOf(ops, d)
  BY <1>2 DEF NoneOf, Queues
<1>5. ~AtCall("validated")'
  BY <1>1, <1>3, ColdNext
<1>6. \A d : d # e => /\ ~HotAt(stack', d) /\ ~At("run", d)' /\ ~At("complete", d)'
  <2>1. CASE ops = << >>
    BY <1>1, <2>1, ColdNext
  <2>2. CASE ops # << >>
    <3>1. stack'[1].elem = e
      BY <1>1, <1>3, <2>2, FirstNext
    <3> QED BY <3>1 DEF HotAt, At
  <2> QED BY <2>1, <2>2
<1>7. \A d : d # e => /\ ~Queues(stack[1], d) /\ ~HotAt(stack, d) /\ ~At("run", d)
                      /\ ~At("complete", d)
  BY <1>1 DEF Queues, HotAt, At
<1>8. visible'[e] = visible[e] \/ visible'[e] = TRUE
  BY DEF Queued, Skipped, Completed, Started, Taken, Emptied, Cleaned, Same
<1> QED BY <1>1, <1>4, <1>5, <1>6, <1>7, <1>8

LEMMA ThrowNext ==
  ASSUME IInv, ThrowInv, Effect
  PROVE  ThrowInv'
<1>1. ASSUME ~AtCall("validated")' PROVE ThrowInv'
  BY <1>1 DEF ThrowInv
<1>2. ASSUME NEW e \in Elem, NEW item \in Item, NEW ops,
             \/ Queued(e, item, ops) \/ Skipped(e, item, ops) \/ Completed(e, item, ops)
             \/ \E n : Started(e, item, n, ops)
      PROVE  ThrowInv'
  BY <1>1, <1>2, WorkOn
<1>3. ASSUME NEW e \in Elem, NEW ops,
             (\E a \in Array : Taken(e, a, ops)) \/ Emptied(e, ops) \/ Cleaned(e, ops)
      PROVE  ThrowInv'
  BY <1>1, <1>3, WorkOn
<1>4. ASSUME NEW ops, Acts(ops) PROVE ThrowInv'
  <2>1. Moved(ops) /\ \A i \in DOMAIN ops : ops[i].op # "call"
    BY <1>4 DEF Acts
  <2>2. ops = << >> \/ ops[1].op # "call"
    BY <2>1, FirstNext
  <2> QED BY <1>1, <2>1, <2>2, ColdNext
<1>5. ASSUME NEW ops, Begins(ops) PROVE ThrowInv'
  BY <1>5 DEF Begins, ThrowInv, AtCall, Calls
<1>6. ASSUME NEW div, NEW ops, Opens(div, ops) PROVE ThrowInv'
  BY <1>6 DEF Opens, ThrowInv, AtCall, Calls
<1>7. CASE Drops \/ TickEnded
  BY <1>1, <1>7 DEF Drops, TickEnded, AtCall
<1>8. ASSUME NEW t, NEW e, NEW item, Ticked(t, e, item) PROVE ThrowInv'
  BY <1>1, <1>8 DEF Ticked, AtCall, Calls, CompleteOp
<1>9. CASE UNCHANGED vars
  BY <1>9 DEF ThrowInv, AtCall, vars, jQueryVars
<1> QED BY <1>2, <1>3, <1>4, <1>5, <1>6, <1>7, <1>8, <1>9 DEF Effect

\* Report and list stay visible, or the script goes on by showing them.
LEMMA ShownNext ==
  ASSUME IInv, SuitsInv, ShownInv, Effect
  PROVE  ShownInv'
<1> SUFFICES ASSUME NEW e \in Shown, ~visible'[e]
             PROVE  \/ At("complete", e)' /\ stack'[1].item.kind = "hide"
                    \/ /\ At("dequeue", e)'
                       /\ \/ 2 \in DOMAIN stack' /\ Calls(stack'[2], Opener(e))
                          \/ Waiting(e)' # << >>
                    \/ At("run", e)'
                    \/ AtCall(Opener(e))' /\ data'[e] = NoArray
                    \/ At("queue", e)' /\ data'[e] = NoArray
  BY DEF ShownInv
<1>0. /\ e \in Elem /\ FxTypes
      /\ ~visible[e] =>
            \/ At("complete", e) /\ stack[1].item.kind = "hide"
            \/ /\ At("dequeue", e)
               /\ \/ 2 \in DOMAIN stack /\ Calls(stack[2], Opener(e))
                  \/ Waiting(e) # << >>
            \/ At("run", e)
            \/ AtCall(Opener(e)) /\ data[e] = NoArray
            \/ At("queue", e) /\ data[e] = NoArray
  BY Elements DEF ShownInv, IInv, JInv
<1>1. ASSUME NEW d, NEW item, NEW ops,
             \/ Queued(d, item, ops) \/ Skipped(d, item, ops) \/ Completed(d, item, ops)
             \/ \E n : Started(d, item, n, ops)
             \/ \E a : Taken(d, a, ops)
             \/ Emptied(d, ops) \/ Cleaned(d, ops)
      PROVE  d = e /\ ~visible[e] /\ stack[1].elem = e /\ Moved(ops)
  <2>1. /\ Moved(ops) /\ Apart(d) /\ stack[1].elem = d
        /\ stack[1].op \in {"queue", "dequeue", "run", "complete", "cleanup"}
        /\ visible'[d] = visible[d] \/ visible'[d] = TRUE
    BY <1>1, WorkOn
  <2>2. d = e
    <3>1. d # e => visible'[e] = visible[e]
      BY <1>0, <2>1 DEF Apart, Same
    <3> QED BY <1>0, <2>1, <3>1 DEF At, AtCall, Calls
  <2>3. visible'[e] = visible[e]
    BY <2>1, <2>2
  <2> QED BY <2>1, <2>2, <2>3
<1>2. ASSUME NEW d \in Elem, NEW item \in Item, NEW ops, Queued(d, item, ops)
      PROVE  At("dequeue", e)' /\ Waiting(e)' # << >>
  <2>1. d = e /\ ~visible[e] /\ Moved(ops) /\ stack[1].op = "queue"
    BY <1>1, <1>2 DEF Queued
  <2>2. data[e] = NoArray
    BY <1>0, <2>1 DEF At, AtCall, Calls
  <2>3. ops = <<DequeueOp(e)>> /\ Waiting(e)' = Append(Waiting(e), item)
    BY <1>2, <2>1, <2>2 DEF Queued
  <2>4. Waiting(e)' # << >>
    BY <1>0, <2>3, WaitingType, LastWaiting
  <2>5. stack' # << >> /\ stack'[1] = DequeueOp(e)
    BY <2>1, <2>3, FirstNext
  <2> QED BY <2>4, <2>5 DEF At, DequeueOp
<1>3. ASSUME NEW d \in Elem, NEW a, NEW ops, Taken(d, a, ops) PROVE At("run", e)'
  <2>1. d = e /\ Moved(ops)
    BY <1>1, <1>3
  <2>2. stack' # << >> /\ stack'[1] = RunOp(e, Head(Waiting(e)))
    BY <1>3, <2>1, FirstNext DEF Taken
  <2> QED BY <2>2 DEF At, RunOp
<1>4. ASSUME NEW d \in Elem, NEW ops, Emptied(d, ops)
      PROVE  AtCall(Opener(e))' /\ data'[e] = NoArray
  <2>1. d = e /\ ~visible[e] /\ Moved(ops)
    BY <1>1, <1>4
  <2>2. /\ stack[1].op = "dequeue" /\ Waiting(e) = << >> /\ data'[e] = NoArray
        /\ ops = << >>
    BY <1>4, <2>1 DEF Emptied
  <2>3. 2 \in DOMAIN stack /\ Calls(stack[2], Opener(e))
    BY <1>0, <2>1, <2>2 DEF At, AtCall, Calls
  <2>4. stack' # << >> /\ stack'[1] = stack[2]
    BY <2>1, <2>2, <2>3, FirstNext
  <2> QED BY <2>2, <2>3, <2>4 DEF AtCall, Opener
<1>5. ASSUME NEW d \in Elem, NEW ops, Cleaned(d, ops) PROVE FALSE
  BY <1>0, <1>1, <1>5 DEF Cleaned, At, AtCall, Calls
<1>6. ASSUME NEW d \in Elem, NEW item \in Item, NEW ops, Skipped(d, item, ops)
      PROVE  At("complete", e)' /\ stack'[1].item.kind = "hide"
  <2>1. d = e /\ ~visible[e] /\ Moved(ops)
    BY <1>1, <1>6
  <2>2. visible[e] = (item.kind = "show") /\ ops = <<CompleteOp(e, item)>>
    BY <1>6, <2>1 DEF Skipped
  <2>3. item.kind = "hide"
    BY <2>1, <2>2 DEF Item
  <2>4. stack' # << >> /\ stack'[1] = CompleteOp(e, item)
    BY <2>1, <2>2, FirstNext
  <2> QED BY <2>3, <2>4 DEF At, CompleteOp
<1>7. ASSUME NEW d \in Elem, NEW item \in Item, NEW ops, \E n : Started(d, item, n, ops)
      PROVE  FALSE
  <2>1. d = e
    BY <1>1, <1>7
  <2> QED BY <1>7, <2>1 DEF Started
<1>8. ASSUME NEW d \in Elem, NEW item \in Item, NEW ops, Completed(d, item, ops)
      PROVE  At("dequeue", e)' /\ 2 \in DOMAIN stack' /\ Calls(stack'[2], Opener(e))
  <2>1. d = e /\ ~visible[e] /\ Moved(ops)
    BY <1>1, <1>8
  <2>2. /\ stack[1].op = "complete" /\ stack[1].elem = e /\ stack[1].item = item
        /\ ops = <<DequeueOp(e), CallOp(item.old)>>
    BY <1>8, <2>1 DEF Completed
  <2>3. item.kind = "hide"
    BY <1>0, <2>1, <2>2 DEF At, AtCall, Calls
  <2>4. Suits(e, item)
    BY <2>1, <2>2, MovedAt DEF SuitsInv
  <2>5. item.old.fn = Opener(e)
    BY <2>3, <2>4 DEF Suits
  <2>6. DOMAIN ops = {1, 2} /\ ops[1] = DequeueOp(e) /\ ops[2] = CallOp(item.old) /\ Len(ops) = 2
    BY <2>2
  <2>7. /\ 1 \in DOMAIN stack' /\ stack'[1] = DequeueOp(e)
        /\ 2 \in DOMAIN stack' /\ stack'[2] = CallOp(item.old)
    BY <2>1, <2>6, MovedAt
  <2>8. stack' # << >>
    BY <2>1, <2>2, FirstNext
  <2> QED BY <2>5, <2>7, <2>8 DEF At, Calls, DequeueOp, CallOp
<1>9. ASSUME NEW ops, Acts(ops) PROVE At("queue", e)' /\ data'[e] = NoArray
  <2>1. /\ visible' = visible /\ data' = data /\ stack[1].op \in {"call", "ajax"}
        /\ AtCall(Opener(e)) => stack' # << >> /\ Queues(stack'[1], e)
    BY <1>9 DEF Acts, Calm
  <2>2. AtCall(Opener(e)) /\ data[e] = NoArray
    BY <1>0, <2>1 DEF At
  <2> QED BY <2>1, <2>2 DEF At, Queues
<1>10. ASSUME Drops \/ TickEnded PROVE FALSE
  BY <1>0, <1>10 DEF Drops, Calm, TickEnded, At, AtCall, Calls, Opener
<1>11. ASSUME (\E ops : Begins(ops)) \/ (\E div, ops : Opens(div, ops)) PROVE FALSE
  BY <1>0, <1>11 DEF Begins, Opens, Calm, At, AtCall
<1>12. ASSUME NEW t, NEW d \in Elem, NEW item \in Item, Ticked(t, d, item)
       PROVE  At("complete", e)' /\ stack'[1].item.kind = "hide"
  <2>1. /\ stack = << >> /\ stack' = <<CompleteOp(d, item), TickEndOp(t)>>
        /\ Apart(d) /\ visible'[d] = (visible[d] /\ item.kind = "show")
    BY <1>12 DEF Ticked
  <2>2. visible[e]
    BY <1>0, <2>1 DEF At, AtCall
  <2>3. d = e /\ item.kind = "hide"
    BY <1>0, <2>1, <2>2 DEF Apart, Same, Item
  <2> QED BY <2>1, <2>3 DEF At, CompleteOp
<1>13. CASE UNCHANGED vars
  BY <1>0, <1>13 DEF vars, jQueryVars, fx, At, AtCall, Waiting
<1> QED BY <1>2, <1>3, <1>4, <1>5, <1>6, <1>7, <1>8, <1>9, <1>10, <1>11, <1>12, <1>13
       DEF Effect

-----------------------------------------------------------------------------
(* The ends of dequeue *)

\* An end of dequeue that is further down in the script stays in order.
LEMMA CleanStays ==
  ASSUME IInv, CleanInv, NEW ops, Moved(ops), Arrays,
         Sheltered(stack[1]) =>
            /\ \A i \in DOMAIN ops : Sheltered(ops[i])
            /\ \A d \in Solo : data[d] = NoArray => data'[d] = NoArray,
         NEW i \in DOMAIN stack', i > Len(ops), stack'[i].op = "cleanup"
  PROVE  CleanAt(i)'
<1> DEFINE n == Len(ops)
<1>1. PICK j : /\ j \in DOMAIN stack /\ j > 1 /\ j = i - n + 1 /\ stack'[i] = stack[j]
               /\ i \in Nat /\ n \in Nat
  BY MovedAt
<1>2. PICK a, e : a = stack[j].array /\ e = stack[j].elem
  OBVIOUS
<1>3. a \in Array /\ e \in Elem /\ a # NoArray
  <2>1. stack \in Seq(Operation)
    BY DEF IInv, JInv
  <2>2. stack[j] \in Operation
    BY <1>1, <2>1, LenProperties
  <2> QED BY <1>1, <1>2, <2>2, OperationFields, IdAssumption
<1>4. /\ \A k \in DOMAIN stack : k < j => Sheltered(stack[k])
      /\ \A d \in Elem : data[d] = a => d = e
      /\ e \in Solo /\ arrays[a] = << >> => data[e] = NoArray
  BY <1>1, <1>2 DEF CleanInv, CleanAt
<1>5. Sheltered(stack[1])
  BY <1>1, <1>4, MovedAt
<1>6. ASSUME NEW k \in DOMAIN stack', k < i
      PROVE  Sheltered(stack'[k])
  <2>1. CASE k <= n
    BY <1>5, <2>1, MovedAt
  <2>2. CASE ~(k <= n)
    <3>1. k \in Nat /\ k > n
      BY <1>1, <2>2, MovedAt
    <3>2. k - n + 1 \in DOMAIN stack /\ stack'[k] = stack[k - n + 1] /\ k - n + 1 < j
      BY <1>1, <1>6, <3>1, MovedAt
    <3> QED BY <1>4, <3>2
  <2> QED BY <2>1, <2>2
<1>7. ASSUME NEW d \in Elem, data'[d] = a
      PROVE  d = e
  BY <1>1, <1>2, <1>3, <1>4, <1>7 DEF Arrays
<1>8. ASSUME e \in Solo, arrays'[a] = << >>
      PROVE  data'[e] = NoArray
  <2>1. CASE arrays[a] = << >>
    BY <1>4, <1>5, <1>8, <2>1
  <2>2. CASE arrays[a] # << >>
    BY <1>3, <1>4, <1>8, <2>2 DEF Arrays
  <2> QED BY <2>1, <2>2
<1> QED BY <1>1, <1>2, <1>6, <1>7, <1>8 DEF CleanAt

\* All of them stay in order if no new one comes.
LEMMA CleanMoved ==
  ASSUME IInv, CleanInv, NEW ops, Moved(ops), Arrays,
         Sheltered(stack[1]) =>
            /\ \A i \in DOMAIN ops : Sheltered(ops[i])
            /\ \A d \in Solo : data[d] = NoArray => data'[d] = NoArray,
         \A i \in DOMAIN ops : ops[i].op # "cleanup"
  PROVE  CleanInv'
<1> SUFFICES ASSUME NEW i \in DOMAIN stack', stack'[i].op = "cleanup"
             PROVE  CleanAt(i)'
  BY DEF CleanInv
<1>1. /\ i <= Len(ops) => i \in DOMAIN ops /\ stack'[i] = ops[i]
      /\ i \in Nat /\ Len(ops) \in Nat
  BY MovedAt
<1>2. i > Len(ops)
  BY <1>1
<1> QED BY <1>2, CleanStays

LEMMA CleanNext ==
  ASSUME IInv, CleanInv, Effect
  PROVE  CleanInv'
<1>1. ASSUME NEW e \in Elem, NEW item, NEW ops, Queued(e, item, ops)
      PROVE  CleanInv'
  <2>1. /\ Moved(ops) /\ Apart(e) /\ Arrays /\ stack[1].op = "queue" /\ stack[1].elem = e
        /\ ops = << >> \/ ops = <<DequeueOp(e)>>
    BY <1>1 DEF Queued
  <2>2. \A i \in DOMAIN ops : ops[i].op = "dequeue"
    BY <2>1 DEF DequeueOp
  <2>3. \A i \in DOMAIN ops : Sheltered(ops[i]) /\ ops[i].op # "cleanup"
    BY <2>2 DEF Sheltered
  <2>4. Sheltered(stack[1]) => \A d \in Solo : data[d] = NoArray => data'[d] = NoArray
    <3>1. Sheltered(stack[1]) => e \in Shown
      BY <2>1 DEF Sheltered
    <3>2. e \in Shown => \A d \in Solo : d \in Elem \ {e}
      BY Elements
    <3> QED BY <2>1, <3>1, <3>2 DEF Apart, Same
  <2> QED BY <2>1, <2>3, <2>4, CleanMoved
<1>2. ASSUME NEW e \in Elem, NEW a \in Array, NEW ops, Taken(e, a, ops)
      PROVE  CleanInv'
  <2>1. /\ Moved(ops) /\ Arrays /\ data' = data /\ data[e] = a /\ a # NoArray
        /\ arrays'[a] # << >>
        /\ ops = <<RunOp(e, Head(Waiting(e))), CleanupOp(e, a)>>
    BY <1>2 DEF Taken
  <2>2. /\ DOMAIN ops = {1, 2} /\ Len(ops) = 2
        /\ ops[1].op = "run" /\ ops[2].op = "cleanup" /\ ops[2].elem = e /\ ops[2].array = a
    BY <2>1 DEF RunOp, CleanupOp
  <2>3. \A i \in DOMAIN ops : Sheltered(ops[i])
    BY <2>2 DEF Sheltered
  <2>4. ASSUME NEW i \in DOMAIN stack', stack'[i].op = "cleanup"
        PROVE  CleanAt(i)'
    <3>1. CASE i > Len(ops)
      BY <2>1, <2>3, <2>4, <3>1, CleanStays
    <3>2. CASE ~(i > Len(ops))
      <4>1. i \in DOMAIN ops /\ stack'[i] = ops[i]
        <5>1. i \in Nat /\ Len(ops) \in Nat
          BY <2>1, MovedAt
        <5>2. i <= Len(ops)
          BY <3>2, <5>1
        <5> QED BY <2>1, <5>2, MovedAt
      <4>2. i = 2 /\ stack'[2] = ops[2]
        BY <2>2, <2>4, <4>1
      <4>3. \A k \in DOMAIN stack' : k < 2 => Sheltered(stack'[k])
        <5> SUFFICES ASSUME NEW k \in DOMAIN stack', k < 2 PROVE Sheltered(stack'[k])
          OBVIOUS
        <5>1. k \in Nat /\ k <= Len(ops)
          BY <2>1, <2>2, MovedAt
        <5>2. k \in DOMAIN ops /\ stack'[k] = ops[k]
          BY <2>1, <5>1, MovedAt
        <5> QED BY <2>3, <5>2
      <4>4. \A d \in Elem : data'[d] = a => d = e
        BY <2>1 DEF IInv, JInv, QueueInv
      <4> QED BY <2>1, <2>2, <4>2, <4>3, <4>4 DEF CleanAt
    <3> QED BY <3>1, <3>2
  <2> QED BY <2>4 DEF CleanInv
<1>3. ASSUME NEW e \in Elem, NEW item, NEW ops,
             \/ Emptied(e, ops) \/ Cleaned(e, ops) \/ Skipped(e, item, ops)
             \/ Completed(e, item, ops) \/ \E n : Started(e, item, n, ops)
      PROVE  CleanInv'
  <2>1. /\ Moved(ops) /\ Apart(e) /\ Arrays
        /\ data'[e] = data[e] \/ data'[e] = NoArray
        /\ \/ ops = << >> \/ ops = <<CompleteOp(e, item)>>
           \/ /\ ops = <<DequeueOp(e), CallOp(item.old)>> /\ stack[1].op = "complete"
              /\ stack[1].item = item
    BY <1>3 DEF Emptied, Cleaned, Skipped, Completed, Started, Same
  <2>2. \A i \in DOMAIN ops :
           \/ ops[i].op \in {"dequeue", "complete"}
           \/ /\ ops[i].op = "call" /\ ops[i].callback = item.old
              /\ stack[1].op = "complete" /\ stack[1].item = item
    BY <2>1 DEF CompleteOp, DequeueOp, CallOp
  <2>3. stack[1].op = "complete" =>
           stack[1].item.old.fn \in {"none", "enable", "show_report", "show_libraries"}
    <3>1. stack[1] \in Operation
      BY <2>1 DEF Moved
    <3>2. stack[1].op = "complete" => stack[1].item.old \in FxCallback
      BY <3>1, OperationFields, ItemFields
    <3>3. \A c \in FxCallback : c.fn \in {"none", "enable", "show_report", "show_libraries"}
      BY DEF FxCallback
    <3> QED BY <3>2, <3>3
  <2>4. \A i \in DOMAIN ops : Sheltered(ops[i]) /\ ops[i].op # "cleanup"
    BY <2>2, <2>3 DEF Sheltered
  <2>5. \A d \in Elem : data[d] = NoArray => data'[d] = NoArray
    BY <2>1 DEF Apart, Same
  <2>6. \A d \in Solo : data[d] = NoArray => data'[d] = NoArray
    BY <2>5, Elements
  <2> QED BY <2>1, <2>4, <2>6, CleanMoved
<1>4. ASSUME NEW ops, Acts(ops) PROVE CleanInv'
  <2>1. /\ Moved(ops) /\ data' = data /\ arrays' = arrays
        /\ \A i \in DOMAIN ops : /\ ops[i].op # "cleanup"
                                 /\ Sheltered(stack[1]) => Sheltered(ops[i])
    BY <1>4 DEF Acts, Calm
  <2>2. Arrays
    BY <2>1 DEF Arrays
  <2> QED BY <2>1, <2>2, CleanMoved
<1>5. CASE Drops \/ TickEnded
  BY <1>5 DEF Drops, TickEnded, CleanInv
<1>6. CASE (\E ops : Begins(ops)) \/ (\E div, ops : Opens(div, ops))
  BY <1>6 DEF Begins, Opens, CleanInv
<1>7. ASSUME NEW t, NEW e, NEW item, Ticked(t, e, item) PROVE CleanInv'
  BY <1>7 DEF Ticked, CleanInv, CompleteOp, TickEndOp
<1>8. CASE UNCHANGED vars
  BY <1>8 DEF CleanInv, CleanAt, vars, jQueryVars, fx
<1> QED BY <1>1, <1>2, <1>3, <1>4, <1>5, <1>6, <1>7, <1>8 DEF Effect

-----------------------------------------------------------------------------
(* The timers of the elements that are not shown again by callbacks *)

\* An element that nothing happens to keeps its timer.
LEMMA TimerStays ==
  ASSUME NEW e, OneTimer(e), Same(e), HotAt(stack', e) => HotAt(stack, e)
  PROVE  OneTimer(e)'
BY DEF OneTimer, Same

\* Only the first of a queue runs.
LEMMA RunNext ==
  ASSUME IInv, NEW e, NEW item, NEW ops,
         \/ Queued(e, item, ops) \/ Skipped(e, item, ops) \/ Completed(e, item, ops)
         \/ \E n : Started(e, item, n, ops)
         \/ Emptied(e, ops) \/ Cleaned(e, ops)
  PROVE  \A d : ~At("run", d)'
<1>1. /\ Moved(ops)
      /\ \/ ops = << >> \/ ops = <<DequeueOp(e)>> \/ ops = <<CompleteOp(e, item)>>
         \/ ops = <<DequeueOp(e), CallOp(item.old)>>
  BY DEF Queued, Skipped, Completed, Started, Emptied, Cleaned
<1>2. CASE ops = << >>
  BY <1>1, <1>2, ColdNext
<1>3. CASE ops # << >>
  <2>1. stack'[1] = ops[1]
    BY <1>1, <1>3, FirstNext
  <2>2. ops[1].op \in {"dequeue", "complete"}
    BY <1>1, <1>3 DEF DequeueOp, CompleteOp
  <2> QED BY <2>1, <2>2 DEF At
<1> QED BY <1>2, <1>3

LEMMA TimerNext ==
  ASSUME IInv, CleanInv, TimerInv, Effect
  PROVE  TimerInv'
<1>0. /\ \A d \in Solo : d \in Elem /\ OneTimer(d)
      /\ \A d \in Elem : At("run", d) => data[d] # NoArray
  BY Elements DEF TimerInv
<1>1. ASSUME NEW e \in Elem, NEW item, NEW ops, Queued(e, item, ops)
      PROVE  TimerInv'
  <2>1. /\ Moved(ops) /\ Apart(e) /\ \A d : d # e => ~HotAt(stack', d)
    BY <1>1, WorkOn
  <2>2. \A d : ~At("run", d)'
    BY <1>1, RunNext
  <2>3. ASSUME NEW d \in Solo PROVE OneTimer(d)'
    <3>1. CASE d # e
      BY <1>0, <2>1, <3>1, TimerStays DEF Apart
    <3>2. CASE d = e
      <4>1. /\ data'[e] # NoArray /\ visible'[e] = visible[e] /\ Going(e)' = Going(e)
            /\ data[e] = NoArray \/ ops = << >>
        BY <1>1 DEF Queued
      <4>2. ops = << >> => ~HotAt(stack', e)
        BY <2>1, ColdNext
      <4>3. HotAt(stack', e) => Going(e)' = {}
        BY <1>0, <3>2, <4>1, <4>2 DEF OneTimer
      <4> QED BY <1>0, <3>2, <4>1, <4>3 DEF OneTimer
    <3> QED BY <3>1, <3>2
  <2> QED BY <2>2, <2>3 DEF TimerInv
<1>2. ASSUME NEW e \in Elem, NEW a, NEW ops, Taken(e, a, ops)
      PROVE  TimerInv'
  <2>1. /\ Moved(ops) /\ Apart(e)
        /\ \A d : d # e => ~HotAt(stack', d) /\ ~At("run", d)'
    BY <1>2, WorkOn
  <2>2. /\ data' = data /\ data[e] # NoArray /\ HotAt(stack, e)
        /\ visible'[e] = visible[e] /\ Going(e)' = Going(e)
    BY <1>2 DEF Taken, Moved, HotAt, Hot
  <2>3. ASSUME NEW d \in Solo PROVE OneTimer(d)'
    <3>1. CASE d # e
      BY <1>0, <2>1, <3>1, TimerStays DEF Apart
    <3>2. CASE d = e
      BY <1>0, <2>2, <3>2 DEF OneTimer
    <3> QED BY <3>1, <3>2
  <2> QED BY <2>1, <2>2, <2>3 DEF TimerInv
<1>3. ASSUME NEW e \in Elem, NEW item, NEW ops,
             Emptied(e, ops) \/ Skipped(e, item, ops) \/ Completed(e, item, ops)
      PROVE  TimerInv'
  <2>1. /\ Moved(ops) /\ Apart(e)
        /\ \A d : d # e => ~HotAt(stack', d)
    BY <1>3, WorkOn
  <2>2. \A d : ~At("run", d)'
    BY <1>3, RunNext
  <2>3. HotAt(stack, e) /\ visible'[e] = visible[e] /\ Going(e)' = Going(e)
    BY <1>3 DEF Emptied, Skipped, Completed, Same, Moved, HotAt, Hot
  <2>4. ASSUME NEW d \in Solo PROVE OneTimer(d)'
    <3>1. CASE d # e
      BY <1>0, <2>1, <3>1, TimerStays DEF Apart
    <3>2. CASE d = e
      BY <1>0, <2>3, <3>2 DEF OneTimer
    <3> QED BY <3>1, <3>2
  <2> QED BY <2>2, <2>4 DEF TimerInv
<1>4. ASSUME NEW e \in Elem, NEW ops, Cleaned(e, ops)
      PROVE  TimerInv'
  <2>1. /\ Moved(ops) /\ Apart(e) /\ ops = << >>
        /\ stack[1].op = "cleanup" /\ stack[1].elem = e
        /\ Same(e) \/ arrays[stack[1].array] = << >>
        /\ visible'[e] = visible[e] /\ Going(e)' = Going(e)
    BY <1>4 DEF Cleaned
  <2>2. /\ \A d : ~HotAt(stack', d)
        /\ \A d : ~At("run", d)'
    BY <2>1, ColdNext
  <2>3. ASSUME NEW d \in Solo PROVE OneTimer(d)'
    <3>1. CASE Same(d)
      BY <1>0, <2>2, <3>1, TimerStays
    <3>2. CASE ~Same(d)
      <4>1. d = e /\ arrays[stack[1].array] = << >>
        BY <1>0, <2>1, <3>2 DEF Apart
      <4>2. CleanAt(1)
        BY <2>1, MovedAt DEF CleanInv
      <4>3. data[e] = NoArray
        BY <2>1, <4>1, <4>2 DEF CleanAt
      <4>4. Going(e) = {}
        BY <1>0, <4>1, <4>3 DEF OneTimer
      <4> QED BY <2>1, <4>1, <4>4 DEF OneTimer
    <3> QED BY <3>1, <3>2
  <2> QED BY <2>2, <2>3 DEF TimerInv
<1>5. ASSUME NEW e \in Elem, NEW item, NEW n, NEW ops, Started(e, item, n, ops)
      PROVE  TimerInv'
  <2>1. /\ Moved(ops) /\ Apart(e) /\ ops = << >> /\ HotAt(stack, e) /\ At("run", e)
        /\ data'[e] = data[e] /\ visible'[e] = TRUE /\ Going(e)' = Going(e) \cup {n}
    BY <1>5 DEF Started, Moved, HotAt, Hot, At
  <2>2. /\ \A d : ~HotAt(stack', d)
        /\ \A d : ~At("run", d)'
    BY <2>1, ColdNext
  <2>3. ASSUME NEW d \in Solo PROVE OneTimer(d)'
    <3>1. CASE d # e
      BY <1>0, <2>1, <2>2, <3>1, TimerStays DEF Apart
    <3>2. CASE d = e
      <4>1. Going(e)' = {n} /\ data'[e] # NoArray
        BY <1>0, <2>1, <3>2 DEF OneTimer
      <4> QED BY <2>1, <2>2, <3>2, <4>1 DEF OneTimer
    <3> QED BY <3>1, <3>2
  <2> QED BY <2>2, <2>3 DEF TimerInv
<1>6. ASSUME NEW ops, Acts(ops) PROVE TimerInv'
  <2>1. Moved(ops) /\ \A d \in Elem : Same(d)
    BY <1>6 DEF Acts, Calm
  <2>2. ops = << >> \/ ~Hot(ops[1])
    <3>1. \A i \in DOMAIN ops : ops[i].op \in {"queue", "ajax"}
      BY <1>6 DEF Acts
    <3> QED BY <2>1, <3>1, FirstNext DEF Hot
  <2>3. \A d : ~HotAt(stack', d) /\ ~At("run", d)'
    BY <2>1, <2>2, ColdNext
  <2> QED BY <1>0, <2>1, <2>3, TimerStays DEF TimerInv
<1>7. CASE Drops \/ (\E ops : Begins(ops)) \/ (\E div, ops : Opens(div, ops))
  <2>1. \A d \in Elem : Same(d)
    BY <1>7 DEF Drops, Begins, Opens, Calm
  <2>2. \A d : ~HotAt(stack', d) /\ ~At("run", d)'
    <3>1. stack' = << >> \/ stack'[1].op \in {"queue", "ajax", "call", "done"}
      <4>1. CASE Drops
        BY <4>1 DEF Drops
      <4>2. ASSUME NEW ops, Begins(ops) \/ \E div : Opens(div, ops), stack' # << >>
            PROVE  stack'[1].op \in {"queue", "ajax", "call", "done"}
        <5>1. 1 \in DOMAIN ops /\ stack' = ops
          <6>1. ops \in Seq(Operation) /\ stack' = ops
            BY <4>2 DEF Begins, Opens
          <6>2. Len(ops) \in Nat \ {0} /\ DOMAIN ops = 1 .. Len(ops)
            BY <4>2, <6>1, EmptySeq, LenProperties
          <6> QED BY <6>1, <6>2
        <5> QED BY <4>2, <5>1 DEF Begins, Opens
      <4> QED BY <1>7, <4>1, <4>2
    <3> QED BY <3>1 DEF HotAt, Hot, At
  <2> QED BY <1>0, <2>1, <2>2, TimerStays DEF TimerInv
<1>8. ASSUME NEW t, NEW e \in Elem, NEW item, Ticked(t, e, item)
      PROVE  TimerInv'
  <2>1. /\ stack' = <<CompleteOp(e, item), TickEndOp(t)>> /\ Apart(e)
        /\ t \in Going(e) /\ Going(e)' = Going(e) \ {t}
    BY <1>8 DEF Ticked
  <2>2. /\ \A d : d # e => ~HotAt(stack', d)
        /\ \A d : ~At("run", d)'
    BY <2>1 DEF HotAt, At, CompleteOp
  <2>3. ASSUME NEW d \in Solo PROVE OneTimer(d)'
    <3>1. CASE d # e
      BY <1>0, <2>1, <2>2, <3>1, TimerStays DEF Apart
    <3>2. CASE d = e
      <4>1. Going(e)' = {}
        BY <1>0, <2>1, <3>2 DEF OneTimer
      <4> QED BY <3>2, <4>1 DEF OneTimer
    <3> QED BY <3>1, <3>2
  <2> QED BY <2>2, <2>3 DEF TimerInv
<1>9. CASE TickEnded
  <2>1. /\ stack' = << >> /\ UNCHANGED <<data, visible>>
        /\ \A d : \A k \in Going(d)' : \E t \in Going(d) : timers'[k] = timers[t]
        /\ \A d : (\A t, u \in Going(d) : t = u) => \A k, l \in Going(d)' : k = l
    BY <1>9 DEF TickEnded
  <2>2. ASSUME NEW d \in Solo PROVE OneTimer(d)'
    <3>1. Going(d) = {} => Going(d)' = {}
      BY <2>1
    <3>2. \A k, l \in Going(d)' : k = l
      BY <1>0, <2>1 DEF OneTimer
    <3> QED BY <1>0, <2>1, <3>1, <3>2 DEF OneTimer, HotAt
  <2>3. \A d : ~At("run", d)'
    BY <2>1 DEF At
  <2> QED BY <2>2, <2>3 DEF TimerInv
<1>10. CASE UNCHANGED vars
  BY <1>10 DEF TimerInv, OneTimer, Going, Keeps, HotAt, Hot, At, vars, jQueryVars, fx
<1> QED BY <1>1, <1>2, <1>3, <1>4, <1>5, <1>6, <1>7, <1>8, <1>9, <1>10 DEF Effect

-----------------------------------------------------------------------------
(* What is done last to an element *)

\* Nothing changes for an element to which nothing happens.
LEMMA LaterSame ==
  ASSUME NEW e, Same(e), ~At("run", e), ~At("run", e)', NEW kind, Later(e, kind)
  PROVE  Later(e, kind)'
BY DEF Later, Same

\* The script goes on; if it has queued the last one, that waits now.
LEMMA EndsMoved ==
  ASSUME NEW ops, Moved(ops), NEW e, NoneOf(ops, e), NEW kind, Ends(e, kind),
         Queues(stack[1], e) /\ stack[1].item.kind = kind /\ NoneOf(stack', e)
            => Later(e, kind)',
         ~Queues(stack[1], e) /\ Later(e, kind) => Later(e, kind)'
  PROVE  Ends(e, kind)'
<1>1. DOMAIN stack = 1 .. Len(stack) /\ DOMAIN ops = 1 .. Len(ops)
      /\ Replaces(Operation, stack, ops, stack') /\ 1 \in DOMAIN stack
  BY MovedAt, LenProperties DEF Moved
<1>2. /\ NoneOf(stack, e) => NoneOf(stack', e)
      /\ LastIs(stack, e, kind) /\ ~Queues(stack[1], e) => LastIs(stack', e, kind)
      /\ LastIs(stack, e, kind) /\ Queues(stack[1], e)
            => \/ LastIs(stack', e, kind)
               \/ NoneOf(stack', e) /\ stack[1].item.kind = kind
  BY <1>1, QueuesMove2
<1>3. NoneOf(stack, e) => ~Queues(stack[1], e)
  BY <1>1 DEF NoneOf
<1>4. Ends(e, kind)' <=> \/ LastIs(stack', e, kind)
                         \/ NoneOf(stack', e) /\ Later(e, kind)'
  BY DEF Ends
<1> QED BY <1>2, <1>3, <1>4 DEF Ends

\* The operations on a queue do not change what is done last.
LEMMA EndsStay ==
  ASSUME IInv, CleanInv, TimerInv, NEW e \in Elem, NEW item, NEW ops,
         \/ Queued(e, item, ops) \/ Skipped(e, item, ops) \/ Completed(e, item, ops)
         \/ \E n : Started(e, item, n, ops)
         \/ \E a : Taken(e, a, ops)
         \/ Emptied(e, ops) \/ Cleaned(e, ops),
         NEW d \in Solo, NEW kind, Ends(d, kind)
  PROVE  Ends(d, kind)'
<1>0. /\ d \in Elem /\ OneTimer(d) /\ FxTypes
      /\ Moved(ops) /\ Apart(e) /\ stack[1].elem = e /\ NoneOf(ops, d)
      /\ d # e => /\ ~Queues(stack[1], d) /\ ~At("run", d) /\ ~At("run", d)'
  BY WorkOn, Elements DEF TimerInv, IInv, JInv
<1>1. CASE d # e
  <2>1. Same(d)
    BY <1>0, <1>1 DEF Apart
  <2>2. Later(d, kind) => Later(d, kind)'
    BY <1>0, <1>1, <2>1, LaterSame
  <2> QED BY <1>0, <1>1, <2>2, EndsMoved
<1>2. CASE d = e
  <2>0. stack # << >> /\ Waiting(e) \in Seq(Item)
    BY <1>0, WaitingType DEF Moved
  <2>1. CASE Queued(e, item, ops)
    <3>1. stack[1].item = item /\ Waiting(e)' = Append(Waiting(e), item)
          /\ Queues(stack[1], e)
      BY <2>1 DEF Queued, Queues
    <3>2. item \in Item
      <4>1. stack[1] \in Operation
        BY <1>0 DEF Moved
      <4> QED BY <3>1, <4>1, OperationFields DEF Queues
    <3>3. Waiting(e)' # << >> /\ Waiting(e)'[Len(Waiting(e)')] = item
      BY <2>0, <3>1, <3>2, LastWaiting
    <3>4. item.kind = kind => Later(e, kind)'
      BY <3>3 DEF Later
    <3> QED BY <1>0, <1>2, <3>1, <3>4, EndsMoved
  <2>2. CASE ~Queued(e, item, ops)
    <3>1. stack[1].op # "queue"
      BY <2>1, <2>2 DEF Skipped, Completed, Started, Taken, Emptied, Cleaned
    <3>2. SUFFICES Later(e, kind) => Later(e, kind)'
      BY <1>0, <1>2, <3>1, EndsMoved DEF Queues
    <3> SUFFICES ASSUME Later(e, kind) PROVE Later(e, kind)'
      OBVIOUS
    <3>3. ASSUME NEW a, Taken(e, a, ops) PROVE Later(e, kind)'
      <4>1. /\ Waiting(e) # << >> /\ Waiting(e)' = Tail(Waiting(e))
            /\ stack' # << >> /\ stack'[1] = RunOp(e, Head(Waiting(e)))
        BY <1>0, <3>3, FirstNext DEF Taken
      <4>2. Waiting(e)[Len(Waiting(e))].kind = kind
        BY <4>1 DEF Later
      <4>3. CASE Tail(Waiting(e)) = << >>
        <5>1. Head(Waiting(e)).kind = kind
          BY <2>0, <4>1, <4>2, <4>3, FirstWaiting
        <5>2. At("run", e)' /\ stack'[1].item.kind = kind
          BY <4>1, <5>1 DEF At, RunOp
        <5> QED BY <4>1, <4>3, <5>2 DEF Later
      <4>4. CASE Tail(Waiting(e)) # << >>
        <5>1. Waiting(e)'[Len(Waiting(e)')].kind = kind
          BY <2>0, <4>1, <4>2, <4>4, FirstWaiting
        <5> QED BY <4>1, <4>4, <5>1 DEF Later
      <4> QED BY <4>3, <4>4
    <3>4. CASE Emptied(e, ops)
      <4>1. /\ Waiting(e) = << >> /\ Waiting(e)' = << >> /\ visible'[e] = visible[e]
            /\ Going(e)' = Going(e) /\ stack[1].op = "dequeue"
        BY <3>4 DEF Emptied
      <4>2. Going(e) = {}
        BY <1>0, <1>2, <2>0, <4>1 DEF OneTimer, HotAt, Hot
      <4>3. ~At("run", e) /\ ~At("run", e)'
        BY <3>4, <4>1, RunNext DEF At
      <4> QED BY <4>1, <4>2, <4>3 DEF Later
    <3>5. CASE Cleaned(e, ops)
      <4>1. /\ visible'[e] = visible[e] /\ Going(e)' = Going(e) /\ timers' = timers
            /\ stack[1].op = "cleanup"
            /\ \/ Waiting(e)' = Waiting(e)
               \/ arrays[stack[1].array] = << >> /\ Waiting(e)' = << >>
        BY <3>5 DEF Cleaned, Same
      <4>2. ~At("run", e) /\ ~At("run", e)'
        BY <3>5, <4>1, RunNext DEF At
      <4>3. Waiting(e)' = Waiting(e)
        <5>1. CleanAt(1)
          BY <1>0, <4>1, MovedAt DEF CleanInv
        <5>2. arrays[stack[1].array] = << >> => data[e] = NoArray
          BY <1>0, <1>2, <5>1 DEF CleanAt
        <5> QED BY <4>1, <5>2 DEF Waiting
      <4> QED BY <4>1, <4>2, <4>3 DEF Later
    <3>6. CASE Skipped(e, item, ops)
      <4>1. /\ Same(e) /\ At("run", e) /\ stack[1].item = item
            /\ visible[e] = (item.kind = "show") /\ Going(e) = {}
        BY <1>0, <1>2, <2>0, <3>6 DEF Skipped, At, OneTimer, HotAt, Hot
      <4>2. ~At("run", e)'
        BY <3>6, RunNext
      <4>3. /\ Waiting(e)' = Waiting(e) /\ Going(e)' = {} /\ visible'[e] = visible[e]
        BY <4>1 DEF Same
      <4> QED BY <4>1, <4>2, <4>3 DEF Later
    <3>7. CASE Completed(e, item, ops)
      <4>1. Same(e) /\ ~At("run", e) /\ ~At("run", e)'
        BY <3>7, RunNext DEF Completed, At
      <4> QED BY <4>1, LaterSame
    <3>8. ASSUME NEW n, Started(e, item, n, ops) PROVE Later(e, kind)'
      <4>1. /\ Waiting(e)' = Waiting(e) /\ At("run", e) /\ stack[1].item = item
            /\ Going(e)' = Going(e) \cup {n} /\ timers'[n] = [elem |-> e, item |-> item]
        BY <2>0, <3>8 DEF Started, At
      <4>2. ~At("run", e)'
        BY <3>8, RunNext
      <4>3. timers'[n].item = item /\ n \in Going(e)'
        BY <4>1
      <4> QED BY <4>1, <4>2, <4>3 DEF Later
    <3> QED BY <2>2, <3>3, <3>4, <3>5, <3>6, <3>7, <3>8
  <2> QED BY <2>1, <2>2
<1> QED BY <1>1, <1>2

\* Nor does the end of an animation, or of a script.
LEMMA EndsTick ==
  ASSUME IInv, TimerInv, NEW d \in Solo, NEW kind, Ends(d, kind),
         \/ TickEnded \/ Drops
         \/ \E e \in Elem, item \in Item : \E t : Ticked(t, e, item)
  PROVE  Ends(d, kind)'
<1>0. d \in Elem /\ OneTimer(d) /\ FxTypes
  BY Elements DEF TimerInv, IInv, JInv
<1>1. ASSUME NEW e \in Elem, NEW item \in Item, NEW t, Ticked(t, e, item)
      PROVE  Ends(d, kind)'
  <2>1. /\ stack = << >> /\ stack' = <<CompleteOp(e, item), TickEndOp(t)>>
        /\ timers[t] = [elem |-> e, item |-> item] /\ t \in Going(e) /\ Apart(e)
        /\ Waiting(e)' = Waiting(e) /\ Going(e)' = Going(e) \ {t}
        /\ visible'[e] = (visible[e] /\ item.kind = "show")
    BY <1>1 DEF Ticked
  <2>2. NoneOf(stack', d) /\ ~At("run", d)' /\ ~At("run", d)
    BY <2>1 DEF NoneOf, Queues, At, CompleteOp, TickEndOp
  <2>3. Later(d, kind)
    BY <2>1 DEF Ends, LastIs
  <2>4. Later(d, kind)'
    <3>1. CASE d # e
      BY <1>0, <2>1, <2>2, <2>3, <3>1, LaterSame DEF Apart
    <3>2. CASE d = e
      <4>1. Going(e) = {t} /\ Going(e)' = {} /\ visible[e] /\ timers[t].item = item
        BY <1>0, <2>1, <3>2 DEF OneTimer
      <4>2. visible[e] \in BOOLEAN
        BY <1>0 DEF FxTypes
      <4>3. Waiting(e) # << >> \/ item.kind = kind
        BY <2>2, <2>3, <3>2, <4>1 DEF Later
      <4> QED BY <2>1, <2>2, <2>3, <3>2, <4>1, <4>2, <4>3 DEF Later
    <3> QED BY <3>1, <3>2
  <2> QED BY <2>2, <2>4 DEF Ends
<1>2. CASE TickEnded
  <2>1. /\ stack # << >> /\ stack' = << >> /\ UNCHANGED visible
        /\ stack[1].op = "tickEnd" /\ Len(stack) = 1
        /\ Waiting(d)' = Waiting(d)
        /\ \A k \in Going(d)' : \E t \in Going(d) : timers'[k] = timers[t]
        /\ \A t \in Going(d) : \E k \in Going(d)' : timers'[k] = timers[t]
    BY <1>2 DEF TickEnded
  <2>2. DOMAIN stack = {1}
    <3>1. DOMAIN stack = 1 .. Len(stack)
      BY LenProperties DEF IInv, JInv
    <3> QED BY <2>1, <3>1
  <2>3. ~LastIs(stack, d, kind) /\ ~At("run", d) /\ NoneOf(stack', d) /\ ~At("run", d)'
    BY <2>1, <2>2 DEF LastIs, Queues, At, NoneOf
  <2>4. Later(d, kind)
    BY <2>3 DEF Ends
  <2>5. Going(d) = {} <=> Going(d)' = {}
    BY <2>1
  <2>6. (\E t \in Going(d) : timers[t].item.kind = kind)
           => \E k \in Going(d)' : timers'[k].item.kind = kind
    BY <2>1
  <2>7. Later(d, kind)'
    BY <2>1, <2>3, <2>4, <2>5, <2>6 DEF Later
  <2> QED BY <2>3, <2>7 DEF Ends
<1>3. CASE Drops
  <2>1. /\ stack # << >> /\ stack' = << >> /\ Same(d)
        /\ stack[1].op \in {"done", "call"}
        /\ \A j \in DOMAIN stack : stack[j].op # "queue"
    BY <1>0, <1>3 DEF Drops, Calm, Calls
  <2>2. ~LastIs(stack, d, kind) /\ ~At("run", d) /\ NoneOf(stack', d) /\ ~At("run", d)'
    BY <2>1 DEF LastIs, Queues, At, NoneOf
  <2>3. Later(d, kind)'
    BY <2>1, <2>2, LaterSame DEF Ends
  <2> QED BY <2>2, <2>3 DEF Ends
<1> QED BY <1>1, <1>2, <1>3

\* A callback that queues nothing for the element, or the beginning of such a
\* script, does not change it either.
LEMMA EndsActs ==
  ASSUME IInv, NEW d \in Solo, NEW kind, Ends(d, kind), NEW ops, NoneOf(ops, d),
         Acts(ops) \/ Begins(ops) \/ \E div : Opens(div, ops)
  PROVE  Ends(d, kind)'
<1>0. d \in Elem
  BY Elements
<1>1. CASE Acts(ops)
  <2>1. Moved(ops) /\ Same(d) /\ stack[1].op \in {"call", "ajax"}
    BY <1>0, <1>1 DEF Acts, Calm
  <2>2. ops = << >> \/ ~Hot(ops[1])
    <3>1. \A i \in DOMAIN ops : ops[i].op \in {"queue", "ajax"}
      BY <1>1 DEF Acts
    <3> QED BY <2>1, <3>1, FirstNext DEF Hot
  <2>3. ~At("run", d) /\ ~At("run", d)'
    BY <2>1, <2>2, ColdNext DEF At
  <2>4. Later(d, kind) => Later(d, kind)'
    BY <2>1, <2>3, LaterSame
  <2>5. ~Queues(stack[1], d)
    BY <2>1 DEF Queues
  <2> QED BY <2>1, <2>4, <2>5, EndsMoved
<1>2. CASE Begins(ops) \/ \E div : Opens(div, ops)
  <2>1. stack = << >> /\ stack' = ops /\ Same(d) /\ ops \in Seq(Operation)
        /\ \A i \in DOMAIN ops : ops[i].op # "run"
    BY <1>0, <1>2 DEF Begins, Opens, Calm
  <2>2. ~At("run", d) /\ ~At("run", d)'
    <3>1. ops # << >> => 1 \in DOMAIN ops
      BY <2>1, EmptySeq, LenProperties
    <3> QED BY <2>1, <3>1 DEF At
  <2>3. Later(d, kind)
    BY <2>1 DEF Ends, LastIs
  <2>4. Later(d, kind)'
    BY <2>1, <2>2, <2>3, LaterSame
  <2> QED BY <2>1, <2>4 DEF Ends
<1> QED BY <1>1, <1>2

-----------------------------------------------------------------------------
(* The message, and the accordion that was opened *)

\* A script that queues the last animation of an element.
LEMMA LastEnds ==
  ASSUME NEW ops, stack' = ops, NEW e, NEW kind, LastIs(ops, e, kind)
  PROVE  Ends(e, kind)'
<1>1. LastIs(stack', e, kind)
  OBVIOUS
<1> QED BY <1>1 DEF Ends, LastIs

LEMMA FlashNext ==
  ASSUME IInv, CleanInv, TimerInv, FlashInv, Effect
  PROVE  FlashInv'
<1>0. /\ flash_messages \in Solo
      /\ Slides \/ Ends(flash_messages, "hide")
      /\ Slides' \/ Ends(flash_messages, "hide")' => FlashInv'
  BY Elements DEF FlashInv, Slides
<1>1. ASSUME timeouts' = timeouts, Ends(flash_messages, "hide") => Ends(flash_messages, "hide")'
      PROVE  FlashInv'
  <2>1. Slides => Slides'
    BY <1>1 DEF Slides
  <2> QED BY <1>0, <1>1, <2>1
<1>2. ASSUME NEW e \in Elem, NEW item \in Item, NEW ops, timeouts' = timeouts,
             \/ Queued(e, item, ops) \/ Skipped(e, item, ops) \/ Completed(e, item, ops)
             \/ \E n : Started(e, item, n, ops)
      PROVE  FlashInv'
  BY <1>0, <1>1, <1>2, EndsStay
<1>3. ASSUME NEW e \in Elem, NEW ops, timeouts' = timeouts,
             (\E a \in Array : Taken(e, a, ops)) \/ Emptied(e, ops) \/ Cleaned(e, ops)
      PROVE  FlashInv'
  BY <1>0, <1>1, <1>3, EndsStay
<1>4. CASE /\ timeouts' = timeouts
           /\ \/ TickEnded \/ Drops
              \/ \E e \in Elem, item \in Item : \E t : Ticked(t, e, item)
  BY <1>0, <1>1, <1>4, EndsTick
<1>5. CASE Drops
  BY <1>4, <1>5 DEF Drops
<1>6. ASSUME NEW ops, Acts(ops) PROVE FlashInv'
  <2>1. CASE NoneOf(ops, flash_messages)
    BY <1>0, <1>6, <2>1, EndsActs DEF Acts
  <2>2. CASE ~NoneOf(ops, flash_messages)
    BY <1>0, <1>6, <2>2 DEF Acts, NoneOf, Queues
  <2> QED BY <2>1, <2>2
<1>7. ASSUME NEW ops, Begins(ops) PROVE FlashInv'
  <2>1. CASE LastIs(ops, flash_messages, "hide")
    BY <1>0, <1>7, <2>1, LastEnds DEF Begins
  <2>2. CASE ~LastIs(ops, flash_messages, "hide")
    BY <1>0, <1>7, <2>2, EndsActs DEF Begins
  <2> QED BY <2>1, <2>2
<1>8. ASSUME NEW div, NEW ops, Opens(div, ops) PROVE FlashInv'
  <2>1. NoneOf(ops, flash_messages) /\ timeouts' = timeouts
    BY <1>8, Elements DEF Opens, NoneOf, Queues
  <2> QED BY <1>0, <1>1, <1>8, <2>1, EndsActs
<1>9. CASE UNCHANGED vars
  BY <1>0, <1>1, <1>9 DEF Ends, LastIs, NoneOf, Later, Waiting, Going, Keeps, At,
     vars, jQueryVars, fx, pageVars
<1> QED BY <1>2, <1>3, <1>4, <1>5, <1>6, <1>7, <1>8, <1>9 DEF Effect

LEMMA OpenedNext ==
  ASSUME IInv, CleanInv, TimerInv, LinkInv, OpenedInv, Effect
  PROVE  OpenedInv'
<1> DEFINE kind(a) == IF a = opened THEN "show" ELSE "hide"
<1>0. \A a \in Accordions : a \in Solo /\ a \in Elem /\ Ends(a, kind(a))
  BY Elements DEF OpenedInv
<1>1. ASSUME opened' = opened, \A a \in Accordions : \A k : Ends(a, k) => Ends(a, k)'
      PROVE  OpenedInv'
  BY <1>0, <1>1 DEF OpenedInv
<1> HIDE DEF kind
<1>2. ASSUME NEW e \in Elem, NEW item \in Item, NEW ops, opened' = opened,
             \/ Queued(e, item, ops) \/ Skipped(e, item, ops) \/ Completed(e, item, ops)
             \/ \E n : Started(e, item, n, ops)
      PROVE  OpenedInv'
  BY <1>0, <1>1, <1>2, EndsStay
<1>3. ASSUME NEW e \in Elem, NEW ops, opened' = opened,
             (\E a \in Array : Taken(e, a, ops)) \/ Emptied(e, ops) \/ Cleaned(e, ops)
      PROVE  OpenedInv'
  BY <1>0, <1>1, <1>3, EndsStay
<1>4. CASE /\ opened' = opened
           /\ \/ TickEnded \/ Drops
              \/ \E e \in Elem, item \in Item : \E t : Ticked(t, e, item)
  BY <1>0, <1>1, <1>4, EndsTick
<1>5. CASE Drops
  BY <1>4, <1>5 DEF Drops
<1>6. ASSUME NEW ops, Acts(ops) \/ Begins(ops) PROVE OpenedInv'
  <2>1. \A a \in Accordions : NoneOf(ops, a)
    <3>1. \A i \in DOMAIN ops : ops[i].op = "queue" => ops[i].elem \in Shown \cup {flash_messages}
      BY <1>6 DEF Acts, Begins
    <3> QED BY <3>1, Elements DEF NoneOf, Queues
  <2>2. opened' = opened
    BY <1>6 DEF Acts, Begins
  <2> QED BY <1>0, <1>1, <1>6, <2>1, <2>2, EndsActs
<1>7. ASSUME NEW div, NEW ops, Opens(div, ops) PROVE OpenedInv'
  <2>1. /\ stack = << >> /\ stack' = ops /\ opened' = div /\ ~link_disabled
        /\ LastIs(ops, div, "show") /\ \A d \in Elem : Same(d)
        /\ \A a \in Accordions \ {div} : LastIs(ops, a, "hide") \/ (NoneOf(ops, a) /\ ~visible[a])
    BY <1>7 DEF Opens, Calm
  <2>2. ASSUME NEW a \in Accordions, NoneOf(ops, a), ~visible[a]
        PROVE  Ends(a, "hide")'
    <3>1. ~At("run", a) /\ Later(a, kind(a))
      BY <1>0, <2>1 DEF Ends, LastIs, At
    <3>2. a # opened
      <4> SUFFICES ASSUME a = opened PROVE FALSE
        OBVIOUS
      <4>1. data[a] = NoArray
        BY <2>1 DEF LinkInv
      <4>2. Waiting(a) = << >> /\ Going(a) = {}
        BY <1>0, <4>1 DEF Waiting, TimerInv, OneTimer
      <4>3. visible[a] = (kind(a) = "show")
        BY <3>1, <4>2 DEF Later
      <4> QED BY <2>2, <4>3 DEF kind
    <3>3. Ends(a, "hide")
      BY <1>0, <3>2 DEF kind
    <3> QED BY <1>0, <1>7, <2>2, <3>3, EndsActs
  <2>3. ASSUME NEW a \in Accordions
        PROVE  IF a = div THEN Ends(a, "show")' ELSE Ends(a, "hide")'
    BY <2>1, <2>2, <2>3, LastEnds
  <2>4. \A a \in Accordions :
           IF a = div THEN Ends(a, "show")' ELSE Ends(a, "hide")'
    BY <2>3
  <2> QED BY <2>1, <2>4 DEF OpenedInv, Ends, Later
<1>8. CASE UNCHANGED vars
  <2>1. opened' = opened /\ UNCHANGED <<stack, data, arrays, timers, visible>>
    BY <1>8 DEF vars, jQueryVars, fx, pageVars
  <2> QED BY <1>1, <2>1 DEF Ends, LastIs, NoneOf, Later, Waiting, Going, Keeps, At
<1> QED BY <1>2, <1>3, <1>4, <1>5, <1>6, <1>7, <1>8 DEF Effect

-----------------------------------------------------------------------------
(* The links of the accordion *)

\* Scripts that queue nothing new for accordion a.
LEMMA QueuesMoved ==
  ASSUME NEW ops, Moved(ops), NEW a, NoneOf(ops, a)
  PROVE  /\ NoneOf(stack, a) => NoneOf(stack', a)
         /\ ~Queues(stack[1], a) /\ NoneOf(stack', a) => NoneOf(stack, a)
         /\ OnlyLast(stack, a) => OnlyLast(stack', a)
         /\ OnlyLast(stack, a) /\ Queues(stack[1], a) /\ stack[1].item.kind = "show"
               => NoneOf(stack', a) /\ LastIs(stack, a, "show")
         /\ Queues(stack[1], a) => ~NoneOf(stack, a)
         /\ \A kind :
              /\ LastIs(stack', a, kind) => LastIs(stack, a, kind)
              /\ LastIs(stack, a, kind) /\ ~Queues(stack[1], a) => LastIs(stack', a, kind)
              /\ LastIs(stack, a, kind) /\ Queues(stack[1], a)
                    => \/ LastIs(stack', a, kind)
                       \/ NoneOf(stack', a) /\ stack[1].item.kind = kind
<1>1. DOMAIN stack = 1 .. Len(stack) /\ DOMAIN ops = 1 .. Len(ops)
      /\ Replaces(Operation, stack, ops, stack') /\ 1 \in DOMAIN stack
  BY MovedAt, LenProperties DEF Moved
<1>2. Queues(stack[1], a) => ~NoneOf(stack, a)
  BY <1>1 DEF NoneOf
<1>3. OnlyLast(stack, a) /\ Queues(stack[1], a) /\ stack[1].item.kind = "show"
         => LastIs(stack, a, "show")
  BY <1>1 DEF OnlyLast, LastIs
<1> QED BY <1>1, <1>2, <1>3, QueuesMove2

\* What is the last thing stays the last thing.
LEMMA FinalStays ==
  ASSUME NEW ops, Moved(ops), NEW a, NoneOf(ops, a), Final(a),
         UNCHANGED <<opened, link_disabled>>,
         Waiting(a)' = Waiting(a) \/ Waiting(a)' = << >>
  PROVE  Final(a)'
<1>1. NoneOf(stack', a)
  BY QueuesMoved DEF Final
<1> QED BY <1>1 DEF Final

\* Accordions to which nothing happens.
LEMMA ShowSame ==
  ASSUME NEW ops, Moved(ops), NEW a, NoneOf(ops, a), ShowInv(a), Same(a),
         ~Queues(stack[1], a), ~At("run", a)', ~At("complete", a)',
         UNCHANGED <<opened, link_disabled>>
  PROVE  ShowInv(a)'
<1>1. /\ OnlyLast(stack', a)
      /\ LastIs(stack', a, "show") => LastIs(stack, a, "show")
      /\ NoneOf(stack, a) => NoneOf(stack', a)
  BY QueuesMoved DEF ShowInv
<1>2. Waiting(a)' = Waiting(a) /\ Going(a)' = Going(a)
      /\ \A t \in Going(a) : timers'[t] = timers[t]
  BY DEF Same
<1>3. Final(a) => Final(a)'
  BY <1>2, FinalStays
<1> QED BY <1>1, <1>2, <1>3 DEF ShowInv

\* An animation joins those that wait: only the last one of the accordion
\* that was opened may show it.
LEMMA ShowQueued ==
  ASSUME IInv, NEW e \in Elem, NEW item \in Item, NEW ops, Queued(e, item, ops),
         NoneOf(ops, e), ShowInv(e), UNCHANGED <<opened, link_disabled>>
  PROVE  ShowInv(e)'
<1>1. /\ Moved(ops) /\ Queues(stack[1], e) /\ stack[1].item = item
      /\ Waiting(e)' = Append(Waiting(e), item)
      /\ Going(e)' = Going(e) /\ timers' = timers
      /\ ops = << >> \/ ops = <<DequeueOp(e)>>
  BY DEF Queued, Queues
<1>2. Waiting(e) \in Seq(Item)
  BY WaitingType DEF IInv, JInv
<1>3. /\ OnlyLast(stack', e)
      /\ LastIs(stack', e, "show") => LastIs(stack, e, "show")
      /\ ~NoneOf(stack, e)
      /\ item.kind = "show" => NoneOf(stack', e) /\ LastIs(stack, e, "show")
  BY <1>1, QueuesMoved DEF ShowInv
<1>4. ~At("run", e)' /\ ~At("complete", e)'
  <2>1. ops # << >> => stack'[1].op = "dequeue"
    BY <1>1, FirstNext DEF DequeueOp
  <2> QED BY <1>1, <2>1, ColdNext DEF At
<1>5. ASSUME NEW i \in DOMAIN Waiting(e)', Waiting(e)'[i].kind = "show"
      PROVE  /\ link_disabled /\ e = opened /\ NoneOf(stack', e)
             /\ i = Len(Waiting(e)')
  <2>1. \/ i = Len(Waiting(e)') /\ Waiting(e)'[i] = item
        \/ i \in DOMAIN Waiting(e) /\ Waiting(e)'[i] = Waiting(e)[i]
    BY <1>1, <1>2, <1>5, LastWaiting
  <2>2. ~(i \in DOMAIN Waiting(e) /\ Waiting(e)'[i] = Waiting(e)[i])
    BY <1>3, <1>5 DEF ShowInv
  <2> QED BY <1>3, <1>5, <2>1, <2>2 DEF ShowInv
<1>6. \A t \in Going(e)' : timers'[t].item.kind # "show"
  BY <1>1, <1>3 DEF ShowInv, Final
<1> QED BY <1>3, <1>4, <1>5, <1>6 DEF ShowInv

\* The next one of those that wait runs.
LEMMA ShowTaken ==
  ASSUME IInv, NEW e \in Elem, NEW a, NEW ops, Taken(e, a, ops),
         NoneOf(ops, e), ShowInv(e), OneTimer(e), UNCHANGED <<opened, link_disabled>>
  PROVE  ShowInv(e)'
<1>1. /\ Moved(ops) /\ ~Queues(stack[1], e) /\ HotAt(stack, e)
      /\ Waiting(e) # << >> /\ Waiting(e)' = Tail(Waiting(e))
      /\ Going(e)' = Going(e)
      /\ ops = <<RunOp(e, Head(Waiting(e))), CleanupOp(e, a)>>
  BY DEF Taken, Moved, Queues, HotAt, Hot
<1>2. Waiting(e) \in Seq(Item)
  BY WaitingType DEF IInv, JInv
<1>3. /\ OnlyLast(stack', e)
      /\ LastIs(stack', e, "show") => LastIs(stack, e, "show")
      /\ NoneOf(stack, e) => NoneOf(stack', e)
  BY <1>1, QueuesMoved DEF ShowInv
<1>4. Going(e)' = {}
  BY <1>1 DEF OneTimer
<1>5. /\ Head(Waiting(e)) = Waiting(e)[1] /\ 1 \in DOMAIN Waiting(e)
      /\ \A i \in DOMAIN Tail(Waiting(e)) :
            i + 1 \in DOMAIN Waiting(e) /\ Tail(Waiting(e))[i] = Waiting(e)[i + 1]
      /\ Tail(Waiting(e)) # << >> => Len(Waiting(e)) > 1
      /\ Len(Tail(Waiting(e))) = Len(Waiting(e)) - 1
      /\ Len(Waiting(e)) \in Nat \ {0}
  BY <1>1, <1>2, FirstWaiting
<1>6. ASSUME NEW i \in DOMAIN Waiting(e)', Waiting(e)'[i].kind = "show"
      PROVE  /\ link_disabled /\ e = opened /\ NoneOf(stack', e)
             /\ i = Len(Waiting(e)')
  <2>1. i + 1 \in DOMAIN Waiting(e) /\ Waiting(e)[i + 1].kind = "show"
    BY <1>1, <1>5, <1>6
  <2>2. link_disabled /\ e = opened /\ NoneOf(stack, e) /\ i + 1 = Len(Waiting(e))
    BY <2>1 DEF ShowInv
  <2>3. i \in Nat
    <3>1. Tail(Waiting(e)) \in Seq(Item)
      BY <1>1, <1>2, HeadTailProperties
    <3> QED BY <1>1, <1>6, <3>1, LenProperties
  <2>4. i = Len(Waiting(e)) - 1
    <3> DEFINE n == Len(Waiting(e))
    <3>1. n \in Nat \ {0} /\ i + 1 = n
      BY <1>5, <2>2
    <3> HIDE DEF n
    <3>2. i = n - 1
      BY <2>3, <3>1
    <3> QED BY <3>2 DEF n
  <2>5. i = Len(Waiting(e)')
    BY ONLY <1>1, <1>5, <2>4
  <2> QED BY <1>3, <2>2, <2>5
<1>7. /\ ~At("complete", e)'
      /\ Shows' => Final(e)'
  <2>1. stack' # << >> /\ stack'[1] = RunOp(e, Head(Waiting(e)))
    BY <1>1, FirstNext
  <2>2. ASSUME Shows' PROVE Final(e)'
    <3>1. Waiting(e)[1].kind = "show"
      BY <1>5, <2>1, <2>2 DEF Shows, RunOp
    <3>2. link_disabled /\ e = opened /\ NoneOf(stack, e) /\ 1 = Len(Waiting(e))
      BY <1>5, <3>1 DEF ShowInv
    <3>3. ~(Len(Waiting(e)) > 1)
      <4> DEFINE n == Len(Waiting(e))
      <4>1. 1 = n
        BY <3>2
      <4> HIDE DEF n
      <4>2. ~(n > 1)
        BY <4>1
      <4> QED BY <4>2 DEF n
    <3>4. Waiting(e)' = << >>
      BY <1>1, <1>5, <3>3, Zenon
    <3> QED BY <1>3, <3>2, <3>4 DEF Final
  <2> QED BY <2>1, <2>2 DEF At, RunOp
<1> QED BY <1>3, <1>4, <1>6, <1>7 DEF ShowInv

\* The other operations on the queue of an accordion.
LEMMA ShowWorked ==
  ASSUME IInv, NEW e \in Elem, NEW item, NEW ops, NoneOf(ops, e),
         \/ Emptied(e, ops) \/ Cleaned(e, ops) \/ Skipped(e, item, ops)
         \/ Completed(e, item, ops) \/ \E n : Started(e, item, n, ops),
         ShowInv(e), UNCHANGED <<opened, link_disabled>>
  PROVE  ShowInv(e)'
<1>1. /\ Moved(ops) /\ ~Queues(stack[1], e)
      /\ Waiting(e)' = Waiting(e) \/ Waiting(e)' = << >>
      /\ \/ timers' = timers /\ Going(e)' = Going(e)
         \/ \E n : /\ Going(e)' = Going(e) \cup {n}
                   /\ \A t \in DOMAIN timers : timers'[t] = timers[t]
                   /\ timers'[n] = [elem |-> e, item |-> item]
                   /\ stack[1].op = "run" /\ stack[1].elem = e /\ stack[1].item = item
      /\ \/ ops = << >> \/ ops = <<DequeueOp(e), CallOp(item.old)>>
         \/ /\ ops = <<CompleteOp(e, item)>>
            /\ stack[1].op = "run" /\ stack[1].elem = e /\ stack[1].item = item
  BY DEF Emptied, Cleaned, Skipped, Completed, Started, Same, Queues
<1>2. /\ OnlyLast(stack', e)
      /\ LastIs(stack', e, "show") => LastIs(stack, e, "show")
      /\ NoneOf(stack, e) => NoneOf(stack', e)
  BY <1>1, QueuesMoved DEF ShowInv
<1>3. Final(e) => Final(e)'
  BY <1>1, FinalStays
<1>4. /\ stack # << >>
      /\ stack[1].op = "run" /\ stack[1].elem = e /\ stack[1].item = item
         /\ item.kind = "show" => Final(e)
  BY <1>1 DEF ShowInv, At, Shows, Moved
<1>5. ~At("run", e)'
  BY RunNext
<1>6. At("complete", e)' /\ Shows' => Final(e)'
  <2>1. CASE ops = << >> \/ ops = <<DequeueOp(e), CallOp(item.old)>>
    <3>1. ops # << >> => stack'[1].op = "dequeue"
      BY <1>1, <2>1, FirstNext DEF DequeueOp
    <3> QED BY <1>1, <3>1, ColdNext DEF At
  <2>2. CASE /\ ops = <<CompleteOp(e, item)>>
             /\ stack[1].op = "run" /\ stack[1].elem = e /\ stack[1].item = item
    <3>1. stack'[1] = CompleteOp(e, item)
      BY <1>1, <2>2, FirstNext
    <3> QED BY <1>3, <1>4, <2>2, <3>1 DEF Shows, CompleteOp
  <2> QED BY <1>1, <2>1, <2>2
<1>7. ASSUME NEW t \in Going(e)', timers'[t].item.kind = "show"
      PROVE  Final(e)'
  <2>1. CASE t \in Going(e) /\ timers'[t] = timers[t]
    BY <1>3, <1>7, <2>1 DEF ShowInv
  <2>2. CASE ~(t \in Going(e) /\ timers'[t] = timers[t])
    <3>1. \A u \in Going(e) : u \in DOMAIN timers
      BY DEF Going
    <3>2. timers'[t] = [elem |-> e, item |-> item]
          /\ stack[1].op = "run" /\ stack[1].elem = e /\ stack[1].item = item
      BY <1>1, <1>7, <2>2, <3>1
    <3>3. timers'[t].item = item
      BY <3>2
    <3> QED BY <1>3, <1>4, <1>7, <3>2, <3>3
  <2> QED BY <2>1, <2>2
<1> QED BY <1>1, <1>2, <1>3, <1>5, <1>6, <1>7 DEF ShowInv

\* The callback that enables the links is called next, after the end of the
\* dequeue that precedes it.
LEMMA EnableBelow ==
  ASSUME LinkInv, NEW ops, Moved(ops), NEW i \in DOMAIN stack', i > Len(ops),
         Calls(stack'[i], "enable")
  PROVE  /\ opened \in Accordions /\ Final(opened) /\ At("dequeue", opened)
         /\ i = Len(ops) + 1
<1> DEFINE n == Len(ops)
<1>1. PICK j : /\ j \in DOMAIN stack /\ j > 1 /\ j = i - n + 1 /\ stack'[i] = stack[j]
               /\ i \in Nat /\ n \in Nat
  BY MovedAt
<1>2. EnableAt(j)
  BY <1>1 DEF LinkInv
<1>3. j = 2 /\ opened \in Accordions /\ Final(opened) /\ At("dequeue", opened)
  BY <1>1, <1>2 DEF EnableAt
<1>4. i = n + 1
  BY <1>1, <1>3
<1> QED BY <1>3, <1>4

\* The operations on a queue.
LEMMA LinkWork ==
  ASSUME IInv, SuitsInv, TimerInv, LinkInv, UNCHANGED <<opened, link_disabled>>,
         NEW e \in Elem, NEW item, NEW ops,
         \/ item \in Item /\ Queued(e, item, ops)
         \/ Skipped(e, item, ops) \/ Completed(e, item, ops)
         \/ \E n : Started(e, item, n, ops)
         \/ \E a : Taken(e, a, ops)
         \/ Emptied(e, ops) \/ Cleaned(e, ops)
  PROVE  LinkInv'
<1>1. /\ Moved(ops) /\ Apart(e) /\ stack[1].elem = e
      /\ stack[1].op \in {"queue", "dequeue", "run", "complete", "cleanup"}
      /\ \A d : d # e => /\ ~Queues(stack[1], d) /\ ~HotAt(stack', d)
                         /\ ~At("run", d)' /\ ~At("complete", d)'
      /\ \A d : NoneOf(ops, d)
      /\ stack # << >> /\ 1 \in DOMAIN stack
  <2>1. Moved(ops)
    BY WorkOn
  <2>2. stack # << >>
    BY <2>1 DEF Moved
  <2>3. 1 \in DOMAIN stack
    BY <2>1, MovedAt, Zenon
  <2>4. /\ Apart(e) /\ stack[1].elem = e /\ \A d : NoneOf(ops, d)
        /\ stack[1].op \in {"queue", "dequeue", "run", "complete", "cleanup"}
    BY WorkOn
  <2>5. \A d : d # e => /\ ~Queues(stack[1], d) /\ ~HotAt(stack', d)
                        /\ ~At("run", d)' /\ ~At("complete", d)'
    BY WorkOn
  <2> QED BY <2>1, <2>2, <2>3, <2>4, <2>5, Zenon
<1>2. ASSUME NEW a \in Accordions PROVE ShowInv(a)'
  <2>1. ShowInv(a) /\ OneTimer(a) /\ a \in Elem
    BY Elements DEF LinkInv, TimerInv
  <2>2. CASE a # e
    BY <1>1, <2>1, <2>2, ShowSame DEF Apart
  <2>3. CASE a = e
    BY <1>1, <2>1, <2>3, ShowQueued, ShowTaken, ShowWorked
  <2> QED BY <2>2, <2>3
<1>3. ASSUME NEW i \in DOMAIN stack', Calls(stack'[i], "enable")
      PROVE  EnableAt(i)'
  <2>1. CASE i > Len(ops)
    <3>1. /\ opened \in Accordions /\ Final(opened) /\ At("dequeue", opened)
          /\ i = Len(ops) + 1
      BY <1>1, <1>3, <2>1, EnableBelow
    <3>2. stack[1].op = "dequeue" /\ e = opened /\ Waiting(e) = << >>
      BY <1>1, <3>1 DEF At, Final
    <3>3. Emptied(e, ops)
      BY <3>2 DEF Queued, Skipped, Completed, Started, Taken, Cleaned
    <3>4. data'[opened] = NoArray /\ ops = << >> /\ Waiting(opened)' = << >>
      BY <3>2, <3>3 DEF Emptied
    <3>5. Final(opened)'
      <4>1. NoneOf(stack', opened)
        BY <1>1, <3>1, QueuesMoved DEF Final
      <4> QED BY <3>1, <3>4, <4>1 DEF Final
    <3>6. i = 1
      BY <3>1, <3>4
    <3> QED BY <3>1, <3>4, <3>5, <3>6 DEF EnableAt
  <2>2. CASE ~(i > Len(ops))
    <3>1. i \in DOMAIN ops /\ stack'[i] = ops[i]
      <4>1. i \in Nat /\ Len(ops) \in Nat
        BY <1>1, MovedAt
      <4>2. i <= Len(ops)
        BY <2>2, <4>1
      <4> QED BY <1>1, <4>2, MovedAt
    <3>2. Completed(e, item, ops)
      <4>1. \/ Completed(e, item, ops)
            \/ ops = << >> \/ ops = <<DequeueOp(e)>> \/ ops = <<CompleteOp(e, item)>>
            \/ \E a : ops = <<RunOp(e, Head(Waiting(e))), CleanupOp(e, a)>>
        BY DEF Queued, Skipped, Started, Taken, Emptied, Cleaned
      <4>2. Completed(e, item, ops) \/ ops[i].op # "call"
        BY <3>1, <4>1 DEF DequeueOp, CompleteOp, RunOp, CleanupOp
      <4> QED BY <1>3, <3>1, <4>2 DEF Calls
    <3>3. /\ ops = <<DequeueOp(e), CallOp(item.old)>> /\ Same(e)
          /\ stack[1].op = "complete" /\ stack[1].elem = e /\ stack[1].item = item
      BY <3>2 DEF Completed
    <3>4. i = 2 /\ item.old.fn = "enable" /\ DOMAIN ops = {1, 2} /\ ops[1] = DequeueOp(e)
      BY <1>3, <3>1, <3>3 DEF Calls, CallOp, DequeueOp
    <3>5. Suits(e, item)
      BY <1>1, <3>3 DEF SuitsInv
    <3>6. e \in Accordions /\ item.kind = "show"
      BY <3>4, <3>5 DEF Suits
    <3>7. Final(e)
      BY <1>1, <3>3, <3>6 DEF LinkInv, ShowInv, At, Shows
    <3>8. Final(e)'
      BY <1>1, <3>3, <3>7, FinalStays DEF Same
    <3>9. At("dequeue", e)'
      <4>1. stack' # << >> /\ stack'[1] = ops[1]
        BY <1>1, <3>3, FirstNext
      <4> QED BY <3>4, <4>1 DEF At, DequeueOp
    <3>10. e = opened /\ e = opened'
      BY <3>7 DEF Final
    <3> QED BY <3>4, <3>6, <3>8, <3>9, <3>10 DEF EnableAt, Final, At
  <2> QED BY <2>1, <2>2
<1>4. opened \in Accordions \cup {"none"}
  BY DEF LinkInv
<1>5. ASSUME ~link_disabled, opened \in Accordions
      PROVE  /\ data'[opened] = NoArray
             /\ NoneOf(stack', opened) /\ ~HotAt(stack', opened)
  <2>1. /\ data[opened] = NoArray /\ NoneOf(stack, opened) /\ ~HotAt(stack, opened)
        /\ opened \in Elem
    BY <1>5, Elements DEF LinkInv
  <2>2. NoneOf(stack', opened)
    BY <1>1, <2>1, QueuesMoved
  <2>3. CASE opened # e
    BY <1>1, <2>1, <2>2, <2>3 DEF Apart, Same
  <2>4. CASE opened = e
    <3>1. stack[1].op = "cleanup"
      BY <1>1, <2>1, <2>4 DEF NoneOf, Queues, HotAt, Hot
    <3>2. Cleaned(e, ops)
      BY <3>1 DEF Queued, Skipped, Completed, Started, Taken, Emptied
    <3>3. ops = << >> /\ data'[e] \in {data[e], NoArray}
      BY <3>2 DEF Cleaned, Same
    <3>4. ~HotAt(stack', e)
      BY <1>1, <3>3, ColdNext
    <3> QED BY <2>1, <2>2, <2>4, <3>3, <3>4
  <2> QED BY <2>3, <2>4
<1> QED BY <1>2, <1>3, <1>4, <1>5 DEF LinkInv

\* Callbacks; one of them enables the links.
LEMMA LinkActs ==
  ASSUME IInv, TimerInv, LinkInv, NEW ops, Acts(ops)
  PROVE  LinkInv'
<1>1. /\ Moved(ops) /\ opened' = opened /\ data' = data /\ \A d \in Elem : Same(d)
      /\ stack[1].op \in {"call", "ajax"} /\ stack # << >> /\ 1 \in DOMAIN stack
      /\ \A i \in DOMAIN ops : /\ ops[i].op \in {"queue", "ajax"}
                               /\ ops[i].op = "queue"
                                     => ops[i].elem \in Shown \cup {flash_messages}
      /\ link_disabled' = (link_disabled /\ ~AtCall("enable"))
  <2>1. Moved(ops)
    BY DEF Acts
  <2> QED BY <2>1, MovedAt DEF Acts, Calm, Moved
<1>2. \A a \in Accordions : NoneOf(ops, a)
  BY <1>1, Elements DEF NoneOf, Queues
<1>3. \A d : ~HotAt(stack', d) /\ ~At("run", d)' /\ ~At("complete", d)'
  <2>1. ops = << >> \/ ~Hot(ops[1])
    BY <1>1, FirstNext DEF Hot
  <2> QED BY <1>1, <2>1, ColdNext
<1>4. \A d : ~Queues(stack[1], d)
  BY <1>1 DEF Queues
<1>5. \A i \in DOMAIN stack' : ~Calls(stack'[i], "enable")
  <2> SUFFICES ASSUME NEW i \in DOMAIN stack', Calls(stack'[i], "enable") PROVE FALSE
    OBVIOUS
  <2>1. CASE i > Len(ops)
    <3>1. At("dequeue", opened)
      BY <1>1, <2>1, EnableBelow
    <3> QED BY <1>1, <3>1 DEF At
  <2>2. CASE ~(i > Len(ops))
    <3>1. i \in Nat /\ Len(ops) \in Nat
      BY <1>1, MovedAt
    <3>2. i <= Len(ops)
      BY <2>2, <3>1
    <3>3. i \in DOMAIN ops /\ stack'[i] = ops[i]
      BY <1>1, <3>2, MovedAt
    <3> QED BY <1>1, <3>3 DEF Calls
  <2> QED BY <2>1, <2>2
<1>6. opened \in Accordions \cup {"none"} /\ link_disabled \in BOOLEAN
  BY DEF LinkInv, IInv, PageTypes
<1>7. CASE ~AtCall("enable")
  <2>1. link_disabled' = link_disabled
    BY <1>1, <1>6, <1>7
  <2>2. \A a \in Accordions : ShowInv(a)'
    <3> TAKE a \in Accordions
    <3>1. ShowInv(a) /\ a \in Elem
      BY Elements DEF LinkInv
    <3> QED BY <1>1, <1>2, <1>3, <1>4, <2>1, <3>1, ShowSame
  <2>3. ~link_disabled /\ opened \in Accordions => data[opened] = NoArray /\ NoneOf(stack', opened)
    BY <1>1, <1>2, QueuesMoved DEF LinkInv
  <2> QED BY <1>1, <1>3, <1>5, <1>6, <2>1, <2>2, <2>3 DEF LinkInv
<1>8. CASE AtCall("enable")
  <2>1. EnableAt(1)
    BY <1>1, <1>8 DEF LinkInv, AtCall
  <2>2. /\ opened \in Accordions /\ data[opened] = NoArray
        /\ NoneOf(stack, opened) /\ Waiting(opened) = << >>
    BY <1>1, <2>1 DEF EnableAt, Final, At
  <2>3. Going(opened) = {}
    BY <2>2, Elements DEF TimerInv, OneTimer
  <2>4. NoneOf(stack', opened)
    BY <1>1, <1>2, <2>2, QueuesMoved
  <2>5. ASSUME NEW a \in Accordions PROVE ShowInv(a)'
    <3>1. /\ ShowInv(a) /\ Waiting(a)' = Waiting(a) /\ Going(a)' = Going(a)
          /\ \A t \in Going(a) : timers'[t] = timers[t]
      BY <1>1, Elements DEF LinkInv, Same
    <3>2. OnlyLast(stack', a) /\ (LastIs(stack', a, "show") => LastIs(stack, a, "show"))
      BY <1>1, <1>2, <3>1, QueuesMoved DEF ShowInv
    <3>3. ~LastIs(stack', a, "show")
      <4>1. ~LastIs(stack, opened, "show")
        BY <2>2 DEF LastIs, NoneOf
      <4> QED BY <3>1, <3>2, <4>1 DEF ShowInv
    <3>4. \A i \in DOMAIN Waiting(a) : Waiting(a)[i].kind # "show"
      BY <2>2, <3>1 DEF ShowInv
    <3>5. \A t \in Going(a) : timers[t].item.kind # "show"
      BY <2>3, <3>1 DEF ShowInv, Final
    <3> QED BY <1>3, <3>1, <3>2, <3>3, <3>4, <3>5 DEF ShowInv
  <2> QED BY <1>1, <1>3, <1>5, <2>2, <2>4, <2>5 DEF LinkInv
<1> QED BY <1>7, <1>8

\* The end of an animation or of a script.
LEMMA LinkEnds ==
  ASSUME IInv, TimerInv, LinkInv, UNCHANGED <<opened, link_disabled>>,
         \/ TickEnded \/ Drops
         \/ \E e \in Elem, item \in Item : \E t : Ticked(t, e, item)
  PROVE  LinkInv'
<1>0. /\ opened \in Accordions \cup {"none"}
      /\ \A a \in Accordions : ShowInv(a) /\ OneTimer(a) /\ a \in Elem
  BY Elements DEF LinkInv, TimerInv
<1>1. ASSUME NEW e \in Elem, NEW item \in Item, NEW t, Ticked(t, e, item)
      PROVE  LinkInv'
  <2>1. /\ stack = << >> /\ stack' = <<CompleteOp(e, item), TickEndOp(t)>>
        /\ timers[t] = [elem |-> e, item |-> item] /\ t \in Going(e) /\ Apart(e)
        /\ Waiting(e)' = Waiting(e) /\ Going(e)' = Going(e) \ {t}
        /\ data' = data /\ timers' = timers
    BY <1>1 DEF Ticked
  <2>2. timers[t].item = item
    BY <2>1
  <2>3. /\ DOMAIN stack' = {1, 2} /\ stack' # << >>
        /\ stack'[1] = CompleteOp(e, item) /\ stack'[2] = TickEndOp(t)
    BY <2>1
  <2>4. /\ \A d : NoneOf(stack', d) /\ OnlyLast(stack', d) /\ ~LastIs(stack', d, "show")
        /\ \A d : ~At("run", d)' /\ (At("complete", d)' => d = e)
        /\ Shows' => item.kind = "show"
        /\ \A i \in DOMAIN stack' : ~Calls(stack'[i], "enable")
    BY <2>3 DEF NoneOf, OnlyLast, LastIs, Queues, At, Shows, Calls, CompleteOp, TickEndOp
  <2>5. ASSUME NEW a \in Accordions PROVE ShowInv(a)'
    <3>1. /\ ShowInv(a) /\ Waiting(a)' = Waiting(a) /\ Going(a)' \subseteq Going(a)
      BY <1>0, <2>1 DEF Apart, Same
    <3>2. Final(a) => Final(a)'
      BY <2>4, <3>1 DEF Final
    <3>3. At("complete", a)' /\ Shows' => Final(a)
      BY <2>1, <2>2, <2>4, <3>1 DEF ShowInv
    <3> QED BY <2>1, <2>4, <3>1, <3>2, <3>3 DEF ShowInv
  <2>6. ~link_disabled /\ opened \in Accordions
           => data[opened] = NoArray /\ ~HotAt(stack', opened)
    <3> SUFFICES ASSUME ~link_disabled, opened \in Accordions
                 PROVE  data[opened] = NoArray /\ ~HotAt(stack', opened)
      OBVIOUS
    <3>1. data[opened] = NoArray
      BY DEF LinkInv
    <3>2. opened # e
      BY <1>0, <2>1, <3>1 DEF OneTimer
    <3> QED BY <2>3, <3>1, <3>2 DEF HotAt, CompleteOp
  <2> QED BY <1>0, <2>1, <2>4, <2>5, <2>6 DEF LinkInv
<1>2. CASE TickEnded \/ Drops
  <2>1. /\ stack' = << >> /\ data' = data
        /\ \A d \in Elem : Waiting(d)' = Waiting(d)
        /\ \A d \in Elem : \A k \in Going(d)' : \E t \in Going(d) : timers'[k] = timers[t]
    <3>1. CASE TickEnded
      BY <3>1 DEF TickEnded
    <3>2. CASE Drops
      BY <3>2 DEF Drops, Calm, Same
    <3> QED BY <1>2, <3>1, <3>2
  <2>2. /\ \A d : NoneOf(stack', d) /\ OnlyLast(stack', d) /\ ~LastIs(stack', d, "show")
        /\ \A d : ~At("run", d)' /\ ~At("complete", d)' /\ ~HotAt(stack', d)
        /\ \A i \in DOMAIN stack' : ~Calls(stack'[i], "enable")
    BY <2>1 DEF NoneOf, OnlyLast, LastIs, At, HotAt
  <2>3. ASSUME NEW a \in Accordions PROVE ShowInv(a)'
    <3>1. /\ ShowInv(a) /\ Waiting(a)' = Waiting(a)
          /\ \A k \in Going(a)' : \E t \in Going(a) : timers'[k] = timers[t]
      BY <1>0, <2>1
    <3>2. Final(a) => Final(a)'
      BY <2>2, <3>1 DEF Final
    <3>3. ASSUME NEW k \in Going(a)', timers'[k].item.kind = "show" PROVE Final(a)'
      <4>1. PICK t \in Going(a) : timers'[k] = timers[t]
        BY <3>1, <3>3
      <4> QED BY <3>1, <3>2, <3>3, <4>1 DEF ShowInv
    <3> QED BY <2>2, <3>1, <3>3 DEF ShowInv
  <2> QED BY <1>0, <2>1, <2>2, <2>3 DEF LinkInv
<1> QED BY <1>1, <1>2

\* The beginning of a script.
LEMMA LinkBegins ==
  ASSUME IInv, LinkInv, NEW ops, Begins(ops) \/ \E div : Opens(div, ops)
  PROVE  LinkInv'
<1>0. /\ opened \in Accordions \cup {"none"}
      /\ \A a \in Accordions : ShowInv(a) /\ a \in Elem
  BY Elements DEF LinkInv
<1>1. /\ stack = << >> /\ stack' = ops /\ data' = data /\ \A d \in Elem : Same(d)
      /\ \A i \in DOMAIN ops : /\ ops[i].op \in {"queue", "ajax", "call", "done"}
                               /\ ~Calls(ops[i], "enable")
      /\ ops \in Seq(Operation)
  BY DEF Begins, Opens, Calm, Calls
<1>2. \A d : ~At("run", d)' /\ ~At("complete", d)' /\ ~HotAt(stack', d)
  <2>1. ops # << >> => 1 \in DOMAIN ops
    BY <1>1, EmptySeq, LenProperties
  <2> QED BY <1>1, <2>1 DEF At, HotAt, Hot
<1>3. CASE Begins(ops)
  <2>1. UNCHANGED <<opened, link_disabled>>
    BY <1>3 DEF Begins
  <2>2. \A a \in Accordions : NoneOf(stack', a)
    BY <1>1, <1>3, Elements DEF Begins, NoneOf, Queues
  <2>3. ASSUME NEW a \in Accordions PROVE ShowInv(a)'
    <3>1. /\ ShowInv(a) /\ Waiting(a)' = Waiting(a) /\ Going(a)' = Going(a)
          /\ \A t \in Going(a) : timers'[t] = timers[t]
      BY <1>0, <1>1 DEF Same
    <3>2. NoneOf(stack', a) /\ OnlyLast(stack', a) /\ ~LastIs(stack', a, "show")
      BY <2>2 DEF NoneOf, OnlyLast, LastIs
    <3>3. Final(a) => Final(a)'
      BY <2>1, <3>1, <3>2 DEF Final
    <3> QED BY <1>2, <2>1, <3>1, <3>2, <3>3 DEF ShowInv
  <2> QED BY <1>0, <1>1, <1>2, <2>1, <2>2, <2>3 DEF LinkInv
<1>4. ASSUME NEW div, Opens(div, ops) PROVE LinkInv'
  <2>1. /\ ~link_disabled /\ link_disabled' /\ opened' = div /\ div \in Accordions
        /\ \A i \in DOMAIN ops : ops[i].item.kind = "show" => ops[i].elem = div /\ i = Len(ops)
    BY <1>4 DEF Opens
  <2>2. \A i \in DOMAIN ops : ~(i > Len(ops))
    BY <1>1, LenProperties
  <2>3. ASSUME NEW a \in Accordions PROVE ShowInv(a)'
    <3>1. /\ ShowInv(a) /\ Waiting(a)' = Waiting(a) /\ Going(a)' = Going(a)
          /\ \A t \in Going(a) : timers'[t] = timers[t]
      BY <1>0, <1>1 DEF Same
    <3>2. /\ \A i \in DOMAIN Waiting(a) : Waiting(a)[i].kind # "show"
          /\ \A t \in Going(a) : timers[t].item.kind # "show"
      BY <2>1, <3>1 DEF ShowInv, Final
    <3>3. OnlyLast(stack', a)
      BY <1>1, <2>1, <2>2 DEF OnlyLast, Queues
    <3>4. LastIs(stack', a, "show") => a = div
      BY <1>1, <2>1 DEF LastIs, Queues
    <3> QED BY <1>2, <2>1, <3>1, <3>2, <3>3, <3>4 DEF ShowInv
  <2> QED BY <1>1, <1>2, <2>1, <2>3 DEF LinkInv
<1> QED BY <1>3, <1>4

LEMMA LinkNext ==
  ASSUME IInv, SuitsInv, TimerInv, LinkInv, Effect
  PROVE  LinkInv'
<1>1. CASE /\ UNCHANGED <<opened, link_disabled, timeouts>>
           /\ \/ \E e \in Elem, item \in Item : \E ops :
                    \/ Queued(e, item, ops)
                    \/ Skipped(e, item, ops)
                    \/ Completed(e, item, ops)
                    \/ \E n : Started(e, item, n, ops)
              \/ \E e \in Elem : \E ops :
                    \/ \E a \in Array : Taken(e, a, ops)
                    \/ Emptied(e, ops)
                    \/ Cleaned(e, ops)
  BY <1>1, LinkWork
<1>2. CASE /\ UNCHANGED <<opened, link_disabled, timeouts>>
           /\ \/ TickEnded
              \/ \E e \in Elem, item \in Item : \E t : Ticked(t, e, item)
  BY <1>2, LinkEnds
<1>3. CASE Drops
  BY <1>3, LinkEnds DEF Drops
<1>4. CASE \E ops : Acts(ops)
  BY <1>4, LinkActs
<1>5. CASE (\E ops : Begins(ops)) \/ (\E div, ops : Opens(div, ops))
  BY <1>5, LinkBegins
<1>6. CASE UNCHANGED vars
  <2>1. UNCHANGED <<opened, link_disabled, stack, data, arrays, timers, visible>>
    BY <1>6 DEF vars, jQueryVars, fx, pageVars
  <2> QED BY <2>1 DEF LinkInv, ShowInv, EnableAt, Final, Waiting, Going, Keeps, At, Shows
<1> QED BY <1>1, <1>2, <1>3, <1>4, <1>5, <1>6 DEF Effect

\* What is being shown is being shown after an operation on a queue.
LEMMA ShowingWork ==
  ASSUME IInv, SuitsInv, CleanInv, NEW e \in Elem, NEW item, NEW ops,
         \/ item \in Item /\ Queued(e, item, ops)
         \/ Skipped(e, item, ops) \/ Completed(e, item, ops)
         \/ \E n : Started(e, item, n, ops)
         \/ \E a : Taken(e, a, ops)
         \/ Emptied(e, ops) \/ Cleaned(e, ops),
         NEW a \in Accordions, Showing(a)
  PROVE  Showing(a)'
<1>1. /\ Moved(ops) /\ Apart(e) /\ stack[1].elem = e
      /\ stack[1].op \in {"queue", "dequeue", "run", "complete", "cleanup"}
      /\ NoneOf(ops, a)
      /\ a # e => ~Queues(stack[1], a) /\ ~At("run", a) /\ ~At("complete", a)
      /\ stack # << >> /\ 1 \in DOMAIN stack /\ a \in Elem /\ FxTypes /\ a \in Solo
  <2>1. Moved(ops)
    BY WorkOn
  <2> QED BY <2>1, WorkOn, MovedAt, Elements DEF Moved, IInv, JInv
<1>2. CASE \E i \in DOMAIN stack : Calls(stack[i], "enable")
  <2>1. PICK j \in DOMAIN stack : Calls(stack[j], "enable")
    BY <1>2
  <2>2. j > 1
    <3>1. j # 1
      BY <1>1, <2>1 DEF Calls
    <3> QED BY <1>1, <3>1, MovedAt
  <2>3. j - 1 + Len(ops) \in DOMAIN stack' /\ stack'[j - 1 + Len(ops)] = stack[j]
    BY <1>1, <2>2, MovedAt
  <2> QED BY <2>1, <2>3 DEF Showing
<1>3. CASE LastIs(stack, a, "show") /\ ~Queues(stack[1], a)
  <2>1. LastIs(stack', a, "show")
    BY <1>1, <1>3, QueuesMoved
  <2> QED BY <2>1 DEF Showing
<1>4. CASE /\ ~\E i \in DOMAIN stack : Calls(stack[i], "enable")
           /\ ~(LastIs(stack, a, "show") /\ ~Queues(stack[1], a))
  <2>1. CASE a # e
    <3>1. /\ Waiting(a)' = Waiting(a) /\ Going(a)' = Going(a)
          /\ \A t \in Going(a) : timers'[t] = timers[t]
      BY <1>1, <2>1 DEF Apart, Same
    <3>2. \/ \E i \in DOMAIN Waiting(a) : Waiting(a)[i].kind = "show"
          \/ \E t \in Going(a) : timers[t].item.kind = "show"
      BY <1>1, <1>4, <2>1 DEF Showing
    <3> QED BY <3>1, <3>2 DEF Showing
  <2>2. CASE a = e
    <3>0. /\ \/ LastIs(stack, e, "show") /\ Queues(stack[1], e)
             \/ \E i \in DOMAIN Waiting(e) : Waiting(e)[i].kind = "show"
             \/ (At("run", e) \/ At("complete", e)) /\ Shows
             \/ \E t \in Going(e) : timers[t].item.kind = "show"
          /\ Waiting(e) \in Seq(Item)
      BY <1>1, <1>4, <2>2, WaitingType DEF Showing
    <3>1. CASE item \in Item /\ Queued(e, item, ops)
      <4>1. /\ Waiting(e)' = Append(Waiting(e), item) /\ stack[1].item = item
            /\ stack[1].op = "queue" /\ Going(e)' = Going(e) /\ timers' = timers
        BY <3>1 DEF Queued
      <4>2. CASE LastIs(stack, e, "show") /\ Queues(stack[1], e)
        <5>1. LastIs(stack', e, "show") \/ item.kind = "show"
          BY <1>1, <2>2, <4>1, <4>2, QueuesMoved
        <5>2. /\ Len(Waiting(e)) + 1 \in DOMAIN Waiting(e)'
              /\ Waiting(e)'[Len(Waiting(e)) + 1] = item
          BY <3>0, <3>1, <4>1, LastWaiting
        <5> QED BY <2>2, <5>1, <5>2 DEF Showing
      <4>3. CASE \E i \in DOMAIN Waiting(e) : Waiting(e)[i].kind = "show"
        <5>1. /\ DOMAIN Waiting(e) \subseteq DOMAIN Waiting(e)'
              /\ \A i \in DOMAIN Waiting(e) : Waiting(e)'[i] = Waiting(e)[i]
          BY <3>0, <3>1, <4>1, LastWaiting
        <5> QED BY <2>2, <4>3, <5>1 DEF Showing
      <4> QED BY <2>2, <3>0, <4>1, <4>2, <4>3 DEF Showing, At
    <3>2. ASSUME NEW b, Taken(e, b, ops) PROVE Showing(a)'
      <4>1. /\ Waiting(e) # << >> /\ Waiting(e)' = Tail(Waiting(e))
            /\ stack[1].op = "dequeue" /\ Going(e)' = Going(e) /\ timers' = timers
            /\ stack' # << >> /\ stack'[1] = RunOp(e, Head(Waiting(e)))
        BY <1>1, <3>2, FirstNext DEF Taken
      <4>2. CASE \E i \in DOMAIN Waiting(e) : Waiting(e)[i].kind = "show"
        <5>1. PICK i \in DOMAIN Waiting(e) : Waiting(e)[i].kind = "show"
          BY <4>2
        <5>2. CASE i = 1
          <6>1. Head(Waiting(e)).kind = "show"
            BY <3>0, <4>1, <5>1, <5>2, FirstWaiting
          <6>2. At("run", e)' /\ Shows'
            BY <4>1, <6>1 DEF At, Shows, RunOp
          <6> QED BY <2>2, <6>2 DEF Showing
        <5>3. CASE i # 1
          <6>1. i > 1
            BY <3>0, <5>3, LenProperties
          <6>2. i - 1 \in DOMAIN Waiting(e)' /\ Waiting(e)'[i - 1] = Waiting(e)[i]
            BY <3>0, <4>1, <6>1, FirstWaiting
          <6> QED BY <2>2, <5>1, <6>2 DEF Showing
        <5> QED BY <5>2, <5>3
      <4> QED BY <2>2, <3>0, <4>1, <4>2 DEF Showing, At, Queues
    <3>3. CASE Emptied(e, ops)
      <4>1. /\ Waiting(e) = << >> /\ stack[1].op = "dequeue"
            /\ Going(e)' = Going(e) /\ timers' = timers
        BY <3>3 DEF Emptied
      <4> QED BY <2>2, <3>0, <4>1 DEF Showing, At, Queues
    <3>4. CASE Cleaned(e, ops)
      <4>1. /\ Going(e)' = Going(e) /\ timers' = timers /\ stack[1].op = "cleanup"
            /\ \/ Waiting(e)' = Waiting(e)
               \/ arrays[stack[1].array] = << >> /\ Waiting(e)' = << >>
        BY <3>4 DEF Cleaned, Same
      <4>2. Waiting(e)' = Waiting(e)
        <5>1. CleanAt(1)
          BY <1>1, <4>1 DEF CleanInv
        <5>2. arrays[stack[1].array] = << >> => data[e] = NoArray
          BY <1>1, <2>2, <5>1 DEF CleanAt
        <5> QED BY <4>1, <5>2 DEF Waiting
      <4> QED BY <2>2, <3>0, <4>1, <4>2 DEF Showing, At, Queues
    <3>5. CASE Skipped(e, item, ops)
      <4>1. /\ Waiting(e)' = Waiting(e) /\ Going(e)' = Going(e) /\ timers' = timers
            /\ stack[1].op = "run" /\ stack[1].item = item
            /\ stack' # << >> /\ stack'[1] = CompleteOp(e, item)
        BY <1>1, <3>5, FirstNext DEF Skipped, Same
      <4>2. Shows => At("complete", e)' /\ Shows'
        BY <4>1 DEF Shows, At, CompleteOp
      <4> QED BY <2>2, <3>0, <4>1, <4>2 DEF Showing, Queues
    <3>6. CASE Completed(e, item, ops)
      <4>1. /\ Waiting(e)' = Waiting(e) /\ Going(e)' = Going(e) /\ timers' = timers
            /\ stack[1].op = "complete" /\ stack[1].item = item
            /\ ops = <<DequeueOp(e), CallOp(item.old)>>
        BY <3>6 DEF Completed, Same
      <4>2. CASE Shows
        <5>1. Suits(e, item) /\ item.kind = "show"
          BY <1>1, <4>1, <4>2 DEF SuitsInv, Shows
        <5>2. item.old.fn = "enable"
          BY <2>2, <5>1 DEF Suits
        <5>3. DOMAIN ops = {1, 2} /\ ops[2] = CallOp(item.old) /\ Len(ops) = 2
          BY <4>1
        <5>4. 2 \in DOMAIN stack' /\ stack'[2] = CallOp(item.old)
          BY <1>1, <5>3, MovedAt
        <5> QED BY <5>2, <5>4 DEF Showing, Calls, CallOp
      <4> QED BY <2>2, <3>0, <4>1, <4>2 DEF Showing, Queues
    <3>7. ASSUME NEW n, Started(e, item, n, ops) PROVE Showing(a)'
      <4>1. /\ Waiting(e)' = Waiting(e) /\ Going(e)' = Going(e) \cup {n}
            /\ timers'[n] = [elem |-> e, item |-> item]
            /\ \A t \in DOMAIN timers : timers'[t] = timers[t]
            /\ stack[1].op = "run" /\ stack[1].item = item
        BY <3>7 DEF Started
      <4>2. timers'[n].item = item /\ n \in Going(e)'
            /\ \A t \in Going(e) : t \in Going(e)' /\ timers'[t] = timers[t]
        BY <4>1 DEF Going
      <4>3. Shows => item.kind = "show"
        BY <4>1 DEF Shows
      <4> QED BY <2>2, <3>0, <4>1, <4>2, <4>3 DEF Showing, Queues
    <3> QED BY <3>1, <3>2, <3>3, <3>4, <3>5, <3>6, <3>7
  <2> QED BY <2>1, <2>2
<1> QED BY <1>2, <1>3, <1>4

LEMMA ShowingNext ==
  ASSUME IInv, SuitsInv, CleanInv, TimerInv, ShowingInv, Effect
  PROVE  ShowingInv'
<1>1. ASSUME NEW e \in Elem, NEW item, NEW ops, UNCHANGED <<opened, link_disabled>>,
             \/ item \in Item /\ Queued(e, item, ops)
             \/ Skipped(e, item, ops) \/ Completed(e, item, ops)
             \/ \E n : Started(e, item, n, ops)
             \/ \E a : Taken(e, a, ops)
             \/ Emptied(e, ops) \/ Cleaned(e, ops)
      PROVE  ShowingInv'
  <2>1. link_disabled => opened \in Accordions /\ Showing(opened)'
    BY <1>1, ShowingWork DEF ShowingInv
  <2> QED BY <1>1, <2>1 DEF ShowingInv, Showing
<1>2. ASSUME UNCHANGED <<opened, link_disabled>>,
             NEW e \in Elem, NEW item \in Item, NEW t, Ticked(t, e, item)
      PROVE  ShowingInv'
  <2> SUFFICES ASSUME link_disabled PROVE opened \in Accordions /\ Showing(opened)'
    BY <1>2 DEF ShowingInv, Showing
  <2>1. /\ stack = << >> /\ stack' = <<CompleteOp(e, item), TickEndOp(t)>>
        /\ timers[t] = [elem |-> e, item |-> item] /\ t \in Going(e) /\ Apart(e)
        /\ Waiting(e)' = Waiting(e) /\ Going(e)' = Going(e) \ {t} /\ timers' = timers
        /\ opened' = opened
    BY <1>2 DEF Ticked
  <2>2. /\ opened \in Accordions /\ opened \in Elem /\ OneTimer(opened)
        /\ \/ \E i \in DOMAIN Waiting(opened) : Waiting(opened)[i].kind = "show"
           \/ \E u \in Going(opened) : timers[u].item.kind = "show"
    BY <2>1, Elements DEF ShowingInv, Showing, LastIs, At, TimerInv
  <2>3. Waiting(opened)' = Waiting(opened)
    BY <2>1, <2>2 DEF Apart, Same
  <2>4. CASE opened # e
    BY <2>1, <2>2, <2>3, <2>4 DEF Showing, Apart, Same
  <2>5. CASE opened = e
    <3>1. stack' # << >> /\ stack'[1] = CompleteOp(e, item) /\ timers[t].item = item
      BY <2>1
    <3>2. (\E u \in Going(opened) : timers[u].item.kind = "show") => item.kind = "show"
      BY <2>1, <2>2, <2>5, <3>1 DEF OneTimer
    <3>3. item.kind = "show" => At("complete", e)' /\ Shows'
      BY <3>1 DEF At, Shows, CompleteOp
    <3> QED BY <2>1, <2>2, <2>3, <2>5, <3>2, <3>3 DEF Showing
  <2> QED BY <2>4, <2>5
<1>3. CASE TickEnded /\ UNCHANGED <<opened, link_disabled>>
  <2> SUFFICES ASSUME link_disabled PROVE opened \in Accordions /\ Showing(opened)'
    BY <1>3 DEF ShowingInv, Showing
  <2>1. /\ stack # << >> /\ stack[1].op = "tickEnd" /\ DOMAIN stack = {1}
        /\ opened' = opened /\ \A d : Waiting(d)' = Waiting(d)
        /\ \A d : \A t \in Going(d) : \E k \in Going(d)' : timers'[k] = timers[t]
    <3>1. DOMAIN stack = 1 .. Len(stack)
      BY LenProperties DEF IInv, JInv
    <3> QED BY <1>3, <3>1 DEF TickEnded
  <2>2. /\ opened \in Accordions
        /\ \/ \E i \in DOMAIN Waiting(opened) : Waiting(opened)[i].kind = "show"
           \/ \E t \in Going(opened) : timers[t].item.kind = "show"
    BY <2>1 DEF ShowingInv, Showing, LastIs, Queues, At, Calls
  <2>3. (\E t \in Going(opened) : timers[t].item.kind = "show")
           => \E k \in Going(opened)' : timers'[k].item.kind = "show"
    BY <2>1
  <2> QED BY <2>1, <2>2, <2>3 DEF Showing
<1>4. CASE Drops
  <2> SUFFICES ASSUME link_disabled PROVE opened \in Accordions /\ Showing(opened)'
    BY <1>4 DEF Drops, ShowingInv, Showing
  <2>1. /\ stack # << >> /\ stack[1].op \in {"done", "call"}
        /\ \A j \in DOMAIN stack : stack[j].op # "queue" /\ ~Calls(stack[j], "enable")
        /\ opened' = opened /\ \A d \in Elem : Same(d)
    BY <1>4 DEF Drops, Calm, Calls
  <2>2. /\ opened \in Accordions /\ opened \in Elem
        /\ \/ \E i \in DOMAIN Waiting(opened) : Waiting(opened)[i].kind = "show"
           \/ \E t \in Going(opened) : timers[t].item.kind = "show"
    BY <2>1, Elements DEF ShowingInv, Showing, LastIs, Queues, At
  <2> QED BY <2>1, <2>2 DEF Showing, Same
<1>5. ASSUME NEW ops, Acts(ops) PROVE ShowingInv'
  <2>1. /\ Moved(ops) /\ opened' = opened /\ \A d \in Elem : Same(d)
        /\ link_disabled' = (link_disabled /\ ~AtCall("enable"))
        /\ stack[1].op \in {"call", "ajax"}
        /\ \A i \in DOMAIN ops : ops[i].op = "queue"
                                    => ops[i].elem \in Shown \cup {flash_messages}
    BY <1>5 DEF Acts, Calm
  <2> SUFFICES ASSUME link_disabled, ~AtCall("enable")
               PROVE  opened \in Accordions /\ Showing(opened)'
    BY <2>1 DEF ShowingInv, Showing
  <2>2. opened \in Accordions /\ Showing(opened) /\ opened \in Elem
    BY Elements DEF ShowingInv
  <2>3. NoneOf(ops, opened) /\ ~Queues(stack[1], opened)
    BY <2>1, <2>2, Elements DEF NoneOf, Queues
  <2>4. CASE LastIs(stack, opened, "show")
    <3>1. LastIs(stack', opened, "show")
      BY <2>1, <2>3, <2>4, QueuesMoved
    <3> QED BY <2>1, <2>2, <3>1 DEF Showing
  <2>5. CASE \E i \in DOMAIN stack : Calls(stack[i], "enable")
    <3>1. PICK j \in DOMAIN stack : Calls(stack[j], "enable")
      BY <2>5
    <3>2. stack # << >> /\ j > 1
      <4>1. stack # << >>
        BY <2>1 DEF Moved
      <4>2. j # 1
        BY <3>1, <4>1 DEF AtCall
      <4> QED BY <2>1, <4>1, <4>2, MovedAt
    <3>3. j - 1 + Len(ops) \in DOMAIN stack' /\ stack'[j - 1 + Len(ops)] = stack[j]
      BY <2>1, <3>2, MovedAt
    <3> QED BY <2>1, <2>2, <3>1, <3>3 DEF Showing
  <2>6. CASE \/ \E i \in DOMAIN Waiting(opened) : Waiting(opened)[i].kind = "show"
             \/ \E t \in Going(opened) : timers[t].item.kind = "show"
    BY <2>1, <2>2, <2>6 DEF Showing, Same
  <2> QED BY <2>1, <2>2, <2>4, <2>5, <2>6 DEF Showing, At
<1>6. ASSUME NEW ops, Begins(ops) PROVE ShowingInv'
  <2> SUFFICES ASSUME link_disabled PROVE opened \in Accordions /\ Showing(opened)'
    BY <1>6 DEF Begins, ShowingInv, Showing
  <2>1. stack = << >> /\ opened' = opened /\ \A d \in Elem : Same(d)
    BY <1>6 DEF Begins, Calm
  <2>2. /\ opened \in Accordions /\ opened \in Elem
        /\ \/ \E i \in DOMAIN Waiting(opened) : Waiting(opened)[i].kind = "show"
           \/ \E t \in Going(opened) : timers[t].item.kind = "show"
    BY <2>1, Elements DEF ShowingInv, Showing, LastIs, At
  <2> QED BY <2>1, <2>2 DEF Showing, Same
<1>7. ASSUME NEW div, NEW ops, Opens(div, ops) PROVE ShowingInv'
  <2>1. LastIs(stack', div, "show") /\ opened' = div /\ div \in Accordions
    BY <1>7 DEF Opens
  <2> QED BY <2>1 DEF ShowingInv, Showing
<1>8. CASE UNCHANGED vars
  <2>1. UNCHANGED <<opened, link_disabled, stack, data, arrays, timers>>
    BY <1>8 DEF vars, jQueryVars, fx, pageVars
  <2> QED BY <2>1 DEF ShowingInv, Showing, Waiting, Going, Keeps, At, Shows
<1>9. CASE /\ UNCHANGED <<opened, link_disabled, timeouts>>
           /\ \/ \E e \in Elem, item \in Item : \E ops :
                    \/ Queued(e, item, ops)
                    \/ Skipped(e, item, ops)
                    \/ Completed(e, item, ops)
                    \/ \E n : Started(e, item, n, ops)
              \/ \E e \in Elem : \E ops :
                    \/ \E a \in Array : Taken(e, a, ops)
                    \/ Emptied(e, ops)
                    \/ Cleaned(e, ops)
  BY <1>1, <1>9
<1> QED BY <1>2, <1>3, <1>4, <1>5, <1>6, <1>7, <1>8, <1>9 DEF Effect

-----------------------------------------------------------------------------
(* Theorems *)

LEMMA InitPage == Init => PageInv
<1> SUFFICES ASSUME Init PROVE PageInv
  OBVIOUS
<1>1. /\ stack = << >> /\ timers = << >> /\ DOMAIN stack = {} /\ DOMAIN timers = {}
      /\ \A e \in Elem : data[e] = NoArray /\ visible[e] = (e \in Shown)
      /\ opened = "none" /\ ~link_disabled
  BY DEF Init, JQueryInit
<1>2. /\ \A e \in Elem : Waiting(e) = << >>
      /\ \A e : Going(e) = {} /\ ~At("run", e) /\ ~At("complete", e)
      /\ \A e : NoneOf(stack, e) /\ OnlyLast(stack, e) /\ ~LastIs(stack, e, "show")
      /\ \A e : ~HotAt(stack, e)
  BY <1>1 DEF Waiting, Going, At, NoneOf, OnlyLast, LastIs, HotAt
<1>3. SuitsInv
  BY <1>1, <1>2 DEF SuitsInv
<1>4. ShownInv
  BY <1>1, Elements DEF ShownInv
<1>5. CleanInv
  BY <1>1 DEF CleanInv
<1>6. TimerInv
  BY <1>1, <1>2 DEF TimerInv, OneTimer
<1>7. ThrowInv
  BY <1>1 DEF ThrowInv
<1>8. \A e \in Solo : Ends(e, "hide")
  <2> TAKE e \in Solo
  <2>1. e \in Elem /\ e \notin Shown
    BY Elements
  <2>2. Later(e, "hide")
    BY <1>1, <1>2, <2>1 DEF Later
  <2> QED BY <1>2, <2>2 DEF Ends
<1>9. FlashInv
  BY <1>8, Elements DEF FlashInv
<1>10. OpenedInv
  BY <1>1, <1>8, Elements DEF OpenedInv
<1>11. LinkInv
  <2>1. \A a \in Accordions : ShowInv(a)
    BY <1>1, <1>2, Elements DEF ShowInv
  <2> QED BY <1>1, <2>1, Elements DEF LinkInv
<1>12. ShowingInv
  BY <1>1 DEF ShowingInv
<1> QED BY <1>3, <1>4, <1>5, <1>6, <1>7, <1>9, <1>10, <1>11, <1>12 DEF PageInv

\* What is under way on the page is in order in every state it can reach:
\* which animations are queued, run and timed for which element, what the
\* links of the accordion wait for, and what a callback may be in the middle
\* of.
THEOREM PageInOrder == Spec => []PageInv
<1>1. ASSUME IInv, PageInv, [Next]_vars
      PROVE  PageInv'
  <2>1. /\ SuitsInv /\ ShownInv /\ CleanInv /\ TimerInv /\ ThrowInv /\ FlashInv
        /\ OpenedInv /\ LinkInv /\ ShowingInv
    BY <1>1 DEF PageInv
  <2>2. Effect
    BY <1>1, <2>1, StepEffect
  <2> QED BY <1>1, <2>1, <2>2, SuitsNext, ShownNext, CleanNext, TimerNext, ThrowNext,
             FlashNext, OpenedNext, LinkNext, ShowingNext DEF PageInv
<1> QED BY <1>1, InitPage, Inductive, PTL DEF Spec

\* fadeOut of the report and of the list of libraries is always answered by
\* fadeIn, in the same script: between two scripts both are there.
THEOREM ShownBetweenScripts ==
  Spec => [](stack = << >> => visible[validator_report] /\ visible[library_select_div])
<1>1. PageInv => (stack = << >> => visible[validator_report] /\ visible[library_select_div])
  BY Elements DEF PageInv, ShownInv, At, AtCall
<1> QED BY <1>1, PageInOrder, PTL

\* Whenever the browser has nothing left to do the page is Settled: however
\* notifications, fades and clicks overlapped, the message is gone, report and
\* list are there, the links of the accordion work, and the accordion that is
\* open is the one whose link was obeyed last.
THEOREM RestIsSettled == Spec => [](AtRest => Settled)
<1>1. IInv /\ PageInv => (AtRest => Settled)
  <2> SUFFICES ASSUME IInv, PageInv, AtRest PROVE Settled
    OBVIOUS
  <2>1. /\ stack = << >> /\ DOMAIN stack = {} /\ timers = << >> /\ DOMAIN timers = {}
        /\ DOMAIN timeouts = {}
    BY DEF AtRest
  <2>2. \A e \in Elem : data[e] = NoArray
    BY <2>1 DEF IInv, JInv, QueueInv, HotAt, Driven
  <2>3. /\ \A e \in Elem : Waiting(e) = << >>
        /\ \A e : Going(e) = {} /\ ~At("run", e) /\ ~At("complete", e)
        /\ \A e, kind : ~LastIs(stack, e, kind)
    BY <2>1, <2>2 DEF Waiting, Going, At, LastIs
  <2>4. \A e \in Elem : \A kind : Ends(e, kind) => visible[e] = (kind = "show")
    BY <2>3 DEF Ends, Later
  <2>5. ~visible[flash_messages]
    <3>1. Ends(flash_messages, "hide")
      BY <2>1 DEF PageInv, FlashInv
    <3>2. visible[flash_messages] = ("hide" = "show")
      BY <2>4, <3>1, Elements
    <3> QED BY <3>2
  <2>6. visible[validator_report] /\ visible[library_select_div]
    BY <2>1, Elements DEF PageInv, ShownInv, At, AtCall
  <2>7. ~link_disabled
    BY <2>1, <2>3, Elements DEF PageInv, ShowingInv, Showing
  <2>8. \A a \in Accordions : visible[a] = (a = opened)
    <3> TAKE a \in Accordions
    <3>1. Ends(a, IF a = opened THEN "show" ELSE "hide") /\ a \in Elem
      BY Elements DEF PageInv, OpenedInv
    <3>2. CASE a = opened
      BY <2>4, <3>1, <3>2
    <3>3. CASE a # opened
      BY <2>4, <3>1, <3>3
    <3> QED BY <3>2, <3>3
  <2>9. opened \in Accordions \cup {"none"} /\ "none" \notin Accordions
    BY Elements DEF PageInv, LinkInv
  <2>10. {a \in Accordions : visible[a]} = {opened} \ {"none"}
    BY <2>8, <2>9
  <2> QED BY <2>5, <2>6, <2>7, <2>10 DEF Settled
<1> QED BY <1>1, PageInOrder, Inductive, PTL
=============================================================================
