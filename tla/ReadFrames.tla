----------------------------- MODULE ReadFrames -----------------------------
(***************************************************************************)
(* The State objects of a test and who deletes them: ReadAction's loop,    *)
(* SendAction, the checks, Variable, Memorize and InjectAction, the last   *)
(* frame and the variables of TestCaseManager, and main, which deletes the *)
(* result of a test.  Below them, what read() of each kind of socket       *)
(* returns for what a peer sent.                                           *)
(*                                                                         *)
(* The root of the protocol model is the sequence Script of read and send  *)
(* commands.  The sons of a command are in the order in which they run; an *)
(* or node stands after its alternatives, the last `arg` sons before it.   *)
(* The result of a son, with whatever is below it, is one object.  Objects *)
(* have numbers, and a new one gets a number that nothing points at, so    *)
(* that a pointer to a deleted object differs from all others; 0 is the    *)
(* null pointer.                                                           *)
(***************************************************************************)
EXTENDS Integers, Sequences, FiniteSets

CONSTANTS
    Script,     \* the commands: [op : {"read", "send"}, sons : Seq(...)]
    Variable,   \* the variable names of the model
    Packet,     \* what a peer may send
    Empty,      \* a UDP datagram without data
    Port,       \* local UDP ports
    MaxTest,    \* bound: the number of tests
    MaxPacket   \* bound: the number of packets the peer sends

\* d[q] is the number of results there are when son q is about to run: an or
\* node takes those of its alternatives, which must be there, and returns one.
IsDepth(d, sons) ==
    /\ d[1] = 0
    /\ \A q \in 1 .. Len(sons) :
          \/ sons[q].op # "or" /\ d[q + 1] = d[q] + 1
          \/ /\ sons[q].op = "or"
             /\ sons[q].arg \in 1 .. d[q]
             /\ d[q + 1] = d[q] - sons[q].arg + 1

Depths(sons) ==
    {d \in [1 .. Len(sons) + 1 -> 0 .. Len(sons)] : IsDepth(d, sons)}

ASSUME ScriptAssumption ==
    /\ Len(Script) \in Nat
    /\ \A p \in 1 .. Len(Script) :
        /\ Script[p].op \in {"read", "send"}
        /\ Len(Script[p].sons) \in Nat
        /\ Depths(Script[p].sons) # {}
        /\ \A q \in 1 .. Len(Script[p].sons) :
             LET s == Script[p].sons[q]
             IN \/ s.op \in {"value", "or"}
                \/ s.op = "check" /\ s.arg \subseteq Packet
                \/ s.op \in {"variable", "memorize"} /\ s.arg \in Variable

ASSUME BoundAssumption == Empty \notin Packet /\ MaxTest \in Nat /\ MaxPacket \in Nat

VARIABLES
    pc,           \* where main is
    kind,         \* the kind of socket the commands use
    test,         \* the number of the current test, from 1
    pos, son,     \* the command and the son that runs
    port,         \* the local port of each test so far, for UDP
    inbox,        \* what the descriptor has to read, oldest first
    closed,       \* the peer is not, or no longer, connected
    sent,         \* the number of packets the peer sent
    read_data,    \* ReadAction: read_data, as the packets in it
    n,            \* ReadAction: what read() returned, 1 for any n > 0
    frame,        \* the packet in the last frame, NoPacket if there is none
    newest,       \* the packet that was read last
    parent,       \* the objects that exist, each with the one that owns it
    result,       \* the results of the sons so far, with their isFailValue
    walked,       \* the results of the commands so far
    last_frame,   \* TestCaseManager
    variables,    \* TestCaseManager: the object of each variable
    double_delete \* an object was deleted that did not exist

socket == <<kind, port, inbox, closed, sent>>
reading == <<read_data, n, frame, newest>>
heap == <<parent, double_delete>>
vars == <<pc, test, pos, son, socket, reading, heap, result, walked,
          last_frame, variables>>

NoPacket == [data |-> Empty, test |-> 0]
Kind == {"tcp", "udp", "raw", "btrfcomm"}

Init ==
    /\ pc = "main"
    /\ kind \in Kind
    /\ test = 0
    /\ pos = 1
    /\ son = 1
    /\ port = << >>
    /\ inbox = << >>
    /\ closed = FALSE
    /\ sent = 0
    /\ read_data = << >>
    /\ n = 0
    /\ frame = NoPacket
    /\ newest = NoPacket
    /\ parent = << >>
    /\ result = << >>
    /\ walked = {}
    /\ last_frame = 0
    /\ variables = << >>
    /\ double_delete = FALSE

-----------------------------------------------------------------------------
(* Objects *)

Live == DOMAIN parent

\* The number of the next object: the first one that is free.
Pointers == Live \cup walked \cup {last_frame}
                \cup {variables[v] : v \in DOMAIN variables}
next == CHOOSE x \in 1 .. Cardinality(Pointers) + 1 :
            x \notin Pointers /\ \A y \in 1 .. x - 1 : y \in Pointers

\* State::~State deletes the derived states, too.
Tree(x) == {x} \cup {y \in Live : parent[y] = x}

\* Objects S are deleted, then one is created if `new`, then those in `sons`
\* become derived states of x (operator<<).
ChangeHeap(S, new, sons, x) ==
    /\ parent' = [y \in (Live \ UNION {Tree(z) : z \in S})
                          \cup (IF new THEN {next} ELSE {}) |->
                     IF y \in sons THEN x
                     ELSE IF y \in Live THEN parent[y] ELSE 0]
    /\ double_delete' = (double_delete \/ ~ S \subseteq Live)

NewObject == ChangeHeap({}, TRUE, {}, 0)

\* The program ends by a signal or an uncaught exception.
Abort ==
    /\ pc' = "abort"
    /\ UNCHANGED <<test, pos, son, socket, reading, heap, result, walked,
                   last_frame, variables>>

-----------------------------------------------------------------------------
(* The peer *)

\* A packet that was sent to the socket of test t arrives at that of today: it
\* is the same one, or it sees all packets (raw), or it has the same port and,
\* as it is not connected, takes what comes.
Reaches(t) ==
    \/ t = test
    \/ kind = "raw"
    \/ kind = "udp" /\ t \in 1 .. test /\ port[t] = port[test]

\* What the peer sent in answer to test t arrives, now or in a later test.
SendToUs(p, t) ==
    /\ ~ closed
    /\ sent < MaxPacket
    /\ p = Empty => kind = "udp"
    /\ Reaches(t)
    /\ sent' = sent + 1
    /\ inbox' = Append(inbox, [data |-> p, test |-> t])
    /\ UNCHANGED <<pc, test, pos, son, kind, port, closed, reading, heap,
                   result, walked, last_frame, variables>>

Disconnect ==
    /\ kind \in {"tcp", "btrfcomm"}
    /\ ~ closed
    /\ closed' = TRUE
    /\ UNCHANGED <<pc, test, pos, son, kind, port, inbox, sent, reading, heap,
                   result, walked, last_frame, variables>>

Peer ==
    \/ Disconnect
    \/ \E p \in Packet \cup {Empty}, t \in 0 .. test : SendToUs(p, t)

-----------------------------------------------------------------------------
(* main *)

\* Mutant: reconnectSocket leaves a UDP socket as it is, too.
ReconnectedNotUdp == IF kind \in {"udp", "raw"} THEN inbox ELSE << >>

\* What is left to read after reconnectSocket, of what has arrived: a raw
\* socket stays open, the others are closed.
Reconnected == IF kind = "raw" THEN inbox ELSE << >>

\* The local port after reconnectSocket: srand(time(NULL)), then rand().  A
\* test that begins in the same second as an earlier one gets the same port.
Bound == IF kind = "udp" THEN {Append(port, p) : p \in Port} ELSE {port}

\* reconnectSocket; a failed connect is not noticed.  Then runTest.
StartTest ==
    /\ pc = "main"
    /\ test < MaxTest
    /\ pc' = "walk"
    /\ test' = test + 1
    /\ pos' = 1
    /\ port' \in Bound
    /\ inbox' = Reconnected
    /\ closed' \in IF kind = "tcp" THEN BOOLEAN ELSE {FALSE}
    /\ UNCHANGED <<son, kind, sent, reading, heap, result, walked, last_frame,
                   variables>>

\* The walk is over: prepareNextTestCase forgets the variables, after it has
\* printed them; the result is logged and deleted.
EndTest ==
    /\ pc = "walk"
    /\ pos > Len(Script)
    /\ pc' = "main"
    /\ variables' = << >>
    /\ ChangeHeap(walked, FALSE, {}, 0)
    /\ walked' = {}
    /\ UNCHANGED <<test, pos, son, socket, reading, result, last_frame>>

\* resetVariable prints a variable whose object was deleted.
EndTestAborts ==
    /\ pc = "walk"
    /\ pos > Len(Script)
    /\ \E v \in DOMAIN variables : variables[v] \notin Live
    /\ Abort

EndMain ==
    /\ pc = "main"
    /\ test = MaxTest
    /\ pc' = "done"
    /\ UNCHANGED <<test, pos, son, socket, reading, heap, result, walked,
                   last_frame, variables>>

-----------------------------------------------------------------------------
(* ReadAction::runAction *)

\* A read resets the timeout and enters its loop; a send runs its sons.
StartCommand ==
    /\ pc = "walk"
    /\ pos <= Len(Script)
    /\ pc' = IF Script[pos].op = "read" THEN "read" ELSE "sons"
    /\ son' = 1
    /\ result' = << >>
    /\ read_data' = << >>
    /\ UNCHANGED <<test, pos, socket, n, frame, newest, heap, walked,
                   last_frame, variables>>

\* After read(): the new frame replaces the last one, which is deleted, and
\* the sons run, whether or not a packet came.
NewFrame ==
    /\ frame' = IF n' > 0 THEN Head(read_data') ELSE NoPacket
    /\ ChangeHeap(IF last_frame # 0 THEN {last_frame} ELSE {}, TRUE, {}, 0)
    /\ last_frame' = next
    /\ pc' = "sons"
    /\ son' = 1
    /\ result' = << >>
    /\ UNCHANGED <<test, pos, kind, port, closed, sent, walked, variables>>

\* The buffer after read() of a packet: BTrfcommSocket does not clear it.
Fill(p) == IF kind = "btrfcomm" THEN Append(read_data, p) ELSE <<p>>

\* read() returns a packet.
ReadPacket ==
    /\ pc = "read"
    /\ inbox # << >>
    /\ inbox' = Tail(inbox)
    /\ newest' = Head(inbox)
    /\ n' = IF Head(inbox).data = Empty THEN 0 ELSE 1
    /\ read_data' = Fill(Head(inbox))
    /\ NewFrame

\* select times out, or receive throws: -1.  read() of a closed Bluetooth
\* channel returns 0.
ReadNothing ==
    /\ pc = "read"
    /\ inbox = << >>
    /\ n' = IF closed /\ kind = "btrfcomm" THEN 0 ELSE -1
    /\ UNCHANGED <<inbox, newest, read_data>>
    /\ NewFrame

-----------------------------------------------------------------------------
(* The sons of a command: Action::runSonsAction goes on after a failure *)

AtSon(ops) ==
    /\ pc = "sons"
    /\ son <= Len(Script[pos].sons)
    /\ Script[pos].sons[son].op \in ops

Arg == Script[pos].sons[son].arg

\* A son returns a new object.
Return(fail) ==
    /\ NewObject
    /\ result' = Append(result, [obj |-> next, fail |-> fail])
    /\ son' = son + 1
    /\ UNCHANGED <<pc, test, pos, socket, reading, walked, last_frame>>

RunValue == AtSon({"value"}) /\ Return(FALSE) /\ UNCHANGED variables

\* ValueCheck and MaskCheck compare with the last frame, and accept the
\* packets in arg; a frame that is empty is read beyond its end.
RunCheck ==
    /\ AtSon({"check"})
    /\ last_frame # 0
    /\ \E fail \in BOOLEAN :
         /\ frame # NoPacket => fail = (frame.data \notin Arg)
         /\ Return(fail)
    /\ UNCHANGED variables

\* The first Variable or Memorize of a name binds it to an object that it
\* returns, or that is below it.  The others read that object.
Bind ==
    variables' = [v \in DOMAIN variables \cup {Arg} |->
                     IF v \in DOMAIN variables THEN variables[v] ELSE next]

RunVariable ==
    /\ AtSon({"variable"})
    /\ Arg \in DOMAIN variables \/ (last_frame # 0 /\ frame # NoPacket)
    /\ Bind
    /\ Return(FALSE)

RunMemorize == AtSon({"memorize"}) /\ Bind /\ Return(FALSE)

\* A check or a new variable without a last frame, a new variable of an
\* empty one: a null pointer.  A variable whose object was deleted.
SonAborts ==
    /\ \/ AtSon({"check"}) /\ last_frame = 0
       \/ /\ AtSon({"variable"})
          /\ Arg \notin DOMAIN variables
          /\ last_frame = 0 \/ frame = NoPacket
       \/ /\ AtSon({"variable", "memorize"})
          /\ Arg \in DOMAIN variables
          /\ variables[Arg] \notin Live
    /\ Abort

\* InjectAction: one of the alternatives is selected, the others are
\* deleted.  setFaultValue hides that the selected one failed.
RunInject ==
    /\ AtSon({"or"})
    /\ LET first == Len(result) - Arg + 1
       IN \E k \in first .. Len(result) :
            /\ ChangeHeap({result[j].obj : j \in (first .. Len(result)) \ {k}},
                          FALSE, {}, 0)
            /\ result' = Append(SubSeq(result, 1, first - 1),
                                [obj |-> result[k].obj, fail |-> FALSE])
    /\ son' = son + 1
    /\ UNCHANGED <<pc, test, pos, socket, reading, walked, last_frame,
                   variables>>

-----------------------------------------------------------------------------
(* The end of a command *)

AtEnd(op) ==
    /\ pc = "sons"
    /\ son > Len(Script[pos].sons)
    /\ Script[pos].op = op

Sons == {result[j].obj : j \in 1 .. Len(result)}

\* Mutant: the result of the last son decides.
ThereIsAFailLast == result # << >> /\ result[Len(result)].fail

ThereIsAFail == \E j \in 1 .. Len(result) : result[j].fail

\* Mutants: the loop goes on while there is something to read; after a timeout.
ReadsAgainPending == (ThereIsAFail \/ inbox # << >>) /\ n >= 0
ReadsAgainAlways == ThereIsAFail

\* while(n >= 0), n = -1 if no son failed.
ReadsAgain == ThereIsAFail /\ n >= 0

\* The frame owns the results of its sons; the loop goes on.
ReadAgain ==
    /\ AtEnd("read")
    /\ ReadsAgain
    /\ ChangeHeap({}, FALSE, Sons, last_frame)
    /\ pc' = "read"
    /\ UNCHANGED <<test, pos, son, socket, reading, result, walked,
                   last_frame, variables>>

\* Mutants: the last frame is not forgotten; -1 stands for none.
LastFrameKept == last_frame
LastFrameMinusOne == -1

\* setLastFrame(0) at the end of a read.
LastFrameForgotten == 0

\* The frame is returned.  If it failed, ReturnAction ends the walk.
EndRead ==
    /\ AtEnd("read")
    /\ ~ ReadsAgain
    /\ ChangeHeap({}, FALSE, Sons, last_frame)
    /\ walked' = walked \cup {last_frame}
    /\ last_frame' = LastFrameForgotten
    /\ pos' = IF frame = NoPacket THEN Len(Script) + 1 ELSE pos + 1
    /\ pc' = "walk"
    /\ UNCHANGED <<test, son, socket, reading, result, variables>>

\* Mutant: the results of the sons are not attached.
SentSonsNone == {}

\* SendAction: *res << result.
SentSons == Sons

\* The end of SendAction::runAction; setPacketValue hides a failure.
EndSend ==
    /\ AtEnd("send")
    /\ ChangeHeap({}, TRUE, SentSons, next)
    /\ walked' = walked \cup {next}
    /\ pos' = pos + 1
    /\ pc' = "walk"
    /\ UNCHANGED <<test, son, socket, reading, result, last_frame, variables>>

\* UdpSocket::send throws, see TestSession.
SendAborts == AtEnd("send") /\ kind = "udp" /\ Abort

-----------------------------------------------------------------------------
Stopped == pc \in {"done", "abort"} /\ UNCHANGED vars

Step ==
    \/ StartTest
    \/ StartCommand
    \/ ReadPacket
    \/ ReadNothing
    \/ RunValue
    \/ RunCheck
    \/ RunVariable
    \/ RunMemorize
    \/ SonAborts
    \/ RunInject
    \/ ReadAgain
    \/ EndRead
    \/ EndSend
    \/ SendAborts
    \/ EndTest
    \/ EndTestAborts
    \/ EndMain

Next == Step \/ Peer \/ Stopped

\* main is one thread and select has a timeout.  Nothing is assumed of the
\* peer, except that what it sends is finite (MaxPacket).
Spec == Init /\ [][Next]_vars /\ WF_vars(Step)

-----------------------------------------------------------------------------
(* Properties *)

\* Type invariant: the shapes of the locals of ReadAction and of
\* TestCaseManager's pointers.
TypeOK ==
    /\ pc \in {"main", "walk", "read", "sons", "done", "abort"}
    /\ n \in {-1, 0, 1}
    /\ parent \in [Live -> Nat]
    /\ \A j \in 1 .. Len(result) : result[j] \in [obj : Nat, fail : BOOLEAN]
    /\ last_frame \in Nat
    /\ DOMAIN variables \subseteq Variable
    /\ \A v \in DOMAIN variables : variables[v] \in Nat

\* No State is deleted twice, however often a read loops, whichever
\* alternatives are dropped: the frame that a read returned is not the last
\* frame any more when the next read deletes that.
NoDoubleDelete == ~ double_delete

\* When main deletes the result of a test, no object of the test is left and
\* nothing points at one.
Reclaimed ==
    pc = "main" => Live = {} /\ last_frame = 0 /\ variables = << >>

\* The variables that a protocol model binds in a read that has a check, or
\* in an alternative of an or node.
Depth(p) == CHOOSE d \in Depths(Script[p].sons) : TRUE
Looping(p) ==
    /\ Script[p].op = "read"
    /\ \E r \in 1 .. Len(Script[p].sons) : Script[p].sons[r].op = "check"
Dropping(p, q) ==
    \E r \in q + 1 .. Len(Script[p].sons) :
        /\ Script[p].sons[r].op = "or"
        /\ Depth(p)[r] - Script[p].sons[r].arg <= Depth(p)[q]
Exposed ==
    {v \in Variable :
        \E p \in 1 .. Len(Script) : \E q \in 1 .. Len(Script[p].sons) :
            /\ Script[p].sons[q].op \in {"variable", "memorize"}
            /\ Script[p].sons[q].arg = v
            /\ Looping(p) \/ Dropping(p, q)}

\* The object of any other variable exists as long as the variable is bound:
\* only a frame that the loop of a read drops and an alternative that
\* InjectAction drops can take the object of a variable with them.
VariablesLive ==
    \A v \in DOMAIN variables \ Exposed : variables[v] \in Live

\* A read that succeeds returns a packet that all its checks accept, the
\* last one it took from the socket.  (A Bluetooth read that loops sees the
\* bytes of its first packet again.)
Accepts ==
    [][ \A p \in 1 .. Len(Script) :
          Script[p].op = "read" /\ pc = "sons" /\ pos = p /\ pos' = p + 1
              /\ frame # NoPacket =>
            /\ kind # "btrfcomm" => frame = newest
            /\ \A q \in 1 .. Len(Script[p].sons) :
                 /\ Script[p].sons[q].op = "check"
                 /\ \A r \in q + 1 .. Len(Script[p].sons) :
                      Script[p].sons[r].op # "or"
                 => frame.data \in Script[p].sons[q].arg ]_vars

\* A test that is given a packet of an earlier test has a UDP socket with the
\* port of that test, because the two began in the same second; nothing that
\* has arrived is carried over from one test to the next.  (A raw socket keeps
\* what it has not read.)
FrameOfThisPort ==
    pc = "sons" /\ kind # "raw" /\ Script[pos].op = "read" /\ frame # NoPacket
        => \/ frame.test = test
           \/ /\ kind = "udp" /\ frame.test \in 1 .. test
              /\ port[frame.test] = port[test]

\* Every read ends, and so does the campaign, unless a Bluetooth peer has
\* closed the channel: then the loop of ReadAction spins.
ReadsEnd ==
    \/ <>(pc \in {"done", "abort"})
    \/ <>[](kind = "btrfcomm" /\ closed /\ pc \in {"read", "sons"})
=============================================================================
