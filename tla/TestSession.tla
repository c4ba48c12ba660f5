---------------------------- MODULE TestSession ----------------------------
(***************************************************************************)
(* What main does around tree->runTest() to the sockets and the monitors:  *)
(* SocketFactory, the TCP, UDP, raw and Bluetooth sockets, the send and    *)
(* read actions that hold them, and the two monitors of TestCaseManager,   *)
(* RTTMonitor and SanityCheckMonitor.                                      *)
(*                                                                         *)
(* A command is a send or read action of the protocol model.  Those below  *)
(* no or and no repeat are created by main's tree->getAction(), the others *)
(* by the first test that reaches them.  Which ones those are, in which    *)
(* order a test runs the commands and which it runs, is left open.         *)
(***************************************************************************)
EXTENDS SocketFactory, FiniteSets

CONSTANTS
    Command,    \* the send and read commands of the model
    KindOf,     \* the kind of socket each of them uses
    Sender,     \* those that send; the others read
    MaxTest     \* bound: the number of tests of the campaign

ASSUME CommandAssumption ==
    /\ IsFiniteSet(Command)
    /\ KindOf \in [Command -> Kind]
    /\ Sender \subseteq Command
    /\ MaxTest \in Nat

VARIABLES
    pc,             \* where main is
    listen,         \* -l: TcpServerSocket instead of TcpSocket
    monitor,        \* -M: the two monitors are there
    test,           \* the number of the current test, from 1
    factory,        \* SocketFactory
    held,           \* the socket each command holds; 0: not created yet
    link,           \* each socket: "closed", "open" (not connected) or "up"
    session,        \* each socket: the test that last (re)connected it
    to_reconnect,   \* reconnectSocket: kinds it has yet to visit
    socket,         \* SanityCheckMonitor
    send_time,      \* RTTMonitor; a time is the number of the test it is in,
    rtts            \* 0 is pos_infin; an rtt is a pair of times

monitors == <<socket, send_time, rtts>>
config == <<listen, monitor>>
vars == <<pc, config, test, factory, held, link, session, to_reconnect, monitors>>

Init ==
    /\ pc = "getAction"
    /\ listen \in BOOLEAN
    /\ monitor \in BOOLEAN
    /\ test = 0
    /\ factory = NewFactory
    /\ held = [c \in Command |-> 0]
    /\ link = [k \in Kind |-> "closed"]
    /\ session = [k \in Kind |-> 0]
    /\ to_reconnect = {}
    /\ socket = 0
    /\ send_time = 0
    /\ rtts = {}

-----------------------------------------------------------------------------
(* Creating commands *)

\* A descriptor that is not open, open but not connected, or ready for use.
LinkState == {"closed", "open", "up"}

\* What the constructor of a socket leaves: TCP sockets are not opened, UDP
\* and raw sockets are, a Bluetooth one is connected or fails to.
Constructed(k) ==
    {x \in LinkState : /\ k = "tcp" => x = "closed"
                       /\ k \in {"udp", "raw"} => x = "up"}

\* Command::clone through ActionFactory: SocketFactory::getSocket(this).
CloneCommand(c) ==
    /\ pc \in {"getAction", "test"}
    /\ held[c] = 0
    /\ LET k == KindOf[c]
       IN /\ factory' = GetKindSocket(factory, k)
          /\ held' = [held EXCEPT ![c] = factory'.pointer[k]]
          /\ IF InUse(factory, k)
             THEN UNCHANGED <<link, session>>
             ELSE /\ \E x \in Constructed(k) : link' = [link EXCEPT ![k] = x]
                  /\ session' = [session EXCEPT ![k] = test]
    /\ UNCHANGED <<pc, config, test, to_reconnect, monitors>>

\* The visit of the tree is over.
TreeReady ==
    /\ pc = "getAction"
    /\ pc' = "run"
    /\ UNCHANGED <<config, test, factory, held, link, session, to_reconnect,
                   monitors>>

-----------------------------------------------------------------------------
(* One test *)

\* SocketFactory::reconnectSocket begins.
StartTest ==
    /\ pc = "run"
    /\ test < MaxTest
    /\ pc' = "reconnect"
    /\ test' = test + 1
    /\ to_reconnect' = {k \in Kind : InUse(factory, k)}
    /\ UNCHANGED <<config, factory, held, link, session, monitors>>

\* What reconnect() of a socket may return with.  TcpSocket logs a failure
\* and returns: the descriptor is open but not connected.  TcpServerSocket
\* returns when a peer connected, or at once if it cannot listen.
\* BTrfcommSocket does nothing if it has no descriptor, and otherwise tries
\* until it is connected.
Reconnected(k) ==
    {x \in LinkState :
        /\ k = "tcp" /\ listen => x # "open"
        /\ k = "udp" => x = "up"
        /\ k = "raw" => x = link[k]
        /\ k = "btrfcomm" => x = IF link[k] = "closed" THEN "closed" ELSE "up"}

\* These wait for the peer, without a timeout.
NeedsPeer(k) ==
    \/ k = "tcp" /\ listen
    \/ k = "btrfcomm" /\ link[k] # "closed"

\* One of the four ifs of reconnectSocket, in this order.
Turn == [tcp |-> 1, udp |-> 2, raw |-> 3, btrfcomm |-> 4]

\* Mutant: else if, only the first kind in use is reconnected.
ReconnectFirst(k) ==
    /\ pc = "reconnect"
    /\ k \in to_reconnect
    /\ \A j \in to_reconnect : Turn[k] <= Turn[j]
    /\ \E x \in Reconnected(k) : link' = [link EXCEPT ![k] = x]
    /\ session' = [session EXCEPT ![k] = test]
    /\ to_reconnect' = {}
    /\ UNCHANGED <<pc, config, test, factory, held, monitors>>

\* reconnect() of one socket.
ReconnectSocket(k) ==
    /\ pc = "reconnect"
    /\ k \in to_reconnect
    /\ \A j \in to_reconnect : Turn[k] <= Turn[j]
    /\ \E x \in Reconnected(k) : link' = [link EXCEPT ![k] = x]
    /\ session' = [session EXCEPT ![k] = test]
    /\ to_reconnect' = to_reconnect \ {k}
    /\ UNCHANGED <<pc, config, test, factory, held, monitors>>

\* Mutant: the time of the last packet sent is kept.
StartMonitorsKeepTime ==
    /\ factory' = GetSocket(factory)
    /\ socket' = GotSocket(factory)
    /\ UNCHANGED <<send_time, rtts>>

\* start_test of RTTMonitor and of SanityCheckMonitor.
StartMonitors ==
    /\ send_time' = 0
    /\ factory' = GetSocket(factory)
    /\ socket' = GotSocket(factory)
    /\ UNCHANGED rtts

\* With -M, sendNotificationStartTestCase; then tree->runTest() begins.
RunTest ==
    /\ pc = "reconnect"
    /\ to_reconnect = {}
    /\ pc' = "test"
    /\ IF monitor THEN StartMonitors ELSE UNCHANGED <<factory, monitors>>
    /\ UNCHANGED <<config, test, held, link, session, to_reconnect>>

\* A send action whose socket->send() returned n >= 0.  A TCP socket must be
\* connected; RawSocket::send and BTrfcommSocket::send return nothing, so n
\* is arbitrary.
SendPacket(c) ==
    /\ pc = "test"
    /\ c \in Sender
    /\ held[c] # 0
    /\ KindOf[c] = "tcp" => link["tcp"] = "up"
    /\ send_time' = IF monitor THEN test ELSE send_time
    /\ UNCHANGED <<pc, config, test, factory, held, link, session,
                   to_reconnect, socket, rtts>>

\* UdpSocket::send lets the exception of send_to through, and nothing
\* catches it: std::terminate.
SendAborts(c) ==
    /\ pc = "test"
    /\ c \in Sender
    /\ held[c] # 0
    /\ KindOf[c] = "udp"
    /\ pc' = "abort"
    /\ UNCHANGED <<config, test, factory, held, link, session, to_reconnect,
                   monitors>>

\* A read action got a packet.
ReadPacket(c) ==
    /\ pc = "test"
    /\ c \in Command \ Sender
    /\ held[c] # 0
    /\ link[KindOf[c]] = "up"
    /\ rtts' = IF monitor /\ send_time # 0
               THEN rtts \cup {<<send_time, test>>} ELSE rtts
    /\ UNCHANGED <<pc, config, test, factory, held, link, session,
                   to_reconnect, socket, send_time>>

\* Mutant: without -M the test is run again.
TestReturnsAgain ==
    /\ pc = "test"
    /\ pc' = IF monitor THEN "finish" ELSE "reconnect"
    /\ UNCHANGED <<config, test, factory, held, link, session, to_reconnect,
                   monitors>>

\* runTest returned; with -M sendNotificationFinishTestCase.
TestReturns ==
    /\ pc = "test"
    /\ pc' = IF monitor THEN "finish" ELSE "run"
    /\ UNCHANGED <<config, test, factory, held, link, session, to_reconnect,
                   monitors>>

\* UdpSocket::check() calls recvmsg with an uninitialised header on a
\* descriptor that has no receive timeout (reconnect() opened it anew): it
\* may fail at once or wait until a datagram arrives.
CheckWaits ==
    /\ pc = "finish"
    /\ socket # 0
    /\ socket = factory.pointer["udp"]
    /\ pc' = "check"
    /\ UNCHANGED <<config, test, factory, held, link, session, to_reconnect,
                   monitors>>

\* RTTMonitor::getReport.
GetReport ==
    /\ rtts' = {}
    /\ UNCHANGED send_time

\* SanityCheckMonitor::finish_test once check() returned; getReport;
\* prepareNextTestCase and the log.  A datagram may have ended the check.
FinishMonitors ==
    /\ pc \in {"finish", "check"}
    /\ pc' = "run"
    /\ IF socket # 0
       THEN /\ factory' = ReleaseSocket(factory, socket)
            /\ socket' = 0
       ELSE UNCHANGED <<factory, socket>>
    /\ GetReport
    /\ UNCHANGED <<config, test, held, link, session, to_reconnect>>

\* After the last test: releaseAllSocket.
EndMain ==
    /\ pc = "run"
    /\ test = MaxTest
    /\ pc' = "done"
    /\ factory' = ReleaseAllSocket(factory)
    /\ UNCHANGED <<config, test, held, link, session, to_reconnect, monitors>>

-----------------------------------------------------------------------------
\* What the commands do, before the first test and in a test.
Commands ==
    \E c \in Command :
        CloneCommand(c) \/ SendPacket(c) \/ SendAborts(c) \/ ReadPacket(c)

Reconnect == \E k \in Kind : ReconnectSocket(k)

Stopped == pc \in {"done", "abort"} /\ UNCHANGED vars

Next ==
    \/ Commands
    \/ TreeReady
    \/ StartTest
    \/ Reconnect
    \/ RunTest
    \/ TestReturns
    \/ CheckWaits
    \/ FinishMonitors
    \/ EndMain
    \/ Stopped

\* main runs on, except where it waits for a peer: in reconnect() of the
\* kinds that NeedsPeer, and in a check that waits for a datagram.
Proceed ==
    \/ TreeReady
    \/ StartTest
    \/ \E k \in Kind : ~ NeedsPeer(k) /\ ReconnectSocket(k)
    \/ RunTest
    \/ TestReturns
    \/ pc = "finish" /\ (CheckWaits \/ FinishMonitors)
    \/ EndMain

Spec == Init /\ [][Next]_vars /\ WF_vars(Proceed)

-----------------------------------------------------------------------------
(* Properties *)

\* Type invariant: the shapes of SocketFactory, the actions and the monitors.
TypeOK ==
    /\ pc \in {"getAction", "run", "reconnect", "test", "finish", "check",
               "done", "abort"}
    /\ listen \in BOOLEAN
    /\ monitor \in BOOLEAN
    /\ test \in Nat
    /\ factory \in FactoryType
    /\ held \in [Command -> Nat]
    /\ link \in [Kind -> LinkState]
    /\ session \in [Kind -> Nat]
    /\ to_reconnect \subseteq Kind
    /\ socket \in Nat
    /\ send_time \in Nat
    /\ rtts \subseteq Nat \X Nat

\* The commands, and the monitor, that hold the socket of kind k.
Holders(k) == {c \in Command : held[c] # 0 /\ KindOf[c] = k}
MonitorHolds(k) == IF socket # 0 /\ socket = factory.pointer[k] THEN 1 ELSE 0

\* The counters of SocketFactory are the numbers of holders: the monitor
\* gives back in finish_test what it took in start_test.  (The references to
\* a Bluetooth socket only grow: releaseSocket(Socket* ) does not know it.)
RefCounts ==
    \A k \in Kind :
        /\ factory.count[k] >= Cardinality(Holders(k)) + MonitorHolds(k)
        /\ k # "btrfcomm" =>
             factory.count[k] = Cardinality(Holders(k)) + MonitorHolds(k)

\* The factory points at every socket that is not deleted, and at no other:
\* nothing leaks and releaseAllSocket deletes nothing twice.
Ownership == factory.live = {factory.pointer[k] : k \in Kind} \ {0}

\* A command, or the monitor, never uses a deleted socket.
NoDangling ==
    pc # "done" =>
        /\ \A c \in Command : held[c] # 0 => held[c] \in factory.live
        /\ socket # 0 => socket \in factory.live

\* A test runs on no connection of an earlier test: each socket in use was
\* reconnected for it, or created in it.
NoStaleSession ==
    pc = "test" => \A k \in Kind : InUse(factory, k) => session[k] = test

\* An rtt is the time between a packet sent and a packet read in the same
\* test, and is reported in that test.
RttOfThisTest == \A r \in rtts : r = <<test, test>>

\* The campaign ends, unless it waits for ever for a peer: to connect, or to
\* send the datagram that SanityCheckMonitor's check may wait for.
Ends ==
    \/ <>(pc \in {"done", "abort"})
    \/ <>[](pc \in {"reconnect", "check"})
=============================================================================
