--------------------------- MODULE SocketFactory ---------------------------
(***************************************************************************)
(* The reference-counted sockets of SocketFactory                          *)
(* (src/lib/socket-factory.cc), one of each kind, as operators on its      *)
(* state.  Socket objects are numbered in the order of their creation, so  *)
(* that a pointer that is kept after its object was deleted can be told    *)
(* from a valid one; 0 is the null pointer.                                *)
(***************************************************************************)
EXTENDS Integers

Kind == {"udp", "tcp", "raw", "btrfcomm"}

\* count: udp, tcp, raw, btrfcomm; pointer: udp_socket, tcp_socket, ...;
\* live: the objects not deleted; next: the number of the next object.
FactoryType ==
    [count : [Kind -> Int], pointer : [Kind -> Nat],
     live : SUBSET Nat, next : Nat \ {0}]

NewFactory ==
    [count |-> [k \in Kind |-> 0], pointer |-> [k \in Kind |-> 0],
     live |-> {}, next |-> 1]

\* newUdpSocket, newTcpSocket, newRawSocket, newBTrfcommSocket.
NewSocket(f, k) ==
    [count |-> f.count, pointer |-> [f.pointer EXCEPT ![k] = f.next],
     live |-> f.live \cup {f.next}, next |-> f.next + 1]

SetCount(f, k, n) ==
    [count |-> [f.count EXCEPT ![k] = n], pointer |-> f.pointer,
     live |-> f.live, next |-> f.next]

\* Mutant: each request creates a socket.
GetKindSocketNew(f, k) == SetCount(NewSocket(f, k), k, f.count[k] + 1)

\* getUdpSocket, getTcpSocket, getRawSocket, getBTrfcommSocket.
GetKindSocket(f, k) ==
    IF f.count[k] = 0 THEN SetCount(NewSocket(f, k), k, 1)
                      ELSE SetCount(f, k, f.count[k] + 1)

\* delete of the socket of kind k; the pointer to it is kept.
DeleteSocket(f, k) ==
    [count |-> f.count, pointer |-> f.pointer,
     live |-> f.live \ {f.pointer[k]}, next |-> f.next]

\* releaseUdpSocket, releaseTcpSocket, ...
ReleaseKindSocket(f, k) ==
    IF f.count[k] - 1 <= 0 /\ f.pointer[k] # 0
    THEN DeleteSocket(SetCount(f, k, 0), k)
    ELSE SetCount(f, k, f.count[k] - 1)

\* The kind that getSocket() serves: the first one in use.
InUse(f, k) == f.count[k] # 0
ServedKind(f) ==
    IF InUse(f, "udp") THEN "udp"
    ELSE IF InUse(f, "tcp") THEN "tcp"
    ELSE IF InUse(f, "raw") THEN "raw" ELSE "btrfcomm"

\* Mutant: the socket is handed out without being counted.
GetSocketUncounted(f) == f

\* getSocket(): no socket is created, since one is in use.
AnyInUse(f) == \E k \in Kind : InUse(f, k)
GetSocket(f) == IF AnyInUse(f) THEN GetKindSocket(f, ServedKind(f)) ELSE f

\* Mutant: -1 stands for no socket.
GotSocketMinusOne(f) == IF AnyInUse(f) THEN f.pointer[ServedKind(f)] ELSE -1

\* The socket that getSocket() returns.
GotSocket(f) == IF AnyInUse(f) THEN f.pointer[ServedKind(f)] ELSE 0

\* Mutant: raw sockets are not released either.
ReleaseSocketNoRaw(f, socket) ==
    IF socket = f.pointer["tcp"] THEN ReleaseKindSocket(f, "tcp")
    ELSE IF socket = f.pointer["udp"] THEN ReleaseKindSocket(f, "udp")
    ELSE f

\* releaseSocket(Socket* ): it has no branch for btrfcomm_socket.
ReleaseSocket(f, socket) ==
    IF socket = f.pointer["tcp"] THEN ReleaseKindSocket(f, "tcp")
    ELSE IF socket = f.pointer["udp"] THEN ReleaseKindSocket(f, "udp")
    ELSE IF socket = f.pointer["raw"] THEN ReleaseKindSocket(f, "raw")
    ELSE f

\* releaseAllSocket: the counters keep their values.
ReleaseAllSocket(f) ==
    [count |-> f.count, pointer |-> [k \in Kind |-> 0],
     live |-> f.live \ {f.pointer[k] : k \in Kind}, next |-> f.next]
=============================================================================
