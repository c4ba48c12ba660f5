--------------------------- MODULE MCTestSession ---------------------------
(***************************************************************************)
(* A protocol model with commands on every kind of socket.                 *)
(***************************************************************************)
EXTENDS TestSession, TLC

CONSTANTS t1, t2, u1, r1, b1   \* commands

\* t1 sends and t2 reads over TCP, u1 sends over UDP, r1 reads raw frames
\* and b1 reads from a Bluetooth channel.
MixedCommand == {t1, t2, u1, r1, b1}
MixedKind ==
    t1 :> "tcp" @@ t2 :> "tcp" @@ u1 :> "udp" @@ r1 :> "raw" @@ b1 :> "btrfcomm"
=============================================================================
