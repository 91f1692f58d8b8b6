---------------------------- MODULE DurableStore ----------------------------
(***************************************************************************)
(* What the disk promises to system calls across power cuts: the blocks a  *)
(* machine would find after a power cut and recovery, now.                 *)
(*                                                                         *)
(* A call that returned is there.  A call that a power cut interrupted may *)
(* be there, in part too, and may come and go until a later call that      *)
(* writes the same block returns.  Power cuts and recovery are invisible.  *)
(***************************************************************************)
EXTENDS Naturals, Sequences

CONSTANT Data          \* the blocks that calls write

VARIABLES
    stable,            \* the call whose contents a block has, 0 at first
    writes,            \* the blocks of each call, in the order of the calls
    acked              \* the calls that returned

vars == <<writes, acked, stable>>

Init ==
    /\ stable = [b \in Data |-> 0]
    /\ writes = <<>>
    /\ acked = {}

\* A call starts; what it will write is known to it alone.
Start(blocks) ==
    /\ writes' = Append(writes, blocks)
    /\ UNCHANGED <<acked, stable>>

\* What block b may hold: the contents some call gave it, but none older than
\* those of a call that returned.
Holds(b, n) ==
    /\ n # 0 => b \in writes[n]
    /\ \A k \in acked : b \in writes[k] => k <= n

\* Blocks change without a word to the calls.
Settle ==
    /\ UNCHANGED <<writes, acked>>
    /\ stable' \in {f \in [Data -> 0 .. Len(writes)] : \A b \in Data : Holds(b, f[b])}

\* A call returns once all its blocks are there, or newer ones.
Return(n) ==
    /\ n \in DOMAIN writes \ acked
    /\ acked' = acked \cup {n}
    /\ \A b \in writes[n] : stable[b] >= n
    /\ UNCHANGED <<writes, stable>>

Next ==
    \/ \E blocks \in SUBSET Data : Start(blocks)
    \/ Settle
    \/ \E n \in DOMAIN writes : Return(n)

Spec == Init /\ [][Next]_vars

----------------------------------------------------------------------------
TypeOK ==
    /\ stable \in [Data -> Nat]
    /\ writes \in Seq(SUBSET Data)
    /\ acked \subseteq DOMAIN writes

\* A call that returned is never taken back.
AckedAreThere == \A n \in acked : \A b \in writes[n] : stable[b] >= n
=============================================================================
