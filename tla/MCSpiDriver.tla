---------------------------- MODULE MCSpiDriver ----------------------------
(* Instances of SpiDriver for TLC. *)
EXTENDS SpiDriver, TLC

CONSTANTS d1, d2

Message(c, n, g, i) == [cs |-> c, ndb |-> n, group |-> g, id |-> i]

\* The devices have different chip selects.
Selects == [d \in Devs |-> IF d = d1 THEN 1 ELSE 2]

\* Messages of one chunk and of two (the last one beyond the message), and
\* one for a chip select that no device has.
MsgsMixed == {Message(1, 1, 2, 1), Message(1, 3, 2, 2), Message(3, 1, 1, 3)}
MsgsTwo == {Message(1, 3, 2, 2), Message(3, 1, 1, 3)}
EnvRemoval == {"unload", "unbind", "nomem"}
EnvShared == {"unload", "window", "efault", "sync"}
EnvCopyFault == {"efault"}

Symmetry == Permutations(Files) \cup Permutations(Structs)
=============================================================================
