---------------------------- MODULE MCSpiMessage ----------------------------
(* An instance of SpiMessage for TLC: both bit orders, odd and even lengths, *)
(* groups that divide the length, do not divide it, and exceed it, and two   *)
(* writes one after the other.                                               *)
EXTENDS SpiMessage

\* Chip select 1 without and with LSBF, and a message for chip select 2.
ControlsAll == {16, 18, 38}
WidthsAll == {8, 16, 12}
LengthsAll == {0, 4, 5}
GroupsAll == {1, 3, 5}
PayloadsAll == {<<1, 6, 176, 77, 130>>}
=============================================================================
