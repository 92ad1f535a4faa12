---------------------------- MODULE MCSpiDevice ----------------------------
(* Instances of SpiDevice for TLC.  Devices, structs and files are model   *)
(* values; all three are interchangeable in Spec.                          *)
EXTENDS SpiDevice, TLC

\* What may happen in a run: everything but the two cases that end in
\* undefined behaviour; and the combination that breaks the driver, unbind
\* with release free to run inside remove.
EnvUsual == {"unload", "unbind", "create", "register", "nomem"}
EnvWindow == {"unload", "unbind", "window"}

Symmetry == Permutations(Devs) \cup Permutations(Structs) \cup Permutations(Files)
=============================================================================
