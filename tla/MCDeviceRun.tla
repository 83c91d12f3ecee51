----------------------------- MODULE MCDeviceRun -----------------------------
(***************************************************************************)
(* DeviceRun with runs and servers that may be swapped: no definition tells *)
(* one run or one server from another.  For safety properties only.         *)
(***************************************************************************)
EXTENDS DeviceRun, TLC

Symmetry == Permutations(Runs) \cup Permutations(Servers)
=============================================================================
