------------------------------ MODULE MCVmBuild ------------------------------
(* The largest request: an OS disk and seven data disks, two of them equal. *)
EXTENDS VmBuild

SevenDisks == <<40, 60, 40, 80, 100, 120, 140>>

=============================================================================
