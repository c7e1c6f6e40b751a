---------------------------- MODULE MCWriterLock ----------------------------
(***************************************************************************)
(* Instances of WriterLock for TLC.                                        *)
(***************************************************************************)
EXTENDS WriterLock, TLC

CONSTANTS p1, p2, p3, i1, i2, i3, i4

\* Neither sessions nor inodes differ in anything but their names.
LockSymmetry ==
  Permutations(Processes) \union Permutations(Inodes)
=============================================================================
