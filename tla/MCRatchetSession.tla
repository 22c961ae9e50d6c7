-------------------------- MODULE MCRatchetSession --------------------------
(***************************************************************************)
(* Instances of RatchetSession for TLC: the seeds and the skip limit the   *)
(* code and its tests use, and the bounds of the .cfg files.               *)
(***************************************************************************)
EXTENDS RatchetSession

\* b"HexaprivTestSharedSeed123456789012345", crates/common/src/lib.rs:71
TestSeedLen == 37

\* the 2000 of crates/common/src/signal.rs:257: more than any run sends
CodeMaxSkip == 2000

\* a limit small enough for a run to exceed it
SmallMaxSkip == 1

=============================================================================
