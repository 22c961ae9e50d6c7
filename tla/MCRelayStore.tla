---------------------------- MODULE MCRelayStore ----------------------------
(***************************************************************************)
(* Instances of RelayStore for TLC: alice and bob take part in every       *)
(* conversation; carol, where a run has it, is a stranger.                 *)
(***************************************************************************)
EXTENDS RelayStore

CONSTANTS alice, bob

MCMembers == [x \in Conv |-> {alice, bob}]

=============================================================================
