------------------------------- MODULE Vault -------------------------------
(***************************************************************************)
(* What the files of a client promise: a vault that is set up with two     *)
(* codes and lets its user in with the first of them.  It keeps both       *)
(* codes as they are through everything but a wipe, and a wipe takes both  *)
(* at once; then, and only then, can it be set up again.                   *)
(***************************************************************************)

CONSTANTS Code, None

VARIABLES
    key,      \* the code that opens the vault; None when nothing does
    alarm,    \* the code that wipes it
    inside,   \* is the user in?
    wiping    \* is a wipe under way?

vaultVars == <<key, alarm, inside, wiping>>

VaultInit == key = None /\ alarm = None /\ ~inside /\ ~wiping

SetUp(a, b) ==
    /\ key = None /\ a # b /\ ~inside /\ ~wiping
    /\ key' = a /\ alarm' = b
    /\ UNCHANGED <<inside, wiping>>

\* A user gets in while there is a code, even if a wipe has begun elsewhere.
Enter ==
    /\ key # None /\ ~inside
    /\ inside' = TRUE
    /\ UNCHANGED <<key, alarm, wiping>>

Leave ==
    /\ inside /\ inside' = FALSE
    /\ UNCHANGED <<key, alarm, wiping>>

\* A wipe puts its user out or not; one from elsewhere does not.
BeginWipe ==
    /\ ~wiping /\ wiping' = TRUE
    /\ inside' \in {inside, FALSE}
    /\ UNCHANGED <<key, alarm>>

Destroy ==
    /\ wiping /\ key' = None /\ alarm' = None
    /\ UNCHANGED <<inside, wiping>>

\* Complete or cut short, with the user perhaps.
EndWipe ==
    /\ wiping /\ wiping' = FALSE
    /\ inside' \in {inside, FALSE}
    /\ UNCHANGED <<key, alarm>>

VaultNext ==
    \/ \E a, b \in Code : SetUp(a, b)
    \/ Enter \/ Leave
    \/ BeginWipe \/ Destroy \/ EndWipe

VaultSpec == VaultInit /\ [][VaultNext]_vaultVars

=============================================================================
