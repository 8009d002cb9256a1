---------------------------- MODULE FencedWrites ----------------------------
(***************************************************************************)
(* What fencing promises to the data behind a resource key, whatever the   *)
(* leases, clocks and transactions do: grants of a key are numbered        *)
(* upwards, and data is only ever written under the newest grant.          *)
(* ResourceLeases implements this specification.                           *)
(***************************************************************************)
EXTENDS Naturals

CONSTANT Keys

VARIABLES granted,   \* key -> number of the newest committed grant
          written    \* key -> grant under which the data was last written

fvars == <<granted, written>>

FInit == /\ granted = [k \in Keys |-> 0]
         /\ written = [k \in Keys |-> 0]

\* One committed transaction: it may be granted some keys and write some keys.
FCommit == /\ granted' \in [Keys -> Nat]
           /\ written' \in [Keys -> Nat]
           /\ \A k \in Keys : /\ granted'[k] >= granted[k]
                              /\ written'[k] \in {written[k], granted'[k]}

FNext == FCommit

FSpec == FInit /\ [][FNext]_fvars

=============================================================================
