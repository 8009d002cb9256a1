------------------------------ MODULE MCRecovery ------------------------------
(***************************************************************************)
(* What a durable operation relies on, in one run: each behaviour is one   *)
(* of the leases an operation is driven under, of the passes that pick the *)
(* operation to drive, or of an operation that runs under the barrier of   *)
(* the whole process, the cancellation of an unpaid service.               *)
(***************************************************************************)
EXTENDS ResourceLeases, DueRecovery, Cancellation, TLC

CONSTANTS w1, w2, up, opOwner, holdOwner

VARIABLE part       \* "leases", "passes" or "cancel"; it never changes

MCOwners == {opOwner, holdOwner}

\* Two workers whose owner strings collide: the epoch alone must fence.
MCOwnerOf == [w \in Workers |-> IF w = up THEN holdOwner ELSE opOwner]

MCTimes == 0..3
MCTTLs == {1}

\* A peer and a session, or two sessions, and the faults they meet.
Can(wg, sids, away, events, n, units) ==
    [wg |-> wg, sids |-> sids, away |-> away, events |-> events, left |-> n, units |-> units]

MCCPlans == {
    Can(TRUE, {1}, {}, {"crash", "interim"}, 2, 1),
    Can(FALSE, {1, 2}, {2}, {"stray"}, 1, 1),
    Can(TRUE, {1}, {}, {"restart"}, 2, 2),
    Can(FALSE, {1}, {}, {"interim", "mangled"}, 1, 2),
    Can(FALSE, {1, 2}, {}, {"interim"}, 1, 1),
    Can(TRUE, {1}, {}, {"renew", "crash"}, 2, 1) }

recoveryvars == <<part, vars, duevars, cancelvars>>

\* A part that is not this behaviour's stays in one of its initial states.
RecoveryInit ==
    /\ part \in {"leases", "passes", "cancel"}
    /\ Init /\ DueInit /\ CancelInit
    /\ part # "cancel" => cplan = CHOOSE p \in CPlans : TRUE

LeasePart(A)  == part = "leases" /\ A /\ UNCHANGED <<part, duevars, cancelvars>>
PassPart(A)   == part = "passes" /\ A /\ UNCHANGED <<part, vars, cancelvars>>
CancelPart(A) == part = "cancel" /\ A /\ UNCHANGED <<part, vars, duevars>>

\* A cancellation that nobody asks for again rests.
Rests == CancelPart(At("idle") /\ UNCHANGED cancelvars)

RecoveryNext == LeasePart(Next) \/ PassPart(DueNext) \/ CancelPart(CancelNext) \/ Rests

RecoverySpec ==
    /\ RecoveryInit /\ [][RecoveryNext]_recoveryvars
    /\ WF_recoveryvars(PassPart(Pass)) /\ WF_recoveryvars(CancelPart(Executes))
=============================================================================
