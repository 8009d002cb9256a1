---------------------------- MODULE SaleApproval ----------------------------
(***************************************************************************)
(* One sale or renewal paid by card: the attempts of TopupApproval, whose  *)
(* production call now runs a durable operation.  T1 binds the execution   *)
(* token, the key and the frozen manifest; every later transaction of the  *)
(* operation asks for that binding again, and T_final records the effects  *)
(* and closes the approval.  A key revoked in between puts the operation   *)
(* aside until the superadmin decides the approval's recovery.             *)
(*                                                                         *)
(* What the operation does at the nodes is Provisioning's subject: here    *)
(* one remote object stands for all of them, and the child's last check    *)
(* and its write are one step.                                             *)
(***************************************************************************)
EXTENDS TopupApproval

CONSTANTS SalePlans       \* plans with kind = "new" | "renew", and whether the customer exists

\* The keys and approvers of the attempts, as those of TopupApproval.
ASSUME SaleAssumption == SalePlans \subseteq ApPlan

VARIABLES
    live,        \* key -> it is enabled
    cust,        \* [exists, shape: of the registered intent, drift: since the manifest was frozen,
                 \*  from: the first version of this approval's uuid]
    look,        \* attempt -> [shape: at its registration, via: the call its bot chose]
    op,          \* the operation of the approval's current version
    recovery,    \* [state, aged]: the one approval_recovery of the approval
    threads      \* attempt -> "none" | "cancel": T1 rolled back | "wait": for the operation

salevars == <<live, cust, look, op, recovery, threads>>
custdb == <<live, cust>>

NoOperation == [state |-> "none", remote |-> "none", late |-> FALSE]
NoRecovery == [state |-> "none", aged |-> FALSE]
Keys == {KeyOf(a) : a \in Attempts}

ShapeNow == IF aplan.kind = "renew" THEN "renew" ELSE IF cust.exists THEN "existing" ELSE "new"

SaleInit ==
    /\ live = [k \in Keys |-> TRUE]
    /\ cust = [exists |-> aplan.known, shape |-> "none", drift |-> FALSE, from |-> 0]
    /\ look = [a \in Attempts |-> [shape |-> "none", via |-> "none"]]
    /\ op = NoOperation /\ recovery = NoRecovery
    /\ threads = [a \in Attempts |-> "none"]

-----------------------------------------------------------------------------
(* The bot and the registration *)

\* The bot looks the customer up right before it sends the production call.
Looks(a) ==
    look' = IF ap'[a].pc = "produce" /\ ap[a].pc # "produce" THEN [look EXCEPT ![a].via = ShapeNow] ELSE look

\* A new version of the approval has no operation yet.
Versioned == op' = IF row'.version = row.version THEN op ELSE NoOperation

Admitted(a) == live[KeyOf(a)]

IntentChanged == row.state # "none" /\ cust.shape # ShapeNow

SaleTimesOut(a) == TimesOut(a) /\ Looks(a) /\ UNCHANGED <<custdb, op, recovery, threads>>

SaleBegin(a) ==
    /\ Admitted(a) /\ BeginReads(a, IntentChanged)
    /\ look' = IF a \in reading' THEN [look EXCEPT ![a].shape = ShapeNow]
               ELSE IF ap'[a].pc = "produce" /\ ap[a].pc # "produce" THEN [look EXCEPT ![a].via = ShapeNow] ELSE look
    /\ Versioned /\ UNCHANGED <<custdb, recovery, threads>>

SaleInsert(a) ==
    /\ BeginInserts(a) /\ Looks(a)
    /\ IF row' = row THEN UNCHANGED <<cust, recovery>>
       ELSE /\ cust' = [cust EXCEPT !.shape = look[a].shape, !.drift = FALSE, !.from = row'.version]
            /\ recovery' = NoRecovery               \* a new uuid
    /\ Versioned /\ UNCHANGED <<live, threads>>

\* Every call of a key that is off is refused before anything is looked at; the
\* bot takes a refused registration for an unavailable one.
KeyRefused(a, kind) ==
    /\ Arrived(kind, a) /\ ~Admitted(a) /\ a \notin reading /\ threads[a] = "none"
    /\ CASE kind = "begin"   -> Answers(a, NoExecToken)
         [] kind = "produce" -> NotAccepted(a)
         [] kind = "card"    -> IF Waits(a, "card") THEN Approve(a) ELSE Unheard(a, "card")
         [] OTHER -> /\ calls' = calls \ {<<kind, a>>} /\ UNCHANGED pend
                     /\ ap' = [ap EXCEPT ![a].pc = IF @ = kind THEN "over" ELSE @]
    /\ Looks(a)
    /\ UNCHANGED <<aplan, runtime, wphase, apdb, reading, custdb, op, recovery, threads>>

-----------------------------------------------------------------------------
(* The production call: T1 *)

Running == op.state \in {"forward", "compensating", "cleanup"}

\* Without an approval: refused under 'required', otherwise a sale of its own.
PlainSale(a) ==
    LET free == IF look[a].via = "new" THEN ~cust.exists /\ ~Running ELSE cust.exists IN
    IF EffectiveMode \in {"off", "shadow"} /\ free
    THEN /\ money' = [money EXCEPT !.plain = @ + 1] /\ cust' = [cust EXCEPT !.exists = TRUE]
         /\ Accepted(a)
    ELSE NotAccepted(a) /\ UNCHANGED <<money, cust>>

Executable(a) ==
    /\ EffectiveMode # "blocked" /\ TokenHolds(a)
    /\ look[a].via = cust.shape /\ row.key = KeyOf(a)
    /\ op.state # "none" \/ (row.state = "registered" /\ ~Evidence)

\* The registration against what is there now.
Mismatch ==
    \/ EffectiveMode # (IF row.strict THEN "required" ELSE "shadow")
    \/ cust.drift
    \/ cust.shape = "new" /\ cust.exists

Recorded == evid' = {"main"} \cup (IF row.card THEN {"card"} ELSE {})

\* Mutant of OpenRecovery: nobody is asked.
NoRecoveryOpened == recovery

\* One recovery per approval: a repeat returns the same row, whatever its state.
OpenRecovery == IF recovery.state = "none" THEN [NoRecovery EXCEPT !.state = "cleanup_required"] ELSE recovery

CloseRecovery(r) == IF r.state = "running" THEN [r EXCEPT !.state = "completed"] ELSE r

\* T_final: the sale with its effects.  An effect that cannot be recorded
\* rolls all of it back under 'required'; in shadow the sale stands and the
\* recovery is opened in the same commit.
Completes ==
    /\ money' = [money EXCEPT !.matched = @ + 1] /\ cardPaid' = cardPaid + 1
    /\ cust' = [cust EXCEPT !.exists = TRUE]
    /\ op' = [op EXCEPT !.state = "completed"]
    /\ \/ /\ Recorded /\ row' = [row EXCEPT !.state = "completed"]
          /\ recovery' = CloseRecovery(recovery) /\ UNCHANGED aplan
       \/ /\ May("unrecorded") /\ ~row.strict /\ aplan' = Used
          /\ evid' = {} /\ row' = [row EXCEPT !.state = "mutating"]
          /\ recovery' = CloseRecovery(OpenRecovery)

CannotComplete == May("unrecorded") /\ row.strict /\ aplan' = Used

Sells(a) ==
    /\ threads' = [threads EXCEPT ![a] = "wait"]
    /\ UNCHANGED <<calls, pend, ap>>

\* A renewal is one transaction; a new service is prepared and handed over.
FreshSale(a) ==
    IF aplan.kind = "renew"
    THEN \/ Completes /\ Sells(a)
         \/ /\ CannotComplete /\ threads' = [threads EXCEPT ![a] = "cancel"]
            /\ UNCHANGED <<row, money, evid, cardPaid, cust, op, recovery, calls, pend, ap>>
    ELSE /\ row' = [row EXCEPT !.state = "mutating"]
         /\ op' = [NoOperation EXCEPT !.state = "forward"]
         /\ Sells(a)
         /\ UNCHANGED <<aplan, money, evid, cardPaid, cust, recovery>>

Sell(a) ==
    /\ Arrived("produce", a) /\ Admitted(a) /\ threads[a] = "none"
    /\ IF ap[a].tok = NoExecToken
       THEN PlainSale(a) /\ UNCHANGED <<aplan, row, evid, cardPaid, op, recovery, threads>>
       ELSE IF ~Executable(a)
       THEN NotAccepted(a) /\ UNCHANGED <<aplan, apdb, cust, op, recovery, threads>>
       ELSE IF op.state # "none"
       THEN Sells(a) /\ UNCHANGED <<aplan, apdb, cust, op, recovery>>
       ELSE IF Mismatch
       THEN /\ threads' = [threads EXCEPT ![a] = "cancel"]
            /\ UNCHANGED <<aplan, apdb, cust, op, recovery, calls, pend, ap>>
       ELSE FreshSale(a)
    /\ UNCHANGED <<runtime, wphase, reading, live, look>>

\* Mutant of Cancellable: only the version is compared.
SameVersion(a) == row.version = ap[a].tok

Cancellable(a) == row.version = ap[a].tok /\ row.state = "registered" /\ evid = {}

\* registered -> cancelled, in a transaction of its own after T1 rolled back.
CancelApproval(a) ==
    /\ threads[a] = "cancel"
    /\ row' = IF Cancellable(a) THEN [row EXCEPT !.state = "cancelled"] ELSE row
    /\ threads' = [threads EXCEPT ![a] = "none"]
    /\ NotAccepted(a)
    /\ UNCHANGED <<aplan, runtime, wphase, money, evid, cardPaid, reading, custdb, look, op, recovery>>

\* The request thread sees its operation end, or its budget.
Answer(a) ==
    /\ threads[a] = "wait"
    /\ IF op.state = "completed" /\ row.version = ap[a].tok THEN Accepted(a) ELSE NotAccepted(a)
    /\ threads' = [threads EXCEPT ![a] = "none"]
    /\ UNCHANGED <<aplan, runtime, wphase, apdb, reading, custdb, look, op, recovery>>

\* With an operation the card is answered from its optional effects, and the
\* end of the approval is only read.
SaleCard(a) ==
    /\ Admitted(a)
    /\ IF op.state # "none" /\ ap[a].tok # NoExecToken
       THEN /\ Arrived("card", a)
            /\ IF Waits(a, "card") THEN Approve(a) ELSE Unheard(a, "card")
            /\ UNCHANGED <<aplan, runtime, wphase, apdb, reading>>
       ELSE RecordCard(a)
    /\ UNCHANGED salevars

SaleFinalize(a, kind) ==
    /\ Admitted(a) /\ Arrived(kind, a)
    /\ IF op.state # "none" \/ ap[a].tok < cust.from
       THEN /\ calls' = calls \ {<<kind, a>>}
            /\ ap' = [ap EXCEPT ![a].pc = IF @ = kind THEN "over" ELSE @]
            /\ UNCHANGED <<aplan, runtime, wphase, pend, apdb, reading>>
       ELSE Finalize(a, kind)
    /\ UNCHANGED salevars

-----------------------------------------------------------------------------
(* The operation: one tick of a request thread or of the recovery worker *)

Ticks == EffectiveMode # "blocked"

\* Mutant of Bound: the key is not asked again.
BoundByVersion == TRUE

\* A recovery the superadmin set running replaces the key check.
Bound == live[row.key] \/ recovery.state = "running"

Forward == op.state = "forward" /\ Ticks
MayProceed == Forward /\ Bound /\ row.state = "mutating"

opparts == <<runtime, wphase, pend, calls, reading, ap, custdb, look, threads>>
opend == <<runtime, wphase, pend, calls, reading, ap, live, look, threads>>

\* Mutant of PutAside: the lost binding is only reported.
NotPutAside == UNCHANGED <<op, recovery>>

PutAside == op' = [op EXCEPT !.state = "cleanup"] /\ recovery' = OpenRecovery

LoseBinding ==
    /\ Forward /\ ~(Bound /\ row.state = "mutating")
    /\ PutAside /\ UNCHANGED <<aplan, apdb, opparts>>

\* The deadline of ten minutes, or a wallet epoch, a target or a node gone.
GiveUp ==
    /\ MayProceed
    /\ \/ op.late /\ UNCHANGED aplan
       \/ May("fail") /\ aplan' = Used
    /\ op' = [op EXCEPT !.state = "compensating"]
    /\ UNCHANGED <<apdb, recovery, opparts>>

BeginCall ==
    /\ MayProceed /\ ~op.late /\ op.remote = "none"
    /\ op' = [op EXCEPT !.remote = "calling"]
    /\ UNCHANGED <<aplan, apdb, recovery, opparts>>

\* The child asks for the binding itself before it writes.
ApprovalLive == row.state = "mutating" /\ Bound
CallReturns ==
    /\ op.remote = "calling" /\ op.state = "forward"
    /\ op' = [op EXCEPT !.remote = IF ApprovalLive THEN "made" ELSE "none"]
    /\ UNCHANGED <<aplan, apdb, recovery, opparts>>

TFinal ==
    /\ MayProceed /\ ~op.late /\ op.remote = "made"
    /\ Completes /\ UNCHANGED opend

\* 'required': nothing of T_final committed, the operation is compensated.
TFinalFails ==
    /\ MayProceed /\ ~op.late /\ op.remote = "made"
    /\ CannotComplete
    /\ op' = [op EXCEPT !.state = "compensating"]
    /\ UNCHANGED <<apdb, recovery, opparts>>

\* Removal needs no binding.
RemoveRemote ==
    /\ op.state = "compensating" /\ Ticks /\ op.remote # "none"
    /\ op' = [op EXCEPT !.remote = "none"]
    /\ UNCHANGED <<aplan, apdb, recovery, opparts>>

TComp ==
    /\ op.state = "compensating" /\ Ticks /\ op.remote = "none"
    /\ IF Bound /\ row.state = "mutating" /\ evid = {}
       THEN /\ op' = [op EXCEPT !.state = "compensated"]
            /\ row' = [row EXCEPT !.state = "failed"]
            /\ recovery' = CloseRecovery(recovery)
       ELSE PutAside /\ UNCHANGED row
    /\ UNCHANGED <<aplan, money, evid, cardPaid, opparts>>

Tick ==
    \/ LoseBinding \/ GiveUp \/ BeginCall \/ CallReturns \/ TFinal \/ TFinalFails \/ RemoveRemote \/ TComp

-----------------------------------------------------------------------------
(* The superadmin and the world *)

Decidable == recovery.state = "cleanup_required"

\* The sale stands and its effects are not all recorded: they are accepted.
AcceptRecorded ==
    /\ Decidable /\ ~recovery.aged /\ op.state = "completed"
    /\ row' = [row EXCEPT !.state = IF @ = "mutating" THEN "completed" ELSE @]
    /\ recovery' = [recovery EXCEPT !.state = "completed"]
    /\ UNCHANGED <<aplan, money, evid, cardPaid, op, opparts>>

Decide(decision) ==
    /\ Decidable /\ op.state = "cleanup"
    /\ decision = "continue" => ~recovery.aged
    /\ op' = [op EXCEPT !.state = IF decision = "continue" THEN "forward" ELSE "compensating"]
    /\ recovery' = [recovery EXCEPT !.state = "running"]
    /\ UNCHANGED <<aplan, apdb, opparts>>

ToggleKey(k) ==
    /\ May("revoke") /\ aplan' = Used
    /\ live' = [live EXCEPT ![k] = ~@]
    /\ UNCHANGED <<runtime, wphase, pend, apdb, calls, reading, ap, cust, look, op, recovery, threads>>

\* An owner, a package, a price or a node of the manifest changes.
Drift ==
    /\ May("drift") /\ aplan' = Used
    /\ cust' = [cust EXCEPT !.drift = TRUE]
    /\ UNCHANGED <<runtime, wphase, pend, apdb, calls, reading, ap, live, look, op, recovery, threads>>

Deadline ==
    /\ May("late") /\ aplan' = Used
    /\ op.state \in {"forward", "cleanup"} /\ op' = [op EXCEPT !.late = TRUE]
    /\ UNCHANGED <<apdb, recovery, opparts>>

MonthPasses ==
    /\ May("late") /\ aplan' = Used
    /\ Decidable /\ recovery' = [recovery EXCEPT !.aged = TRUE]
    /\ UNCHANGED <<apdb, op, opparts>>

\* The joint activation waits for the operations that run.
SaleActivate == ~Running /\ Activate /\ UNCHANGED salevars

SaleAdmin ==
    /\ RejectPending \/ Deactivate \/ EnforceWallet \/ RollbackWallet \/ KeysChange
         \/ (\E mode \in {"off", "shadow"} : SetMode(mode)) \/ (\E a \in Attempts : StartAttempt(a))
    /\ UNCHANGED salevars

SalePanel(a) ==
    \/ SaleBegin(a) \/ SaleInsert(a) \/ Sell(a) \/ CancelApproval(a) \/ Answer(a) \/ SaleCard(a)
    \/ \E kind \in {"finish", "fail"} : SaleFinalize(a, kind)
    \/ \E kind \in {"begin", "produce", "card", "finish", "fail"} : KeyRefused(a, kind)

SaleNext ==
    \/ \E a \in Attempts : SaleTimesOut(a) \/ SalePanel(a)
    \/ SaleAdmin \/ SaleActivate \/ Tick
    \/ AcceptRecorded \/ (\E decision \in {"continue", "cancel"} : Decide(decision))
    \/ (\E k \in Keys : ToggleKey(k)) \/ Drift \/ Deadline \/ MonthPasses

ApprovedSaleSpec == ApInit(SalePlans) /\ SaleInit /\ [][SaleNext]_<<topvars, salevars>>

-----------------------------------------------------------------------------
(* Properties *)

SaleTypeOK ==
    /\ live \in [Keys -> BOOLEAN]
    /\ cust.exists \in BOOLEAN /\ cust.drift \in BOOLEAN /\ cust.from \in Nat
    /\ cust.shape \in {"none", "new", "existing", "renew"}
    /\ op.state \in {"none", "forward", "compensating", "cleanup", "completed", "compensated"}
    /\ op.remote \in {"none", "calling", "made"} /\ op.late \in BOOLEAN
    /\ recovery.state \in {"none", "cleanup_required", "running", "completed"} /\ recovery.aged \in BOOLEAN
    /\ \A a \in Attempts : threads[a] \in {"none", "cancel", "wait"}

\* However many attempts, takeovers, late calls and decided recoveries there
\* are, one receipt is sold once through its approvals; a completed approval
\* sold, and under 'required' with every effect of its manifest.
SoldOnce ==
    /\ money.matched <= 1
    /\ row.state = "completed" => money.matched = 1 /\ (row.strict => AllRecorded)

\* An approval that may be tried again, or that is closed without a sale, has
\* no operation that runs and nothing left at a node.
OpenMeansUntouched ==
    row.state \in {"registered", "failed", "cancelled"} =>
        money.matched = 0 /\ ~Running /\ op.remote = "none"

\* An operation that was put aside had its recovery opened.
AsideWasAsked == op.state = "cleanup" => recovery.state # "none"

\* A receipt sells once, an approval that is open or closed without a sale left
\* nothing behind, and an operation that was put aside is in somebody's hands.
SaleApprovalInv == SaleTypeOK /\ SoldOnce /\ OpenMeansUntouched /\ AsideWasAsked

\* The sale and its end commit only under the binding of T1: the key of the
\* approval is live at that moment, or a superadmin answers for it.
OnlyUnderTheBinding ==
    [][(money.matched' > money.matched \/ (row.state = "mutating" /\ row'.state = "failed")) =>
          live[row.key] \/ recovery.state = "running"]_<<topvars, salevars>>

\* A sale under way is sold, undone, or put aside for a decision, as long as
\* the registration is not blocked.
SaleSettles ==
    (op.state \in {"forward", "compensating"}) ~>
        (op.state \notin {"forward", "compensating"} \/ EffectiveMode = "blocked")

\* The module comment of provisioning_approval_exec: a lost binding "moves the
\* operation to cleanup_required with one approval_recovery"; that recovery is
\* what the superadmin can answer.
SomeoneIsAsked ==
    op.state = "cleanup" \/ (op.state = "completed" /\ row.state = "mutating") => Decidable
=============================================================================
