---------------------------- MODULE ReceiptVoid ----------------------------
(***************************************************************************)
(* The durable void of one receipt approval: everything a fake receipt     *)
(* brought about is taken back, step by step, one transaction per step.    *)
(*                                                                         *)
(* A void is claimed for the scope its operator saw in a preview; the      *)
(* first step, block, checks that the scope is still that one.  Workers    *)
(* (the scheduler's pass and the requests themselves) advance the same     *)
(* operation: each reads the first open step, then takes the leases of the *)
(* identities and the card pool, then runs the step.  The connections are  *)
(* removed by the deletion machine (module Deletion), whose own operation  *)
(* is reduced here to its outcome per connection.                          *)
(*                                                                         *)
(* The leases of one set are one value, vlease: they are taken and given   *)
(* back together (module ResourceLeases has them in full).                 *)
(***************************************************************************)
EXTENDS Integers, FiniteSets, Sequences, SequencesExt

CONSTANTS
    VoidWorkers,     \* the scheduler's pass and operators' requests
    Services,        \* connections
    VoidPlans,       \* the approval, its broken steps and what happens meanwhile
    MaxAttempts,     \* engine.MAX_ATTEMPTS
    NoVoidWorker, OtherOperation

VARIABLES
    vplan,       \* [shape, conns, broken: steps that cannot succeed, events, left]
    approval,    \* [state, version]
    vop,         \* [state, conns, print, forced, how]: the operation and its context
    vsteps,      \* step key -> [state, attempts, due, quota]
    order,       \* the step keys of the current plan, in order
    vscope,      \* [conns, rev, active]: what the fingerprint covers
    account,     \* [blocked, gone, debitHeld, quotaMoved]
    closed,      \* effects of the approval marked reversed
    refunds,     \* times the reseller's credit spend was paid back
    prov,        \* the deletion operation: [state, out: connection -> result]
    vlease,      \* the worker whose lease set is the newest and alive
    vflags,      \* [preview, execute, worker]
    token,       \* the newest preview: what it showed
    vw           \* worker -> [pc, step, leased, blocked, quota]

vworld == <<vscope, account, prov>>
vdb    == <<approval, vop, vsteps, order, closed, refunds>>
voidvars == <<vplan, vdb, vworld, vlease, vflags, token, vw>>

Shape   == vplan.shape
Deletes == Shape \in {"new_user", "existing_user"}
Happens(e) == e \in vplan.events /\ vplan.left > 0
Spent   == [vplan EXCEPT !.left = @ - 1]

-----------------------------------------------------------------------------
(* The steps of a plan and the effects each of them closes *)

Block   == <<"block">>
Gone(c) == <<"deprovision", c>>
Sure(c) == <<"verify", c>>
DbDelete == <<"db_delete">>
Loyalty == <<"loyalty_reconciliation">>
Wallet  == <<"wallet_reversal">>
Ledger  == <<"ledger_reversal">>
Renewal == <<"renewal_reversal">>
Card    == <<"card_reversal">>
FinalStep == <<"finalize">>
NoStep  == <<"none">>

DeletionKeys == {DbDelete} \cup {Gone(c) : c \in Services} \cup {Sure(c) : c \in Services}
AllKeys == DeletionKeys \cup {Block, Loyalty, Wallet, Ledger, Renewal, Card, FinalStep}

VoidPlan == [shape: {"topup", "new_user", "existing_user", "renew_purchase"}, conns: SUBSET Services,
             broken: SUBSET AllKeys, left: Nat,
             events: SUBSET {"customer", "operator", "admin", "glitch", "crash", "unverified", "expire", "busy",
                             "flags"}]

ASSUME VoidAssumption ==
    /\ \A p \in VoidPlans : p \in VoidPlan
    /\ IsFiniteSet(Services) /\ MaxAttempts \in Nat
    /\ NoVoidWorker \notin VoidWorkers /\ OtherOperation \notin VoidWorkers /\ NoVoidWorker # OtherOperation

\* Mutant of StepKeys: the money first.
MoneyFirst(conns) ==
    IF Shape = "renew_purchase"
    THEN <<Block, Loyalty, Wallet, Ledger, Renewal, Card, FinalStep>>
    ELSE <<Block, Wallet>> \o
         (IF Deletes THEN SetToSeq({Gone(c) : c \in conns}) \o SetToSeq({Sure(c) : c \in conns}) \o <<DbDelete>>
                     ELSE <<>>)
         \o (IF Shape # "topup" THEN <<Loyalty>> ELSE <<>>) \o <<Ledger, Card, FinalStep>>

StepKeys(conns) ==
    IF Shape = "renew_purchase"
    THEN <<Block, Loyalty, Wallet, Ledger, Renewal, Card, FinalStep>>
    ELSE <<Block>> \o
         (IF Deletes THEN SetToSeq({Gone(c) : c \in conns}) \o SetToSeq({Sure(c) : c \in conns}) \o <<DbDelete>>
                     ELSE <<>>)
         \o (IF Shape # "topup" THEN <<Loyalty>> ELSE <<>>) \o <<Wallet, Ledger, Card, FinalStep>>

Effects ==
    CASE Shape = "topup"          -> {"topup", "source", "card"}
      [] Shape = "renew_purchase" -> {"sale", "renewed", "loyalty", "card"}
      [] OTHER                    -> {"sale", "spend", "resource", "source", "loyalty", "card"}

ClosedBy(k) ==
    Effects \cap CASE k = Loyalty -> {"loyalty"}
                   [] k = Wallet  -> {"source"}
                   [] k = Ledger  -> {"sale", "topup", "spend", "resource"}
                   [] k = Renewal -> {"renewed"}
                   [] k = Card    -> {"card"}
                   [] OTHER       -> {}

Pending == [state |-> "pending", attempts |-> 0, due |-> TRUE, quota |-> FALSE]
Over(k) == vsteps[k].state \in {"done", "abandoned"}
Open(S) == {i \in DOMAIN order : order[i] \in S /\ ~Over(order[i])}
AllOver == Open(AllKeys) = {}
FirstOpen == order[CHOOSE i \in Open(AllKeys) : \A j \in Open(AllKeys) : i <= j]

\* What the operator's confirmation covers; the status of the customer only
\* where the void deletes.
Fingerprint ==
    [rev |-> vscope.rev, conns |-> IF Deletes THEN vscope.conns ELSE {},
     active |-> Deletes => vscope.active]
Token == [print |-> Fingerprint, version |-> approval.version]

Approval(from, to) ==
    /\ approval.state = from
    /\ approval' = [state |-> to, version |-> approval.version + 1]

Idle == [pc |-> "idle", step |-> NoStep, leased |-> FALSE, blocked |-> FALSE, quota |-> FALSE]
At(w, pc) == vw[w].pc = pc
Goto(w, pc) == vw' = [vw EXCEPT ![w].pc = pc]
\* advance() returns and releases its leases, if they are still its own.
Return(w) ==
    /\ vw' = [vw EXCEPT ![w] = Idle]
    /\ vlease' = IF vlease = w THEN NoVoidWorker ELSE vlease
FailWith(w, k, blocked, quota) ==
    vw' = [vw EXCEPT ![w] = [@ EXCEPT !.pc = "fail", !.step = k, !.blocked = blocked, !.quota = quota]]

VoidInit ==
    /\ vplan \in VoidPlans
    /\ approval = [state |-> "completed", version |-> 0]
    /\ vop = [state |-> "none", conns |-> {}, print |-> <<>>, forced |-> FALSE, how |-> "none"]
    /\ vsteps = [k \in {} |-> Pending]
    /\ order = <<>>
    /\ vscope = [conns |-> vplan.conns, rev |-> 0, active |-> TRUE]
    /\ account = [blocked |-> FALSE, gone |-> FALSE, debitHeld |-> FALSE, quotaMoved |-> FALSE]
    /\ closed = {} /\ refunds = 0
    /\ prov = [state |-> "none", out |-> [c \in {} |-> "running"]]
    /\ vlease = NoVoidWorker
    /\ vflags = [preview |-> TRUE, execute |-> TRUE, worker |-> TRUE]
    /\ token = [print |-> <<>>, version |-> 0]
    /\ vw = [w \in VoidWorkers |-> Idle]

-----------------------------------------------------------------------------
(* Preview and claim *)

PreviewVoid ==
    /\ vflags.preview /\ approval.state = "completed"
    /\ token # Token /\ token' = Token
    /\ UNCHANGED <<vplan, vdb, vworld, vlease, vflags, vw>>

\* Nothing past the claim was committed: every row of the failed void is
\* still to run.
Rebuildable == \A k \in DOMAIN vsteps : vsteps[k].state \in {"pending", "failed"}

\* Rows of connections no longer in the scope are closed, never run.
Rebuilt(keys) ==
    [k \in DOMAIN vsteps \cup ToSet(keys) |->
        IF k \in ToSet(keys) THEN Pending ELSE [vsteps[k] EXCEPT !.state = "done"]]

Claim(w) ==
    /\ At(w, "idle")
    /\ vflags.execute /\ vflags.worker              \* under a shared lock, to the commit
    /\ token = Token
    /\ Approval("completed", "voiding")
    /\ LET keys == StepKeys(vscope.conns) IN
        /\ \/ /\ vop.state = "none" /\ UNCHANGED vplan
              /\ vsteps' = [k \in ToSet(keys) |-> Pending]
           \/ /\ vop.state = "failed" /\ Happens("operator") /\ vplan' = Spent
              /\ Rebuildable /\ vsteps' = Rebuilt(keys)
        /\ order' = keys
    /\ vop' = [state |-> "running", conns |-> IF Deletes THEN vscope.conns ELSE {},
               print |-> Fingerprint, forced |-> FALSE, how |-> "claim"]
    /\ Goto(w, "pick")
    /\ UNCHANGED <<closed, refunds, vworld, vlease, vflags, token>>

-----------------------------------------------------------------------------
(* advance(): one step per transaction *)

BeginPass(w) ==
    /\ At(w, "idle") /\ vflags.worker /\ vop.state = "running"
    /\ Goto(w, "pick")
    /\ UNCHANGED <<vplan, vdb, vworld, vlease, vflags, token>>

PickStep(w) ==
    /\ At(w, "pick")
    /\ IF vop.state # "running" \/ AllOver \/ (~AllOver /\ ~vsteps[FirstOpen].due)
       THEN Return(w)
       ELSE IF FirstOpen \in DeletionKeys
       THEN /\ vw' = [vw EXCEPT ![w] = [Idle EXCEPT !.pc = "delcheck"]]
            /\ vlease' = IF vlease = w THEN NoVoidWorker ELSE vlease
       ELSE /\ vw' = [vw EXCEPT ![w].pc = IF vw[w].leased THEN "run" ELSE "acquire", ![w].step = FirstOpen]
            /\ UNCHANGED vlease
    /\ UNCHANGED <<vplan, vdb, vworld, vflags, token>>

AcquireSet(w) ==
    /\ At(w, "acquire")
    /\ IF vlease = NoVoidWorker
       THEN /\ vlease' = w
            /\ vw' = [vw EXCEPT ![w].pc = "run", ![w].leased = TRUE]
       ELSE Return(w)                               \* LeaseBusy: the next pass
    /\ UNCHANGED <<vplan, vdb, vworld, vflags, token>>

\* Mutant of ScopeConfirmed: block trusts the claim's check.
ScopeTrusted == TRUE

ScopeConfirmed == Fingerprint = vop.print

\* Whether a step's own checks let it commit.
Passes(k) ==
    /\ k \notin vplan.broken
    /\ k = Block => ScopeConfirmed
    /\ k = Loyalty => ~account.quotaMoved \/ vop.forced
    /\ k = Ledger => (Deletes => account.gone)
    /\ k = Renewal => vscope.rev = vop.print.rev
    /\ k = FinalStep => closed = Effects /\ approval.state = "voiding"

StepDone(k) == [vsteps EXCEPT ![k] = [Pending EXCEPT !.state = "done"]]

BlockAccount ==
    /\ account' = [account EXCEPT !.blocked = TRUE]
    /\ vscope' = [vscope EXCEPT !.active = @ /\ Shape # "new_user"]

\* Mutant of Refunded: the effect is closed, the reseller gets nothing.
NotRefunded(k) == refunds

Refunded(k) == refunds + (IF "spend" \in ClosedBy(k) \ closed THEN 1 ELSE 0)

\* The transaction of one step.  It takes the operation row, but does not ask
\* whether the operation is still running.
RunStep(w) ==
    /\ At(w, "run")
    /\ LET k == vw[w].step IN
        /\ vlease = w /\ ~Over(k) /\ Passes(k)
        /\ vsteps' = StepDone(k)
        /\ IF k = Block THEN BlockAccount ELSE UNCHANGED <<account, vscope>>
        /\ closed' = closed \cup ClosedBy(k)
        /\ refunds' = Refunded(k)
        /\ IF k = FinalStep
           THEN /\ Approval("voiding", "voided")
                /\ vop' = [vop EXCEPT !.state = "completed"]
           ELSE UNCHANGED <<approval, vop>>
    /\ Goto(w, "pick")
    /\ UNCHANGED <<vplan, order, prov, vlease, vflags, token>>

StepAlreadyOver(w) ==
    /\ At(w, "run") /\ vlease = w /\ Over(vw[w].step)
    /\ Goto(w, "pick")
    /\ UNCHANGED <<vplan, vdb, vworld, vlease, vflags, token>>

LeaseLost(w) ==
    /\ At(w, "run") /\ vlease # w
    /\ Return(w)
    /\ UNCHANGED <<vplan, vdb, vworld, vflags, token>>

\* The step's transaction is rolled back; what failed is written in another.
StepRaises(w) ==
    /\ At(w, "run") /\ vlease = w /\ ~Over(vw[w].step)
    /\ LET k == vw[w].step
           quota == k = Loyalty /\ account.quotaMoved /\ ~vop.forced
       IN \/ /\ ~Passes(k)
             /\ FailWith(w, k, quota, quota)
             /\ UNCHANGED vplan
          \/ /\ Happens("glitch")                   \* the database refuses
             /\ FailWith(w, k, FALSE, FALSE)
             /\ vplan' = Spent
    /\ UNCHANGED <<vdb, vworld, vlease, vflags, token>>

\* Mutant of Tries: a failure does not count.
TriesUncounted(k) == vsteps[k].attempts

Tries(k) == vsteps[k].attempts + 1

\* Mutant of BlockFailed: any step's failure ends the void.
AnyFailed(k) == TRUE

BlockFailed(k) == k = Block

\* Mutant of AskOperator: only the operation row is written.
AskForOperation ==
    /\ vop' = [vop EXCEPT !.state = "cleanup_required"]
    /\ UNCHANGED approval

AskOperator ==
    /\ vop' = [vop EXCEPT !.state = "cleanup_required"]
    /\ Approval("voiding", "cleanup_required")

RecordFailure(w) ==
    /\ At(w, "fail")
    /\ LET k == vw[w].step
           n == Tries(k)
           failed == [vsteps EXCEPT ![k] = [@ EXCEPT !.state = "failed", !.attempts = n, !.quota = vw[w].quota]]
       IN IF vop.state # "running"
          THEN UNCHANGED <<approval, vop, vsteps>>
          ELSE IF BlockFailed(k)
          THEN /\ vsteps' = failed
               /\ vop' = [vop EXCEPT !.state = "failed"]
               /\ Approval("voiding", "completed")
          ELSE IF vw[w].blocked \/ n >= MaxAttempts
          THEN /\ vsteps' = [failed EXCEPT ![k].due = TRUE]
               /\ AskOperator
          ELSE /\ vsteps' = [failed EXCEPT ![k].due = FALSE]
               /\ UNCHANGED <<approval, vop>>
    /\ Return(w)
    /\ UNCHANGED <<vplan, order, closed, refunds, vworld, vflags, token>>

BackoffElapses ==
    /\ \E k \in DOMAIN vsteps :
        /\ ~vsteps[k].due
        /\ vsteps' = [vsteps EXCEPT ![k].due = TRUE]
    /\ UNCHANGED <<vplan, approval, vop, order, closed, refunds, vworld, vlease, vflags, token, vw>>

-----------------------------------------------------------------------------
(* Steps 3 - 5: the deletion machine, and what is mirrored of it *)

CheckDeletion(w) ==
    /\ At(w, "delcheck")
    /\ IF AllOver THEN Goto(w, "idle")              \* next() of nothing: the pass ends
       ELSE IF account.debitHeld \/ (prov.state = "none" /\ vscope.conns # vop.conns)
       THEN FailWith(w, FirstOpen, TRUE, FALSE)
       ELSE vw' = [vw EXCEPT ![w].pc = "delstart", ![w].step = FirstOpen]
    /\ UNCHANGED <<vplan, vdb, vworld, vlease, vflags, token>>

StartDeletion(w) ==
    /\ At(w, "delstart")
    /\ IF prov.state = "none"
       THEN prov' = [state |-> "running", out |-> [c \in vscope.conns |-> "running"]]
       ELSE UNCHANGED prov
    /\ Goto(w, "delmirror")
    /\ UNCHANGED <<vplan, vdb, vscope, account, vlease, vflags, token>>

StartRaises(w) ==
    /\ At(w, "delstart") /\ Happens("glitch")
    /\ FailWith(w, vw[w].step, FALSE, FALSE)
    /\ vplan' = Spent
    /\ UNCHANGED <<vdb, vworld, vlease, vflags, token>>

Outcome(c) == IF c \in DOMAIN prov.out THEN prov.out[c] ELSE "running"
Unverified == {c \in vop.conns : Outcome(c) = "unverified"}

\* What the deletion recorded, onto the rows of the void.  attempted: the
\* unverified connections whose removal had reached the node.
Mirrored(attempted) ==
    [k \in DOMAIN vsteps |->
        LET is(S) == \E c \in S : k \in {Gone(c), Sure(c)}
            with(r) == {c \in vop.conns : Outcome(c) = r}
        IN CASE is(with("absent"))    -> [vsteps[k] EXCEPT !.state = "done"]
             [] is(with("abandoned")) -> [vsteps[k] EXCEPT !.state = "abandoned"]
             [] \E c \in Unverified : k = Sure(c) -> [vsteps[k] EXCEPT !.state = "blocked"]
             [] \E c \in attempted : k = Gone(c)  -> [vsteps[k] EXCEPT !.state = "done"]
             [] k = DbDelete /\ prov.state = "completed" -> [vsteps[k] EXCEPT !.state = "done"]
             [] k = DbDelete /\ prov.state = "cleanup_required" /\ Unverified = {} ->
                    [vsteps[k] EXCEPT !.state = "failed"]
             [] OTHER -> vsteps[k]]

MirrorDeletion(w) ==
    /\ At(w, "delmirror")
    /\ IF vop.state # "running"
       THEN UNCHANGED <<approval, vop, vsteps>> /\ Return(w)
       ELSE /\ \E attempted \in SUBSET Unverified : vsteps' = Mirrored(attempted)
            /\ IF prov.state = "completed"
               THEN UNCHANGED <<approval, vop, vlease>> /\ Goto(w, "pick")
               ELSE /\ Return(w)
                    /\ IF prov.state = "cleanup_required" \/ Unverified # {}
                       THEN AskOperator
                       ELSE UNCHANGED <<approval, vop>>
    /\ UNCHANGED <<vplan, order, closed, refunds, vworld, vflags, token>>

\* The deletion machine itself (module Deletion).
ProvAbsent(c) ==
    /\ prov.state = "running" /\ Outcome(c) = "running" /\ c \in DOMAIN prov.out
    /\ prov' = [prov EXCEPT !.out[c] = "absent"]
    /\ UNCHANGED <<vplan, vdb, vscope, account, vlease, vflags, token, vw>>

ProvUnverified(c) ==
    /\ Happens("unverified")
    /\ prov.state = "running" /\ Outcome(c) = "running" /\ c \in DOMAIN prov.out
    /\ prov' = [state |-> "cleanup_required", out |-> [prov.out EXCEPT ![c] = "unverified"]]
    /\ vplan' = Spent
    /\ UNCHANGED <<vdb, vscope, account, vlease, vflags, token, vw>>

\* T_final: the scope is what the operation froze, and all of it is gone.
ProvFinishes ==
    /\ prov.state = "running" /\ vscope.conns = DOMAIN prov.out
    /\ \A c \in DOMAIN prov.out : prov.out[c] \in {"absent", "abandoned"}
    /\ prov' = [prov EXCEPT !.state = "completed"]
    /\ account' = [account EXCEPT !.gone = TRUE]
    /\ vscope' = [vscope EXCEPT !.conns = {}]
    /\ UNCHANGED <<vplan, vdb, vlease, vflags, token, vw>>

-----------------------------------------------------------------------------
(* The operator: retry, force, the flags *)

ProvRetried ==
    IF prov.state = "cleanup_required"
    THEN [state |-> "running",
          out |-> [c \in DOMAIN prov.out |-> IF prov.out[c] = "unverified" THEN "running" ELSE prov.out[c]]]
    ELSE prov

RetryAsked(w) ==
    /\ At(w, "idle") /\ Happens("operator") /\ vplan' = Spent
    /\ vflags.worker /\ vop.state \in {"cleanup_required", "failed"}
    /\ prov' = ProvRetried
    /\ Goto(w, "retry")
    /\ UNCHANGED <<vdb, vscope, account, vlease, vflags, token>>

Reset(rows) ==
    [k \in DOMAIN rows |-> IF rows[k].state \in {"failed", "blocked"} THEN Pending ELSE rows[k]]

RetryVoid(w) ==
    /\ At(w, "retry")
    /\ \/ vop.state = "failed" /\ ScopeConfirmed /\ Approval("completed", "voiding")
       \/ vop.state = "cleanup_required" /\ Approval("cleanup_required", "voiding")
    /\ vsteps' = Reset(vsteps)
    /\ vop' = [vop EXCEPT !.state = "running", !.how = IF vop.state = "failed" THEN "retry" ELSE @]
    /\ Goto(w, "pick")
    /\ UNCHANGED <<vplan, order, closed, refunds, vworld, vlease, vflags, token>>

RetryRefused(w) ==
    /\ At(w, "retry")
    /\ \/ vop.state \notin {"failed", "cleanup_required"}
       \/ vop.state = "failed" /\ (~ScopeConfirmed \/ approval.state # "completed")
    /\ Goto(w, "idle")
    /\ UNCHANGED <<vplan, vdb, vworld, vlease, vflags, token>>

Forceable(k) ==
    /\ k \in DOMAIN vsteps /\ vsteps[k].state \in {"failed", "blocked"}
    /\ \/ \E c \in Unverified : k \in {Gone(c), Sure(c)}
       \/ k = Loyalty /\ vsteps[k].quota

ForceAsked(w, k) ==
    /\ At(w, "idle") /\ Happens("operator") /\ vplan' = Spent
    /\ vflags.worker /\ vop.state = "cleanup_required" /\ Forceable(k)
    /\ prov' = [prov EXCEPT !.out = [c \in DOMAIN @ |-> IF k \in {Gone(c), Sure(c)} THEN "abandoned" ELSE @[c]],
                            !.state = IF k # Loyalty /\ Cardinality({c \in DOMAIN prov.out :
                                             prov.out[c] = "unverified"}) = 1
                                      THEN "running" ELSE @]
    /\ vw' = [vw EXCEPT ![w].pc = "force", ![w].step = k]
    /\ UNCHANGED <<vdb, vscope, account, vlease, vflags, token>>

ForceVoid(w) ==
    /\ At(w, "force")
    /\ LET k == vw[w].step
           rows == [j \in DOMAIN vsteps |->
                       IF k = Loyalty
                       THEN IF j = k THEN Pending ELSE vsteps[j]
                       ELSE IF j \in {Gone(k[2]), Sure(k[2])} THEN [vsteps[j] EXCEPT !.state = "abandoned"]
                            ELSE vsteps[j]]
           clear == \A j \in DOMAIN rows : rows[j].state # "blocked" /\ (rows[j].state = "failed" => j = DbDelete)
       IN IF vop.state # "cleanup_required"
          THEN UNCHANGED <<approval, vop, vsteps>> /\ Goto(w, "idle")
          ELSE IF clear
          THEN /\ vsteps' = Reset(rows)
               /\ Approval("cleanup_required", "voiding")
               /\ vop' = [vop EXCEPT !.state = "running", !.forced = @ \/ k = Loyalty]
               /\ Goto(w, "pick")
          ELSE /\ vsteps' = rows
               /\ vop' = [vop EXCEPT !.forced = @ \/ k = Loyalty]
               /\ UNCHANGED approval
               /\ Goto(w, "idle")
    /\ UNCHANGED <<vplan, order, closed, refunds, vworld, vlease, vflags, token>>

\* Mutant of WorkerNeeded: only a running void is counted.
WorkerNeededWhileRunning == vop.state = "running"

WorkerNeeded == vop.state \in {"running", "cleanup_required"}

SetFlag(f, on) ==
    /\ Happens("flags") /\ vplan' = Spent /\ vflags[f] # on
    /\ f = "execute" /\ on => vflags.preview /\ vflags.worker
    /\ f = "worker" /\ ~on => ~vflags.execute /\ ~WorkerNeeded
    /\ f = "preview" /\ ~on => ~vflags.execute
    /\ vflags' = [vflags EXCEPT ![f] = on]
    /\ UNCHANGED <<vdb, vworld, vlease, token, vw>>

-----------------------------------------------------------------------------
(* Everyone else *)

\* The customer buys, renews or pays: refused once the account is held.
CustomerActs ==
    /\ Happens("customer") /\ vplan' = Spent
    /\ ~account.blocked /\ ~account.gone
    /\ \/ /\ vscope' = [vscope EXCEPT !.rev = @ + 1]
          /\ UNCHANGED account
       \/ /\ account' = [account EXCEPT !.debitHeld = TRUE]
          /\ UNCHANGED vscope
    /\ UNCHANGED <<vdb, prov, vlease, vflags, token, vw>>

HeldDebitSettles ==
    /\ account.debitHeld
    /\ account' = [account EXCEPT !.debitHeld = FALSE]
    /\ vscope' = [vscope EXCEPT !.rev = @ + 1]
    /\ UNCHANGED <<vplan, vdb, prov, vlease, vflags, token, vw>>

\* An administrator adds or removes a connection by hand, enables the account
\* again, edits the renewed service or changes a quota.
AdministratorActs ==
    /\ Happens("admin") /\ vplan' = Spent /\ ~account.gone
    /\ \/ \E c \in Services \ vscope.conns :
            vscope' = [vscope EXCEPT !.conns = @ \cup {c}] /\ UNCHANGED account
       \/ \E c \in vscope.conns \ DOMAIN prov.out :
            vscope' = [vscope EXCEPT !.conns = @ \ {c}] /\ UNCHANGED account
       \/ vscope' = [vscope EXCEPT !.active = TRUE] /\ UNCHANGED account
       \/ vscope' = [vscope EXCEPT !.rev = @ + 1] /\ UNCHANGED account
       \/ account' = [account EXCEPT !.quotaMoved = TRUE] /\ UNCHANGED vscope
    /\ UNCHANGED <<vdb, prov, vlease, vflags, token, vw>>

OtherTakesLease ==
    /\ Happens("busy") /\ vplan' = Spent /\ vlease = NoVoidWorker
    /\ vlease' = OtherOperation
    /\ UNCHANGED <<vdb, vworld, vflags, token, vw>>

\* A lease whose holder is gone, or is another operation that ends.
LeaseEnds ==
    /\ vlease # NoVoidWorker
    /\ vlease \in VoidWorkers => vw[vlease].pc = "idle"
    /\ vlease' = NoVoidWorker
    /\ UNCHANGED <<vplan, vdb, vworld, vflags, token, vw>>

\* A worker stalls past the TTL of its leases.
LeaseExpires ==
    /\ Happens("expire") /\ vplan' = Spent
    /\ vlease \in VoidWorkers /\ vw[vlease].pc # "idle"
    /\ vlease' = NoVoidWorker
    /\ UNCHANGED <<vdb, vworld, vflags, token, vw>>

VoidCrash(w) ==
    /\ Happens("crash") /\ vplan' = Spent /\ ~At(w, "idle")
    /\ vw' = [vw EXCEPT ![w] = Idle]
    /\ UNCHANGED <<vdb, vworld, vlease, vflags, token>>

VoidWork(w) ==
    \/ BeginPass(w) \/ PickStep(w) \/ AcquireSet(w) \/ RunStep(w) \/ StepAlreadyOver(w) \/ LeaseLost(w)
    \/ StepRaises(w) \/ RecordFailure(w) \/ CheckDeletion(w) \/ StartDeletion(w) \/ StartRaises(w)
    \/ MirrorDeletion(w) \/ RetryVoid(w) \/ RetryRefused(w) \/ ForceVoid(w)
VoidMachine == ProvFinishes \/ \E c \in Services : ProvAbsent(c)
VoidElse ==
    \/ PreviewVoid \/ CustomerActs \/ AdministratorActs \/ OtherTakesLease \/ LeaseExpires
    \/ \E c \in Services : ProvUnverified(c)
    \/ \E f \in DOMAIN vflags, on \in BOOLEAN : SetFlag(f, on)
    \/ \E w \in VoidWorkers : Claim(w) \/ RetryAsked(w) \/ VoidCrash(w) \/ \E k \in DOMAIN vsteps : ForceAsked(w, k)

VoidNext ==
    \/ \E w \in VoidWorkers : VoidWork(w)
    \/ VoidMachine \/ BackoffElapses \/ LeaseEnds \/ HeldDebitSettles \/ VoidElse

\* The scheduler's pass recurs, backoffs and leases end, the deletion machine
\* is driven by its own worker and a held debit is released or settled.
VoidFairness ==
    /\ \A w \in VoidWorkers : WF_voidvars(VoidWork(w))
    /\ WF_voidvars(VoidMachine) /\ WF_voidvars(BackoffElapses)
    /\ WF_voidvars(LeaseEnds) /\ WF_voidvars(HeldDebitSettles)

VoidSpec == VoidInit /\ [][VoidNext]_voidvars

-----------------------------------------------------------------------------
(* Properties *)

VoidPcs == {"idle", "pick", "acquire", "run", "fail", "delcheck", "delstart", "delmirror", "retry", "force"}
StepStates == {"pending", "failed", "blocked", "done", "abandoned"}

\* The values of the rows, of the flags and of what the workers remember.
VoidTypeOK ==
    /\ approval.state \in {"completed", "voiding", "voided", "cleanup_required"} /\ approval.version \in Nat
    /\ vop.state \in {"none", "running", "failed", "cleanup_required", "completed"}
    /\ vop.conns \subseteq Services /\ vop.forced \in BOOLEAN /\ vop.how \in {"none", "claim", "retry"}
    /\ DOMAIN vsteps \subseteq AllKeys /\ ToSet(order) \subseteq DOMAIN vsteps
    /\ \A k \in DOMAIN vsteps :
         /\ vsteps[k].state \in StepStates /\ vsteps[k].attempts \in Nat
         /\ vsteps[k].due \in BOOLEAN /\ vsteps[k].quota \in BOOLEAN
    /\ vscope.conns \subseteq Services /\ vscope.rev \in Nat /\ vscope.active \in BOOLEAN
    /\ \A f \in DOMAIN account : account[f] \in BOOLEAN
    /\ closed \subseteq Effects /\ refunds \in 0..1
    /\ prov.state \in {"none", "running", "cleanup_required", "completed"}
    /\ \A c \in DOMAIN prov.out : prov.out[c] \in {"running", "absent", "unverified", "abandoned"}
    /\ vlease \in VoidWorkers \cup {NoVoidWorker, OtherOperation}
    /\ \A f \in DOMAIN vflags : vflags[f] \in BOOLEAN
    /\ \A w \in VoidWorkers : vw[w].pc \in VoidPcs /\ vw[w].step \in AllKeys \cup {NoStep}

\* The approval's state is the operation's, after every transaction of
\* whoever moves them: a claim, a step, a failure, a mirror, a retry, a force.
ApprovalFollowsVoid ==
    approval.state = CASE vop.state \in {"none", "failed"} -> "completed"
                       [] vop.state = "running"           -> "voiding"
                       [] vop.state = "completed"         -> "voided"
                       [] OTHER                           -> vop.state

\* A void that failed took nothing: no effect of the approval is reversed and
\* the deletion of the account was not even requested.  A failure is recorded
\* in a transaction that neither checks the leases nor looks at the step again:
\* a worker that stalls past its leases between the two is left out.
FailedVoidTookNothing ==
    vop.state = "failed" /\ "expire" \notin vplan.events => closed = {} /\ refunds = 0 /\ prov.state = "none"

\* The worker is not switched off under a claimed void, whatever the order of
\* the claim and of the two flags' changes.
ClaimedVoidHasWorker ==
    vop.state \in {"running", "cleanup_required"} /\ vop.how = "claim" => vflags.worker

\* No money of a void that deletes comes back before the account is gone.
MoneyAfterResources ==
    Deletes /\ closed # {} => account.gone

\* A voided approval left nothing behind: every effect is closed, the reseller
\* got the credit spent once, and what was to be deleted is deleted.
VoidedIsComplete ==
    approval.state = "voided" =>
        /\ closed = Effects
        /\ refunds = (IF "spend" \in Effects THEN 1 ELSE 0)
        /\ Deletes => account.gone

\* The invariant of the void: the approval says where the void is, the money
\* comes back after the resources and only if the block succeeded, and the end
\* of a void leaves nothing of the receipt behind.
VoidInv ==
    /\ VoidTypeOK /\ ApprovalFollowsVoid /\ FailedVoidTookNothing
    /\ ClaimedVoidHasWorker /\ MoneyAfterResources /\ VoidedIsComplete

\* The account is held and its services are switched off only for the scope
\* the operator was shown, whatever happened between the claim and the block.
BlocksWhatWasConfirmed ==
    [][~account.blocked /\ account.blocked' => Fingerprint = vop.print]_voidvars

\* An administrator changed the scope between the check and the request of the
\* deletion, or after it: T_final is refused until a stray connection is
\* removed, and the steps of a connection that left the scope wait for ever.
Stray ==
    \/ prov.state = "running" /\ vscope.conns # DOMAIN prov.out
    \/ prov.state # "none" /\ vop.conns # DOMAIN prov.out

\* A running void ends, fails or asks its operator, as long as its worker is
\* on and the deletion it waits for can finish.
VoidSettles ==
    vop.state = "running" ~> (vop.state # "running" \/ ~vflags.worker \/ Stray)

VoidFairSpec == VoidSpec /\ VoidFairness
=============================================================================
