--------------------------- MODULE TopupApproval ---------------------------
(***************************************************************************)
(* One wallet top-up, paid by card, from the bot's claim of the pending    *)
(* receipt to the closed approval.                                         *)
(*                                                                         *)
(* An attempt is one tap on "approve": the bot claims the pending row,     *)
(* registers the approval (begin), credits the wallet (add_balance),       *)
(* counts the card payment (record-payment) and closes the approval        *)
(* (finalize).  Every call can time out at the bot and still run at the    *)
(* panel, at once or much later; a failed attempt puts the pending row     *)
(* back and another approver, or the same bot under a new key, tries       *)
(* again.  Meanwhile the superadmin moves the approval runtime (off,       *)
(* shadow, required) and the wallet phase (normal, enforced).              *)
(***************************************************************************)
EXTENDS Integers, FiniteSets

CONSTANTS
    Attempts,
    ApPlans,         \* the keys and approvers of the attempts, the modes at the start, what may happen
    NoExecToken      \* a session without an approval

\* The kind of the receipt, and whether its wallet is known, matter to SaleApproval only.
ApPlan == [key: [Attempts -> Nat], approver: [Attempts -> Nat], mode: {"off", "shadow", "required"},
           wallet: {"normal", "enforced"}, ready: BOOLEAN, logged: BOOLEAN, kind: {"topup", "new", "renew"},
           known: BOOLEAN, left: Nat,
           events: SUBSET {"timeout", "unrecorded", "reject", "modes", "keys", "revoke", "late", "fail", "drift"}]

\* 'required' was turned on with the wallet enforced, and keeps it so.
ASSUME ApAssumption == \A p \in ApPlans : p \in ApPlan /\ (p.mode = "required" => p.wallet = "enforced")

VARIABLES
    aplan,           \* [key, approver: attempt -> value, mode, wallet, ready, logged, events, left]
    runtime,         \* [mode, ready]: receipt_approval_runtime_state
    wphase,          \* "normal" | "enforced": wallet_runtime_state
    pend,            \* the bot's pending row
    row,             \* the approval
    money,           \* [matched, plain]: credits tagged with the approval, and without it
    evid,            \* effects recorded for the approval: subset of {"main", "card"}
    cardPaid,        \* times the card's counter took the payment
    calls,           \* calls on the way to the panel: <<kind, attempt>>
    reading,         \* begin calls that saw no row and are about to insert one
    ap               \* attempt -> [pc, tok]

topvars == <<aplan, runtime, wphase, pend, row, money, evid, cardPaid, calls, reading, ap>>
apdb == <<row, money, evid, cardPaid>>

May(e) == e \in aplan.events /\ aplan.left > 0
Used == [aplan EXCEPT !.left = @ - 1]

NoRow == [state |-> "none", version |-> 0, key |-> 0, approver |-> 0, strict |-> FALSE, card |-> FALSE]

ApInit(plans) ==
    /\ aplan \in plans
    /\ runtime = [mode |-> aplan.mode, ready |-> aplan.ready]
    /\ wphase = aplan.wallet
    /\ pend = "pending"
    /\ row = NoRow
    /\ money = [matched |-> 0, plain |-> 0]
    /\ evid = {} /\ cardPaid = 0
    /\ calls = {} /\ reading = {}
    /\ ap = [a \in Attempts |-> [pc |-> "idle", tok |-> NoExecToken]]

TopInit == ApInit(ApPlans)

-----------------------------------------------------------------------------
(* The bot *)

Waits(a, kind) == ap[a].pc = kind
Calls(a, kind) == calls' = calls \cup {<<kind, a>>}

StartAttempt(a) ==
    /\ Waits(a, "idle") /\ pend = "pending"
    /\ pend' = "processing"                         \* claim_pending
    /\ ap' = [ap EXCEPT ![a].pc = "begin"]
    /\ Calls(a, "begin")
    /\ UNCHANGED <<aplan, runtime, wphase, apdb, reading>>

\* Mutant of Release: only the attempt is told.
ReleaseForgotten == UNCHANGED pend

Release == pend' = IF pend = "processing" THEN "pending" ELSE pend

\* The panel answered, or the bot stopped waiting: what the attempt does next.
\* A session: the token of its approval, or none.
ProduceNext(a, tok) ==
    /\ ap' = [ap EXCEPT ![a] = [pc |-> "produce", tok |-> tok]]
    /\ calls' = (calls \ {<<"begin", a>>}) \cup {<<"produce", a>>}
    /\ UNCHANGED pend
Blocked(a) ==
    /\ ap' = [ap EXCEPT ![a].pc = "over"]
    /\ calls' = calls \ {<<"begin", a>>}
    /\ Release
Failed(a) ==
    /\ LET told == ap[a].tok # NoExecToken IN
        /\ ap' = [ap EXCEPT ![a].pc = IF told THEN "fail" ELSE "over"]
        /\ calls' = (calls \ {<<"produce", a>>}) \cup (IF told THEN {<<"fail", a>>} ELSE {})
    /\ Release
CardNext(a) ==
    /\ ap' = [ap EXCEPT ![a].pc = "card"]
    /\ calls' = (calls \ {<<"produce", a>>}) \cup {<<"card", a>>}
    /\ UNCHANGED pend
Approve(a) ==
    /\ LET told == ap[a].tok # NoExecToken IN
        /\ ap' = [ap EXCEPT ![a].pc = IF told THEN "finish" ELSE "over"]
        /\ calls' = (calls \ {<<"card", a>>}) \cup (IF told THEN {<<"finish", a>>} ELSE {})
    /\ pend' = "approved"
Unheard(a, kind) == calls' = calls \ {<<kind, a>>} /\ UNCHANGED <<pend, ap>>

\* A call that got no answer in time, lost or still on its way.  A manual
\* registration goes on the way it always did; a credit without an answer is a
\* failed attempt; the card and the end of the approval are best effort.
TimesOut(a) ==
    /\ May("timeout") /\ aplan' = Used
    /\ LET kind == ap[a].pc IN
        /\ kind \in {"begin", "produce", "card", "finish", "fail"}
        /\ \E lost \in BOOLEAN : calls' =
            (IF lost THEN calls \ {<<kind, a>>} ELSE calls) \cup
            CASE kind = "begin"  -> {<<"produce", a>>}
              [] kind = "produce" /\ ap[a].tok # NoExecToken -> {<<"fail", a>>}
              [] kind = "card" /\ ap[a].tok # NoExecToken -> {<<"finish", a>>}
              [] OTHER -> {}
        /\ ap' = [ap EXCEPT ![a].pc =
            CASE kind = "begin"  -> "produce"
              [] kind = "produce" /\ ap[a].tok # NoExecToken -> "fail"
              [] kind = "card" /\ ap[a].tok # NoExecToken -> "finish"
              [] OTHER -> "over"]
        /\ CASE kind = "produce" -> Release
             [] kind = "card"   -> pend' = "approved"
             [] OTHER           -> UNCHANGED pend
    /\ UNCHANGED <<runtime, wphase, apdb, reading>>

RejectPending ==
    /\ May("reject") /\ aplan' = Used /\ pend = "pending"
    /\ pend' = "rejected"
    /\ UNCHANGED <<runtime, wphase, apdb, calls, reading, ap>>

-----------------------------------------------------------------------------
(* The panel: registration *)

EffectiveMode == IF runtime.mode = "required" /\ ~runtime.ready THEN "blocked" ELSE runtime.mode
Arrived(kind, a) == <<kind, a>> \in calls
KeyOf(a) == aplan.key[a]
ApproverOf(a) == aplan.approver[a]

\* Money moved for this approval: an effect, or a ledger row that carries it.
Evidence == money.matched > 0 \/ evid # {}

OpenRow == row.state \in {"registered", "failed"}

\* Mutant of ChangeAuthority: the old execution token stays good.
SameToken(key, approver) ==
    [row EXCEPT !.state = "registered", !.key = key, !.approver = approver]

\* Retry, approver change, takeover: the old execution token dies.
ChangeAuthority(key, approver) ==
    [row EXCEPT !.state = "registered", !.version = @ + 1, !.key = key, !.approver = approver]

Recovered == [row EXCEPT !.state = "mutating"]

Refused(a) ==
    \/ row.key # KeyOf(a) /\ (~OpenRow \/ Evidence)
    \/ row.state = "failed" /\ Evidence /\ row.approver # ApproverOf(a)

Registered(a) ==
    IF row.state = "failed" /\ Evidence THEN Recovered
    ELSE IF ~OpenRow \/ Evidence THEN row
    ELSE IF row.state = "registered" /\ row.key = KeyOf(a) /\ row.approver = ApproverOf(a) THEN row
    ELSE ChangeAuthority(KeyOf(a), ApproverOf(a))

\* begin answers and commits; the bot may have stopped listening.
Answers(a, tok) == IF Waits(a, "begin") THEN ProduceNext(a, tok) ELSE Unheard(a, "begin")
RefusedInMode(a) ==
    IF ~Waits(a, "begin") THEN Unheard(a, "begin")
    ELSE IF EffectiveMode \in {"required", "blocked"} THEN Blocked(a) ELSE ProduceNext(a, NoExecToken)

\* A cancelled approval is followed by a new one.  (uuid, version) is one
\* number here: the versions of a successor go on from its predecessor's.
Absent == row.state \in {"none", "cancelled"}

\* No approval is registered: the runtime is off, or in shadow without known keys.
NoApprovals == EffectiveMode = "off" \/ (EffectiveMode = "shadow" /\ ~runtime.ready)

\* changed: the intent is not the one the receipt was first registered with.
BeginReads(a, changed) ==
    /\ Arrived("begin", a) /\ a \notin reading
    /\ IF NoApprovals
       THEN Answers(a, NoExecToken) /\ UNCHANGED <<row, reading>>
       ELSE IF EffectiveMode = "blocked" \/ changed \/ (~Absent /\ Refused(a))
       THEN RefusedInMode(a) /\ UNCHANGED <<row, reading>>
       ELSE IF Absent
       THEN reading' = reading \cup {a} /\ UNCHANGED <<row, calls, pend, ap>>
       ELSE /\ row' = Registered(a)
            /\ Answers(a, Registered(a).version)
            /\ UNCHANGED reading
    /\ UNCHANGED <<aplan, runtime, wphase, money, evid, cardPaid>>

\* The unique key on (pending, registration_seq): the loser reads again.
BeginInserts(a) ==
    /\ a \in reading
    /\ reading' = reading \ {a}
    /\ IF Absent
       THEN LET version == IF row = NoRow THEN 0 ELSE row.version + 1 IN
            /\ row' = [state |-> "registered", version |-> version, key |-> KeyOf(a), approver |-> ApproverOf(a),
                       strict |-> runtime.mode = "required", card |-> aplan.logged]
            /\ Answers(a, version)
       ELSE UNCHANGED <<row, calls, pend, ap>>
    /\ UNCHANGED <<aplan, runtime, wphase, money, evid, cardPaid>>

-----------------------------------------------------------------------------
(* The panel: the credit, the card, the end *)

Accepted(a) == IF Waits(a, "produce") THEN CardNext(a) ELSE Unheard(a, "produce")
NotAccepted(a) == IF Waits(a, "produce") THEN Failed(a) ELSE Unheard(a, "produce")

\* A credit tied to no approval: refused by the lot wallet.
PlainAllowed == wphase = "normal"

PlainCredit(a) ==
    IF PlainAllowed
    THEN money' = [money EXCEPT !.plain = @ + 1] /\ Accepted(a)
    ELSE UNCHANGED money /\ NotAccepted(a)

TokenHolds(a) == row # NoRow /\ row.version = ap[a].tok

\* Mutant of Applied: only the effect is looked for.
AppliedByEffect == "main" \in evid

Applied == money.matched > 0

ExecutionRow == IF row.state = "failed" THEN ChangeAuthority(row.key, row.approver) ELSE row

\* The credit, its ledger row and the move to 'mutating' are one transaction;
\* the effects are written in savepoints of their own, also under 'required'.
MatchedCredit(a) ==
    /\ money' = [money EXCEPT !.matched = @ + 1]
    /\ row' = [ExecutionRow EXCEPT !.state = IF @ = "registered" THEN "mutating" ELSE @]
    /\ \/ evid' = evid \cup {"main"} /\ UNCHANGED aplan
       \/ May("unrecorded") /\ aplan' = Used /\ UNCHANGED evid
    /\ Accepted(a)

Credit(a) ==
    /\ Arrived("produce", a)
    /\ IF ap[a].tok = NoExecToken
       THEN PlainCredit(a) /\ UNCHANGED <<row, evid, aplan>>
       ELSE IF EffectiveMode = "blocked" \/ ~TokenHolds(a)
       THEN NotAccepted(a) /\ UNCHANGED <<row, money, evid, aplan>>
       ELSE IF Applied
       THEN /\ row' = IF row.state = "failed" THEN Recovered ELSE row
            /\ Accepted(a) /\ UNCHANGED <<money, evid, aplan>>
       ELSE IF row.key # KeyOf(a)
       THEN IF row.strict
            THEN NotAccepted(a) /\ UNCHANGED <<row, money, evid, aplan>>
            ELSE PlainCredit(a) /\ UNCHANGED <<row, evid, aplan>>
       ELSE MatchedCredit(a)
    /\ UNCHANGED <<runtime, wphase, cardPaid, reading>>

\* record-payment: not an operation 'required' knows; under an event-logged
\* pool the payment of one approval is counted once.
RecordCard(a) ==
    /\ Arrived("card", a)
    /\ LET tok == ap[a].tok
           refused == tok # NoExecToken /\ (EffectiveMode \in {"blocked", "required"} \/ ~TokenHolds(a))
           repeated == tok # NoExecToken /\ aplan.logged /\ "card" \in evid
       IN IF refused \/ repeated
          THEN UNCHANGED <<cardPaid, evid, row>>
          ELSE /\ cardPaid' = cardPaid + 1
               /\ IF tok # NoExecToken /\ aplan.logged
                  THEN /\ evid' = evid \cup {"card"}
                       /\ row' = [row EXCEPT !.state = IF @ = "registered" THEN "mutating" ELSE @]
                  ELSE UNCHANGED <<evid, row>>
    /\ IF Waits(a, "card") THEN Approve(a) ELSE Unheard(a, "card")
    /\ UNCHANGED <<aplan, runtime, wphase, money, reading>>

\* Mutant of AllRecorded: the card is not asked for.
CreditRecorded == "main" \in evid

AllRecorded == "main" \in evid /\ (row.card => "card" \in evid)

Closing == IF row.state = "failed" /\ Evidence THEN Recovered ELSE row

Finalized(failed) ==
    IF Closing.state \notin {"registered", "mutating"} THEN Closing
    ELSE IF AllRecorded THEN [Closing EXCEPT !.state = "completed"]
    ELSE IF Evidence THEN [Closing EXCEPT !.state = "mutating"]
    ELSE IF failed THEN [Closing EXCEPT !.state = "failed"]
    ELSE Closing

Finalize(a, kind) ==
    /\ Arrived(kind, a)
    /\ row' = IF EffectiveMode = "blocked" \/ row.key # KeyOf(a) THEN row ELSE Finalized(kind = "fail")
    /\ calls' = calls \ {<<kind, a>>}
    /\ ap' = [ap EXCEPT ![a].pc = IF @ = kind THEN "over" ELSE @]
    /\ UNCHANGED <<aplan, runtime, wphase, pend, money, evid, cardPaid, reading>>

-----------------------------------------------------------------------------
(* The superadmin: the runtime row is locked exclusively, so no registration *)
(* is between its read and its insert                                        *)

Quiet == reading = {}

SetMode(mode) ==
    /\ May("modes") /\ aplan' = Used /\ Quiet
    /\ runtime.mode \in {"off", "shadow"} /\ mode \in {"off", "shadow"} /\ mode # runtime.mode
    /\ runtime' = [runtime EXCEPT !.mode = mode]
    /\ UNCHANGED <<wphase, pend, apdb, calls, reading, ap>>

\* Mutant of ActivationAllowed: the wallet is not asked.
AnyWallet == runtime.ready

ActivationAllowed == wphase = "enforced" /\ runtime.ready

Activate ==
    /\ May("modes") /\ aplan' = Used /\ Quiet
    /\ runtime.mode # "required" /\ ActivationAllowed
    /\ runtime' = [runtime EXCEPT !.mode = "required"]
    /\ UNCHANGED <<wphase, pend, apdb, calls, reading, ap>>

\* Only before the first approval of the generation.
Deactivate ==
    /\ May("modes") /\ aplan' = Used /\ Quiet
    /\ runtime.mode = "required" /\ ~row.strict
    /\ runtime' = [runtime EXCEPT !.mode = "shadow"]
    /\ UNCHANGED <<wphase, pend, apdb, calls, reading, ap>>

EnforceWallet ==
    /\ May("modes") /\ aplan' = Used
    /\ wphase = "normal" /\ runtime.mode # "off"
    /\ wphase' = "enforced"
    /\ UNCHANGED <<runtime, pend, apdb, calls, reading, ap>>

RollbackAllowed == runtime.mode # "required" /\ money.matched = 0

RollbackWallet ==
    /\ May("modes") /\ aplan' = Used
    /\ wphase = "enforced" /\ RollbackAllowed
    /\ wphase' = "normal"
    /\ UNCHANGED <<runtime, pend, apdb, calls, reading, ap>>

\* The identity of the API keys stops or starts being provable.
KeysChange ==
    /\ May("keys") /\ aplan' = Used /\ Quiet
    /\ runtime' = [runtime EXCEPT !.ready = ~@]
    /\ UNCHANGED <<wphase, pend, apdb, calls, reading, ap>>

-----------------------------------------------------------------------------

Panel(a) ==
    \/ BeginReads(a, FALSE) \/ BeginInserts(a) \/ Credit(a) \/ RecordCard(a)
    \/ \E kind \in {"finish", "fail"} : Finalize(a, kind)
TopNext ==
    \/ \E a \in Attempts : StartAttempt(a) \/ TimesOut(a) \/ Panel(a)
    \/ RejectPending \/ Activate \/ Deactivate \/ EnforceWallet \/ RollbackWallet \/ KeysChange
    \/ \E mode \in {"off", "shadow"} : SetMode(mode)

TopSpec == TopInit /\ [][TopNext]_topvars
\* The panel answers what reaches it.
TopFairness == \A a \in Attempts : WF_topvars(Panel(a))

-----------------------------------------------------------------------------
(* Properties *)

TopTypeOK ==
    /\ runtime.mode \in {"off", "shadow", "required"} /\ runtime.ready \in BOOLEAN
    /\ wphase \in {"normal", "enforced"}
    /\ pend \in {"pending", "processing", "approved", "rejected"}
    /\ row.state \in {"none", "registered", "failed", "mutating", "completed", "cancelled"}
    /\ row.version \in Nat
    /\ row.strict \in BOOLEAN /\ row.card \in BOOLEAN
    /\ money.matched \in Nat /\ money.plain \in Nat /\ cardPaid \in Nat
    /\ evid \subseteq {"main", "card"} /\ reading \subseteq Attempts
    /\ calls \subseteq {"begin", "produce", "card", "finish", "fail"} \X Attempts
    /\ \A a \in Attempts :
         /\ ap[a].pc \in {"idle", "begin", "produce", "card", "finish", "fail", "over"}
         /\ ap[a].tok \in Nat \cup {NoExecToken}

\* One approval credits its receipt once, however many attempts, late calls
\* and lost answers there are, whoever took it over, recorded effects or not.
CreditedOnce == money.matched <= 1

\* Once 'required' is on, a receipt is credited through its approval or not at
\* all: also by a bot whose registration timed out and that goes on the old
\* way, and although nothing in that credit asks for the mode.
RequiredNeverLegacy ==
    [][money.plain' > money.plain => runtime.mode # "required"]_topvars

\* The money is credited under the approver and the key of the attempt that
\* asked for it: a takeover or an approver change outdates the others' calls.
CreditedByItsApprover ==
    [][\A a \in Attempts :
          money.matched' > money.matched /\ <<"produce", a>> \in calls \ calls' =>
              row'.key = KeyOf(a) /\ row'.approver = ApproverOf(a)]_topvars

\* A failed approval took no money, so the next attempt may start over; a
\* completed one took it once and counted its card.
StateTellsTheMoney ==
    /\ row.state = "failed" => money.matched = 0
    /\ row.state = "completed" => money.matched = 1 /\ (row.card => cardPaid > 0)

\* The invariant of the top-up: one credit, and a state that tells of it.
TopupInv == TopTypeOK /\ CreditedOnce /\ StateTellsTheMoney

\* Who may credit, in which mode: both of the action properties above.
CreditedByTheRules == RequiredNeverLegacy /\ CreditedByItsApprover

\* A claimed receipt is approved or put back, whatever the panel answers.
ClaimReleased == (pend = "processing") ~> (pend # "processing")

TopFairSpec == TopSpec /\ TopFairness
=============================================================================
