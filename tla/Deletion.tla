------------------------------ MODULE Deletion ------------------------------
(***************************************************************************)
(* The durable deletion of a connection, of a purchase or of a customer.   *)
(*                                                                         *)
(* T1 stages one removal per connection of the scope, freezes what the     *)
(* scope was (connection ids, their identity fingerprints, the customer's  *)
(* purchases) and disables it.  Child processes remove the connections     *)
(* from their nodes one at a time; T_final deletes the rows, in one        *)
(* transaction, only if the scope is still what T1 froze and every removal *)
(* is proved or was given up by an operator.  Nothing but the scope's own  *)
(* rows protects it meanwhile: administrators edit and add connections,    *)
(* deletions overlap, and the quota poller pushes its own idea of          *)
(* "enabled" to the nodes.                                                 *)
(*                                                                         *)
(* There is one customer.  A worker's lease is the newest grant of         *)
(* ResourceLeases; the versions an operation pins only decide whether what *)
(* a worker has seen is current: field fresh.                              *)
(***************************************************************************)
EXTENDS Integers, FiniteSets

CONSTANTS
    Dels, Conns, Purchases, DelWorkers, DelNodes,
    ConnNode,       \* connection -> node
    ConnPurchase,   \* connection -> purchase, or NoPurchase
    ConnOrder,      \* connection -> id, the order of the steps
    PppConns,       \* connections of backend radius_ppp: no remote resource
    XrayConns,      \* connections of a 3X-UI node
    SelfHealing,    \* connections whose push of "enabled" creates a missing client
    Plans,          \* what there is, what is deleted, and what happens meanwhile
    NoPurchase, NoDelWorker, NoDel, NoConn

\* The order is that of the ids; the connections there are the ones the model has.
ASSUME DelAssumption ==
    /\ NoDelWorker \notin DelWorkers /\ NoDel \notin Dels /\ NoConn \notin Conns
    /\ ConnNode \in [Conns -> DelNodes] /\ ConnOrder \in [Conns -> Nat]
    /\ \A c, e \in Conns : ConnOrder[c] = ConnOrder[e] => c = e
    /\ \A p \in Plans : p.has \subseteq Conns

VARIABLES
    plan,      \* [has: connections there, later: those a sale may add,
               \*  del: deletion -> [kind, target], events]
    dop,       \* deletion -> state ("none": not requested)
    frozen,    \* deletion -> [print: connection -> fingerprint, purchases]
    rem,       \* deletion -> connection -> [state, attempted, outcome, due]
    conn,      \* connection -> [there, enabled, print]
    sold,      \* the customer's purchases
    cust,      \* [there, blocked]: blocked is disabled and purchases_blocked
    dlease,    \* deletion -> worker granted its lease last
    dlive,     \* deletion -> that lease has not expired
    clease,    \* the same of the lease on the customer's identity
    clive,
    dw,        \* worker -> [pc, op, conn, fresh, result]
    ngate,     \* node -> worker whose child holds the node gate
    wire,      \* connection -> what its identity denotes on the node
    nup,       \* node -> the node answers
    poll,      \* the quota poller's pass: [pc, todo, applied]
    want,      \* connection -> quota and expiry want it enabled
    ddrain     \* owner_state = "draining"

delrows == <<conn, sold, cust>>
dleases == <<dlease, dlive, clease, clive>>
dworld  == <<wire, nup>>
delvars == <<plan, dop, frozen, rem, delrows, dleases, dw, ngate, dworld, poll, want, ddrain>>

NotInScope == 2                 \* a fingerprint is 0, or 1 after an edit
DelPcs == {"idle", "ticking", "picked", "dispatching", "spawned", "gated", "writing",
           "authorised", "verify", "done", "releasing"}
DelChildPcs == {"spawned", "gated", "writing", "authorised", "verify"}

KindOf(d)  == plan.del[d].kind
TargetOf(d) == plan.del[d].target
Scope(d)   == {c \in Conns : frozen[d].print[c] # NotInScope}
Allowed(e) == e \in plan.events
InFlightDel(d) == dop[d] \in {"prepared", "provisioning", "cleanup_required"}

NoRemoval == [state |-> "none", attempted |-> FALSE, outcome |-> "none", due |-> TRUE]
Staged    == [NoRemoval EXCEPT !.state = "staged"]
DelIdle   == [pc |-> "idle", op |-> NoDel, conn |-> NoConn, fresh |-> FALSE, result |-> "none"]
PollIdle  == [pc |-> "idle", todo |-> [c \in Conns |-> "leave"], applied |-> {}]

DelInit ==
    /\ plan \in Plans
    /\ dop = [d \in Dels |-> "none"]
    /\ frozen = [d \in Dels |-> [print |-> [c \in Conns |-> NotInScope], purchases |-> {}]]
    /\ rem = [d \in Dels |-> [c \in Conns |-> NoRemoval]]
    /\ conn = [c \in Conns |-> [there |-> c \in plan.has, enabled |-> TRUE, print |-> 0]]
    /\ sold = Purchases
    /\ cust = [there |-> TRUE, blocked |-> FALSE]
    /\ dlease = [d \in Dels |-> NoDelWorker]
    /\ dlive = [d \in Dels |-> FALSE]
    /\ clease = NoDelWorker /\ clive = FALSE
    /\ dw = [w \in DelWorkers |-> DelIdle]
    /\ ngate = [n \in DelNodes |-> NoDelWorker]
    /\ wire = [c \in Conns |-> IF c \in plan.has \ PppConns THEN "present" ELSE "absent"]
    /\ nup = [n \in DelNodes |-> TRUE]
    /\ poll = PollIdle
    /\ want = [c \in Conns |-> TRUE]
    /\ ddrain = FALSE

-----------------------------------------------------------------------------
(* What a worker still knows *)

HasOp(w)   == dlease[dw[w].op] = w /\ dlive[dw[w].op]
HasCust(w) == clease = w /\ clive
\* Mutant of OpFree: an expired lease is not taken over.
OpReleased(d) == dlease[d] = NoDelWorker

OpFree(d)  == dlease[d] = NoDelWorker \/ ~dlive[d]
CustFree   == clease = NoDelWorker \/ ~clive

DelAt(w, pc) == dw[w].pc = pc
DelLeave(w)  == [dw[w] EXCEPT !.pc = "releasing", !.conn = NoConn, !.fresh = FALSE, !.result = "none"]

\* The operation and steps S are written: a worker that pinned them is stale.
\* rec is the writer's next record.
DelWritten(w, d, S, rec) ==
    [v \in DelWorkers |->
        IF v = w THEN rec
        ELSE IF dw[v].op = d /\ (dw[v].conn \in S \/ DelAt(v, "done") \/ dw[v].pc \in DelChildPcs)
             THEN [dw[v] EXCEPT !.fresh = FALSE]
             ELSE dw[v]]

-----------------------------------------------------------------------------
(* T1 *)

\* The connections of the target now.
InScope(d) == {c \in Conns :
                 /\ conn[c].there
                 /\ KindOf(d) = "connection" => c = TargetOf(d)
                 /\ KindOf(d) = "purchase" => ConnPurchase[c] = TargetOf(d)}

TargetThere(d) == /\ cust.there /\ KindOf(d) # "none"
                  /\ KindOf(d) = "connection" => conn[TargetOf(d)].there
                  /\ KindOf(d) = "purchase" => TargetOf(d) \in sold

Snapshot(d) == [print |-> [c \in Conns |-> IF c \in InScope(d) THEN conn[c].print ELSE NotInScope],
                purchases |-> IF KindOf(d) = "user" THEN sold ELSE {}]

PrepareDeletion(w, d) ==
    /\ DelAt(w, "idle") /\ dop[d] = "none" /\ ~ddrain
    /\ TargetThere(d) /\ CustFree
    /\ dop' = [dop EXCEPT ![d] = "prepared"]
    /\ frozen' = [frozen EXCEPT ![d] = Snapshot(d)]
    /\ rem' = [rem EXCEPT ![d] = [c \in Conns |-> IF c \in InScope(d) THEN Staged ELSE NoRemoval]]
    /\ conn' = [c \in Conns |-> IF c \in InScope(d) THEN [conn[c] EXCEPT !.enabled = FALSE] ELSE conn[c]]
    /\ cust' = [cust EXCEPT !.blocked = @ \/ KindOf(d) = "user"]
    /\ dlease' = [dlease EXCEPT ![d] = w] /\ dlive' = [dlive EXCEPT ![d] = TRUE]
    /\ clease' = w /\ clive' = TRUE
    /\ dw' = [dw EXCEPT ![w] = [DelIdle EXCEPT !.pc = "releasing", !.op = d]]
    /\ UNCHANGED <<plan, sold, ngate, dworld, poll, want, ddrain>>

-----------------------------------------------------------------------------
(* One iteration: reacquire, tick, release the customer, dispatch, record *)

ReacquireDeletion(w, d) ==
    /\ DelAt(w, "idle") /\ InFlightDel(d)
    /\ cust.there                       \* its wallet account still names an identity
    /\ OpFree(d) /\ CustFree
    /\ dlease' = [dlease EXCEPT ![d] = w] /\ dlive' = [dlive EXCEPT ![d] = TRUE]
    /\ clease' = w /\ clive' = TRUE
    /\ dw' = [dw EXCEPT ![w] = [DelIdle EXCEPT !.pc = "ticking", !.op = d]]
    /\ UNCHANGED <<plan, dop, frozen, rem, delrows, ngate, dworld, poll, want, ddrain>>

Pending(d) == {c \in Scope(d) : rem[d][c].state # "removed"}
NextOf(d)  == CHOOSE c \in Pending(d) : \A e \in Pending(d) : ConnOrder[c] <= ConnOrder[e]

Ticking(w, d) == DelAt(w, "ticking") /\ dw[w].op = d /\ HasOp(w) /\ HasCust(w)
Working(d)    == dop[d] \in {"prepared", "provisioning"}

\* begin_remove under the row's lock.
Removable(d, c) == conn[c].there /\ ~conn[c].enabled /\ frozen[d].print[c] = conn[c].print

TickPpp(w, d) ==
    /\ Ticking(w, d) /\ Working(d) /\ Pending(d) # {}
    /\ NextOf(d) \in PppConns /\ Removable(d, NextOf(d))
    /\ dop' = [dop EXCEPT ![d] = "provisioning"]
    /\ rem' = [rem EXCEPT ![d][NextOf(d)].state = "removed"]
    /\ dw' = DelWritten(w, d, {NextOf(d)}, DelLeave(w))
    /\ UNCHANGED <<plan, frozen, delrows, dleases, ngate, dworld, poll, want, ddrain>>

TickPicksRemoval(w, d) ==
    /\ Ticking(w, d) /\ Working(d) /\ Pending(d) # {}
    /\ NextOf(d) \notin PppConns /\ rem[d][NextOf(d)].due /\ ~ddrain
    /\ dw' = [dw EXCEPT ![w].pc = "picked", ![w].conn = NextOf(d), ![w].fresh = TRUE]
    /\ UNCHANGED <<plan, dop, frozen, rem, delrows, dleases, ngate, dworld, poll, want, ddrain>>

\* Other sales of the customer may proceed while the child runs.
ReleaseShared(w) ==
    /\ DelAt(w, "picked") /\ HasOp(w) /\ HasCust(w)
    /\ clease' = NoDelWorker /\ clive' = FALSE
    /\ dw' = [dw EXCEPT ![w].pc = "dispatching"]
    /\ UNCHANGED <<plan, dop, frozen, rem, delrows, dlease, dlive, ngate, dworld, poll, want, ddrain>>

\* A removal is proved, or an operator gave it up.
Proved(r, c) == r.state = "removed" /\ \/ c \in PppConns \/ r.outcome = "abandoned"
                                       \/ r.attempted /\ r.outcome = "verified_absent"

\* Mutant of Unchanged: what was added to the scope since T1 is not counted.
UnchangedOld(d) == \A c \in Scope(d) : conn[c].there /\ frozen[d].print[c] = conn[c].print

\* The scope is exactly the one T1 froze.
Unchanged(d) == /\ InScope(d) = Scope(d)
                /\ \A c \in Scope(d) : frozen[d].print[c] = conn[c].print
                /\ KindOf(d) = "user" => sold = frozen[d].purchases

Deletable(d) == /\ TargetThere(d) /\ Unchanged(d)
                /\ \A c \in Scope(d) : Proved(rem[d][c], c) /\ ~conn[c].enabled
                /\ KindOf(d) = "user" => cust.blocked

\* mark_remote_complete and finish: the rows go in the same transaction.
TickFinishes(w, d) ==
    /\ Ticking(w, d) /\ Working(d) /\ Pending(d) = {}
    /\ Deletable(d)
    /\ dop' = [dop EXCEPT ![d] = "completed"]
    /\ conn' = [c \in Conns |-> IF c \in InScope(d) THEN [conn[c] EXCEPT !.there = FALSE] ELSE conn[c]]
    /\ sold' = CASE KindOf(d) = "purchase" -> sold \ {TargetOf(d)}
                 [] KindOf(d) = "user" -> {}
                 [] OTHER -> sold
    /\ cust' = [cust EXCEPT !.there = @ /\ KindOf(d) # "user"]
    /\ dw' = DelWritten(w, d, {}, DelLeave(w))
    /\ UNCHANGED <<plan, frozen, rem, dleases, ngate, dworld, poll, want, ddrain>>

\* A purchase another deletion of exactly the same scope has deleted.
TwinOf(d) == {e \in Dels \ {d} : /\ dop[e] = "completed"
                                 /\ plan.del[e] = plan.del[d] /\ frozen[e] = frozen[d]}

Duplicate(d) == /\ KindOf(d) = "purchase" /\ cust.there /\ TargetOf(d) \notin sold
                /\ TwinOf(d) # {}
                /\ \A c \in Conns : conn[c].there => c \notin Scope(d) /\ ConnPurchase[c] # TargetOf(d)
                /\ \A c \in Scope(d) : Proved(rem[d][c], c)

TickDuplicate(w, d) ==
    /\ Ticking(w, d) /\ Working(d) /\ Pending(d) = {}
    /\ Duplicate(d)
    /\ dop' = [dop EXCEPT ![d] = "completed"]
    /\ dw' = DelWritten(w, d, {}, DelLeave(w))
    /\ UNCHANGED <<plan, frozen, rem, delrows, dleases, ngate, dworld, poll, want, ddrain>>

\* Terminal, manual recovery, backoff, draining; or refused (409): the scope
\* is not the one T1 froze, or something in it is enabled again.
TickRefuses(w, d) ==
    /\ Ticking(w, d)
    /\ \/ ~Working(d)
       \/ Pending(d) # {} /\ \/ NextOf(d) \in PppConns /\ ~Removable(d, NextOf(d))
                             \/ NextOf(d) \notin PppConns /\ (ddrain \/ ~rem[d][NextOf(d)].due)
       \/ Pending(d) = {} /\ ~Deletable(d) /\ ~Duplicate(d)
    /\ dw' = [dw EXCEPT ![w] = DelLeave(w)]
    /\ UNCHANGED <<plan, dop, frozen, rem, delrows, dleases, ngate, dworld, poll, want, ddrain>>

MarkRemoval(r) == [r EXCEPT !.state = "remote_calling", !.attempted = TRUE, !.outcome = "none"]

CanDispatch(w) ==
    LET d == dw[w].op  c == dw[w].conn IN
    /\ HasOp(w) /\ dw[w].fresh /\ ~ddrain /\ Working(d) /\ rem[d][c].due
    /\ conn[c].there /\ frozen[d].print[c] = conn[c].print
    /\ rem[d][c].state = "staged" => ~conn[c].enabled

\* The marker is committed before the child starts; a retry writes nothing.
DispatchRemoval(w) ==
    LET d == dw[w].op  c == dw[w].conn IN
    /\ DelAt(w, "dispatching") /\ CanDispatch(w)
    /\ IF rem[d][c].state = "staged"
       THEN /\ dop' = [dop EXCEPT ![d] = "provisioning"]
            /\ rem' = [rem EXCEPT ![d][c] = MarkRemoval(@)]
            /\ dw' = DelWritten(w, d, {c}, [dw[w] EXCEPT !.pc = "spawned"])
       ELSE /\ dw' = [dw EXCEPT ![w].pc = "spawned"]
            /\ UNCHANGED <<dop, rem>>
    /\ UNCHANGED <<plan, frozen, delrows, dleases, ngate, dworld, poll, want, ddrain>>

-----------------------------------------------------------------------------
(* The child *)

DelUnmoved == <<plan, dop, frozen, rem, delrows, dleases, poll, want, ddrain>>

\* A fresh read of the database finds the dispatch current and its object
\* the one T1 froze, still disabled.
RemovalBound(w) ==
    LET d == dw[w].op  c == dw[w].conn IN
    /\ HasOp(w) /\ dw[w].fresh
    /\ conn[c].there /\ ~conn[c].enabled /\ frozen[d].print[c] = conn[c].print
    /\ KindOf(d) = "user" => cust.blocked

ChildNode(w) == ConnNode[dw[w].conn]

ChildEnds(w, result) ==
    /\ dw' = [dw EXCEPT ![w].pc = "done", ![w].result = result]
    /\ ngate' = [n \in DelNodes |-> IF ngate[n] = w THEN NoDelWorker ELSE ngate[n]]

TakeNodeGate(w) ==
    /\ DelAt(w, "spawned") /\ ngate[ChildNode(w)] = NoDelWorker
    /\ ngate' = [ngate EXCEPT ![ChildNode(w)] = w]
    /\ dw' = [dw EXCEPT ![w].pc = "gated"]
    /\ UNCHANGED <<DelUnmoved, dworld>>

\* Every answer is checked against the database again before it counts.
LookUp(w) ==
    /\ DelAt(w, "gated") /\ RemovalBound(w) /\ nup[ChildNode(w)]
    /\ CASE wire[dw[w].conn] = "present" -> dw' = [dw EXCEPT ![w].pc = "writing"] /\ UNCHANGED ngate
         [] wire[dw[w].conn] = "absent"  -> dw' = [dw EXCEPT ![w].pc = "verify"] /\ UNCHANGED ngate
         [] wire[dw[w].conn] = "foreign" -> ChildEnds(w, "conflict")
    /\ UNCHANGED <<DelUnmoved, dworld>>

AuthoriseRemoval(w) ==
    /\ DelAt(w, "writing") /\ RemovalBound(w)
    /\ dw' = [dw EXCEPT ![w].pc = "authorised"]
    /\ UNCHANGED <<DelUnmoved, ngate, dworld>>

RemoveFromNode(w) ==
    /\ DelAt(w, "authorised") /\ nup[ChildNode(w)]
    /\ wire' = [wire EXCEPT ![dw[w].conn] = "absent"]
    /\ dw' = [dw EXCEPT ![w].pc = "verify"]
    /\ UNCHANGED <<DelUnmoved, ngate, nup>>

CertifyAbsent(w) ==
    /\ DelAt(w, "verify") /\ RemovalBound(w)
    /\ ChildEnds(w, "absent")
    /\ UNCHANGED <<DelUnmoved, dworld>>

\* Stale, a busy gate or a silent node past the timeout, killed: not known.
ChildGivesUp(w) ==
    /\ \/ dw[w].pc \in {"gated", "writing", "verify"} /\ ~RemovalBound(w)
       \/ DelAt(w, "spawned") /\ ngate[ChildNode(w)] # NoDelWorker
       \/ dw[w].pc \in {"gated", "authorised"} /\ ~nup[ChildNode(w)]
    /\ ChildEnds(w, "unknown")
    /\ UNCHANGED <<DelUnmoved, dworld>>

ChildKilled(w) ==
    /\ Allowed("kill") /\ dw[w].pc \in DelChildPcs
    /\ ChildEnds(w, "unknown")
    /\ UNCHANGED <<DelUnmoved, dworld>>

-----------------------------------------------------------------------------
(* Recording, and leaving *)

\* Mutant of RemovalRecorded: no answer counts as gone.
RemovalPresumed(r, result) ==
    IF result = "conflict" THEN [r EXCEPT !.state = "cleanup_required", !.outcome = "unverified"]
    ELSE [r EXCEPT !.state = "removed", !.outcome = "verified_absent"]

RemovalRecorded(r, result) ==
    CASE result = "absent"   -> [r EXCEPT !.state = "removed", !.outcome = "verified_absent"]
      [] result = "conflict" -> [r EXCEPT !.state = "cleanup_required", !.outcome = "unverified"]
      [] result = "unknown"  -> [r EXCEPT !.due = FALSE, !.outcome = "unknown"]

\* Mutant of ConflictAsks: only the step remembers the conflict.
ConflictAsksNobody(state, result) == state

ConflictAsks(state, result) == IF result = "conflict" THEN "cleanup_required" ELSE state

RecordRemoval(w) ==
    LET d == dw[w].op  c == dw[w].conn IN
    /\ DelAt(w, "done") /\ HasOp(w) /\ dw[w].fresh
    /\ rem' = [rem EXCEPT ![d][c] = RemovalRecorded(@, dw[w].result)]
    /\ dop' = [dop EXCEPT ![d] = ConflictAsks(@, dw[w].result)]
    /\ dw' = DelWritten(w, d, {c}, DelLeave(w))
    /\ UNCHANGED <<plan, frozen, delrows, dleases, ngate, dworld, poll, want, ddrain>>

\* LeaseLost, a stale result, or a dispatch that is refused.
LeaveRefused(w) ==
    /\ \/ dw[w].pc \in {"ticking", "picked"} /\ ~(HasOp(w) /\ HasCust(w))
       \/ DelAt(w, "dispatching") /\ ~CanDispatch(w)
       \/ DelAt(w, "done") /\ ~(HasOp(w) /\ dw[w].fresh)
    /\ dw' = [dw EXCEPT ![w] = DelLeave(w)]
    /\ UNCHANGED <<DelUnmoved, ngate, dworld>>

\* A deadlock or a lock timeout rolls the transaction back.
LockConflict(w) ==
    /\ Allowed("conflict") /\ dw[w].pc \in {"ticking", "picked", "dispatching", "done"}
    /\ dw' = [dw EXCEPT ![w] = DelLeave(w)]
    /\ UNCHANGED <<DelUnmoved, ngate, dworld>>

ReleaseLeases(w) ==
    LET d == dw[w].op IN
    /\ DelAt(w, "releasing")
    /\ dlease' = [dlease EXCEPT ![d] = IF @ = w THEN NoDelWorker ELSE @]
    /\ dlive' = [dlive EXCEPT ![d] = @ /\ dlease[d] # w]
    /\ clease' = IF clease = w THEN NoDelWorker ELSE clease
    /\ clive' = (clive /\ clease # w)
    /\ dw' = [dw EXCEPT ![w] = DelIdle]
    /\ UNCHANGED <<plan, dop, frozen, rem, delrows, ngate, dworld, poll, want, ddrain>>

\* The kernel kills the child of a process that dies.
WorkerCrash(w) ==
    /\ Allowed("crash") /\ ~DelAt(w, "idle")
    /\ dw' = [dw EXCEPT ![w] = DelIdle]
    /\ ngate' = [n \in DelNodes |-> IF ngate[n] = w THEN NoDelWorker ELSE ngate[n]]
    /\ UNCHANGED <<DelUnmoved, dworld>>

-----------------------------------------------------------------------------
(* The operator *)

Dirty(d) == {c \in Conns : rem[d][c].state = "cleanup_required"}
Asked(d) == Allowed("operator") /\ dop[d] = "cleanup_required"

RetryRemoval(d) ==
    /\ Asked(d)
    /\ dop' = [dop EXCEPT ![d] = "provisioning"]
    /\ rem' = [rem EXCEPT ![d] = [c \in Conns |->
                 IF c \in Dirty(d) THEN [@[c] EXCEPT !.state = "staged", !.outcome = "none", !.due = TRUE]
                 ELSE @[c]]]
    /\ dw' = DelWritten(NoDelWorker, d, Conns, DelIdle)
    /\ UNCHANGED <<plan, frozen, delrows, dleases, ngate, dworld, poll, want, ddrain>>

GivenUp(r) == [r EXCEPT !.state = "removed", !.outcome = "abandoned", !.due = TRUE]

ForceRemoval(d, c) ==
    /\ Asked(d) /\ c \in Dirty(d)
    /\ rem' = [rem EXCEPT ![d][c] = GivenUp(@)]
    /\ dop' = [dop EXCEPT ![d] = IF Dirty(d) = {c} THEN "provisioning" ELSE @]
    /\ dw' = DelWritten(NoDelWorker, d, {c}, DelIdle)
    /\ UNCHANGED <<plan, frozen, delrows, dleases, ngate, dworld, poll, want, ddrain>>

\* Mutant of NoChildAlive: nobody asks.
ChildrenIgnored == TRUE

\* remote_runner.live_count() is 0.
NoChildAlive == \A w \in DelWorkers : dw[w].pc \notin DelChildPcs

\* An admin attests that a 3X-UI client whose removal is unknown is gone.
AbandonUnknown(d, c) ==
    /\ Allowed("operator")
    /\ KindOf(d) = "purchase" /\ c \in XrayConns /\ dop[d] = "provisioning"
    /\ OpFree(d) /\ NoChildAlive
    /\ rem[d][c].state = "remote_calling" /\ rem[d][c].outcome = "unknown"
    /\ \A e \in Conns \ {c} : rem[d][e].state # "remote_calling"
    /\ rem' = [rem EXCEPT ![d][c] = GivenUp(@)]
    /\ dlease' = [dlease EXCEPT ![d] = NoDelWorker] /\ dlive' = [dlive EXCEPT ![d] = FALSE]
    /\ dw' = DelWritten(NoDelWorker, d, {c}, DelIdle)
    /\ UNCHANGED <<plan, dop, frozen, delrows, clease, clive, ngate, dworld, poll, want, ddrain>>

-----------------------------------------------------------------------------
(* The quota poller: one read, a push per difference, one commit *)

Polled(c) == /\ conn[c].there /\ c \notin PppConns
             /\ ConnPurchase[c] = NoPurchase => ~cust.blocked

\* Its pass starts from one snapshot of the rows.
PollReads ==
    /\ Allowed("poll") /\ poll.pc = "idle"
    /\ \E c \in Conns : Polled(c) /\ conn[c].enabled # want[c]
    /\ poll' = [pc |-> "pushing", applied |-> {},
                todo |-> [c \in Conns |-> IF Polled(c) /\ conn[c].enabled # want[c]
                                          THEN IF want[c] THEN "enable" ELSE "disable"
                                          ELSE "leave"]]
    /\ UNCHANGED <<plan, dop, frozen, rem, delrows, dleases, dw, ngate, dworld, want, ddrain>>

\* The push takes the node gate.  It is applied if the node confirms it.
PollPushes(c) ==
    LET applies == /\ nup[ConnNode[c]]
                   /\ wire[c] = "present" \/ (wire[c] = "absent" /\ c \in SelfHealing
                                                /\ poll.todo[c] = "enable") IN
    /\ poll.pc = "pushing" /\ poll.todo[c] # "leave" /\ c \notin poll.applied
    /\ ngate[ConnNode[c]] = NoDelWorker
    /\ wire' = [wire EXCEPT ![c] = IF applies THEN "present" ELSE @]
    /\ poll' = IF applies THEN [poll EXCEPT !.applied = @ \cup {c}]
               ELSE [poll EXCEPT !.todo[c] = "leave"]
    /\ UNCHANGED <<plan, dop, frozen, rem, delrows, dleases, dw, ngate, nup, want, ddrain>>

\* A row deleted meanwhile fails the whole cycle's commit.
PollCommits ==
    /\ poll.pc = "pushing"
    /\ \A c \in Conns : poll.todo[c] = "leave" \/ c \in poll.applied
    /\ conn' = IF \A c \in poll.applied : conn[c].there
               THEN [c \in Conns |-> IF c \in poll.applied
                                     THEN [conn[c] EXCEPT !.enabled = (poll.todo[c] = "enable")]
                                     ELSE conn[c]]
               ELSE conn
    /\ poll' = PollIdle
    /\ UNCHANGED <<plan, dop, frozen, rem, sold, cust, dleases, dw, ngate, dworld, want, ddrain>>

-----------------------------------------------------------------------------
(* Time, the nodes, and the administrators *)

DelQuiet == <<plan, dop, frozen, rem, sold, cust, dleases, dw, ngate, poll>>

DelLeaseUsed(d) == dlease[d] \in DelWorkers /\ dw[dlease[d]].op = d
CustLeaseUsed   == clease \in DelWorkers /\ ~DelAt(clease, "idle")

ExpireDelLease(d) ==
    /\ dlive[d]
    /\ dlive' = [dlive EXCEPT ![d] = FALSE]
    /\ UNCHANGED <<plan, dop, frozen, rem, delrows, dlease, clease, clive, dw, ngate, dworld, poll, want, ddrain>>

ExpireCustLease ==
    /\ clive
    /\ clive' = FALSE
    /\ UNCHANGED <<plan, dop, frozen, rem, delrows, dlease, dlive, clease, dw, ngate, dworld, poll, want, ddrain>>

\* A dead worker's leases expire; a suspended process loses those it uses.
ExpireDead == \/ \E d \in Dels : ~DelLeaseUsed(d) /\ ExpireDelLease(d)
              \/ ~CustLeaseUsed /\ ExpireCustLease
ExpireBusy == /\ Allowed("expire")
              /\ \/ \E d \in Dels : DelLeaseUsed(d) /\ ExpireDelLease(d)
                 \/ CustLeaseUsed /\ ExpireCustLease

RemovalDue(d, c) ==
    /\ ~rem[d][c].due
    /\ rem' = [rem EXCEPT ![d][c].due = TRUE]
    /\ UNCHANGED <<plan, dop, frozen, delrows, dleases, dw, ngate, dworld, poll, want, ddrain>>

NodeStops(n) == /\ Allowed("down") /\ nup[n]
                /\ nup' = [nup EXCEPT ![n] = FALSE]
                /\ UNCHANGED <<DelQuiet, conn, wire, want, ddrain>>

NodeReturns(n) == /\ ~nup[n]
                  /\ nup' = [nup EXCEPT ![n] = TRUE]
                  /\ UNCHANGED <<DelQuiet, conn, wire, want, ddrain>>

\* Somebody reuses the identity on the node.
NodeEdited(c) == /\ Allowed("foreign") /\ wire[c] # "foreign" /\ c \in plan.has \ PppConns
                 /\ wire' = [wire EXCEPT ![c] = "foreign"]
                 /\ UNCHANGED <<DelQuiet, conn, nup, want, ddrain>>

NodeRepaired(c) == /\ wire[c] = "foreign"
                   /\ wire' = [wire EXCEPT ![c] = "absent"]
                   /\ UNCHANGED <<DelQuiet, conn, nup, want, ddrain>>

\* update_connection does not ask whether a deletion is in flight.
EditConnection(c) ==
    /\ Allowed("edit") /\ conn[c].there /\ conn[c].print = 0
    /\ conn' = [conn EXCEPT ![c].print = 1]
    /\ UNCHANGED <<DelQuiet, dworld, want, ddrain>>

\* A sale adds a connection; it needs the customer's lease and an open account.
AddConnection(c) ==
    /\ Allowed("add") /\ c \in plan.later /\ ~conn[c].there
    /\ \A d \in Dels : c \notin Scope(d)
    /\ cust.there /\ ~cust.blocked /\ CustFree
    /\ ConnPurchase[c] # NoPurchase => ConnPurchase[c] \in sold
    /\ conn' = [conn EXCEPT ![c].there = TRUE]
    /\ wire' = [wire EXCEPT ![c] = IF c \in PppConns THEN @ ELSE "present"]
    /\ UNCHANGED <<DelQuiet, nup, want, ddrain>>

\* A quota runs out, or is renewed.
QuotaTurns(c) == /\ Allowed("poll") /\ c \in plan.has \ PppConns
                 /\ want' = [want EXCEPT ![c] = ~@]
                 /\ UNCHANGED <<DelQuiet, conn, dworld, ddrain>>

TurnDraining == /\ Allowed("drain")
                /\ ddrain' = ~ddrain
                /\ UNCHANGED <<DelQuiet, conn, dworld, want>>

-----------------------------------------------------------------------------
(* Specification *)

DelWork(w) ==
    \/ \E d \in Dels : \/ ReacquireDeletion(w, d) \/ TickPpp(w, d) \/ TickPicksRemoval(w, d)
                       \/ TickFinishes(w, d) \/ TickDuplicate(w, d) \/ TickRefuses(w, d)
    \/ ReleaseShared(w) \/ DispatchRemoval(w) \/ TakeNodeGate(w) \/ LookUp(w) \/ AuthoriseRemoval(w)
    \/ RemoveFromNode(w) \/ CertifyAbsent(w) \/ ChildGivesUp(w) \/ RecordRemoval(w)
    \/ LeaveRefused(w) \/ ReleaseLeases(w)

DelPoll == PollReads \/ PollCommits \/ \E c \in Conns : PollPushes(c)

DelTime == \/ ExpireDead
           \/ \E d \in Dels : \E c \in Conns : RemovalDue(d, c)
           \/ \E n \in DelNodes : NodeReturns(n)

DelDisturb ==
    \/ \E w \in DelWorkers : ChildKilled(w) \/ LockConflict(w) \/ WorkerCrash(w)
    \/ \E n \in DelNodes : NodeStops(n)
    \/ \E c \in Conns : NodeEdited(c) \/ NodeRepaired(c) \/ EditConnection(c) \/ AddConnection(c) \/ QuotaTurns(c)
    \/ TurnDraining \/ ExpireBusy

DelOperator == \E d \in Dels : RetryRemoval(d) \/ \E c \in Conns : ForceRemoval(d, c) \/ AbandonUnknown(d, c)

DelNext == \/ \E w \in DelWorkers : DelWork(w) \/ \E d \in Dels : PrepareDeletion(w, d)
           \/ DelPoll \/ DelTime \/ DelDisturb \/ DelOperator

DelSpec == DelInit /\ [][DelNext]_delvars

\* The recovery worker takes the due deletions in turn, one at a time
\* (DueRecovery), so each of them finds the customer's lease free again and
\* again; time passes, and nodes come back.
DelFairness == /\ \A w \in DelWorkers : WF_delvars(DelWork(w))
               /\ \A d \in Dels : SF_delvars(\E w \in DelWorkers : ReacquireDeletion(w, d))
               /\ \A d \in Dels : \A c \in Conns : WF_delvars(RemovalDue(d, c))
               /\ WF_delvars(ExpireDead)
               /\ \A n \in DelNodes : WF_delvars(NodeReturns(n))

DelFairSpec == DelSpec /\ DelFairness

-----------------------------------------------------------------------------
(* Properties *)

\* Every variable has its type.
DelTypeOK ==
    /\ plan \in Plans
    /\ dop \in [Dels -> {"none", "prepared", "provisioning", "cleanup_required", "completed"}]
    /\ \A d \in Dels : /\ frozen[d].print \in [Conns -> 0..2] /\ frozen[d].purchases \subseteq Purchases
                       /\ rem[d] \in [Conns -> [state : {"none", "staged", "remote_calling", "removed",
                                                         "cleanup_required"},
                                                attempted : BOOLEAN, due : BOOLEAN,
                                                outcome : {"none", "unknown", "verified_absent",
                                                           "unverified", "abandoned"}]]
    /\ conn \in [Conns -> [there : BOOLEAN, enabled : BOOLEAN, print : 0..1]]
    /\ sold \subseteq Purchases /\ cust \in [there : BOOLEAN, blocked : BOOLEAN]
    /\ dlease \in [Dels -> DelWorkers \cup {NoDelWorker}] /\ dlive \in [Dels -> BOOLEAN]
    /\ clease \in DelWorkers \cup {NoDelWorker} /\ clive \in BOOLEAN
    /\ dw \in [DelWorkers -> [pc : DelPcs, op : Dels \cup {NoDel}, conn : Conns \cup {NoConn},
                              fresh : BOOLEAN, result : {"none", "absent", "conflict", "unknown"}]]
    /\ ngate \in [DelNodes -> DelWorkers \cup {NoDelWorker}]
    /\ wire \in [Conns -> {"present", "absent", "foreign"}] /\ nup \in [DelNodes -> BOOLEAN]
    /\ poll.todo \in [Conns -> {"enable", "disable", "leave"}] /\ poll.applied \subseteq Conns
    /\ want \in [Conns -> BOOLEAN] /\ ddrain \in BOOLEAN

Abandoned(c) == \E d \in Dels : rem[d][c].outcome = "abandoned"

\* A record is deleted only when its client is gone from the node, unless an
\* operator gave the removal up ("T_final deletes the rows only when every one
\* is gone", provisioning_requests.py:85).  A node in SelfHealing breaks this.
GoneFromTheNode == \A c \in plan.has : ~conn[c].there /\ wire[c] = "present" => Abandoned(c)

\* The operator is asked exactly while a removal met a foreign object.
AsksWhileDirty == \A d \in Dels : dop[d] = "cleanup_required" <=> Dirty(d) # {}

\* The invariant of the deletions: no record goes before its client, and the
\* operator is asked while, and only while, there is something to decide.
DeletionInv == DelTypeOK /\ GoneFromTheNode /\ AsksWhileDirty

\* A client leaves a node only under a committed marker of a deletion in
\* flight: after a crash the step says that the call may have been made, and
\* no child is left to remove what an operator has already given up.
Marked(d, c) == dop[d] = "provisioning" /\ rem[d][c].state = "remote_calling" /\ rem[d][c].attempted

RemovedUnderMarker ==
    [][\A w \in DelWorkers : RemoveFromNode(w) => Marked(dw[w].op, dw[w].conn)]_delvars

\* Rows disappear only all at once, as the frozen scope of a deletion whose
\* every removal is proved or was given up.
WholeScopeOrNothing ==
    [][\A c \in Conns : conn[c].there /\ ~conn'[c].there =>
         \E d \in Dels : /\ InFlightDel(d) /\ dop'[d] = "completed" /\ c \in Scope(d)
                         /\ \A e \in Scope(d) : ~conn'[e].there /\ Proved(rem[d][e], e)]_delvars

\* Once accidents, edits and decisions stop, a deletion is completed, asks the operator,
\* or is refused because its scope has changed or was enabled again.
Stuck(d) == \/ ~TargetThere(d) \/ ~Unchanged(d)
            \/ \E c \in Scope(d) : conn[c].enabled
Settled(d) == dop[d] \in {"completed", "cleanup_required"} \/ Stuck(d)

DeletionSettles == <>[][~DelDisturb /\ ~DelOperator]_delvars => \A d \in Dels : [](dop[d] # "none" => <>Settled(d))
=============================================================================
