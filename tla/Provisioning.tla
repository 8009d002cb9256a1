---------------------------- MODULE Provisioning ----------------------------
(***************************************************************************)
(* The durable sale of VPN connections (create_user, purchase and          *)
(* add_connection without a receipt approval).                             *)
(*                                                                         *)
(* An operation is prepared in one transaction (T1: reservations, one-time *)
(* claims, staged steps), its steps are created on remote nodes one at a   *)
(* time by child processes, and one transaction completes it (T_final:     *)
(* capture) or, once every remote trace is verified gone, refunds it       *)
(* (T_comp: release).  Workers die, their leases expire while they or      *)
(* their children still run, nodes stop answering, and administrators      *)
(* disable or move nodes meanwhile.                                        *)
(*                                                                         *)
(* A worker's lease is the newest grant of ResourceLeases; the node gate   *)
(* is the lock a child holds from before its first look at the node until  *)
(* its process has ended.  Row versions and fencing epochs only decide     *)
(* whether what a worker has seen is still current: field fresh.           *)
(***************************************************************************)
EXTENDS Integers, FiniteSets, Functions

CONSTANTS Ops, Steps, Nodes, Workers,
          OpOf,           \* step -> operation
          NodeOf,         \* step -> node
          Order,          \* step -> step_order
          PppSteps,       \* steps of backend radius_ppp: no remote resource
          Converging,     \* steps whose presence alone does not certify them
          Conflicting,    \* steps whose name a foreign resource may occupy
          Payers,         \* customer_wallet, reseller_credit
          Wallet,         \* the payer customer_wallet
          Price,          \* operation -> payer -> amount, 0 for no reservation
          Credit,         \* payer -> initial balance
          OneTimeKey,     \* operation -> one-time claim key, or NoKey
          Endpoints,      \* configurations a node may be given
          Events,         \* the outside events an instance includes
          NoKey, NoWorker, NoOp, NoStep, NoEndpoint

ASSUME ShapeAssumption == /\ OpOf \in [Steps -> Ops]
                          /\ NodeOf \in [Steps -> Nodes]
                          /\ Order \in [Steps -> Nat]
                          /\ PppSteps \subseteq Steps
                          /\ Converging \subseteq Steps \ PppSteps
                          /\ Conflicting \subseteq Steps \ PppSteps
ASSUME MoneyAssumption == /\ IsFiniteSet(Ops)
                          /\ Wallet \in Payers
                          /\ Price \in [Ops -> [Payers -> Nat]]
                          /\ Credit \in [Payers -> Nat]
ASSUME NoneAssumption  == /\ NoWorker \notin Workers
                          /\ NoOp \notin Ops
                          /\ NoStep \notin Steps
                          /\ NoEndpoint \notin Endpoints

VARIABLES
    opst,     \* operation -> state ("none": not prepared)
    started,  \* operation -> wallet_epoch_at_start
    window,   \* operation -> forward_deadline not passed and the target user exists
    step,     \* step -> [state, attempted, outcome, due]
    saved,    \* step -> node configuration the operation was prepared for
    res,      \* operation -> payer -> reservation state
    balance,  \* payer -> balance
    claim,    \* operation -> state of its one-time claim
    lease,    \* operation -> worker granted its lease last, or NoWorker
    live,     \* operation -> that lease has not expired
    wk,       \* worker -> [pc, op, step, phase, fresh, result]
    gate,     \* node -> worker whose child holds the node gate
    remote,   \* step -> what its name denotes on its node
    up,       \* node -> the node answers
    enabled,  \* node -> enabled
    endpoint, \* node -> its current configuration
    epoch,    \* wallet_runtime_state.epoch
    phase,    \* wallet_runtime_state.phase
    draining  \* owner_state = "draining"

opvars    == <<opst, started, window, saved, claim>>
money     == <<res, balance>>
leasevars == <<lease, live>>
world     == <<remote, up>>
control   == <<enabled, endpoint, epoch, phase, draining>>
vars == <<opvars, step, money, leasevars, wk, gate, world, control>>

Terminal  == {"completed", "compensated"}
Forward   == {"prepared", "provisioning"}
OpStates  == {"none", "cleanup_required", "compensating"} \cup Terminal \cup Forward
StepStates == {"none", "staged", "remote_calling", "remote_created", "active",
               "compensating", "cleanup_required", "removed"}
ChildPcs  == {"spawned", "gated", "inside", "writing", "authorised", "verify"}

StepsOf(o) == {s \in Steps : OpOf[s] = o}
Remote(o)  == StepsOf(o) \ PppSteps
First(S)   == CHOOSE s \in S : \A t \in S : Order[s] <= Order[t]

Blank == [state |-> "none", attempted |-> FALSE, outcome |-> "none", due |-> TRUE]
Idle  == [pc |-> "idle", op |-> NoOp, step |-> NoStep, phase |-> "none",
          fresh |-> FALSE, result |-> "none"]

Init == /\ opst = [o \in Ops |-> "none"]
        /\ started = [o \in Ops |-> 0]
        /\ window = [o \in Ops |-> TRUE]
        /\ step = [s \in Steps |-> Blank]
        /\ saved = [s \in Steps |-> NoEndpoint]
        /\ res = [o \in Ops |-> [p \in Payers |-> "none"]]
        /\ balance = Credit
        /\ claim = [o \in Ops |-> "none"]
        /\ lease = [o \in Ops |-> NoWorker]
        /\ live = [o \in Ops |-> FALSE]
        /\ wk = [w \in Workers |-> Idle]
        /\ gate = [n \in Nodes |-> NoWorker]
        /\ remote \in [Steps -> {"absent", "foreign"}]
        /\ \A s \in Steps \ Conflicting : remote[s] = "absent"
        /\ up = [n \in Nodes |-> TRUE]
        /\ enabled = [n \in Nodes |-> TRUE]
        /\ endpoint \in [Nodes -> Endpoints]
        /\ epoch = 0
        /\ phase = "normal"
        /\ draining = FALSE

-----------------------------------------------------------------------------
(* What a worker still knows *)

\* Its operation lease is the newest grant and has not expired (revalidate).
Holds(w) == lease[wk[w].op] = w /\ live[wk[w].op]

At(w, pc) == wk[w].pc = pc

Leave(w) == [wk[w] EXCEPT !.pc = "releasing", !.step = NoStep, !.phase = "none",
                          !.fresh = FALSE, !.result = "none"]

\* Operation o and steps S are written: the versions every other worker pinned
\* are stale (a tick pins the step, a dispatch both).  rec: the writer's next.
Written(w, o, S, rec) ==
    [v \in Workers |->
        IF v = w THEN rec
        ELSE IF wk[v].op = o /\ (wk[v].step \in S \/ At(v, "done") \/ wk[v].pc \in ChildPcs)
             THEN [wk[v] EXCEPT !.fresh = FALSE]
             ELSE wk[v]]

\* Step s alone is written.
StepWritten(w, s, rec) ==
    [v \in Workers |-> IF v = w THEN rec
                       ELSE IF wk[v].step = s THEN [wk[v] EXCEPT !.fresh = FALSE]
                       ELSE wk[v]]

-----------------------------------------------------------------------------
(* T1: prepare *)

\* Mutant of KeyTaken: only a sold package counts.
KeyBound(o) == \E q \in Ops : OneTimeKey[q] = OneTimeKey[o] /\ claim[q] = "bound"

KeyTaken(o) == \E q \in Ops : /\ OneTimeKey[q] = OneTimeKey[o]
                              /\ claim[q] \in {"held", "bound"}

\* Each debit is conditional on the payer's balance.
Affordable(o) == \A p \in Payers : Price[o][p] <= balance[p]

Prepare(w, o) ==
    /\ At(w, "idle") /\ opst[o] = "none" /\ ~draining
    /\ \A s \in StepsOf(o) : enabled[NodeOf[s]]
    /\ OneTimeKey[o] # NoKey => ~KeyTaken(o)
    /\ Affordable(o)
    /\ opst' = [opst EXCEPT ![o] = "prepared"]
    /\ started' = [started EXCEPT ![o] = epoch]
    /\ saved' = [s \in Steps |-> IF OpOf[s] = o THEN endpoint[NodeOf[s]] ELSE saved[s]]
    /\ step' = [s \in Steps |-> IF OpOf[s] = o THEN [Blank EXCEPT !.state = "staged"] ELSE step[s]]
    /\ claim' = [claim EXCEPT ![o] = IF OneTimeKey[o] # NoKey THEN "held" ELSE "none"]
    /\ res' = [res EXCEPT ![o] = [p \in Payers |-> IF Price[o][p] > 0 THEN "reserved" ELSE "none"]]
    /\ balance' = [p \in Payers |-> balance[p] - Price[o][p]]
    /\ lease' = [lease EXCEPT ![o] = w]
    /\ live' = [live EXCEPT ![o] = TRUE]
    /\ wk' = [wk EXCEPT ![w] = [Idle EXCEPT !.pc = "releasing", !.op = o]]
    /\ UNCHANGED <<window, gate, world, control>>

-----------------------------------------------------------------------------
(* One iteration of a worker: reacquire, tick, dispatch, record, release *)

\* Mutant of Obtainable: an expired lease is not taken over.
Released(o) == lease[o] = NoWorker

Obtainable(o) == lease[o] = NoWorker \/ ~live[o]

Reacquire(w, o) ==
    /\ At(w, "idle")
    /\ opst[o] \notin Terminal \cup {"none"}
    /\ Obtainable(o)
    /\ lease' = [lease EXCEPT ![o] = w]
    /\ live' = [live EXCEPT ![o] = TRUE]
    /\ wk' = [wk EXCEPT ![w] = [Idle EXCEPT !.pc = "ticking", !.op = o]]
    /\ UNCHANGED <<opvars, step, money, gate, world, control>>

PermanentFailure(o) == \/ ~window[o]
                       \/ epoch # started[o]
                       \/ \E s \in StepsOf(o) : ~enabled[NodeOf[s]]

\* Mutant of Cleaned: a step back in "staged" is dropped, attempted or not.
CleanedUntried(s) ==
    IF step[s].state \in {"removed", "compensating"} THEN step[s]
    ELSE IF s \in PppSteps \/ step[s].state = "staged"
         THEN [step[s] EXCEPT !.state = "removed", !.outcome = "none"]
         ELSE [step[s] EXCEPT !.state = "compensating", !.outcome = "none"]

\* A step untouched on its node is dropped; every other one must be removed.
Cleaned(s) ==
    IF step[s].state \in {"removed", "compensating"} THEN step[s]
    ELSE IF s \in PppSteps \/ (step[s].state = "staged" /\ ~step[s].attempted)
         THEN [step[s] EXCEPT !.state = "removed", !.outcome = "none"]
         ELSE [step[s] EXCEPT !.state = "compensating", !.outcome = "none"]

BeginCompensation(o) ==
    /\ opst' = [opst EXCEPT ![o] = "compensating"]
    /\ step' = [s \in Steps |-> IF OpOf[s] = o THEN Cleaned(s) ELSE step[s]]

Tick(w, o) == At(w, "ticking") /\ wk[w].op = o /\ Holds(w)

TickFails(w, o) ==
    /\ Tick(w, o)
    /\ opst[o] \in Forward
    /\ PermanentFailure(o)
    /\ BeginCompensation(o)
    /\ wk' = Written(w, o, StepsOf(o), Leave(w))
    /\ UNCHANGED <<started, window, saved, claim, money, leasevars, gate, world, control>>

ToCreate(o) == {s \in Remote(o) : step[s].state # "remote_created"}
ToRemove(o) == {s \in StepsOf(o) : step[s].state # "removed"}
Calling(o)  == {s \in ToCreate(o) : step[s].state = "remote_calling"}

\* The step the tick picks: an unfinished call first.
Picked(o) == IF opst[o] = "compensating" THEN First(ToRemove(o))
             ELSE IF Calling(o) # {} THEN First(Calling(o))
             ELSE First(ToCreate(o))

HasWork(o) == \/ opst[o] = "compensating" /\ ToRemove(o) # {}
              \/ opst[o] \in Forward /\ ~PermanentFailure(o) /\ ToCreate(o) # {}

TickPicks(w, o) ==
    /\ Tick(w, o)
    /\ HasWork(o)
    /\ step[Picked(o)].due
    /\ ~draining
    /\ wk' = [wk EXCEPT ![w].pc = "dispatching", ![w].step = Picked(o), ![w].fresh = TRUE,
                        ![w].phase = IF opst[o] = "compensating" THEN "remove"
                                     ELSE IF step[Picked(o)].state = "remote_calling" THEN "read"
                                     ELSE "create"]
    /\ UNCHANGED <<opvars, step, money, leasevars, gate, world, control>>

\* T_final checks the nodes again; a change of the customer or of the package
\* refuses it too (TickLeaves), and it is tried again until the deadline.
Finishable(o) == /\ opst[o] \in Forward /\ ~PermanentFailure(o) /\ ToCreate(o) = {}
                 /\ \A s \in StepsOf(o) : endpoint[NodeOf[s]] = saved[s]

\* Mutant of Captured: the reseller's hold is forgotten.
CapturedWallet(r) == [p \in Payers |-> IF p = Wallet /\ r[p] = "reserved" THEN "captured" ELSE r[p]]

Captured(r) == [p \in Payers |-> IF r[p] = "reserved" THEN "captured" ELSE r[p]]

\* mark_remote_complete and finish in one transaction.
TickCompletes(w, o) ==
    /\ Tick(w, o)
    /\ Finishable(o)
    /\ opst' = [opst EXCEPT ![o] = "completed"]
    /\ step' = [s \in Steps |-> IF OpOf[s] = o THEN [step[s] EXCEPT !.state = "active"] ELSE step[s]]
    /\ res' = [res EXCEPT ![o] = Captured(res[o])]
    /\ claim' = [claim EXCEPT ![o] = IF @ = "held" THEN "bound" ELSE @]
    /\ wk' = Written(w, o, StepsOf(o), Leave(w))
    /\ UNCHANGED <<started, window, saved, balance, leasevars, gate, world, control>>

Compensable(o) == /\ opst[o] = "compensating" /\ epoch = started[o]
                  /\ \A s \in StepsOf(o) : /\ step[s].state = "removed"
                                           /\ step[s].attempted =>
                                                step[s].outcome \in {"verified_absent", "abandoned"}

TickCompensates(w, o) ==
    /\ Tick(w, o)
    /\ Compensable(o)
    /\ opst' = [opst EXCEPT ![o] = "compensated"]
    /\ res' = [res EXCEPT ![o] = [p \in Payers |-> IF @[p] = "reserved" THEN "released" ELSE @[p]]]
    /\ balance' = [p \in Payers |-> balance[p] + (IF res[o][p] = "reserved" THEN Price[o][p] ELSE 0)]
    /\ claim' = [claim EXCEPT ![o] = IF @ = "held" THEN "released" ELSE @]
    /\ wk' = Written(w, o, {}, Leave(w))
    /\ UNCHANGED <<started, window, step, saved, leasevars, gate, world, control>>

\* Answers that change nothing: terminal, manual recovery, waiting for the
\* backoff, draining; and a finish that a changed node, target or wallet epoch
\* refuses (409, rolled back).
TickLeaves(w, o) ==
    /\ Tick(w, o)
    /\ \/ opst[o] \in Terminal \cup {"cleanup_required"}
       \/ HasWork(o) /\ (draining \/ ~step[Picked(o)].due)
       \/ opst[o] \in Forward /\ ~PermanentFailure(o) /\ ToCreate(o) = {}
       \/ opst[o] = "compensating" /\ ToRemove(o) = {} /\ ~Compensable(o)
    /\ wk' = [wk EXCEPT ![w] = Leave(w)]
    /\ UNCHANGED <<opvars, step, money, leasevars, gate, world, control>>

-----------------------------------------------------------------------------
(* Dispatch: the marker of a first call is committed before the child starts *)

InWindow(o, n) == window[o] /\ epoch = started[o] /\ enabled[n]

Dispatchable(w) ==
    LET s == wk[w].step  o == OpOf[s]  n == NodeOf[s] IN
    /\ Holds(w) /\ wk[w].fresh /\ ~draining
    /\ endpoint[n] = saved[s]
    /\ step[s].due
    /\ CASE wk[w].phase = "create" -> /\ opst[o] \in Forward /\ InWindow(o, n)
                                      /\ step[s].state = "staged"
                                      /\ Calling(o) = {}
         [] wk[w].phase = "read"   -> /\ opst[o] \in Forward /\ InWindow(o, n)
                                      /\ step[s].state = "remote_calling"
         [] wk[w].phase = "remove" -> /\ opst[o] = "compensating"
                                      /\ step[s].state = "compensating"
                                      /\ step[s].attempted

\* Mutant of Marked: the attempt is not recorded before the call.
MarkedLater(r) == [r EXCEPT !.state = "remote_calling"]

Marked(r) == [r EXCEPT !.state = "remote_calling", !.attempted = TRUE]

Dispatch(w, s) ==
    /\ At(w, "dispatching") /\ wk[w].step = s
    /\ Dispatchable(w)
    /\ IF wk[w].phase = "create"
       THEN /\ opst' = [opst EXCEPT ![OpOf[s]] = "provisioning"]
            /\ step' = [step EXCEPT ![s] = Marked(step[s])]
            /\ wk' = Written(w, OpOf[s], {s}, [wk[w] EXCEPT !.pc = "spawned"])
       ELSE /\ wk' = [wk EXCEPT ![w].pc = "spawned"]
            /\ UNCHANGED <<opst, step>>
    /\ UNCHANGED <<started, window, saved, claim, money, leasevars, gate, world, control>>

DispatchRefused(w) ==
    /\ At(w, "dispatching")
    /\ ~Dispatchable(w)
    /\ wk' = [wk EXCEPT ![w] = Leave(w)]
    /\ UNCHANGED <<opvars, step, money, leasevars, gate, world, control>>

-----------------------------------------------------------------------------
(* The child process *)

Unmoved == <<opvars, step, money, leasevars, control>>

\* Mutant of Bound: whether the dispatch is still the child's own is not asked.
BoundToWindow(w) ==
    LET s == wk[w].step  o == OpOf[s]  n == NodeOf[s] IN
    /\ endpoint[n] = saved[s]
    /\ wk[w].phase # "remove" => InWindow(o, n)

\* Its fresh read of the database still finds its own dispatch.
Bound(w) ==
    LET s == wk[w].step  o == OpOf[s]  n == NodeOf[s] IN
    /\ Holds(w) /\ wk[w].fresh
    /\ endpoint[n] = saved[s]
    /\ wk[w].phase # "remove" => InWindow(o, n)

Node(w) == NodeOf[wk[w].step]

\* The child ends; its file and advisory locks are free only now.
Ended(w, result) == /\ wk' = [wk EXCEPT ![w].pc = "done", ![w].result = result]
                    /\ gate' = [n \in Nodes |-> IF gate[n] = w THEN NoWorker ELSE gate[n]]

\* Mutant of TakeGate: a child does not wait for the one inside.
TakeGateShared(w) == /\ At(w, "spawned")
                     /\ gate' = [gate EXCEPT ![Node(w)] = w]
                     /\ wk' = [wk EXCEPT ![w].pc = "gated"]
                     /\ UNCHANGED <<Unmoved, world>>

TakeGate(w) == /\ At(w, "spawned")
               /\ gate[Node(w)] = NoWorker
               /\ gate' = [gate EXCEPT ![Node(w)] = w]
               /\ wk' = [wk EXCEPT ![w].pc = "gated"]
               /\ UNCHANGED <<Unmoved, world>>

Enter(w) == /\ At(w, "gated") /\ Bound(w)
            /\ wk' = [wk EXCEPT ![w].pc = "inside"]
            /\ UNCHANGED <<Unmoved, gate, world>>

\* Mutant of Verdict: finding the name is enough to certify a resource.
VerdictByName(ph, s, found) ==
    IF found = "foreign" THEN "conflict"
    ELSE CASE ph = "read"   -> IF found = "absent" THEN "absent" ELSE "present"
           [] ph = "create" -> IF found = "present" THEN "present" ELSE "write"
           [] ph = "remove" -> IF found = "absent" THEN "absent" ELSE "write"

\* What the phase makes of the node's answer; "write" if it must change it.
Verdict(ph, s, found) ==
    IF found = "foreign" THEN "conflict"
    ELSE CASE ph = "read"   -> IF found = "absent" THEN "absent"
                               ELSE IF s \in Converging THEN "convergence" ELSE "present"
           [] ph = "create" -> IF found = "present" THEN "present" ELSE "write"
           [] ph = "remove" -> IF found = "absent" THEN "absent" ELSE "write"

\* A conflict met before any write is reported as it is.
ReadNode(w) ==
    LET s == wk[w].step
        answer == Verdict(wk[w].phase, s, remote[s]) IN
    /\ At(w, "inside") /\ up[Node(w)]
    /\ CASE answer = "write" -> wk' = [wk EXCEPT ![w].pc = "writing"] /\ UNCHANGED gate
         [] answer = "conflict" /\ wk[w].phase # "read" -> Ended(w, "conflict")
         [] OTHER -> /\ wk' = [wk EXCEPT ![w].pc = "verify", ![w].result = answer]
                     /\ UNCHANGED gate
    /\ UNCHANGED <<Unmoved, world>>

\* require_write before every request that changes the node.
Authorise(w) == /\ At(w, "writing") /\ Bound(w)
                /\ wk' = [wk EXCEPT ![w].pc = "authorised"]
                /\ UNCHANGED <<Unmoved, gate, world>>

\* One request.  Some resources are complete only after a second one.
AfterWrite(ph, s) == IF ph = "remove" THEN "absent"
                     ELSE IF s \in Converging /\ remote[s] = "absent" THEN "partial"
                     ELSE "present"

WriteNode(w) ==
    LET s == wk[w].step
        now == AfterWrite(wk[w].phase, s) IN
    /\ At(w, "authorised") /\ up[Node(w)]
    /\ remote' = [remote EXCEPT ![s] = now]
    /\ wk' = [wk EXCEPT ![w].pc = IF now = "partial" THEN "writing" ELSE "verify",
                        ![w].result = now]
    /\ UNCHANGED <<Unmoved, up, gate>>

Verify(w) == /\ At(w, "verify") /\ Bound(w)
             /\ Ended(w, wk[w].result)
             /\ UNCHANGED <<Unmoved, world>>

\* A check finds the dispatch stale; or the gate stays busy or the node silent
\* past the timeout.  The result is unknown, never an absence.
ChildRefused(w) == /\ \/ wk[w].pc \in {"gated", "writing", "verify"} /\ ~Bound(w)
                      \/ At(w, "spawned") /\ gate[Node(w)] # NoWorker
                      \/ wk[w].pc \in {"inside", "authorised"} /\ ~up[Node(w)]
                   /\ Ended(w, "unknown")
                   /\ UNCHANGED <<Unmoved, world>>

\* Killed at the hard deadline, out of memory, a lost answer of a request.
ChildDies(w) == /\ "kill" \in Events
                /\ wk[w].pc \in ChildPcs
                /\ Ended(w, "unknown")
                /\ UNCHANGED <<Unmoved, world>>

-----------------------------------------------------------------------------
(* Recording the result *)

\* Mutant of Recorded: a removal without an answer counts as done.
RecordedOptimist(s, ph, result) ==
    CASE result = "present"     -> [step[s] EXCEPT !.state = "remote_created"]
      [] result = "convergence" -> [step[s] EXCEPT !.state = "staged"]
      [] ph = "remove" /\ result \in {"absent", "unknown"} ->
             [step[s] EXCEPT !.state = "removed", !.outcome = "verified_absent"]
      [] ph # "remove" /\ result = "absent" -> [step[s] EXCEPT !.state = "staged"]
      [] result = "conflict"    -> [step[s] EXCEPT !.state = "cleanup_required", !.outcome = "unverified"]
      [] OTHER                  -> [step[s] EXCEPT !.due = FALSE]

\* The step as recorded.  Absence seen by a read does not forget the attempt.
Recorded(s, ph, result) ==
    CASE result = "present"     -> [step[s] EXCEPT !.state = "remote_created"]
      [] result = "convergence" -> [step[s] EXCEPT !.state = "staged"]
      [] result = "absent"      -> IF ph = "remove"
                                   THEN [step[s] EXCEPT !.state = "removed", !.outcome = "verified_absent"]
                                   ELSE [step[s] EXCEPT !.state = "staged"]
      [] result = "conflict"    -> [step[s] EXCEPT !.state = "cleanup_required", !.outcome = "unverified"]
      [] result = "unknown"     -> [step[s] EXCEPT !.due = FALSE]

Record(w, s) ==
    /\ At(w, "done") /\ wk[w].step = s
    /\ Holds(w) /\ wk[w].fresh
    /\ step' = [step EXCEPT ![s] = Recorded(s, wk[w].phase, wk[w].result)]
    /\ IF wk[w].result = "conflict"
       THEN /\ opst' = [opst EXCEPT ![OpOf[s]] = "cleanup_required"]
            /\ wk' = Written(w, OpOf[s], {s}, Leave(w))
       ELSE /\ wk' = StepWritten(w, s, Leave(w))
            /\ UNCHANGED opst
    /\ UNCHANGED <<started, window, saved, claim, money, leasevars, gate, world, control>>

\* LeaseLost, or a stale result.
Refused(w) == /\ \/ At(w, "ticking") /\ ~Holds(w)
                 \/ At(w, "done") /\ ~(Holds(w) /\ wk[w].fresh)
              /\ wk' = [wk EXCEPT ![w] = Leave(w)]
              /\ UNCHANGED <<opvars, step, money, leasevars, gate, world, control>>

\* A deadlock or lock timeout rolls the transaction back; the result is lost.
TransientConflict(w) == /\ "conflict" \in Events
                        /\ wk[w].pc \in {"ticking", "dispatching", "done"}
                        /\ wk' = [wk EXCEPT ![w] = Leave(w)]
                        /\ UNCHANGED <<opvars, step, money, leasevars, gate, world, control>>

\* An expired lease is released too, unless it was granted again.
Release(w) ==
    LET o == wk[w].op IN
    /\ At(w, "releasing")
    /\ lease' = [lease EXCEPT ![o] = IF @ = w THEN NoWorker ELSE @]
    /\ live' = [live EXCEPT ![o] = IF lease[o] = w THEN FALSE ELSE @]
    /\ wk' = [wk EXCEPT ![w] = Idle]
    /\ UNCHANGED <<opvars, step, money, gate, world, control>>

\* The process dies and the kernel kills its child, which frees the gate.
Crash(w) == /\ "crash" \in Events
            /\ ~At(w, "idle")
            /\ wk' = [wk EXCEPT ![w] = Idle]
            /\ gate' = [n \in Nodes |-> IF gate[n] = w THEN NoWorker ELSE gate[n]]
            /\ UNCHANGED <<Unmoved, world>>

-----------------------------------------------------------------------------
(* The operator: both actions need manual recovery to be asked for *)

Asks(o) == "operator" \in Events /\ opst[o] = "cleanup_required"

Unclean(o) == {s \in StepsOf(o) : step[s].state = "cleanup_required"}

Retry(o) ==
    /\ Asks(o)
    /\ opst' = [opst EXCEPT ![o] = "compensating"]
    /\ step' = [s \in Steps |->
                  IF s \in Unclean(o)
                  THEN [step[s] EXCEPT !.state = "compensating", !.outcome = "none", !.due = TRUE]
                  ELSE IF OpOf[s] = o THEN Cleaned(s) ELSE step[s]]
    /\ wk' = Written(NoWorker, o, StepsOf(o), Idle)
    /\ UNCHANGED <<started, window, saved, claim, money, leasevars, gate, world, control>>

\* The step's resource is given up, whatever the node still holds.
ForceStep(o, s) ==
    /\ Asks(o)
    /\ s \in Unclean(o)
    /\ opst' = [opst EXCEPT ![o] = IF Unclean(o) = {s} THEN "compensating" ELSE @]
    /\ step' = [t \in Steps |->
                  IF t = s THEN [step[s] EXCEPT !.state = "removed", !.outcome = "abandoned", !.due = TRUE]
                  ELSE IF OpOf[t] = o /\ Unclean(o) = {s} THEN Cleaned(t) ELSE step[t]]
    /\ wk' = Written(NoWorker, o, StepsOf(o), Idle)
    /\ UNCHANGED <<started, window, saved, claim, money, leasevars, gate, world, control>>

-----------------------------------------------------------------------------
(* Time, the nodes, and the administrators *)

InUse(o) == \E w \in Workers : lease[o] = w /\ wk[w].op = o

Expire(o) == /\ live[o]
             /\ live' = [live EXCEPT ![o] = FALSE]
             /\ UNCHANGED <<opvars, step, money, lease, wk, gate, world, control>>

\* The lease of a dead worker expires; a suspended host loses one in use.
ExpireDead(o) == ~InUse(o) /\ Expire(o)
ExpireBusy(o) == "expire" \in Events /\ InUse(o) /\ Expire(o)

\* The forward deadline passes, or the target user is deleted.
PassDeadline(o) == /\ "deadline" \in Events
                   /\ opst[o] # "none" /\ window[o]
                   /\ window' = [window EXCEPT ![o] = FALSE]
                   /\ UNCHANGED <<opst, started, saved, claim, step, money, leasevars, wk, gate,
                                  world, control>>

\* next_retry_at is reached.
Due(s) == /\ ~step[s].due
          /\ step' = [step EXCEPT ![s].due = TRUE]
          /\ UNCHANGED <<opvars, money, leasevars, wk, gate, world, control>>

NodeDown(n) == /\ "down" \in Events
               /\ up[n]
               /\ up' = [up EXCEPT ![n] = FALSE]
               /\ UNCHANGED <<Unmoved, wk, gate, remote>>

NodeUp(n) == /\ ~up[n]
             /\ up' = [up EXCEPT ![n] = TRUE]
             /\ UNCHANGED <<Unmoved, wk, gate, remote>>

ToggleEnabled(n) == /\ "disable" \in Events
                    /\ enabled' = [enabled EXCEPT ![n] = ~@]
                    /\ UNCHANGED <<opvars, step, money, leasevars, wk, gate, world,
                                   endpoint, epoch, phase, draining>>

\* update_node does not ask whether operations are in flight on the node.
MoveEndpoint(n, e) == /\ "move" \in Events
                      /\ e # endpoint[n]
                      /\ endpoint' = [endpoint EXCEPT ![n] = e]
                      /\ UNCHANGED <<opvars, step, money, leasevars, wk, gate, world,
                                     enabled, epoch, phase, draining>>

ToggleDrain == /\ "drain" \in Events
               /\ draining' = ~draining
               /\ UNCHANGED <<opvars, step, money, leasevars, wk, gate, world,
                              enabled, endpoint, epoch, phase>>

InFlight(o) == opst[o] \notin Terminal \cup {"none"}

SetPhase(p, e) == /\ phase' = p
                  /\ epoch' = e
                  /\ UNCHANGED <<opvars, step, money, leasevars, wk, gate, world,
                                 enabled, endpoint, draining>>

\* One transaction through "fencing"; refused while an operation is in flight,
\* and after a rollback, whose baseline lots remain.
WalletCutover == /\ "cutover" \in Events
                 /\ phase = "normal" /\ epoch = 0
                 /\ \A o \in Ops : ~InFlight(o)
                 /\ SetPhase("enforced", epoch + 2)

\* Refused once a wallet lot was debited: a customer wallet was reserved.
WalletRollback == /\ "rollback" \in Events
                  /\ phase = "enforced"
                  /\ \A o \in Ops : started[o] = epoch => res[o][Wallet] = "none"
                  /\ SetPhase("normal", epoch + 1)

-----------------------------------------------------------------------------
(* Specification *)

\* What a worker and its child do by themselves.
Work(w) == \/ \E o \in Ops : \/ Reacquire(w, o) \/ TickFails(w, o) \/ TickPicks(w, o)
                             \/ TickCompletes(w, o) \/ TickCompensates(w, o) \/ TickLeaves(w, o)
           \/ \E s \in Steps : Dispatch(w, s) \/ Record(w, s)
           \/ DispatchRefused(w) \/ Refused(w) \/ Release(w)
           \/ TakeGate(w) \/ Enter(w) \/ ReadNode(w) \/ Authorise(w) \/ WriteNode(w)
           \/ Verify(w) \/ ChildRefused(w)

\* Accidents and administrators' changes.
Disturb == \/ \E w \in Workers : ChildDies(w) \/ TransientConflict(w) \/ Crash(w)
           \/ \E o \in Ops : ExpireBusy(o)
           \/ \E n \in Nodes : NodeDown(n) \/ ToggleEnabled(n) \/ \E e \in Endpoints : MoveEndpoint(n, e)
           \/ ToggleDrain \/ WalletCutover \/ WalletRollback

Next == \/ \E w \in Workers : Work(w) \/ \E o \in Ops : Prepare(w, o)
        \/ \E o \in Ops : \/ Retry(o) \/ \E s \in Steps : ForceStep(o, s)
                          \/ ExpireDead(o) \/ PassDeadline(o)
        \/ \E s \in Steps : Due(s)
        \/ \E n \in Nodes : NodeUp(n)
        \/ Disturb

Spec == Init /\ [][Next]_vars

\* The recovery worker and the requests keep trying; time passes.
Fairness == /\ \A w \in Workers : WF_vars(Work(w))
            /\ \A o \in Ops : WF_vars(ExpireDead(o)) /\ WF_vars(PassDeadline(o))
            /\ \A s \in Steps : WF_vars(Due(s))

FairSpec == Spec /\ Fairness

\* Every node that stops answering answers again.
FairNodes == \A n \in Nodes : WF_vars(NodeUp(n))

-----------------------------------------------------------------------------
(* Properties *)

StepRecord   == [state : StepStates, attempted : BOOLEAN, due : BOOLEAN,
                 outcome : {"none", "verified_absent", "abandoned", "unverified"}]
WorkerRecord == [pc : {"idle", "ticking", "dispatching", "done", "releasing"} \cup ChildPcs,
                 op : Ops \cup {NoOp}, step : Steps \cup {NoStep},
                 phase : {"none", "create", "read", "remove"}, fresh : BOOLEAN,
                 result : {"none", "present", "partial", "absent", "convergence", "conflict", "unknown"}]

\* Every variable has the type the tables and processes give it.
TypeOK == /\ opst \in [Ops -> OpStates]
          /\ started \in [Ops -> Nat]
          /\ window \in [Ops -> BOOLEAN]
          /\ step \in [Steps -> StepRecord]
          /\ saved \in [Steps -> Endpoints \cup {NoEndpoint}]
          /\ res \in [Ops -> [Payers -> {"none", "reserved", "captured", "released"}]]
          /\ balance \in [Payers -> Nat]
          /\ claim \in [Ops -> {"none", "held", "bound", "released"}]
          /\ lease \in [Ops -> Workers \cup {NoWorker}]
          /\ live \in [Ops -> BOOLEAN]
          /\ wk \in [Workers -> WorkerRecord]
          /\ gate \in [Nodes -> Workers \cup {NoWorker}]
          /\ remote \in [Steps -> {"absent", "partial", "present", "foreign"}]
          /\ up \in [Nodes -> BOOLEAN]
          /\ enabled \in [Nodes -> BOOLEAN]
          /\ endpoint \in [Nodes -> Endpoints]
          /\ epoch \in Nat
          /\ phase \in {"normal", "enforced"}
          /\ draining \in BOOLEAN

\* The CHECK constraints of provisioning_steps: a write that broke one would be
\* refused by the database and the operation could never move again.
StepChecks ==
    \A s \in Steps :
        /\ step[s].outcome # "none" => step[s].state \in {"removed", "cleanup_required"}
        /\ step[s].state = "removed" /\ step[s].attempted =>
               step[s].outcome \in {"verified_absent", "abandoned"}
        /\ step[s].state = "cleanup_required" => step[s].outcome = "unverified"
        /\ step[s].state \in {"none", "staged", "removed", "active"} \/ step[s].attempted
        /\ s \in PppSteps => ~step[s].attempted

\* T_final and T_comp settle every payer of an operation at once, and no other
\* step moves money: whatever workers crash, race or repeat, each payer's
\* balance and its holds add up to its initial credit.
MoneySettles ==
    /\ \A o \in Ops, p \in Payers : res[o][p] # "none" =>
           res[o][p] = CASE opst[o] = "completed"   -> "captured"
                         [] opst[o] = "compensated" -> "released"
                         [] OTHER                   -> "reserved"
    /\ \A p \in Payers :
           Credit[p] = balance[p] + SumFunctionOnSet([o \in Ops |-> Price[o][p]],
                                        {o \in Ops : res[o][p] \in {"reserved", "captured"}})

\* No free service: once refunded, nothing the operation created is on a node,
\* now or later, except what an operator abandoned.
RefundedIsGone ==
    \A s \in Steps : opst[OpOf[s]] = "compensated" /\ step[s].outcome # "abandoned"
                         => remote[s] \in {"absent", "foreign"}

\* A completed sale is delivered: every resource is complete on its node.
PaidIsDelivered ==
    \A s \in Steps \ PppSteps : opst[OpOf[s]] = "completed" => remote[s] = "present"

\* A step that was never marked attempted has left no trace: begin_compensation
\* may drop it without asking the node.
UnmarkedIsUntouched == \A s \in Steps : ~step[s].attempted => remote[s] \in {"absent", "foreign"}

\* A verified absence stays true: no child that may still write the step is
\* inside the gate, however late its worker's lease was lost.
AbsenceIsFinal ==
    \A s \in Steps : step[s].outcome = "verified_absent" =>
        /\ remote[s] \in {"absent", "foreign"}
        /\ \A w \in Workers : ~(wk[w].step = s /\ At(w, "authorised") /\ wk[w].phase = "create")

\* A package sold once per customer is held or bound by one operation only, and
\* bound exactly when that operation completed.
OneTimeClaim ==
    /\ \A o, q \in Ops : o # q /\ OneTimeKey[o] = OneTimeKey[q] /\ OneTimeKey[o] # NoKey
           => ~(claim[o] \in {"held", "bound"} /\ claim[q] \in {"held", "bound"})
    /\ \A o \in Ops : OneTimeKey[o] # NoKey => (claim[o] = "bound" <=> opst[o] = "completed")

-----------------------------------------------------------------------------
(* Why the properties hold: an inductive invariant *)

AtNode == {"gated", "inside", "writing", "authorised", "verify"}
Called == ChildPcs \cup {"done"}
Busy   == Called \cup {"dispatching"}

\* A worker serves an operation that exists; from the dispatch on it serves one
\* of its steps, in a phase, and otherwise it remembers none.
WorkersServe ==
    \A w \in Workers :
        /\ ~At(w, "idle") => wk[w].op \in Ops /\ opst[wk[w].op] # "none"
        /\ wk[w].pc \in Busy => /\ wk[w].step \in Steps
                                /\ wk[w].op = OpOf[wk[w].step]
                                /\ wk[w].phase \in {"create", "read", "remove"}
                                /\ wk[w].phase # "remove" => wk[w].step \notin PppSteps
        /\ wk[w].pc \notin Busy => wk[w].step = NoStep /\ ~wk[w].fresh

\* The state of an operation bounds the states of its steps.
StepsFollow ==
    \A s \in Steps :
        LET st == step[s].state  o == OpOf[s] IN
        /\ opst[o] = "none"             => st = "none" /\ ~step[s].attempted
        /\ opst[o] \in Forward          => st \in {"staged", "remote_calling", "remote_created"}
        /\ opst[o] = "completed"        => st = "active"
        /\ opst[o] = "compensating"     => st \in {"compensating", "removed"}
        /\ opst[o] = "compensated"      => st = "removed"
        /\ opst[o] = "cleanup_required" => st \notin {"none", "active"}

\* A marker that is still fresh is on the row: nobody has changed the step, nor
\* (once the child runs) the operation, since the worker pinned them.
FreshIsCurrent ==
    \A w \in Workers : wk[w].pc \in Busy /\ wk[w].fresh =>
        LET st == step[wk[w].step].state  o == wk[w].op IN
        /\ wk[w].phase = "create" => st = IF At(w, "dispatching") THEN "staged" ELSE "remote_calling"
        /\ wk[w].phase = "read"   => st = "remote_calling"
        /\ wk[w].phase = "remove" => st = "compensating"
        /\ wk[w].pc \in Called => IF wk[w].phase = "remove" THEN opst[o] = "compensating"
                                                           ELSE opst[o] \in Forward

\* A child is called only after its attempt was recorded, and a removal only
\* once the operation has given up selling.
CallsAreMarked ==
    \A w \in Workers :
        /\ wk[w].pc \in Called => step[wk[w].step].attempted
        /\ wk[w].pc \in Busy /\ wk[w].phase = "remove" =>
               opst[wk[w].op] \in {"compensating", "cleanup_required", "compensated"}

\* Whoever is at a node is alone there, and only creates and removals write.
GateIsHeld ==
    \A w \in Workers :
        /\ wk[w].pc \in AtNode => gate[Node(w)] = w
        /\ wk[w].pc \in {"writing", "authorised"} => wk[w].phase # "read" /\ remote[wk[w].step] # "foreign"

\* What a child reports is still true when it is recorded.
ResultsHold ==
    \A w \in Workers : wk[w].pc \in {"verify", "done"} =>
        LET s == wk[w].step  result == wk[w].result IN
        /\ result \in {"absent", "present", "convergence", "conflict", "unknown"}
        /\ wk[w].phase = "create" => result \in {"present", "conflict", "unknown"}
        /\ wk[w].phase = "remove" => result \in {"absent", "conflict", "unknown"}
        /\ result = "conflict" => remote[s] = "foreign"
        /\ result = "present" /\ opst[wk[w].op] \in Forward \cup {"completed"} => remote[s] = "present"
        /\ result = "absent" /\ wk[w].phase = "remove" /\ At(w, "verify") => remote[s] = "absent"
        /\ result = "absent" /\ wk[w].phase = "remove" /\ At(w, "done") /\ wk[w].fresh =>
               /\ remote[s] = "absent"
               /\ \A v \in Workers : ~(wk[v].step = s /\ At(v, "authorised") /\ wk[v].phase = "create")

\* What the rows say of the nodes.
RowsHold ==
    \A s \in Steps :
        /\ remote[s] = "partial" => s \in Converging
        /\ step[s].outcome \in {"unverified", "abandoned"} => remote[s] = "foreign"
        /\ step[s].outcome = "unverified" => step[s].state = "cleanup_required"
        /\ step[s].state = "remote_created" /\ opst[OpOf[s]] \in Forward => remote[s] = "present"

\* What the state of an operation makes of anything settled with it.
SettledAs(o, open, taken, back) == CASE opst[o] = "completed"   -> taken
                                     [] opst[o] = "compensated" -> back
                                     [] OTHER                   -> open

\* Claims and reservations are made by T1 and follow their operation from then on.
LedgerFollows ==
    \A o \in Ops :
        /\ claim[o] = IF opst[o] = "none" \/ OneTimeKey[o] = NoKey THEN "none"
                      ELSE SettledAs(o, "held", "bound", "released")
        /\ \A p \in Payers :
               res[o][p] = IF opst[o] = "none" \/ Price[o][p] = 0 THEN "none"
                           ELSE SettledAs(o, "reserved", "captured", "released")

\* The inductive invariant of the saga: what workers, rows, gates and nodes keep
\* of one another while dispatches, deaths, takeovers and retries interleave.
SaleInv == /\ WorkersServe /\ StepsFollow /\ FreshIsCurrent /\ CallsAreMarked
           /\ GateIsHeld /\ ResultsHold /\ RowsHold
           /\ StepChecks /\ UnmarkedIsUntouched /\ AbsenceIsFinal /\ PaidIsDelivered

\* The abstract state: what an operation is to its customer, and the parts that
\* have a trace on their node, are complete there, or were given up.
SaleState == [o \in Ops |-> CASE opst[o] = "none"        -> "none"
                             [] opst[o] = "completed"   -> "delivered"
                             [] opst[o] = "compensated" -> "refunded"
                             [] OTHER                   -> "pending"]
Traced    == {s \in Steps : remote[s] \in {"partial", "present"}}
Complete  == {s \in Steps : remote[s] = "present"}
Abandoned == {s \in Steps : step[s].outcome = "abandoned"}

\* Each operation is a sale of AtomicSale: its price is held at T1, and T_final
\* or T_comp ends it in one step, delivered with all its resources or refunded
\* with none, after which no late child, worker or operator touches it.
Sale == INSTANCE AtomicSale WITH
    Sales <- Ops, Parts <- Steps, PartOf <- OpOf, Local <- PppSteps,
    sale <- SaleState, trace <- Traced, whole <- Complete, givenup <- Abandoned

SaleSpec == Sale!Spec

\* Every operation ends, or asks an operator for help.
EndsOrAsks ==
    \A o \in Ops : InFlight(o) ~> (~InFlight(o) \/ opst[o] = "cleanup_required")

\* It does once the accidents stop and its nodes are back as they were.
EndsWhenQuiet ==
    /\ <>[][~Disturb]_vars
    /\ <>[](~draining)
    /\ \A s \in Steps : <>[](saved[s] \in {NoEndpoint, endpoint[NodeOf[s]]})
    => EndsOrAsks
=============================================================================
