---------------------------- MODULE RenewalHistory ----------------------------
(***************************************************************************)
(* One service (Purchase) that is renewed again and again: a renewal queues *)
(* behind a term that still runs or replaces one that has run out, the      *)
(* poller and RADIUS start the queue when the term is used up, and a        *)
(* renewal's receipt may be voided.  All of them write the same row, and    *)
(* the history (contributions and consumptions, in event order) is what a   *)
(* void relies on to take back exactly one payment's right.                 *)
(*                                                                          *)
(* The limits of the row are abstracted to the payments whose rights they   *)
(* are made of: `term` for quota, expiry and package, `queue` for the       *)
(* reserved_ columns; every payment is worth one unit.  On SQLite a         *)
(* consumer reads, judges and flushes with nothing locked in between; on    *)
(* MariaDB (plan: locked) it holds the row from its second read, and        *)
(* restarts when the row moved since the first.                             *)
(***************************************************************************)
EXTENDS Integers, FiniteSets

CONSTANTS Pays,     \* payments of renewals
          HPlans    \* bound: [pays, voids, readers, locked, events, units, left]

\* `locked`: the database locks rows; `pays` are renewals, some of which are
\* voided; `units` of traffic and `left` faults may happen.
HPlan == [pays: SUBSET Pays, voids: SUBSET Pays, readers: SUBSET {"poller", "radius"}, locked: BOOLEAN,
          events: SUBSET {"race", "overlap"}, units: Nat, left: Nat]
ASSUME HistoryAssumption == IsFiniteSet(Pays) /\ Pays \subseteq Nat \ {0} /\ HPlans \subseteq HPlan

VARIABLES hplan,    \* the plan: payments, those that may be voided, units of traffic, faults left
          svc,      \* the committed row: [term, used, queue, seq, eseq]
          log,      \* contributions ("queued", "reset") and consumptions ("start")
          reader,   \* the consumers: [pc, copy]
          void      \* of each payment: [state, bound]

historyvars == <<hplan, svc, log, reader, void>>

Sale == 0                                       \* what the service was sold with
Readers == {"poller", "radius"}
Quota(term) == Cardinality(term)
UsedUp(row) == row.used >= Quota(row.term)
Happens(e) == e \in hplan.events

NoPlan == [case |-> "none", start |-> {}, next |-> {}, queue |-> {}]

HistoryInit ==
    /\ hplan \in HPlans
    /\ svc = [term |-> {Sale}, used |-> 0, queue |-> {}, seq |-> 0, eseq |-> 0]
    /\ log = {}
    /\ reader = [c \in Readers |-> [pc |-> "idle", copy |-> svc]]
    /\ void = [p \in Pays |-> [state |-> "none", bound |-> NoPlan]]

Paid(p) == \E e \in log : e.kind # "start" /\ e.pay = p
Idle == \A c \in Readers : reader[c].pc = "idle"

\* The row lock a consumer holds from its second read to its commit.
Unlocked == hplan.locked => \A c \in Readers : reader[c].pc # "ready"

\* Mutant of HoldOf: the hold is not released with the step that used it.
HoldOfStill(p) == void[p].state \in {"held", "done"} /\ void[p].bound.case \in {"queued", "current"}

\* hold: a void between its block and its renewal step keeps a queue or a
\* current term where it is.
HoldOf(p) == void[p].state = "held" /\ void[p].bound.case \in {"queued", "current"}
IsHeld == \E p \in Pays : HoldOf(p)

-----------------------------------------------------------------------------
(* renew_purchase_core, in the transaction of its T_final *)

\* Mutant of RunsOut: the last unit is taken for none.
RunsOutEarly(row) == row.used + 1 >= Quota(row.term)

RunsOut(row) == row.used >= Quota(row.term)

Contribution(kind, p) ==
    [kind |-> kind, pay |-> p, at |-> svc.eseq + 1, batch |-> svc.seq, before |-> svc,
     after |-> IF kind = "reset" THEN {p} ELSE svc.term]

RenewFor(p) ==
    /\ p \in hplan.pays /\ ~Paid(p) /\ ~IsHeld /\ Unlocked
    /\ IF RunsOut(svc)
       THEN /\ Idle \/ Happens("race")
            /\ svc' = [svc EXCEPT !.term = {p}, !.used = 0, !.eseq = @ + 1]
            /\ log' = log \cup {Contribution("reset", p)}
       ELSE /\ svc' = [svc EXCEPT !.queue = @ \cup {p}, !.eseq = @ + 1]
            /\ log' = log \cup {Contribution("queued", p)}
    /\ UNCHANGED <<hplan, reader, void>>

\* Traffic of the running term (add_usage).
Uses ==
    /\ hplan.units > 0 /\ ~UsedUp(svc) /\ Unlocked
    /\ svc' = [svc EXCEPT !.used = @ + 1]
    /\ hplan' = [hplan EXCEPT !.units = @ - 1]
    /\ UNCHANGED <<log, reader, void>>

-----------------------------------------------------------------------------
(* _maybe_activate_reserved_purchase_renewal, of the poller and of RADIUS *)

ToIdle(c) == reader' = [reader EXCEPT ![c] = [pc |-> "idle", copy |-> svc]]

LoadService(c) ==
    /\ c \in hplan.readers /\ reader[c].pc = "idle" /\ UsedUp(svc) /\ svc.queue # {}
    /\ reader' = [reader EXCEPT ![c] = [pc |-> "loaded", copy |-> svc]]
    /\ UNCHANGED <<hplan, svc, log, void>>

\* Mutant of Relocked: the queue as it was loaded.
RelockedStale(copy) == [copy EXCEPT !.term = svc.term, !.eseq = svc.eseq]

\* lock_for_consumption: queue, limits and sequence of the live row; the usage
\* stays what was loaded.
Relocked(copy) == [copy EXCEPT !.term = svc.term, !.queue = svc.queue, !.eseq = svc.eseq]

Recheck(c) ==
    LET copy == reader[c].copy IN
    /\ reader[c].pc = "loaded" /\ Unlocked
    /\ IF \/ svc.seq # copy.seq \/ svc.queue = {} \/ IsHeld
          \/ ~UsedUp(Relocked(copy)) \/ (hplan.locked /\ svc # copy)
       THEN ToIdle(c)
       ELSE reader' = [reader EXCEPT ![c] = [pc |-> "ready", copy |-> Relocked(copy)]]
    /\ UNCHANGED <<hplan, svc, log, void>>

Started(copy) ==
    [term |-> copy.queue, used |-> 0, queue |-> {}, seq |-> copy.seq + 1, eseq |-> copy.eseq + 1]

\* Mutants of Applies: the hold, or the sequence, is not looked at again.
AppliesUnheld(copy) == svc.seq = copy.seq
AppliesTwice(copy) == ~IsHeld

\* guard_consumption: the conditional UPDATE of the flush.
Applies(copy) == svc.seq = copy.seq /\ ~IsHeld

Commit(c) ==
    LET copy == reader[c].copy IN
    /\ reader[c].pc = "ready" /\ ToIdle(c)
    /\ IF Applies(copy)
       THEN /\ svc' = Started(copy)
            /\ log' = log \cup {[kind |-> "start", pay |-> Sale, at |-> copy.eseq + 1, batch |-> copy.seq,
                                 before |-> copy, after |-> copy.queue]}
       ELSE UNCHANGED <<svc, log>>
    /\ UNCHANGED <<hplan, void>>

\* The cycle fails and rolls back.
RollsBack(c) ==
    /\ hplan.left > 0 /\ reader[c].pc # "idle" /\ ToIdle(c)
    /\ hplan' = [hplan EXCEPT !.left = @ - 1]
    /\ UNCHANGED <<svc, log, void>>

-----------------------------------------------------------------------------
(* receipt_void_renewal *)

Reversed(case) == {p \in Pays : void[p].state = "done" /\ void[p].bound.case = case}
Undone == UNION {void[p].bound.start : p \in Reversed("current")}

\* later_starts: what ended the term that began at event n.
LaterStarts(n) == {e \in log : e.kind # "queued" /\ e.at > n} \ Undone
First(S) == {e \in S : \A f \in S : e.at <= f.at}

BatchRows(n) == {e \in log : e.kind = "queued" /\ e.batch = n /\ e.pay \notin Reversed("queued")}
BatchPays(n) == {e.pay : e \in BatchRows(n)}
ConsumedBy(n) == {e \in log : e.kind = "start" /\ e.batch = n}

Refusal == [NoPlan EXCEPT !.case = "refused"]

\* The term that `start` began.
TermPlan(start, shared) ==
    LET later == LaterStarts(start.at) IN
    CASE later # {}             -> [case |-> "superseded", start |-> {start}, next |-> First(later), queue |-> {}]
      [] later = {} /\ (shared \/ svc.term # start.after) -> Refusal
      [] OTHER                  -> [case |-> "current", start |-> {start}, next |-> {}, queue |-> {}]

\* plan: what the confirmation binds.
PlanOf(p) ==
    LET mine == CHOOSE e \in log : e.kind # "start" /\ e.pay = p
        taken == ConsumedBy(mine.batch)
    IN  IF mine.kind = "reset" THEN TermPlan(mine, FALSE)
        ELSE IF taken # {} THEN TermPlan(CHOOSE e \in taken : TRUE, BatchPays(mine.batch) # {p})
        ELSE IF svc.seq # mine.batch \/ BatchPays(mine.batch) # svc.queue THEN Refusal
        ELSE [case |-> "queued", start |-> {}, next |-> {}, queue |-> svc.queue]

SetVoid(p, state, bound) == void' = [void EXCEPT ![p] = [state |-> state, bound |-> bound]]
Alone(p) == \A q \in Pays \ {p} : void[q].state \notin {"confirmed", "held"}

\* The operator confirms what the preview shows; the claim.
Confirm(p) ==
    /\ p \in hplan.voids /\ Paid(p) /\ void[p].state \in {"none", "failed"}
    /\ Alone(p) \/ Happens("overlap")
    /\ PlanOf(p).case # "refused" /\ SetVoid(p, "confirmed", PlanOf(p))
    /\ UNCHANGED <<hplan, svc, log, reader>>

\* The block step.
Block(p) ==
    /\ void[p].state = "confirmed" /\ Unlocked
    /\ IF PlanOf(p) = void[p].bound THEN SetVoid(p, "held", void[p].bound) ELSE SetVoid(p, "failed", NoPlan)
    /\ UNCHANGED <<hplan, svc, log, reader>>

\* apply, the renewal step; with another plan it refuses and is tried again.
ApplyVoid(p) ==
    /\ void[p].state = "held" /\ Unlocked /\ PlanOf(p) = void[p].bound
    /\ (\A c \in Readers : reader[c].pc # "ready") \/ Happens("race")
    /\ svc' = CASE void[p].bound.case = "queued"  -> [svc EXCEPT !.queue = @ \ {p}]
                [] void[p].bound.case = "current" -> LET start == CHOOSE e \in void[p].bound.start : TRUE
                                                     IN [svc EXCEPT !.term = start.before.term,
                                                                    !.used = start.before.used]
                [] OTHER                          -> svc
    /\ SetVoid(p, "done", void[p].bound)
    /\ UNCHANGED <<hplan, log, reader>>

-----------------------------------------------------------------------------
Consumes(c) == LoadService(c) \/ Recheck(c) \/ Commit(c)

HistoryNext ==
    \/ Uses
    \/ \E p \in Pays : RenewFor(p) \/ Confirm(p) \/ Block(p) \/ ApplyVoid(p)
    \/ \E c \in Readers : Consumes(c) \/ RollsBack(c)

\* The poller polls, a login is answered, a claimed void is carried on by its
\* worker.
HistorySpec ==
    /\ HistoryInit /\ [][HistoryNext]_historyvars
    /\ WF_historyvars(Consumes("poller"))
    /\ WF_historyvars(Recheck("radius") \/ Commit("radius"))
    /\ \A p \in Pays : WF_historyvars(Block(p) \/ ApplyVoid(p))

-----------------------------------------------------------------------------
(* Properties *)

Rows == [term : SUBSET (Pays \cup {Sale}), used : Nat, queue : SUBSET Pays, seq : Nat, eseq : Nat]

RenewalTypeOK ==
    /\ svc \in Rows /\ svc.used <= Quota(svc.term)
    /\ \A e \in log : e.before \in Rows /\ e.after \subseteq Pays \cup {Sale}
    /\ \A c \in Readers : reader[c].pc \in {"idle", "loaded", "ready"} /\ reader[c].copy \in Rows
    /\ \A p \in Pays : void[p].state \in {"none", "confirmed", "held", "failed", "done"}

\* The service is what its history says: the queue holds the open batch without
\* the voided payments, the term is the one the last start that still stands
\* began.  Every void is planned from this.
HistoryExplainsService ==
    LET stands == LaterStarts(0) IN
    /\ svc.queue = BatchPays(svc.seq)
    /\ svc.term = IF stands = {} THEN {Sale} ELSE (CHOOSE e \in stands : \A f \in stands : f.at <= e.at).after

\* The payment's term was used up and another one followed.
Lived(p) == \E e \in LaterStarts(0) : p \in e.before.term /\ UsedUp(e.before)

\* What was paid is there to use, once: queued, running or used up; what was
\* voided is not.
EachRightOnce ==
    /\ svc.term \cap svc.queue = {}
    /\ \A p \in Pays : Paid(p) =>
          IF p \in Reversed("queued") \cup Reversed("current") THEN p \notin svc.term \cup svc.queue
          ELSE p \in svc.term \cup svc.queue \/ Lived(p)
    /\ \A e, f \in log : e.kind = "start" /\ f.kind = "start" /\ e.batch = f.batch => e = f

\* A term is replaced only when it was used up, or by a void.
TermsLiveOut ==
    [][svc'.term # svc.term => UsedUp(svc) \/ \E p \in Pays : void[p].state = "held" /\ void'[p].state = "done"]_historyvars

\* From its block step on, nothing a void depends on moves: its renewal step
\* finds what was confirmed.
HeldVoidApplies == \A p \in Pays : void[p].state = "held" => PlanOf(p) = void[p].bound

\* The invariant of the history: it explains the service, gives every payment
\* its right once, and keeps what a held void was confirmed for.
RenewalInv == RenewalTypeOK /\ HistoryExplainsService /\ EachRightOnce /\ HeldVoidApplies

\* A used-up service with a queue starts it: no fault, no consumer that gave up
\* and no void leaves it waiting for good.
QueueStarts == (UsedUp(svc) /\ svc.queue # {}) ~> (~UsedUp(svc) \/ svc.queue = {})
=============================================================================
