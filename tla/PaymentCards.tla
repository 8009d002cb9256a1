---------------------------- MODULE PaymentCards ----------------------------
(***************************************************************************)
(* One pool of payment cards: the running total of each card, the rotation *)
(* of the active card at the switch threshold, and the causal event log    *)
(* from which the void of one payment recomputes the total of its card.    *)
(*                                                                         *)
(* A confirmed payment is a request of its own.  It reads the card, then   *)
(* waits for the pool's state row, then writes; MariaDB answers its plain  *)
(* reads from the snapshot of the first one.  Every other writer is one    *)
(* transaction that takes the same row, except the settings of the pool.   *)
(***************************************************************************)
EXTENDS Integers, FiniteSets, Sequences, SequencesExt

CONSTANTS
    Cards,           \* ids; SQLite gives a deleted card's id to the next one
    MaxPayments,     \* bound: confirmed payments, numbered as their requests arrive
    PoolPlans,       \* [phase, threshold, events, left]
    NoCard

PoolPlan == [phase: {"legacy", "event_logged"}, threshold: Nat, events: SUBSET {"void", "broken", "phase", "cards"}, left: Nat]
ASSUME PoolAssumption == Cards \subseteq Nat /\ MaxPayments \in Nat /\ PoolPlans \subseteq PoolPlan

VARIABLES
    poolplan,
    phase,           \* payment_card_pool_states.logging_phase
    total,           \* live card -> accumulated_amount
    pointer,         \* the pool's active card
    base,            \* [by: card -> total at the capture, after: events of earlier periods]
    log,             \* payment_card_pool_events, in order of id
    pay              \* payment -> [pc, card, amount, seen: the total it read, ptr: the pointer it read]

Payments == 1..MaxPayments
poolvars == <<poolplan, phase, total, pointer, base, log, pay>>

Pool == DOMAIN total
Can(e) == e \in poolplan.events /\ poolplan.left > 0
Taken == [poolplan EXCEPT !.left = @ - 1]
First == IF Pool = {} THEN NoCard ELSE CHOOSE x \in Pool : \A y \in Pool : x <= y
After(c) == IF \E x \in Pool : x > c THEN CHOOSE x \in Pool : x > c /\ \A y \in Pool : y > c => x <= y ELSE First

PoolInit ==
    /\ poolplan \in PoolPlans
    /\ phase = poolplan.phase
    /\ total = [c \in Cards |-> 0]
    /\ pointer = First
    /\ base = [by |-> [c \in Cards |-> 0], after |-> 0]
    /\ log = <<>>
    /\ pay = [p \in Payments |-> [pc |-> "new", card |-> NoCard, amount |-> 0, seen |-> 0, ptr |-> NoCard]]

-----------------------------------------------------------------------------
(* The total of one live card, from the baseline and its own events *)

Counts(e, i, c) == e.card = c /\ ~e.detached /\ ~e.voided /\ i > base.after

\* Mutant of Accumulator: a reset is an event like any other.
AccumulatorNoReset(events, c) ==
    FoldLeft(LAMBDA acc, i : IF Counts(events[i], i, c) THEN acc + events[i].amount ELSE acc,
             IF c \in DOMAIN base.by THEN base.by[c] ELSE 0, [i \in 1..Len(events) |-> i])

Accumulator(events, c) ==
    FoldLeft(LAMBDA acc, i : IF ~Counts(events[i], i, c) THEN acc
                             ELSE IF events[i].reset THEN 0 ELSE acc + events[i].amount,
             IF c \in DOMAIN base.by THEN base.by[c] ELSE 0, [i \in 1..Len(events) |-> i])

-----------------------------------------------------------------------------
(* A confirmed payment *)

PayReads(p, c, amount) ==
    /\ pay[p].pc = "new" /\ c \in Pool /\ \A q \in 1..p - 1 : pay[q].pc # "new"
    /\ pay' = [pay EXCEPT ![p] = [pc |-> "read", card |-> c, amount |-> amount, seen |-> total[c], ptr |-> pointer]]
    /\ UNCHANGED <<poolplan, phase, total, pointer, base, log>>

\* Mutant of Current: the total the session read before it had the pool.
AsRead(p) == pay[p].seen

\* Under the pool row the logged payment takes the total as committed.
Current(p) == IF phase = "event_logged" THEN total[pay[p].card] ELSE pay[p].seen

Entry(p, reset) ==
    [card |-> pay[p].card, amount |-> pay[p].amount, reset |-> reset, voided |-> FALSE, detached |-> FALSE]

PayCommits(p) ==
    /\ pay[p].pc = "read"
    /\ LET c == pay[p].card
           now == Current(p) + pay[p].amount
       IN IF c \notin Pool
          THEN UNCHANGED <<poolplan, phase, total, pointer, log>>    \* a deleted card: a silent no-op
          ELSE \E seen \in {pay[p].ptr, pointer} :
               LET reset == poolplan.threshold > 0 /\ seen = c /\ now >= poolplan.threshold IN
               /\ total' = [total EXCEPT ![c] = IF reset THEN 0 ELSE now]
               /\ pointer' = IF reset /\ Cardinality(Pool) > 1 THEN After(c) ELSE pointer
               /\ IF phase = "legacy" THEN UNCHANGED <<poolplan, phase, log>>
                  ELSE \/ log' = Append(log, Entry(p, reset)) /\ UNCHANGED <<poolplan, phase>>
                       \/ /\ Can("broken") /\ poolplan' = Taken       \* the event cannot be written
                          /\ phase' = "legacy" /\ UNCHANGED log
    /\ pay' = [pay EXCEPT ![p].pc = "over"]
    /\ UNCHANGED base

\* Neither the event nor the demotion could be written: nothing is.
PayBreaks(p) ==
    /\ pay[p].pc = "read" /\ phase = "event_logged" /\ Can("broken") /\ poolplan' = Taken
    /\ pay' = [pay EXCEPT ![p].pc = "over"]
    /\ UNCHANGED <<phase, total, pointer, base, log>>

-----------------------------------------------------------------------------
(* The log's own administration *)

AfterEvent == Len(log)

CaptureBaseline ==
    /\ Can("phase") /\ poolplan' = Taken /\ phase = "legacy"
    /\ base' = [by |-> total, after |-> AfterEvent]
    /\ phase' = "event_logged"
    /\ UNCHANGED <<total, pointer, log, pay>>

RevertToLegacy ==
    /\ Can("phase") /\ poolplan' = Taken /\ phase = "event_logged"
    /\ phase' = "legacy"
    /\ UNCHANGED <<total, pointer, base, log, pay>>

\* receipt void, step card_reversal: the event, then the total of its card.
VoidEvent(i) ==
    /\ Can("void") /\ poolplan' = Taken /\ ~log[i].voided
    /\ log' = [log EXCEPT ![i].voided = TRUE]
    /\ LET c == log[i].card IN
        total' = IF c \in Pool /\ ~log[i].detached THEN [total EXCEPT ![c] = Accumulator(log', c)] ELSE total
    /\ UNCHANGED <<phase, pointer, base, pay>>

-----------------------------------------------------------------------------
(* The cards of the pool *)

Detached(c) == [i \in 1..Len(log) |-> IF log[i].card = c THEN [log[i] EXCEPT !.detached = TRUE] ELSE log[i]]

DeleteCard(c) ==
    /\ Can("cards") /\ poolplan' = Taken /\ c \in Pool
    /\ log' = Detached(c)
    /\ base' = [base EXCEPT !.by = [x \in DOMAIN @ \ {c} |-> @[x]]]
    /\ total' = [x \in Pool \ {c} |-> total[x]]
    /\ pointer' = IF pointer = c THEN First' ELSE pointer
    /\ UNCHANGED <<phase, pay>>

\* The first card of an empty pool becomes the active one.
CreateCard(c) ==
    /\ Can("cards") /\ poolplan' = Taken /\ c \in Cards \ Pool
    /\ total' = [x \in Pool \cup {c} |-> IF x = c THEN 0 ELSE total[x]]
    /\ pointer' = IF Pool = {} THEN c ELSE pointer
    /\ UNCHANGED <<phase, base, log, pay>>

ActivateCard(c) ==
    /\ Can("cards") /\ poolplan' = Taken /\ c \in Pool \ {pointer}
    /\ pointer' = c
    /\ UNCHANGED <<phase, total, base, log, pay>>

PoolNext ==
    \/ \E p \in Payments : PayCommits(p) \/ PayBreaks(p) \/ \E c \in Pool, amount \in 1..2 : PayReads(p, c, amount)
    \/ CaptureBaseline \/ RevertToLegacy
    \/ \E i \in 1..Len(log) : VoidEvent(i)
    \/ \E c \in Cards : DeleteCard(c) \/ CreateCard(c) \/ ActivateCard(c)

PoolSpec == PoolInit /\ [][PoolNext]_poolvars

-----------------------------------------------------------------------------
(* Properties *)

PoolTypeOK ==
    /\ phase \in {"legacy", "event_logged"}
    /\ Pool \subseteq Cards /\ \A c \in Pool : total[c] \in Nat
    /\ pointer \in Cards \cup {NoCard}
    /\ DOMAIN base.by \subseteq Cards /\ base.after \in 0..Len(log)
    /\ \A i \in 1..Len(log) : log[i].card \in Cards /\ log[i].amount > 0

\* While a pool logs events every live total is what the log says, through
\* concurrent payments, resets, voids, new baselines, and ids that come back.
TotalIsTheLog ==
    phase = "event_logged" => \A c \in Pool : total[c] = Accumulator(log, c)

\* The invariant of the pool.
PoolInv == PoolTypeOK /\ TotalIsTheLog

\* The events of this card that follow i and emptied its total.
ResetLater(i) ==
    \E j \in i + 1..Len(log) : log[j].card = log[i].card /\ log[j].reset /\ ~log[j].voided /\ ~log[j].detached

PaymentVoided(i) == i \in 1..Len(log) /\ log[i].voided' /\ ~log[i].voided

\* What the total of the card owes to the event i and to nothing else.
TakesItsPayment(i) ==
    LET c == log[i].card IN
    c \in Pool /\ ~log[i].detached =>
        IF ResetLater(i) THEN total'[c] = total[c]
        ELSE IF log[i].reset THEN total'[c] >= total[c]
        ELSE total'[c] = total[c] - log[i].amount

\* In an unbroken period of logging the void of a payment takes its own amount
\* and the reset it caused, and nothing of the payments after it.
VoidTakesItsPayment ==
    [][\A i \in 1..Len(log) :
          PaymentVoided(i) /\ phase = "event_logged" /\ i > base.after => TakesItsPayment(i)]_poolvars
=============================================================================
