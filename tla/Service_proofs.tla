---------------------------- MODULE Service_proofs ----------------------------
(*****************************************************************************)
(* Theorems about the modules MCService checks together: the renewals of one *)
(* service, the licence of the panel, and the enforcement of limits with the *)
(* meter, and the behaviours that are one of them.                           *)
(*****************************************************************************)
EXTENDS MCService, Sums_proofs, SequenceTheorems

-----------------------------------------------------------------------------
(*****************************************************************************)
(* RenewalHistory, for any set of payments, any number of units and of       *)
(* faults, and every plan in which no read of a consumer is parted from its  *)
(* flush and one void runs at a time.                                        *)
(*****************************************************************************)

USE HistoryAssumption

-----------------------------------------------------------------------------
(* The inductive invariant *)

\* The plans the invariant is about: no consumer's read and flush are divided by
\* a renewal or a void, and one void at a time.
Serial == hplan.events = {}

Kinds == {"queued", "reset", "start"}
EventType == [kind: Kinds, pay: Pays \cup {Sale}, at: Nat, batch: Nat, before: Rows, after: SUBSET (Pays \cup {Sale})]
PlanType == [case: {"none", "refused", "superseded", "current", "queued"}, start: SUBSET EventType, next: SUBSET EventType,
             queue: SUBSET Pays]

Reading == [pc: {"idle", "loaded", "ready"}, copy: Rows]
Voiding == [state: {"none", "confirmed", "held", "failed", "done"}, bound: PlanType]

HistoryTyped ==
    /\ hplan \in HPlan
    /\ svc \in Rows /\ svc.term # {} /\ svc.used <= Quota(svc.term)
    /\ log \subseteq EventType
    /\ reader \in [Readers -> Reading]
    /\ void \in [Pays -> Voiding]

\* The numbers of the events are those given out, once each; a payment
\* contributes once, a batch starts once and with what was queued for it.
Numbered ==
    /\ \A e \in log : e.at \in 1..svc.eseq
    /\ \A e, f \in log : e.at = f.at => e = f
EventFits(e) ==
    /\ e.kind = "queued" => e.batch <= svc.seq /\ e.pay \in Pays
    /\ e.kind = "reset"  => e.pay \in Pays /\ e.after = {e.pay}
    /\ e.kind = "start"  => e.batch < svc.seq /\ e.after = BatchPays(e.batch)
    /\ e.kind # "queued" => UsedUp(e.before) /\ e.before.used <= Quota(e.before.term) /\ e.before.term # {}
OnceEach ==
    /\ \A e, f \in log : e.kind # "start" /\ f.kind # "start" /\ e.pay = f.pay => e = f
    /\ \A e, f \in log : e.kind = "start" /\ f.kind = "start" /\ e.batch = f.batch => e = f
BatchesStarted == \A n \in 0..svc.seq - 1 : ConsumedBy(n) # {}
LogInOrder == Numbered /\ (\A e \in log : EventFits(e)) /\ OnceEach /\ BatchesStarted

\* The starts that were not undone follow one another.
Stands == LaterStarts(0)
Before(e, f) == e.at < f.at /\ \A g \in Stands : g.at < f.at => g.at <= e.at
Chain ==
    \A f \in Stands : \/ \E e \in Stands : Before(e, f) /\ f.before.term = e.after
                      \/ (\A g \in Stands : g.at >= f.at) /\ f.before.term = {Sale}
IsLast(e) == \A g \in Stands : g.at <= e.at
TermIsLast ==
    \/ \E e \in Stands : IsLast(e) /\ svc.term = e.after
    \/ Stands = {} /\ svc.term = {Sale}

QueueIsOpenBatch == svc.queue = BatchPays(svc.seq)

\* What a consumer has read, while the sequence is what it was.
ReaderFits(c) ==
    LET r == reader[c] IN
    r.pc # "idle" =>
        /\ r.copy.seq <= svc.seq
        /\ r.copy.seq = svc.seq =>
              /\ UsedUp(svc) /\ r.copy.used <= Quota(svc.term)
              /\ r.pc = "ready" => /\ r.copy.term = svc.term /\ r.copy.queue = svc.queue /\ r.copy.eseq = svc.eseq
                                   /\ UsedUp(r.copy) /\ r.copy.queue # {}

\* The contribution of p, and the term it runs in.
Mine(p, m) == m \in log /\ m.kind # "start" /\ m.pay = p
StartOf(p, s) ==
    /\ s \in log
    /\ \/ s.kind = "reset" /\ s.pay = p
       \/ s.kind = "start" /\ BatchPays(s.batch) = {p} /\ \E m \in log : m.kind = "queued" /\ m.pay = p /\ m.batch = s.batch

VoidFits(p) ==
    LET v == void[p] IN
    /\ v.state # "none" => Paid(p)
    /\ v.state \in {"confirmed", "held", "done"} => v.bound.case \in {"superseded", "current", "queued"}
    /\ v.state = "held" => PlanOf(p) = v.bound
    /\ v.state = "done" /\ v.bound.case = "queued" => \E m \in log : Mine(p, m) /\ m.kind = "queued"
    /\ v.state = "done" /\ v.bound.case = "current" => \E s : v.bound.start = {s} /\ StartOf(p, s)

OneVoid == \A p, q \in Pays : void[p].state \in {"confirmed", "held"} /\ void[q].state \in {"confirmed", "held"} => p = q

RIInv ==
    /\ HistoryTyped /\ LogInOrder /\ Chain /\ TermIsLast /\ QueueIsOpenBatch /\ OneVoid
    /\ \A c \in Readers : ReaderFits(c)
    /\ \A p \in Pays : VoidFits(p)


-----------------------------------------------------------------------------
(* What the parts depend on *)

LEMMA QuotaOf ==
    ASSUME NEW T \in SUBSET (Pays \cup {Sale})
    PROVE  Quota(T) \in Nat /\ (T # {} => Quota(T) >= 1)
<1>1. IsFiniteSet(Pays \cup {Sale})
  BY FS_AddElement
<1>2. IsFiniteSet(T)
  BY <1>1, FS_Subset
<1>3. Quota(T) \in Nat
  BY <1>2, FS_CardinalityType DEF Quota
<1>4. Quota(T) = 0 <=> T = {}
  BY <1>2, FS_EmptySet DEF Quota
<1>5. Quota(T) # 0 => Quota(T) >= 1
  <2> HIDE DEF Quota
  <2> QED
    BY <1>3
<1> QED
  BY <1>3, <1>4, <1>5

LEMMA QuotaOfOne == ASSUME NEW x PROVE Quota({x}) = 1
BY FS_Singleton DEF Quota

\* The voids that are done are the same.
DoneStay == \A p \in Pays : /\ void'[p].state = "done" <=> void[p].state = "done"
                            /\ void[p].state = "done" => void'[p].bound = void[p].bound

LEMMA ReversedStay ==
    ASSUME DoneStay
    PROVE  /\ \A case : {p \in Pays : void'[p].state = "done" /\ void'[p].bound.case = case} = Reversed(case)
           /\ Reversed("queued")' = Reversed("queued") /\ Reversed("current")' = Reversed("current") /\ Undone' = Undone
<1>1. \A case : {p \in Pays : void'[p].state = "done" /\ void'[p].bound.case = case} = Reversed(case)
  BY DEF DoneStay, Reversed
<1>2. Reversed("queued")' = Reversed("queued") /\ Reversed("current")' = Reversed("current")
  BY <1>1 DEF Reversed
<1>3. \A p \in Reversed("current") : void'[p].bound.start = void[p].bound.start
  BY DEF DoneStay, Reversed
<1>4. Undone' = Undone
  BY <1>2, <1>3 DEF Undone
<1> QED
  BY <1>1, <1>2, <1>4

\* Nothing that a void is planned from has changed.
PlanStays == /\ log' = log /\ svc'.seq = svc.seq /\ svc'.queue = svc.queue /\ svc'.term = svc.term
             /\ Reversed("queued")' = Reversed("queued") /\ Undone' = Undone

LEMMA PlanUnchanged ==
    ASSUME PlanStays
    PROVE  /\ \A p : PlanOf(p)' = PlanOf(p)
           /\ \A n : BatchPays(n)' = BatchPays(n) /\ ConsumedBy(n)' = ConsumedBy(n) /\ LaterStarts(n)' = LaterStarts(n)
           /\ Stands' = Stands
<1>1. Reversed("queued")' = Reversed("queued") /\ Undone' = Undone /\ log' = log
  BY DEF PlanStays
<1>2. \A n : BatchPays(n)' = BatchPays(n) /\ ConsumedBy(n)' = ConsumedBy(n) /\ LaterStarts(n)' = LaterStarts(n)
  BY <1>1 DEF BatchPays, BatchRows, ConsumedBy, LaterStarts
<1>4. \A p : PlanOf(p)' = PlanOf(p)
  <2> SUFFICES ASSUME NEW p PROVE PlanOf(p)' = PlanOf(p)
    OBVIOUS
  <2> DEFINE mine == CHOOSE e \in log : e.kind # "start" /\ e.pay = p
             taken == {e \in log : e.kind = "start" /\ e.batch = mine.batch}
             pays == {e.pay : e \in {e \in log : e.kind = "queued" /\ e.batch = mine.batch /\ e.pay \notin Reversed("queued")}}
             one == CHOOSE e \in taken : TRUE
             after1 == {e \in log : e.kind # "queued" /\ e.at > mine.at} \ Undone
             after2 == {e \in log : e.kind # "queued" /\ e.at > one.at} \ Undone
             first1 == {e \in after1 : \A f \in after1 : e.at <= f.at}
             first2 == {e \in after2 : \A f \in after2 : e.at <= f.at}
  <2>1. PlanOf(p) =
          IF mine.kind = "reset"
          THEN CASE after1 # {} -> [case |-> "superseded", start |-> {mine}, next |-> first1, queue |-> {}]
                 [] after1 = {} /\ svc.term # mine.after -> Refusal
                 [] OTHER -> [case |-> "current", start |-> {mine}, next |-> {}, queue |-> {}]
          ELSE IF taken # {}
               THEN CASE after2 # {} -> [case |-> "superseded", start |-> {one}, next |-> first2, queue |-> {}]
                      [] after2 = {} /\ (pays # {p} \/ svc.term # one.after) -> Refusal
                      [] OTHER -> [case |-> "current", start |-> {one}, next |-> {}, queue |-> {}]
          ELSE IF svc.seq # mine.batch \/ pays # svc.queue THEN Refusal
          ELSE [case |-> "queued", start |-> {}, next |-> {}, queue |-> svc.queue]
    BY DEF PlanOf, TermPlan, LaterStarts, ConsumedBy, BatchPays, BatchRows, First
  <2> HIDE DEF mine, taken, pays, one, after1, after2, first1, first2
  <2>2. (PlanOf(p) =
          IF mine.kind = "reset"
          THEN CASE after1 # {} -> [case |-> "superseded", start |-> {mine}, next |-> first1, queue |-> {}]
                 [] after1 = {} /\ svc.term # mine.after -> Refusal
                 [] OTHER -> [case |-> "current", start |-> {mine}, next |-> {}, queue |-> {}]
          ELSE IF taken # {}
               THEN CASE after2 # {} -> [case |-> "superseded", start |-> {one}, next |-> first2, queue |-> {}]
                      [] after2 = {} /\ (pays # {p} \/ svc.term # one.after) -> Refusal
                      [] OTHER -> [case |-> "current", start |-> {one}, next |-> {}, queue |-> {}]
          ELSE IF svc.seq # mine.batch \/ pays # svc.queue THEN Refusal
          ELSE [case |-> "queued", start |-> {}, next |-> {}, queue |-> svc.queue])'
    BY DEF PlanOf, TermPlan, LaterStarts, ConsumedBy, BatchPays, BatchRows, First, mine, taken, pays, one, after1, after2, first1, first2
  <2>3. mine' = mine
    BY <1>1 DEF mine
  <2>4. taken' = taken /\ pays' = pays /\ after1' = after1
    BY <1>1, <2>3 DEF taken, pays, after1
  <2>5. one' = one /\ first1' = first1
    BY <2>4 DEF one, first1
  <2>6. after2' = after2
    BY <1>1, <2>5 DEF after2
  <2>7. first2' = first2
    BY <2>6 DEF first2
  <2> QED
    BY <2>1, <2>2, <2>3, <2>4, <2>5, <2>6, <2>7 DEF PlanStays, Refusal, NoPlan
<1> QED
  BY <1>2, <1>4 DEF Stands

LEMMA LogStays ==
    ASSUME PlanStays, svc'.eseq = svc.eseq, LogInOrder, Chain, TermIsLast, QueueIsOpenBatch
    PROVE  LogInOrder' /\ Chain' /\ TermIsLast' /\ QueueIsOpenBatch'
<1>1. log' = log /\ Stands' = Stands /\ svc'.seq = svc.seq /\ svc'.queue = svc.queue /\ svc'.term = svc.term
  BY PlanUnchanged DEF PlanStays
<1>2. \A n : BatchPays(n)' = BatchPays(n) /\ ConsumedBy(n)' = ConsumedBy(n)
  BY PlanUnchanged
<1>3. LogInOrder'
  BY <1>1, <1>2 DEF LogInOrder, Numbered, EventFits, OnceEach, BatchesStarted, UsedUp
<1>4. Chain'
  BY <1>1 DEF Chain, Before
<1>5. TermIsLast'
  BY <1>1 DEF TermIsLast, IsLast
<1>6. QueueIsOpenBatch'
  BY <1>1, <1>2 DEF QueueIsOpenBatch
<1> QED
  BY <1>3, <1>4, <1>5, <1>6

LEMMA VoidsStay ==
    ASSUME PlanStays, NEW p \in Pays, void'[p] = void[p], VoidFits(p)
    PROVE  VoidFits(p)'
<1>1. log' = log /\ PlanOf(p)' = PlanOf(p) /\ \A n : BatchPays(n)' = BatchPays(n)
  BY PlanUnchanged DEF PlanStays
<1>2. \A s, m : (StartOf(p, s)' <=> StartOf(p, s)) /\ (Mine(p, m)' <=> Mine(p, m))
  BY <1>1 DEF StartOf, Mine
<1>3. VoidFits(p)
  OBVIOUS
<1>4. Paid(p)' <=> Paid(p)
  BY <1>1 DEF Paid
<1>5. (\E m \in log : Mine(p, m) /\ m.kind = "queued")' <=> \E m \in log : Mine(p, m) /\ m.kind = "queued"
  BY <1>1, <1>2
<1>6. (\E s : void[p].bound.start = {s} /\ StartOf(p, s))' <=> \E s : void[p].bound.start = {s} /\ StartOf(p, s)
  BY <1>1, <1>2
<1> QED
  BY <1>1, <1>3, <1>4, <1>5, <1>6 DEF VoidFits

-----------------------------------------------------------------------------
LEMMA RIInvInit == HistoryInit => RIInv
<1> SUFFICES ASSUME HistoryInit PROVE RIInv
  OBVIOUS
<1>1. /\ svc = [term |-> {Sale}, used |-> 0, queue |-> {}, seq |-> 0, eseq |-> 0] /\ log = {}
      /\ reader = [c \in Readers |-> [pc |-> "idle", copy |-> svc]]
      /\ void = [p \in Pays |-> [state |-> "none", bound |-> NoPlan]] /\ hplan \in HPlan
  BY DEF HistoryInit
<1>2. svc \in Rows /\ NoPlan \in PlanType
  BY <1>1 DEF Rows, NoPlan, PlanType
<1>3. HistoryTyped
  <2>1. svc.term = {Sale} /\ svc.used = 0 /\ {Sale} # {} /\ {Sale} \in SUBSET (Pays \cup {Sale})
    BY <1>1
  <2>2. svc.used <= Quota(svc.term)
    <3>1. Quota({Sale}) = 1
      BY QuotaOfOne
    <3> QED
      BY <2>1, <3>1
  <2>3. reader \in [Readers -> Reading]
    <3>1. [pc |-> "idle", copy |-> svc] \in Reading
      BY <1>2 DEF Reading
    <3> QED
      BY <1>1, <3>1
  <2>4. void \in [Pays -> Voiding]
    <3>1. [state |-> "none", bound |-> NoPlan] \in Voiding
      BY <1>2 DEF Voiding
    <3> QED
      BY <1>1, <3>1
  <2> QED
    BY <1>1, <1>2, <2>1, <2>2, <2>3, <2>4 DEF HistoryTyped
<1>4. Stands = {}
  BY <1>1 DEF Stands, LaterStarts
<1>5. LogInOrder
  BY <1>1 DEF LogInOrder, Numbered, EventFits, OnceEach, BatchesStarted
<1>6. QueueIsOpenBatch
  BY <1>1 DEF QueueIsOpenBatch, BatchPays, BatchRows
<1>7. \A p \in Pays : VoidFits(p)
  BY <1>1 DEF VoidFits
<1> QED
  BY <1>1, <1>3, <1>4, <1>5, <1>6, <1>7 DEF RIInv, Chain, TermIsLast, OneVoid, ReaderFits


-----------------------------------------------------------------------------
LEMMA PlanTyped ==
    ASSUME HistoryTyped, NEW p \in Pays, Paid(p)
    PROVE  PlanOf(p) \in PlanType
<1> DEFINE mine == CHOOSE e \in log : e.kind # "start" /\ e.pay = p
<1>1. mine \in log
  BY DEF Paid
<1>2. log \subseteq EventType /\ svc.queue \in SUBSET Pays
  BY DEF HistoryTyped, Rows
<1>3. NoPlan \in PlanType /\ Refusal \in PlanType
  BY DEF PlanType, NoPlan, Refusal
<1>4. ASSUME NEW s \in log, NEW b PROVE TermPlan(s, b) \in PlanType
  <2>1. First(LaterStarts(s.at)) \subseteq EventType
    BY <1>2 DEF First, LaterStarts
  <2>2. {s} \subseteq EventType
    BY <1>2
  <2>3. [case |-> "superseded", start |-> {s}, next |-> First(LaterStarts(s.at)), queue |-> {}] \in PlanType
    BY <2>1, <2>2 DEF PlanType
  <2>4. [case |-> "current", start |-> {s}, next |-> {}, queue |-> {}] \in PlanType
    BY <2>2 DEF PlanType
  <2> QED
    BY <1>3, <2>3, <2>4 DEF TermPlan
<1>5. ConsumedBy(mine.batch) # {} => (CHOOSE e \in ConsumedBy(mine.batch) : TRUE) \in log
  BY DEF ConsumedBy
<1>6. [case |-> "queued", start |-> {}, next |-> {}, queue |-> svc.queue] \in PlanType
  BY <1>2 DEF PlanType
<1> HIDE DEF mine
<1>7. PlanOf(p) = IF mine.kind = "reset" THEN TermPlan(mine, FALSE)
        ELSE IF ConsumedBy(mine.batch) # {} THEN TermPlan(CHOOSE e \in ConsumedBy(mine.batch) : TRUE, BatchPays(mine.batch) # {p})
        ELSE IF svc.seq # mine.batch \/ BatchPays(mine.batch) # svc.queue THEN Refusal
        ELSE [case |-> "queued", start |-> {}, next |-> {}, queue |-> svc.queue]
  BY DEF PlanOf, mine
<1> QED
  BY <1>1, <1>3, <1>4, <1>5, <1>6, <1>7

\* A step that leaves the history and what it explains where they are.
LEMMA QuietStep ==
    ASSUME RIInv, PlanStays, svc'.eseq = svc.eseq, HistoryTyped', OneVoid',
           \A c \in Readers : ReaderFits(c)', \A p \in Pays : VoidFits(p)'
    PROVE  RIInv'
<1>1. LogInOrder' /\ Chain' /\ TermIsLast' /\ QueueIsOpenBatch'
  BY LogStays DEF RIInv
<1> QED
  BY <1>1 DEF RIInv

LEMMA UsesStep == RIInv /\ Uses => RIInv'
<1> SUFFICES ASSUME RIInv, Uses PROVE RIInv'
  OBVIOUS
<1>1. /\ hplan.units > 0 /\ ~UsedUp(svc) /\ svc' = [svc EXCEPT !.used = @ + 1]
      /\ hplan' = [hplan EXCEPT !.units = @ - 1] /\ log' = log /\ reader' = reader /\ void' = void
  BY DEF Uses
<1>2. HistoryTyped
  BY DEF RIInv
<1>3. svc \in Rows /\ svc.used \in Nat /\ Quota(svc.term) \in Nat /\ svc.used < Quota(svc.term)
  <2>1. svc \in Rows /\ svc.used \in Nat /\ svc.term \in SUBSET (Pays \cup {Sale})
    BY <1>2 DEF HistoryTyped, Rows
  <2>2. Quota(svc.term) \in Nat
    BY <2>1, QuotaOf
  <2> HIDE DEF Quota
  <2> QED
    BY <1>1, <2>1, <2>2 DEF UsedUp
<1>4. svc' \in Rows /\ svc'.term = svc.term /\ svc'.used = svc.used + 1 /\ svc'.queue = svc.queue /\ svc'.seq = svc.seq /\ svc'.eseq = svc.eseq
  BY <1>1, <1>3 DEF Rows
<1>5. PlanStays
  <2>1. DoneStay
    BY <1>1, <1>4 DEF DoneStay
  <2> QED
    BY <1>1, <1>4, <2>1, ReversedStay DEF PlanStays
<1>6. HistoryTyped'
  <2>1. hplan' \in HPlan
    BY <1>1, <1>2 DEF HistoryTyped, HPlan
  <2>2. svc'.used <= Quota(svc'.term)
    BY <1>3, <1>4
  <2> QED
    BY <1>1, <1>2, <1>4, <2>1, <2>2 DEF HistoryTyped
<1>7. \A c \in Readers : ReaderFits(c)'
  <2> SUFFICES ASSUME NEW c \in Readers PROVE ReaderFits(c)'
    OBVIOUS
  <2>1. ReaderFits(c)
    BY DEF RIInv
  <2> QED
    BY <1>1, <1>4, <2>1 DEF ReaderFits
<1>8. \A p \in Pays : VoidFits(p)'
  BY <1>1, <1>5, VoidsStay DEF RIInv
<1>9. OneVoid'
  BY <1>1 DEF RIInv, OneVoid
<1> QED
  BY <1>4, <1>5, <1>6, <1>7, <1>8, <1>9, QuietStep

\* A consumer goes idle or reads; nothing else but a fault is counted.
Consults(c) ==
    /\ \E x \in Reading : reader' = [reader EXCEPT ![c] = x]
    /\ svc' = svc /\ log' = log /\ void' = void /\ hplan' \in HPlan

LEMMA ConsultStep ==
    ASSUME RIInv, NEW c \in Readers, Consults(c), ReaderFits(c)'
    PROVE  RIInv'
<1>1. svc' = svc /\ log' = log /\ void' = void /\ hplan' \in HPlan
  BY DEF Consults
<1>2. PICK x \in Reading : reader' = [reader EXCEPT ![c] = x]
  BY DEF Consults
<1>3. HistoryTyped
  BY DEF RIInv
<1>4. reader' \in [Readers -> Reading]
  BY <1>2, <1>3 DEF HistoryTyped
<1>5. HistoryTyped'
  BY <1>1, <1>3, <1>4 DEF HistoryTyped
<1>6. PlanStays
  <2>1. DoneStay
    BY <1>1 DEF DoneStay
  <2> QED
    BY <1>1, <2>1, ReversedStay DEF PlanStays
<1>7. ASSUME NEW d \in Readers PROVE ReaderFits(d)'
  <2>1. CASE d = c
    BY <2>1
  <2>2. CASE d # c
    <3>1. reader'[d] = reader[d]
      BY <1>2, <1>3, <2>2 DEF HistoryTyped
    <3>2. ReaderFits(d)
      BY DEF RIInv
    <3> QED
      BY <1>1, <3>1, <3>2 DEF ReaderFits
  <2> QED
    BY <2>1, <2>2
<1>8. \A p \in Pays : VoidFits(p)'
  BY <1>1, <1>6, VoidsStay DEF RIInv
<1>9. OneVoid'
  BY <1>1 DEF RIInv, OneVoid
<1> QED
  BY <1>1, <1>5, <1>6, <1>7, <1>8, <1>9, QuietStep


LEMMA GoesIdle ==
    ASSUME RIInv, NEW c \in Readers, ToIdle(c), svc' = svc, log' = log, void' = void, hplan' \in HPlan
    PROVE  RIInv'
<1>1. svc \in Rows /\ reader \in [Readers -> Reading]
  BY DEF RIInv, HistoryTyped
<1>2. Consults(c)
  <2>1. [pc |-> "idle", copy |-> svc] \in Reading
    BY <1>1 DEF Reading
  <2> QED
    BY <2>1 DEF Consults, ToIdle
<1>3. reader'[c].pc = "idle"
  BY <1>1 DEF ToIdle
<1> QED
  BY <1>2, <1>3, ConsultStep DEF ReaderFits

LEMMA LoadStep == ASSUME RIInv, NEW c \in Readers, LoadService(c) PROVE RIInv'
<1>1. svc \in Rows /\ reader \in [Readers -> Reading] /\ hplan \in HPlan
      /\ svc.used <= Quota(svc.term)
  BY DEF RIInv, HistoryTyped
<1>2. /\ UsedUp(svc) /\ reader' = [reader EXCEPT ![c] = [pc |-> "loaded", copy |-> svc]]
      /\ hplan' = hplan /\ svc' = svc /\ log' = log /\ void' = void
  BY DEF LoadService
<1>3. Consults(c)
  <2>1. [pc |-> "loaded", copy |-> svc] \in Reading
    BY <1>1 DEF Reading
  <2> QED
    BY <1>1, <1>2, <2>1 DEF Consults
<1>4. reader'[c].pc = "loaded" /\ reader'[c].copy = svc
  BY <1>1, <1>2
<1>5. svc.seq <= svc.seq
  BY <1>1 DEF Rows
<1>6. ReaderFits(c)'
  BY <1>1, <1>2, <1>4, <1>5 DEF ReaderFits
<1> QED
  BY <1>3, <1>6, ConsultStep

LEMMA RecheckStep == ASSUME RIInv, NEW c \in Readers, Recheck(c) PROVE RIInv'
<1> DEFINE copy == reader[c].copy
<1>1. svc \in Rows /\ reader \in [Readers -> Reading] /\ hplan \in HPlan
      /\ copy \in Rows
  BY DEF RIInv, HistoryTyped, Reading
<1>2. hplan' = hplan /\ svc' = svc /\ log' = log /\ void' = void /\ reader[c].pc = "loaded"
  BY DEF Recheck
<1>3. ReaderFits(c)
  BY DEF RIInv
<1>4. CASE ToIdle(c)
  BY <1>1, <1>2, <1>4, GoesIdle
<1>5. CASE ~ToIdle(c)
  <2>1. /\ svc.seq = copy.seq /\ svc.queue # {} /\ UsedUp(Relocked(copy))
        /\ reader' = [reader EXCEPT ![c] = [pc |-> "ready", copy |-> Relocked(copy)]]
    BY <1>5 DEF Recheck
  <2>2. /\ Relocked(copy) \in Rows /\ Relocked(copy).seq = copy.seq /\ Relocked(copy).used = copy.used
        /\ Relocked(copy).term = svc.term /\ Relocked(copy).queue = svc.queue /\ Relocked(copy).eseq = svc.eseq
    BY <1>1 DEF Relocked, Rows
  <2>3. Consults(c)
    <3>1. [pc |-> "ready", copy |-> Relocked(copy)] \in Reading
      BY <2>2 DEF Reading
    <3> QED
      BY <1>1, <1>2, <2>1, <3>1 DEF Consults
  <2>4. reader'[c].pc = "ready" /\ reader'[c].copy = Relocked(copy)
    BY <1>1, <2>1
  <2>5. UsedUp(svc) /\ copy.used <= Quota(svc.term)
    BY <1>2, <1>3, <2>1 DEF ReaderFits
  <2>6. svc.seq <= svc.seq
    BY <1>1 DEF Rows
  <2>7. ReaderFits(c)'
    BY <1>2, <2>1, <2>2, <2>4, <2>5, <2>6 DEF ReaderFits
  <2> QED
    BY <2>3, <2>7, ConsultStep
<1> QED
  BY <1>4, <1>5

LEMMA RollsBackStep == ASSUME RIInv, NEW c \in Readers, RollsBack(c) PROVE RIInv'
<1>1. hplan \in HPlan
  BY DEF RIInv, HistoryTyped
<1>2. hplan.left > 0 /\ hplan' = [hplan EXCEPT !.left = @ - 1] /\ ToIdle(c) /\ svc' = svc /\ log' = log /\ void' = void
  BY DEF RollsBack
<1>3. hplan' \in HPlan
  BY <1>1, <1>2 DEF HPlan
<1> QED
  BY <1>2, <1>3, GoesIdle

\* Only the void of p moves, and not to or from its end.
VoidMoves(p) ==
    /\ \E x \in Voiding : void' = [void EXCEPT ![p] = x] /\ x.state # "done"
    /\ void[p].state # "done" /\ UNCHANGED <<hplan, svc, log, reader>>

LEMMA VoidMovesStep ==
    ASSUME RIInv, NEW p \in Pays, VoidMoves(p), PlanStays => VoidFits(p)', OneVoid'
    PROVE  RIInv'
<1>1. svc' = svc /\ log' = log /\ reader' = reader /\ hplan' = hplan /\ void[p].state # "done"
  BY DEF VoidMoves
<1>2. PICK x \in Voiding : void' = [void EXCEPT ![p] = x] /\ x.state # "done"
  BY DEF VoidMoves
<1>3. HistoryTyped
  BY DEF RIInv
<1>4. void' \in [Pays -> Voiding]
  BY <1>2, <1>3 DEF HistoryTyped
<1>5. HistoryTyped'
  BY <1>1, <1>3, <1>4 DEF HistoryTyped
<1>6. void'[p] = x /\ x.state # "done" /\ \A q \in Pays \ {p} : void'[q] = void[q]
  BY <1>2, <1>3 DEF HistoryTyped
<1>7. PlanStays
  <2>1. DoneStay
    BY <1>1, <1>6 DEF DoneStay
  <2> QED
    BY <1>1, <1>6, <2>1, ReversedStay DEF PlanStays
<1>8. \A q \in Pays : VoidFits(q)'
  BY <1>6, <1>7, VoidsStay DEF RIInv
<1>9. \A c \in Readers : ReaderFits(c)'
  BY <1>1 DEF RIInv, ReaderFits
<1> QED
  BY <1>1, <1>5, <1>7, <1>8, <1>9, QuietStep

LEMMA ConfirmStep == ASSUME RIInv, Serial, NEW p \in Pays, Confirm(p) PROVE RIInv'
<1>1. /\ Paid(p) /\ void[p].state \in {"none", "failed"} /\ Alone(p) /\ PlanOf(p).case # "refused"
      /\ void' = [void EXCEPT ![p] = [state |-> "confirmed", bound |-> PlanOf(p)]] /\ UNCHANGED <<hplan, svc, log, reader>>
  BY DEF Confirm, SetVoid, Serial, Happens
<1>2. HistoryTyped
  BY DEF RIInv
<1>3. PlanOf(p) \in PlanType
  BY <1>1, <1>2, PlanTyped
<1>4. VoidMoves(p)
  <2>1. [state |-> "confirmed", bound |-> PlanOf(p)] \in Voiding /\ [state |-> "confirmed", bound |-> PlanOf(p)].state # "done"
    BY <1>3 DEF Voiding
  <2> QED
    BY <1>1, <2>1 DEF VoidMoves
<1>5. void'[p] = [state |-> "confirmed", bound |-> PlanOf(p)] /\ \A q \in Pays \ {p} : void'[q] = void[q]
  BY <1>1, <1>2 DEF HistoryTyped
<1>6. OneVoid'
  BY <1>1, <1>5 DEF RIInv, OneVoid, Alone
<1>7. PlanOf(p).case \in {"superseded", "current", "queued"}
  <2> DEFINE mine == CHOOSE e \in log : e.kind # "start" /\ e.pay = p
  <2>1. \A s, b : TermPlan(s, b).case \in {"superseded", "current", "refused"}
    BY DEF TermPlan, Refusal, NoPlan
  <2>2. Refusal.case = "refused"
    BY DEF Refusal, NoPlan
  <2> HIDE DEF mine
  <2>3. PlanOf(p) = IF mine.kind = "reset" THEN TermPlan(mine, FALSE)
        ELSE IF ConsumedBy(mine.batch) # {} THEN TermPlan(CHOOSE e \in ConsumedBy(mine.batch) : TRUE, BatchPays(mine.batch) # {p})
        ELSE IF svc.seq # mine.batch \/ BatchPays(mine.batch) # svc.queue THEN Refusal
        ELSE [case |-> "queued", start |-> {}, next |-> {}, queue |-> svc.queue]
    BY DEF PlanOf, mine
  <2>4. CASE mine.kind = "reset"
    BY <1>1, <2>1, <2>3, <2>4
  <2>5. CASE mine.kind # "reset" /\ ConsumedBy(mine.batch) # {}
    <3>1. PlanOf(p) = TermPlan(CHOOSE e \in ConsumedBy(mine.batch) : TRUE, BatchPays(mine.batch) # {p})
      BY <2>3, <2>5
    <3> QED
      BY <1>1, <2>1, <3>1
  <2>6. CASE mine.kind # "reset" /\ ConsumedBy(mine.batch) = {}
    <3>1. PlanOf(p) = Refusal \/ PlanOf(p).case = "queued"
      BY <2>3, <2>6
    <3> QED
      BY <1>1, <2>2, <3>1
  <2> QED
    BY <2>4, <2>5, <2>6
<1>8. VoidFits(p)'
  <2>1. Paid(p)'
    BY <1>1 DEF Paid
  <2> QED
    BY <1>5, <1>7, <2>1 DEF VoidFits
<1> QED
  BY <1>4, <1>6, <1>8, VoidMovesStep

LEMMA BlockStep == ASSUME RIInv, NEW p \in Pays, Block(p) PROVE RIInv'
<1>1. HistoryTyped /\ VoidFits(p) /\ OneVoid
  BY DEF RIInv
<1>2. void[p].state = "confirmed" /\ UNCHANGED <<hplan, svc, log, reader>>
  BY DEF Block
<1>3. \/ PlanOf(p) = void[p].bound /\ void' = [void EXCEPT ![p] = [state |-> "held", bound |-> void[p].bound]]
      \/ void' = [void EXCEPT ![p] = [state |-> "failed", bound |-> NoPlan]]
  BY DEF Block, SetVoid
<1>4. void[p].bound \in PlanType /\ NoPlan \in PlanType
  BY <1>1 DEF HistoryTyped, Voiding, NoPlan, PlanType
<1>5. VoidMoves(p)
  <2>1. \A st \in {"held", "failed"}, b \in PlanType : [state |-> st, bound |-> b] \in Voiding /\ [state |-> st, bound |-> b].state # "done"
    BY DEF Voiding
  <2>2. [state |-> "held", bound |-> void[p].bound] \in Voiding /\ [state |-> "held", bound |-> void[p].bound].state # "done"
    BY <1>4, <2>1
  <2>3. [state |-> "failed", bound |-> NoPlan] \in Voiding /\ [state |-> "failed", bound |-> NoPlan].state # "done"
    BY <1>4, <2>1
  <2> QED
    BY <1>2, <1>3, <2>2, <2>3 DEF VoidMoves
<1>6. \A q \in Pays \ {p} : void'[q] = void[q]
  BY <1>1, <1>3 DEF HistoryTyped
<1>7. OneVoid'
  BY <1>1, <1>2, <1>6 DEF OneVoid
<1>8. Paid(p)'
  BY <1>1, <1>2 DEF VoidFits, Paid
<1>9. ASSUME PlanStays PROVE VoidFits(p)'
  <2>1. PlanOf(p)' = PlanOf(p)
    BY <1>9, PlanUnchanged
  <2>2. CASE PlanOf(p) = void[p].bound /\ void' = [void EXCEPT ![p] = [state |-> "held", bound |-> void[p].bound]]
    <3>1. void'[p].state = "held" /\ void'[p].bound = void[p].bound
      BY <1>1, <2>2 DEF HistoryTyped
    <3> QED
      BY <1>1, <1>2, <1>8, <2>1, <2>2, <3>1 DEF VoidFits
  <2>3. CASE void' = [void EXCEPT ![p] = [state |-> "failed", bound |-> NoPlan]]
    <3>1. void'[p].state = "failed"
      BY <1>1, <2>3 DEF HistoryTyped
    <3> QED
      BY <1>8, <3>1 DEF VoidFits
  <2> QED
    BY <1>3, <2>2, <2>3
<1> QED
  BY <1>5, <1>7, <1>9, VoidMovesStep


-----------------------------------------------------------------------------
(* What a void is planned from *)

LEMMA OneStart == ASSUME LogInOrder, NEW n, NEW s \in ConsumedBy(n) PROVE ConsumedBy(n) = {s}
BY DEF LogInOrder, OnceEach, ConsumedBy

\* The term that p's money runs in.
TermVia(m, s) == (m.kind = "reset" /\ s = m) \/ (m.kind # "reset" /\ s \in ConsumedBy(m.batch))
TermOf(p, s) == \E m \in log : Mine(p, m) /\ TermVia(m, s)

LEMMA PlanIs ==
    ASSUME LogInOrder, NEW p, NEW m \in log, Mine(p, m)
    PROVE  /\ m.kind = "reset" => PlanOf(p) = TermPlan(m, FALSE)
           /\ \A s \in ConsumedBy(m.batch) : m.kind # "reset" =>
                 \E shared \in BOOLEAN : (shared <=> BatchPays(m.batch) # {p}) /\ PlanOf(p) = TermPlan(s, shared)
           /\ m.kind # "reset" /\ ConsumedBy(m.batch) = {} =>
                 PlanOf(p) = IF svc.seq # m.batch \/ BatchPays(m.batch) # svc.queue THEN Refusal
                             ELSE [case |-> "queued", start |-> {}, next |-> {}, queue |-> svc.queue]
<1> DEFINE mine == CHOOSE e \in log : e.kind # "start" /\ e.pay = p
<1>1. mine = m
  BY DEF LogInOrder, OnceEach, Mine
<1> HIDE DEF mine
<1>2. PlanOf(p) = IF mine.kind = "reset" THEN TermPlan(mine, FALSE)
        ELSE IF ConsumedBy(mine.batch) # {} THEN TermPlan(CHOOSE e \in ConsumedBy(mine.batch) : TRUE, BatchPays(mine.batch) # {p})
        ELSE IF svc.seq # mine.batch \/ BatchPays(mine.batch) # svc.queue THEN Refusal
        ELSE [case |-> "queued", start |-> {}, next |-> {}, queue |-> svc.queue]
  BY DEF PlanOf, mine
<1>3. ASSUME NEW s \in ConsumedBy(m.batch), m.kind # "reset"
      PROVE  \E shared \in BOOLEAN : (shared <=> BatchPays(m.batch) # {p}) /\ PlanOf(p) = TermPlan(s, shared)
  <2>1. ConsumedBy(m.batch) = {s}
    BY <1>3, OneStart
  <2>2. (CHOOSE e \in ConsumedBy(m.batch) : TRUE) = s
    BY <2>1
  <2>3. PlanOf(p) = TermPlan(CHOOSE e \in ConsumedBy(m.batch) : TRUE, BatchPays(m.batch) # {p})
    BY <1>1, <1>2, <1>3
  <2> DEFINE shared == BatchPays(m.batch) # {p}
  <2>4. shared \in BOOLEAN /\ (shared <=> BatchPays(m.batch) # {p})
    OBVIOUS
  <2>5. PlanOf(p) = TermPlan(s, shared)
    BY <2>2, <2>3
  <2> HIDE DEF shared
  <2> QED
    BY <2>4, <2>5
<1> QED
  BY <1>1, <1>2, <1>3

\* The three plans, and what each is bound to.
LEMMA TermPlanIs ==
    ASSUME NEW s, NEW shared \in BOOLEAN
    PROVE  /\ LaterStarts(s.at) # {} =>
                 TermPlan(s, shared) = [case |-> "superseded", start |-> {s}, next |-> First(LaterStarts(s.at)), queue |-> {}]
           /\ TermPlan(s, shared).case \in {"superseded", "current", "refused"}
           /\ TermPlan(s, shared).case = "superseded" => LaterStarts(s.at) # {}
           /\ TermPlan(s, shared).case = "current" =>
                 /\ LaterStarts(s.at) = {} /\ ~shared /\ svc.term = s.after
                 /\ TermPlan(s, shared) = [case |-> "current", start |-> {s}, next |-> {}, queue |-> {}]
BY DEF TermPlan, Refusal, NoPlan

LEMMA PlanCases ==
    ASSUME LogInOrder, log \subseteq EventType, NEW p, Paid(p)
    PROVE  /\ PlanOf(p).case = "superseded" =>
                 \E s : TermOf(p, s) /\ LaterStarts(s.at) # {}
           /\ PlanOf(p).case = "current" =>
                 \E s : /\ StartOf(p, s) /\ LaterStarts(s.at) = {} /\ svc.term = s.after
                        /\ PlanOf(p) = [case |-> "current", start |-> {s}, next |-> {}, queue |-> {}]
           /\ PlanOf(p).case = "queued" =>
                 \E m \in log : Mine(p, m) /\ m.kind = "queued" /\ m.batch = svc.seq
<1>1. PICK m \in log : Mine(p, m)
  BY DEF Paid, Mine
<1>2. m.kind \in {"queued", "reset"}
  BY <1>1 DEF EventType, Kinds, Mine
<1>3. CASE m.kind = "reset"
  <2>1. PlanOf(p) = TermPlan(m, FALSE)
    BY <1>1, <1>3, PlanIs
  <2>2. TermOf(p, m) /\ StartOf(p, m)
    BY <1>1, <1>3 DEF TermOf, TermVia, StartOf, Mine
  <2> QED
    BY <2>1, <2>2, TermPlanIs
<1>4. CASE m.kind = "queued" /\ ConsumedBy(m.batch) # {}
  <2>1. PICK s \in ConsumedBy(m.batch) : TRUE
    BY <1>4
  <2>2. PICK shared \in BOOLEAN : (shared <=> BatchPays(m.batch) # {p}) /\ PlanOf(p) = TermPlan(s, shared)
    <3>1. \A r \in ConsumedBy(m.batch) :
             \E shared \in BOOLEAN : (shared <=> BatchPays(m.batch) # {p}) /\ PlanOf(p) = TermPlan(r, shared)
      BY <1>1, <1>4, <2>1, PlanIs
    <3> QED
      BY <2>1, <3>1
  <2>3. TermOf(p, s)
    BY <1>1, <1>4, <2>1 DEF TermOf, TermVia
  <2>4. BatchPays(m.batch) = {p} => StartOf(p, s)
    BY <1>1, <1>4, <2>1 DEF StartOf, ConsumedBy, Mine
  <2> QED
    BY <2>2, <2>3, <2>4, TermPlanIs
<1>5. CASE m.kind = "queued" /\ ConsumedBy(m.batch) = {}
  <2>1. PlanOf(p) = IF svc.seq # m.batch \/ BatchPays(m.batch) # svc.queue THEN Refusal
                    ELSE [case |-> "queued", start |-> {}, next |-> {}, queue |-> svc.queue]
    BY <1>1, <1>5, PlanIs
  <2>2. Refusal.case = "refused"
    BY DEF Refusal, NoPlan
  <2> QED
    BY <1>1, <1>5, <2>1, <2>2
<1> QED
  BY <1>2, <1>3, <1>4, <1>5

LEMMA SupersededIs ==
    ASSUME LogInOrder, NEW p, NEW s, TermOf(p, s), LaterStarts(s.at) # {}
    PROVE  PlanOf(p) = [case |-> "superseded", start |-> {s}, next |-> First(LaterStarts(s.at)), queue |-> {}]
<1>1. PICK m \in log : Mine(p, m) /\ TermVia(m, s)
  BY DEF TermOf
<1>2. \E shared \in BOOLEAN : PlanOf(p) = TermPlan(s, shared)
  <2>1. CASE m.kind = "reset" /\ s = m
    BY <1>1, <2>1, PlanIs
  <2>2. CASE m.kind # "reset" /\ s \in ConsumedBy(m.batch)
    <3>1. m \in log /\ Mine(p, m)
      BY <1>1
    <3>2. m.kind # "reset" /\ s \in ConsumedBy(m.batch)
      BY <2>2
    <3>3. \A r \in ConsumedBy(m.batch) : m.kind # "reset" =>
             \E shared \in BOOLEAN : (shared <=> BatchPays(m.batch) # {p}) /\ PlanOf(p) = TermPlan(r, shared)
      BY <3>1, PlanIs
    <3> QED
      BY <3>2, <3>3
  <2> QED
    BY <1>1, <2>1, <2>2 DEF TermVia
<1> QED
  BY <1>2, TermPlanIs


-----------------------------------------------------------------------------
(* A new event of the history *)

\* n is the newest event; a contribution is of a payment that has none.
NewEvent(n) ==
    /\ n \in EventType /\ n.at = svc.eseq + 1 /\ n.batch = svc.seq
    /\ n.kind # "start" => n.pay \in Pays /\ ~Paid(n.pay)
    /\ log' = log \cup {n} /\ svc'.eseq = svc.eseq + 1 /\ void' = void

LEMMA UndoneIsLogged == ASSUME \A p \in Pays : VoidFits(p) PROVE Undone \subseteq log
<1>1. ASSUME NEW p \in Reversed("current") PROVE void[p].bound.start \subseteq log
  <2>1. p \in Pays /\ VoidFits(p) /\ void[p].state = "done" /\ void[p].bound.case = "current"
    BY DEF Reversed
  <2>2. PICK s : void[p].bound.start = {s} /\ StartOf(p, s)
    BY <2>1 DEF VoidFits
  <2> QED
    BY <2>2 DEF StartOf
<1> QED
  BY <1>1 DEF Undone

LEMMA VoidedIsPaid == ASSUME NEW p \in Pays, VoidFits(p), p \in Reversed("queued") PROVE Paid(p)
BY DEF Reversed, VoidFits

LEMMA Growth ==
    ASSUME RIInv, NEW n, NewEvent(n)
    PROVE  /\ \A k : n.kind = "queued" => LaterStarts(k)' = LaterStarts(k)
           /\ \A k \in Nat : k <= svc.eseq /\ n.kind # "queued" => LaterStarts(k)' = LaterStarts(k) \cup {n}
           /\ \A b : n.kind # "queued" \/ b # svc.seq => BatchPays(b)' = BatchPays(b)
           /\ \A b : n.kind = "queued" /\ b = svc.seq => BatchPays(b)' = BatchPays(b) \cup {n.pay}
           /\ \A b : n.kind # "start" \/ b # svc.seq => ConsumedBy(b)' = ConsumedBy(b)
           /\ \A b : n.kind = "start" /\ b = svc.seq => ConsumedBy(b)' = {n}
           /\ ConsumedBy(svc.seq) = {} /\ n \notin log /\ n \notin Undone
<1> DEFINE sq == svc.seq
<1>1. /\ n \in EventType /\ n.at = svc.eseq + 1 /\ n.batch = sq /\ log' = log \cup {n} /\ void' = void
      /\ n.kind # "start" => n.pay \in Pays /\ ~Paid(n.pay)
  BY DEF NewEvent
<1>2. Undone' = Undone /\ Reversed("queued")' = Reversed("queued")
  BY <1>1 DEF Undone, Reversed
<1>3. svc.eseq \in Nat /\ sq \in Nat /\ log \subseteq EventType /\ \A e \in log : e.at \in 1..svc.eseq /\ e.at \in Nat
  BY DEF RIInv, HistoryTyped, LogInOrder, Numbered, Rows
<1>4. n \notin log
  BY <1>1, <1>3
<1>5. n \notin Undone
  BY <1>4, UndoneIsLogged DEF RIInv
<1>6. ASSUME NEW k, n.kind = "queued" PROVE LaterStarts(k)' = LaterStarts(k)
  BY <1>1, <1>2, <1>6 DEF LaterStarts
<1>7. ASSUME NEW k \in Nat, k <= svc.eseq, n.kind # "queued" PROVE LaterStarts(k)' = LaterStarts(k) \cup {n}
  <2>1. n.at > k
    BY <1>1, <1>3, <1>7
  <2> QED
    BY <1>1, <1>2, <1>5, <1>7, <2>1 DEF LaterStarts
<1>8. ASSUME NEW b, n.kind # "queued" \/ b # sq PROVE BatchPays(b)' = BatchPays(b)
  <2>1. BatchRows(b)' = BatchRows(b)
    BY <1>1, <1>2, <1>8 DEF BatchRows
  <2> QED
    BY <2>1 DEF BatchPays
<1>9. ASSUME NEW b, n.kind = "queued", b = sq PROVE BatchPays(b)' = BatchPays(b) \cup {n.pay}
  <2>1. n.pay \notin Reversed("queued")
    BY <1>1, <1>9, VoidedIsPaid DEF RIInv
  <2>2. BatchRows(b)' = BatchRows(b) \cup {n}
    BY <1>1, <1>2, <1>9, <2>1 DEF BatchRows
  <2> QED
    BY <2>2 DEF BatchPays
<1>10. ASSUME NEW b, n.kind # "start" \/ b # sq PROVE ConsumedBy(b)' = ConsumedBy(b)
  BY <1>1, <1>10 DEF ConsumedBy
<1>11. ConsumedBy(sq) = {}
  <2>1. \A e \in log : e.kind = "start" => e.batch < sq /\ e.batch \in Nat
    BY <1>3 DEF RIInv, LogInOrder, EventFits, EventType
  <2>2. \A k \in Nat : k < sq => k # sq
    BY <1>3
  <2> HIDE DEF sq
  <2> QED
    BY <2>1, <2>2 DEF ConsumedBy
<1>12. ASSUME NEW b, n.kind = "start", b = sq PROVE ConsumedBy(b)' = {n}
  BY <1>1, <1>11, <1>12 DEF ConsumedBy
<1> HIDE DEF sq
<1> QED
  BY <1>4, <1>5, <1>6, <1>7, <1>8, <1>9, <1>10, <1>11, <1>12 DEF sq

\* The history after it.
LEMMA LogGrows ==
    ASSUME RIInv, NEW n, NewEvent(n), svc' \in Rows,
           IF n.kind = "start" THEN svc'.seq = svc.seq + 1 /\ n.after = BatchPays(svc.seq) ELSE svc'.seq = svc.seq,
           n.kind = "reset" => n.after = {n.pay},
           n.kind # "queued" => UsedUp(n.before) /\ n.before.used <= Quota(n.before.term) /\ n.before.term # {}
    PROVE  LogInOrder'
<1>1. /\ n \in EventType /\ n.at = svc.eseq + 1 /\ n.batch = svc.seq /\ log' = log \cup {n} /\ svc'.eseq = svc.eseq + 1
      /\ n.kind # "start" => n.pay \in Pays /\ ~Paid(n.pay)
  BY DEF NewEvent
<1>2. LogInOrder /\ svc \in Rows /\ svc.eseq \in Nat /\ svc.seq \in Nat /\ log \subseteq EventType
  BY DEF RIInv, HistoryTyped, Rows
<1>3. \A e \in log : e.at \in 1..svc.eseq /\ e.at \in Nat /\ e.batch \in Nat /\ (e.kind = "start" => e.batch < svc.seq)
  BY <1>2 DEF LogInOrder, Numbered, EventFits, EventType
<1>4. Numbered'
  <2>1. \A e \in log' : e.at \in 1..svc'.eseq
    BY <1>1, <1>2, <1>3
  <2>2. \A e, f \in log' : e.at = f.at => e = f
    BY <1>1, <1>2, <1>3 DEF LogInOrder, Numbered
  <2> QED
    BY <2>1, <2>2 DEF Numbered
<1>5. ASSUME NEW e \in log' PROVE EventFits(e)'
  <2>0. UsedUp(e.before)' <=> UsedUp(e.before)
    BY DEF UsedUp
  <2>1. CASE e = n
    <3>1. n.kind = "start" => BatchPays(e.batch)' = BatchPays(e.batch)
      BY <2>1, Growth
    <3> QED
      BY <1>1, <1>2, <2>0, <2>1, <3>1 DEF EventFits
  <2>2. CASE e \in log
    <3>1. EventFits(e)
      BY <1>2, <2>2 DEF LogInOrder
    <3>2. e.kind = "start" => BatchPays(e.batch)' = BatchPays(e.batch)
      <4>1. e.kind = "start" => e.batch # svc.seq
        BY <1>2, <1>3, <2>2
      <4> QED
        BY <4>1, Growth
    <3>3. svc'.seq \in Nat /\ svc.seq <= svc'.seq /\ e.batch \in Nat
      BY <1>2, <1>3, <2>2
    <3> QED
      BY <1>2, <2>0, <3>1, <3>2, <3>3 DEF EventFits
  <2> QED
    BY <1>1, <2>1, <2>2
<1>6. OnceEach'
  <2>1. \A e, f \in log' : e.kind # "start" /\ f.kind # "start" /\ e.pay = f.pay => e = f
    BY <1>1, <1>2 DEF LogInOrder, OnceEach, Paid
  <2>2. \A e, f \in log' : e.kind = "start" /\ f.kind = "start" /\ e.batch = f.batch => e = f
    <3>1. \A e \in log : e.kind = "start" => e.batch # svc.seq
      BY <1>2, <1>3
    <3> QED
      BY <1>1, <1>2, <3>1 DEF LogInOrder, OnceEach
  <2> QED
    BY <2>1, <2>2 DEF OnceEach
<1>9. ASSUME NEW k \in 0..svc'.seq - 1 PROVE ConsumedBy(k)' # {}
  <2>1. CASE k \in 0..svc.seq - 1
    <3>1. k # svc.seq /\ ConsumedBy(k) # {}
      BY <1>2, <2>1 DEF LogInOrder, BatchesStarted
    <3> QED
      BY <3>1, Growth
  <2>2. CASE k = svc.seq /\ n.kind = "start"
    BY <2>2, Growth
  <2>3. n.kind # "start" => svc'.seq = svc.seq
    OBVIOUS
  <2> QED
    BY <1>2, <2>1, <2>2, <2>3
<1> QED
  BY <1>4, <1>5, <1>6, <1>9 DEF LogInOrder, BatchesStarted


LEMMA ChainGrows ==
    ASSUME RIInv, NEW n, NewEvent(n), n.kind # "queued", n.before.term = svc.term, svc'.term = n.after
    PROVE  Chain' /\ TermIsLast'
<1>1. n.at = svc.eseq + 1 /\ Chain /\ TermIsLast /\ svc.eseq \in Nat
  BY DEF NewEvent, RIInv, HistoryTyped, Rows
<1>2. Stands' = Stands \cup {n}
  <2>1. 0 <= svc.eseq
    BY <1>1
  <2> QED
    BY <2>1, Growth DEF Stands
<1>3. \A e \in Stands : e.at \in Nat /\ e.at < n.at
  <2>1. \A e \in log : e.at \in 1..svc.eseq
    BY DEF RIInv, LogInOrder, Numbered
  <2>2. Stands \subseteq log
    BY DEF Stands, LaterStarts
  <2> QED
    BY <1>1, <2>1, <2>2
<1>4. \A e, f \in Stands : Before(e, f) => Before(e, f)'
  BY <1>1, <1>2, <1>3 DEF Before
<1>5. \A e \in Stands : IsLast(e) => Before(e, n)'
  BY <1>1, <1>2, <1>3 DEF Before, IsLast
<1>6. IsLast(n)'
  BY <1>1, <1>2, <1>3 DEF IsLast
<1>7. TermIsLast'
  BY <1>2, <1>6 DEF TermIsLast
<1>8. ASSUME NEW f \in Stands'
      PROVE  \/ \E e \in Stands' : Before(e, f)' /\ f.before.term = e.after
             \/ (\A g \in Stands' : g.at >= f.at) /\ f.before.term = {Sale}
  <2>1. CASE f = n
    <3>1. CASE \E e \in Stands : IsLast(e) /\ svc.term = e.after
      BY <1>2, <1>5, <2>1, <3>1
    <3>2. CASE Stands = {} /\ svc.term = {Sale}
      BY <1>1, <1>2, <2>1, <3>2
    <3> QED
      BY <1>1, <3>1, <3>2 DEF TermIsLast
  <2>2. CASE f \in Stands
    <3>1. CASE \E e \in Stands : Before(e, f) /\ f.before.term = e.after
      BY <1>2, <1>4, <2>2, <3>1
    <3>2. CASE (\A g \in Stands : g.at >= f.at) /\ f.before.term = {Sale}
      <4>1. n.at >= f.at
        BY <1>1, <1>3, <2>2
      <4> QED
        BY <1>2, <3>2, <4>1
    <3> QED
      BY <1>1, <2>2, <3>1, <3>2 DEF Chain
  <2> QED
    BY <1>2, <2>1, <2>2
<1> QED
  BY <1>7, <1>8 DEF Chain

LEMMA FirstStays ==
    ASSUME NEW S, NEW n, S # {}, n.at \in Nat, \A e \in S : e.at \in Nat /\ e.at < n.at
    PROVE  First(S \cup {n}) = First(S)
<1>1. \A e \in S : e \in First(S \cup {n}) <=> e \in First(S)
  BY DEF First
<1>2. n \notin First(S \cup {n}) /\ n \notin First(S)
  BY DEF First
<1> QED
  BY <1>1, <1>2 DEF First

\* The term a payment runs in was begun once and for all.
LEMMA TermOfStays ==
    ASSUME RIInv, NEW n, NewEvent(n), NEW q, NEW s, TermOf(q, s)
    PROVE  TermOf(q, s)' /\ s \in log
<1>1. PICK m \in log : Mine(q, m) /\ TermVia(m, s)
  BY DEF TermOf
<1>2. log' = log \cup {n}
  BY DEF NewEvent
<1>3. Mine(q, m)' /\ m \in log'
  BY <1>1, <1>2 DEF Mine
<1>4. TermVia(m, s)' /\ s \in log
  <2>1. CASE m.kind = "reset" /\ s = m
    BY <1>1, <2>1 DEF TermVia
  <2>2. CASE m.kind # "reset" /\ s \in ConsumedBy(m.batch)
    <3>1. m.batch # svc.seq
      BY <2>2, Growth
    <3>2. ConsumedBy(m.batch)' = ConsumedBy(m.batch)
      BY <3>1, Growth
    <3> QED
      BY <2>2, <3>2 DEF TermVia, ConsumedBy
  <2> QED
    BY <1>1, <2>1, <2>2 DEF TermVia
<1> QED
  BY <1>3, <1>4 DEF TermOf

LEMMA SupersededNext ==
    (\A p, s : LogInOrder /\ TermOf(p, s) /\ LaterStarts(s.at) # {} =>
        PlanOf(p) = [case |-> "superseded", start |-> {s}, next |-> First(LaterStarts(s.at)), queue |-> {}])'
<1>1. \A p, s : LogInOrder /\ TermOf(p, s) /\ LaterStarts(s.at) # {} =>
        PlanOf(p) = [case |-> "superseded", start |-> {s}, next |-> First(LaterStarts(s.at)), queue |-> {}]
  BY SupersededIs
<1> QED
  BY <1>1, PTL

LEMMA VoidsGrow ==
    ASSUME RIInv, NEW n, NewEvent(n), LogInOrder', ~IsHeld, NEW q \in Pays
    PROVE  VoidFits(q)'
<1>1. log' = log \cup {n} /\ void' = void /\ n.at = svc.eseq + 1 /\ VoidFits(q) /\ LogInOrder /\ svc.eseq \in Nat /\ log \subseteq EventType
  BY DEF NewEvent, RIInv, HistoryTyped, Rows
<1>2. Paid(q) => Paid(q)'
  BY <1>1 DEF Paid
<1>3. ASSUME void[q].state = "held" PROVE PlanOf(q)' = void[q].bound
  <2>1. void[q].bound.case = "superseded" /\ PlanOf(q) = void[q].bound /\ Paid(q)
    BY <1>1, <1>3 DEF IsHeld, HoldOf, VoidFits
  <2>2. PICK s : TermOf(q, s) /\ LaterStarts(s.at) # {}
    BY <1>1, <2>1, PlanCases
  <2>3. TermOf(q, s)' /\ s \in log
    BY <2>2, TermOfStays
  <2>4. PlanOf(q) = [case |-> "superseded", start |-> {s}, next |-> First(LaterStarts(s.at)), queue |-> {}]
    BY <1>1, <2>2, SupersededIs
  <2>5. s.at \in Nat /\ s.at <= svc.eseq
    BY <1>1, <2>3 DEF LogInOrder, Numbered
  <2>6. LaterStarts(s.at)' # {} /\ First(LaterStarts(s.at))' = First(LaterStarts(s.at))
    <3>1. CASE n.kind = "queued"
      <4>1. LaterStarts(s.at)' = LaterStarts(s.at)
        BY <3>1, Growth
      <4> QED
        BY <2>2, <4>1 DEF First
    <3>2. CASE n.kind # "queued"
      <4>1. LaterStarts(s.at)' = LaterStarts(s.at) \cup {n}
        BY <2>5, <3>2, Growth
      <4>2. \A e \in LaterStarts(s.at) : e.at \in Nat /\ e.at < n.at
        BY <1>1 DEF LaterStarts, LogInOrder, Numbered
      <4>3. First(LaterStarts(s.at) \cup {n}) = First(LaterStarts(s.at))
        <5>1. n.at \in Nat
          BY <1>1
        <5> QED
          BY <2>2, <4>2, <5>1, FirstStays
      <4>4. First(LaterStarts(s.at))' = First(LaterStarts(s.at) \cup {n})
        BY <4>1 DEF First
      <4> QED
        BY <4>1, <4>3, <4>4
    <3> QED
      BY <3>1, <3>2
  <2>7. PlanOf(q)' = [case |-> "superseded", start |-> {s}, next |-> First(LaterStarts(s.at))', queue |-> {}]
    BY <1>1, <2>3, <2>6, SupersededNext
  <2> QED
    BY <2>1, <2>4, <2>6, <2>7
<1>4. ASSUME NEW s, StartOf(q, s) PROVE StartOf(q, s)'
  <2>1. CASE s.kind = "reset"
    BY <1>1, <1>4, <2>1 DEF StartOf
  <2>2. CASE s.kind = "start"
    <3>1. s \in log /\ BatchPays(s.batch) = {q} /\ \E m \in log : m.kind = "queued" /\ m.pay = q /\ m.batch = s.batch
      BY <1>4, <2>2 DEF StartOf
    <3>2. s.batch # svc.seq
      BY <2>2, <3>1, Growth DEF ConsumedBy
    <3>3. BatchPays(s.batch)' = BatchPays(s.batch)
      BY <3>2, Growth
    <3> QED
      BY <1>1, <2>2, <3>1, <3>3 DEF StartOf
  <2> QED
    BY <1>4, <2>1, <2>2 DEF StartOf
<1>5. \A m \in log : Mine(q, m) => Mine(q, m)'
  BY <1>1 DEF Mine
<1> QED
  BY <1>1, <1>2, <1>3, <1>4, <1>5 DEF VoidFits


-----------------------------------------------------------------------------
LEMMA RenewStep == ASSUME RIInv, Serial, NEW p \in Pays, RenewFor(p) PROVE RIInv'
<1>1. /\ p \in hplan.pays /\ ~Paid(p) /\ ~IsHeld /\ hplan' = hplan /\ reader' = reader /\ void' = void
      /\ \/ /\ RunsOut(svc) /\ Idle
            /\ svc' = [svc EXCEPT !.term = {p}, !.used = 0, !.eseq = @ + 1]
            /\ log' = log \cup {Contribution("reset", p)}
         \/ /\ ~RunsOut(svc)
            /\ svc' = [svc EXCEPT !.queue = @ \cup {p}, !.eseq = @ + 1]
            /\ log' = log \cup {Contribution("queued", p)}
  BY DEF RenewFor, Serial, Happens
<1>2. HistoryTyped /\ svc \in Rows /\ svc.term # {} /\ svc.used <= Quota(svc.term) /\ QueueIsOpenBatch
  BY DEF RIInv, HistoryTyped
<1>3. svc.term \in SUBSET (Pays \cup {Sale}) /\ svc.queue \in SUBSET Pays /\ svc.eseq \in Nat /\ svc.seq \in Nat /\ svc.used \in Nat
  BY <1>2 DEF Rows
<1>4. OneVoid'
  BY <1>1 DEF RIInv, OneVoid
<1>5. CASE RunsOut(svc) /\ Idle /\ svc' = [svc EXCEPT !.term = {p}, !.used = 0, !.eseq = @ + 1]
           /\ log' = log \cup {Contribution("reset", p)}
  <2>1. PICK n : n = Contribution("reset", p)
    OBVIOUS
  <2>2. /\ n.kind = "reset" /\ n.pay = p /\ n.at = svc.eseq + 1 /\ n.batch = svc.seq /\ n.before = svc /\ n.after = {p}
        /\ n \in EventType
    BY <1>2, <1>3, <2>1 DEF Contribution, EventType, Kinds
  <2>3. svc' \in Rows /\ svc'.term = {p} /\ svc'.used = 0 /\ svc'.eseq = svc.eseq + 1 /\ svc'.seq = svc.seq /\ svc'.queue = svc.queue
    <3>1. svc' = [term |-> {p}, used |-> 0, queue |-> svc.queue, seq |-> svc.seq, eseq |-> svc.eseq + 1]
      BY <1>2, <1>5 DEF Rows
    <3>2. {p} \in SUBSET (Pays \cup {Sale})
      OBVIOUS
    <3> QED
      BY <1>3, <3>1, <3>2 DEF Rows
  <2>4. NewEvent(n)
    BY <1>1, <1>5, <2>1, <2>2, <2>3 DEF NewEvent
  <2>5. UsedUp(svc)
    BY <1>5 DEF RunsOut, UsedUp
  <2>6. LogInOrder'
    BY <1>2, <2>2, <2>3, <2>4, <2>5, LogGrows
  <2>7. Chain' /\ TermIsLast'
    BY <2>2, <2>3, <2>4, ChainGrows
  <2>8. QueueIsOpenBatch'
    <3>1. \A b : BatchPays(b)' = BatchPays(b)
      BY <2>2, <2>4, Growth
    <3>2. BatchPays(svc.seq)' = BatchPays(svc.seq)
      BY <2>3, <3>1 DEF BatchPays, BatchRows
    <3> QED
      BY <1>2, <2>3, <3>2 DEF QueueIsOpenBatch
  <2>9. HistoryTyped'
    <3>1. svc'.used <= Quota(svc'.term)
      <4>1. Quota({p}) = 1
        BY QuotaOfOne
      <4> QED
        BY <2>3, <4>1
    <3>2. log' \subseteq EventType
      BY <1>2, <2>2, <2>4 DEF HistoryTyped, NewEvent
    <3> QED
      BY <1>1, <1>2, <2>3, <3>1, <3>2 DEF HistoryTyped
  <2>10. \A c \in Readers : ReaderFits(c)'
    BY <1>1, <1>5 DEF ReaderFits, Idle
  <2>11. \A q \in Pays : VoidFits(q)'
    BY <1>1, <2>4, <2>6, VoidsGrow
  <2> QED
    BY <1>4, <2>6, <2>7, <2>8, <2>9, <2>10, <2>11 DEF RIInv
<1>6. CASE ~RunsOut(svc) /\ svc' = [svc EXCEPT !.queue = @ \cup {p}, !.eseq = @ + 1]
           /\ log' = log \cup {Contribution("queued", p)}
  <2>1. PICK n : n = Contribution("queued", p)
    OBVIOUS
  <2>2. /\ n.kind = "queued" /\ n.pay = p /\ n.at = svc.eseq + 1 /\ n.batch = svc.seq /\ n.before = svc /\ n.after = svc.term
        /\ n \in EventType
    BY <1>2, <1>3, <2>1 DEF Contribution, EventType, Kinds
  <2>3. svc' \in Rows /\ svc'.term = svc.term /\ svc'.used = svc.used /\ svc'.eseq = svc.eseq + 1 /\ svc'.seq = svc.seq /\ svc'.queue = svc.queue \cup {p}
    <3>1. svc' = [term |-> svc.term, used |-> svc.used, queue |-> svc.queue \cup {p}, seq |-> svc.seq, eseq |-> svc.eseq + 1]
      BY <1>2, <1>6 DEF Rows
    <3>2. svc.queue \cup {p} \in SUBSET Pays
      BY <1>3
    <3> QED
      BY <1>3, <3>1, <3>2 DEF Rows
  <2>4. NewEvent(n)
    BY <1>1, <1>6, <2>1, <2>2, <2>3 DEF NewEvent
  <2>5. ~UsedUp(svc)
    BY <1>6 DEF RunsOut, UsedUp
  <2>6. LogInOrder'
    BY <1>2, <2>2, <2>3, <2>4, LogGrows
  <2>7. Chain' /\ TermIsLast'
    <3>1. Stands' = Stands
      BY <2>2, <2>4, Growth DEF Stands
    <3> QED
      BY <2>3, <3>1 DEF RIInv, Chain, TermIsLast, Before, IsLast
  <2>8. QueueIsOpenBatch'
    <3>1. PICK b : b = svc.seq
      OBVIOUS
    <3>2. BatchPays(b)' = BatchPays(b) \cup {p}
      BY <2>2, <2>4, <3>1, Growth
    <3>3. BatchPays(svc.seq)' = BatchPays(b)'
      BY <2>3, <3>1 DEF BatchPays, BatchRows
    <3> QED
      BY <1>2, <2>3, <3>1, <3>2, <3>3 DEF QueueIsOpenBatch
  <2>9. HistoryTyped'
    <3>1. svc'.used <= Quota(svc'.term)
      BY <1>2, <2>3
    <3>2. log' \subseteq EventType
      BY <1>2, <2>2, <2>4 DEF HistoryTyped, NewEvent
    <3> QED
      BY <1>1, <1>2, <2>3, <3>1, <3>2 DEF HistoryTyped
  <2>10. ASSUME NEW c \in Readers PROVE ReaderFits(c)'
    <3>1. ReaderFits(c) /\ reader'[c] = reader[c] /\ svc'.seq = svc.seq
      BY <1>1, <2>3 DEF RIInv
    <3> QED
      BY <2>5, <3>1 DEF ReaderFits
  <2>11. \A q \in Pays : VoidFits(q)'
    BY <1>1, <2>4, <2>6, VoidsGrow
  <2> QED
    BY <1>4, <2>6, <2>7, <2>8, <2>9, <2>10, <2>11 DEF RIInv
<1> QED
  BY <1>1, <1>5, <1>6

LEMMA CommitStep == ASSUME RIInv, NEW c \in Readers, Commit(c) PROVE RIInv'
<1> DEFINE copy == reader[c].copy
<1>1. reader[c].pc = "ready" /\ ToIdle(c) /\ hplan' = hplan /\ void' = void
  BY DEF Commit
<1>2. HistoryTyped /\ svc \in Rows /\ QueueIsOpenBatch /\ hplan \in HPlan /\ svc.term # {} /\ copy \in Rows
      /\ reader \in [Readers -> Reading]
  BY DEF RIInv, HistoryTyped, Reading
<1>3. svc.term \in SUBSET (Pays \cup {Sale}) /\ svc.queue \in SUBSET Pays /\ svc.eseq \in Nat /\ svc.seq \in Nat
  BY <1>2 DEF Rows
<1>4. OneVoid'
  BY <1>1 DEF RIInv, OneVoid
<1>5. CASE ~Applies(copy)
  <2>1. svc' = svc /\ log' = log
    BY <1>5 DEF Commit
  <2> QED
    BY <1>1, <1>2, <2>1, GoesIdle
<1>6. CASE Applies(copy)
  <2>0. ReaderFits(c) /\ svc.seq = copy.seq /\ ~IsHeld
    BY <1>6 DEF RIInv, Applies
  <2>1. /\ UsedUp(copy) /\ copy.used <= Quota(svc.term) /\ copy.term = svc.term /\ copy.queue = svc.queue /\ copy.eseq = svc.eseq
        /\ copy.queue # {}
    BY <1>1, <2>0 DEF ReaderFits
  <2>2. PICK n : n = [kind |-> "start", pay |-> Sale, at |-> copy.eseq + 1, batch |-> copy.seq, before |-> copy, after |-> copy.queue]
    OBVIOUS
  <2>3. svc' = Started(copy) /\ log' = log \cup {n}
    BY <1>6, <2>2 DEF Commit
  <2>4. /\ n.kind = "start" /\ n.at = svc.eseq + 1 /\ n.batch = svc.seq /\ n.before = copy /\ n.after = svc.queue
        /\ n \in EventType
    BY <1>2, <1>3, <2>0, <2>1, <2>2 DEF EventType, Kinds
  <2>5. svc' \in Rows /\ svc'.term = svc.queue /\ svc'.used = 0 /\ svc'.eseq = svc.eseq + 1 /\ svc'.seq = svc.seq + 1 /\ svc'.queue = {}
    BY <1>3, <2>0, <2>1, <2>3 DEF Rows, Started
  <2>6. NewEvent(n)
    BY <1>1, <2>3, <2>4, <2>5 DEF NewEvent
  <2>7. LogInOrder'
    BY <1>2, <2>1, <2>4, <2>5, <2>6, LogGrows DEF QueueIsOpenBatch
  <2>8. Chain' /\ TermIsLast'
    BY <2>1, <2>4, <2>5, <2>6, ChainGrows
  <2>9. QueueIsOpenBatch'
    <3>1. PICK b : b = svc.seq + 1
      OBVIOUS
    <3>2. BatchPays(b)' = BatchPays(b)
      BY <2>4, <2>6, Growth
    <3>3. BatchPays(svc.seq)' = BatchPays(b)'
      BY <2>5, <3>1 DEF BatchPays, BatchRows
    <3>4. \A e \in log : e.kind = "queued" => e.batch # b
      <4>1. \A e \in log : e.kind = "queued" => e.batch <= svc.seq /\ e.batch \in Nat
        BY <1>2 DEF RIInv, LogInOrder, EventFits, HistoryTyped, EventType
      <4> QED
        BY <1>3, <3>1, <4>1
    <3>5. BatchPays(b) = {}
      BY <3>4 DEF BatchPays, BatchRows
    <3> QED
      BY <2>5, <3>2, <3>3, <3>5 DEF QueueIsOpenBatch
  <2>10. reader' \in [Readers -> Reading] /\ reader'[c].pc = "idle" /\ \A d \in Readers \ {c} : reader'[d] = reader[d]
    <3>1. [pc |-> "idle", copy |-> svc] \in Reading
      BY <1>2 DEF Reading
    <3> QED
      BY <1>1, <1>2, <3>1 DEF ToIdle
  <2>11. HistoryTyped'
    <3>1. svc'.used <= Quota(svc'.term)
      <4>1. Quota(svc.queue) \in Nat
        BY <1>3, QuotaOf
      <4> HIDE DEF Quota
      <4> QED
        BY <2>5, <4>1
    <3>2. log' \subseteq EventType
      BY <1>2, <2>3, <2>4 DEF HistoryTyped
    <3> QED
      BY <1>1, <1>2, <2>1, <2>5, <2>10, <3>1, <3>2 DEF HistoryTyped
  <2>12. ASSUME NEW d \in Readers PROVE ReaderFits(d)'
    <3>1. CASE d = c
      BY <2>10, <3>1 DEF ReaderFits
    <3>2. CASE d # c
      <4>1. reader'[d] = reader[d] /\ ReaderFits(d) /\ reader[d].copy.seq \in Nat
        BY <1>2, <2>10, <3>2 DEF RIInv, Reading, Rows
      <4>2. reader[d].copy.seq <= svc.seq => reader[d].copy.seq <= svc'.seq /\ reader[d].copy.seq # svc'.seq
        BY <1>3, <2>5, <4>1
      <4> QED
        BY <4>1, <4>2 DEF ReaderFits
    <3> QED
      BY <3>1, <3>2
  <2>13. \A q \in Pays : VoidFits(q)'
    BY <2>0, <2>6, <2>7, VoidsGrow
  <2> QED
    BY <1>4, <2>7, <2>8, <2>9, <2>11, <2>12, <2>13 DEF RIInv
<1> QED
  BY <1>5, <1>6


-----------------------------------------------------------------------------
(* The renewal step of a void *)

\* What every one of its cases has: p alone is under way, and is done now.
Voids(p) ==
    /\ void[p].state = "held" /\ PlanOf(p) = void[p].bound /\ \A c \in Readers : reader[c].pc # "ready"
    /\ void' = [void EXCEPT ![p] = [state |-> "done", bound |-> void[p].bound]] /\ UNCHANGED <<hplan, log, reader>>

LEMMA VoidedNow ==
    ASSUME RIInv, NEW p \in Pays, Voids(p)
    PROVE  /\ void' \in [Pays -> Voiding] /\ void'[p].state = "done" /\ void'[p].bound = void[p].bound
           /\ \A q \in Pays \ {p} : void'[q] = void[q] /\ void[q].state \notin {"confirmed", "held"}
           /\ \A case : Reversed(case)' = IF void[p].bound.case = case THEN Reversed(case) \cup {p} ELSE Reversed(case)
           /\ Undone' = IF void[p].bound.case = "current" THEN Undone \cup void[p].bound.start ELSE Undone
           /\ OneVoid' /\ Paid(p) /\ void[p].bound.case \in {"superseded", "current", "queued"}
<1>1. void \in [Pays -> Voiding] /\ OneVoid /\ VoidFits(p)
  BY DEF RIInv, HistoryTyped
<1>2. void[p].state = "held" /\ void' = [void EXCEPT ![p] = [state |-> "done", bound |-> void[p].bound]]
  BY DEF Voids
<1>3. void' \in [Pays -> Voiding]
  <2>1. [state |-> "done", bound |-> void[p].bound] \in Voiding
    BY <1>1 DEF Voiding
  <2> QED
    BY <1>1, <1>2, <2>1
<1>4. void'[p].state = "done" /\ void'[p].bound = void[p].bound
  BY <1>1, <1>2
<1>5. \A q \in Pays \ {p} : void'[q] = void[q] /\ void[q].state \notin {"confirmed", "held"}
  BY <1>1, <1>2 DEF OneVoid
<1>6. \A case : Reversed(case)' = IF void[p].bound.case = case THEN Reversed(case) \cup {p} ELSE Reversed(case)
  BY <1>2, <1>4, <1>5 DEF Reversed
<1>7. Undone' = IF void[p].bound.case = "current" THEN Undone \cup void[p].bound.start ELSE Undone
  <2>1. Reversed("current")' = IF void[p].bound.case = "current" THEN Reversed("current") \cup {p} ELSE Reversed("current")
    BY <1>6
  <2>2. \A q \in Pays : void'[q].bound = void[q].bound
    BY <1>4, <1>5
  <2>3. Reversed("current") \subseteq Pays
    BY DEF Reversed
  <2>4. PICK new : new = Reversed("current")'
    OBVIOUS
  <2>5. new \subseteq Pays
    BY <2>1, <2>3, <2>4
  <2>6. Undone' = UNION {void[q].bound.start : q \in new}
    <3>1. Undone' = UNION {void'[q].bound.start : q \in new}
      BY <2>4 DEF Undone
    <3>2. {void'[q].bound.start : q \in new} = {void[q].bound.start : q \in new}
      BY <2>2, <2>5
    <3> QED
      BY <3>1, <3>2
  <2>7. CASE void[p].bound.case = "current"
    <3>1. new = Reversed("current") \cup {p}
      BY <2>1, <2>4, <2>7
    <3>2. \A x : (\E q \in new : x \in void[q].bound.start) <=>
                (\E q \in Reversed("current") : x \in void[q].bound.start) \/ x \in void[p].bound.start
      BY <3>1
    <3>3. PICK now : now = Undone'
      OBVIOUS
    <3>4. \A x : x \in now <=> \E q \in new : x \in void[q].bound.start
      BY <2>6, <3>3
    <3>5. \A x : x \in Undone <=> \E q \in Reversed("current") : x \in void[q].bound.start
      BY DEF Undone
    <3>6. \A x : x \in now <=> x \in Undone \cup void[p].bound.start
      BY <3>2, <3>4, <3>5
    <3> QED
      BY <2>7, <3>3, <3>6
  <2>8. CASE void[p].bound.case # "current"
    BY <2>1, <2>4, <2>6, <2>8 DEF Undone
  <2> QED
    BY <2>7, <2>8
<1>8. OneVoid'
  BY <1>4, <1>5 DEF OneVoid
<1> QED
  BY <1>1, <1>2, <1>3, <1>4, <1>5, <1>6, <1>7, <1>8 DEF VoidFits

\* The voids that are done stay explained while the batches that started keep
\* their payments.
LEMMA OthersFit ==
    ASSUME RIInv, NEW p \in Pays, Voids(p), \A b : b # svc.seq => BatchPays(b)' = BatchPays(b), NEW q \in Pays \ {p}
    PROVE  VoidFits(q)'
<1>1. VoidFits(q) /\ void'[q] = void[q] /\ void[q].state # "held" /\ log' = log
  BY VoidedNow DEF RIInv, Voids
<1>2. ASSUME NEW s, StartOf(q, s) PROVE StartOf(q, s)'
  <2>1. CASE s.kind = "reset"
    BY <1>1, <1>2, <2>1 DEF StartOf
  <2>2. CASE s.kind = "start"
    <3>1. s \in log /\ BatchPays(s.batch) = {q} /\ \E m \in log : m.kind = "queued" /\ m.pay = q /\ m.batch = s.batch
      BY <1>2, <2>2 DEF StartOf
    <3>2. s.batch # svc.seq
      BY <2>2, <3>1 DEF RIInv, LogInOrder, EventFits, HistoryTyped, Rows, EventType
    <3> QED
      BY <1>1, <2>2, <3>1, <3>2 DEF StartOf
  <2> QED
    BY <1>2, <2>1, <2>2 DEF StartOf
<1>3. (Paid(q)' <=> Paid(q)) /\ \A m : Mine(q, m)' <=> Mine(q, m)
  BY <1>1 DEF Paid, Mine
<1> QED
  BY <1>1, <1>2, <1>3 DEF VoidFits


LEMMA ApplySuperseded ==
    ASSUME RIInv, NEW p \in Pays, Voids(p), void[p].bound.case = "superseded", svc' = svc
    PROVE  RIInv'
<1>1. log' = log /\ reader' = reader /\ hplan' = hplan
  BY DEF Voids
<1>2. PlanStays
  BY <1>1, VoidedNow DEF PlanStays
<1>3. HistoryTyped'
  BY <1>1, VoidedNow DEF RIInv, HistoryTyped
<1>4. \A c \in Readers : ReaderFits(c)'
  BY <1>1 DEF RIInv, ReaderFits
<1>5. \A b : BatchPays(b)' = BatchPays(b)
  BY <1>2, PlanUnchanged
<1>6. ASSUME NEW q \in Pays PROVE VoidFits(q)'
  <2>1. CASE q = p
    <3>1. Paid(p)' /\ void'[p].state = "done" /\ void'[p].bound.case = "superseded"
      BY <1>1, VoidedNow DEF Paid
    <3> QED
      BY <2>1, <3>1 DEF VoidFits
  <2>2. CASE q # p
    BY <1>5, <2>2, OthersFit
  <2> QED
    BY <2>1, <2>2
<1>7. OneVoid'
  BY VoidedNow
<1> QED
  BY <1>2, <1>3, <1>4, <1>6, <1>7, QuietStep

LEMMA ApplyQueued ==
    ASSUME RIInv, NEW p \in Pays, Voids(p), void[p].bound.case = "queued", svc' = [svc EXCEPT !.queue = @ \ {p}]
    PROVE  RIInv'
<1>1. log' = log /\ reader' = reader /\ hplan' = hplan /\ PlanOf(p) = void[p].bound
  BY DEF Voids
<1>2. HistoryTyped /\ LogInOrder /\ Chain /\ TermIsLast /\ QueueIsOpenBatch /\ svc \in Rows /\ log \subseteq EventType
  BY DEF RIInv, HistoryTyped
<1>3. PICK m \in log : Mine(p, m) /\ m.kind = "queued" /\ m.batch = svc.seq
  BY <1>1, <1>2, VoidedNow, PlanCases
<1>4. svc' \in Rows /\ svc'.term = svc.term /\ svc'.used = svc.used /\ svc'.seq = svc.seq /\ svc'.eseq = svc.eseq /\ svc'.queue = svc.queue \ {p}
  BY <1>2 DEF Rows
<1>5. Undone' = Undone /\ Reversed("queued")' = Reversed("queued") \cup {p}
  BY VoidedNow
<1>6. \A b : BatchPays(b)' = BatchPays(b) \ {p}
  <2> SUFFICES ASSUME NEW b PROVE BatchPays(b)' = BatchPays(b) \ {p}
    OBVIOUS
  <2>1. BatchRows(b)' = {e \in BatchRows(b) : e.pay # p}
    BY <1>1, <1>5 DEF BatchRows
  <2> QED
    BY <2>1 DEF BatchPays
<1>7. \A b : b # svc.seq => p \notin BatchPays(b)
  <2>1. \A e \in log : e.kind = "queued" /\ e.pay = p => e = m
    BY <1>2, <1>3 DEF LogInOrder, OnceEach, Mine
  <2> QED
    BY <1>3, <2>1 DEF BatchPays, BatchRows
<1>8. \A b : b # svc.seq => BatchPays(b)' = BatchPays(b)
  BY <1>6, <1>7
<1>9. (\A k : LaterStarts(k)' = LaterStarts(k) /\ ConsumedBy(k)' = ConsumedBy(k)) /\ Stands' = Stands
  BY <1>1, <1>5 DEF LaterStarts, ConsumedBy, Stands
<1>10. LogInOrder'
  <2>1. Numbered' /\ OnceEach' /\ BatchesStarted'
    BY <1>1, <1>2, <1>4, <1>9 DEF LogInOrder, Numbered, OnceEach, BatchesStarted
  <2>2. ASSUME NEW e \in log PROVE EventFits(e)'
    <3>1. EventFits(e) /\ (UsedUp(e.before)' <=> UsedUp(e.before))
      BY <1>2 DEF LogInOrder, UsedUp
    <3>2. e.kind = "start" => e.batch # svc.seq
      BY <1>2, <3>1 DEF EventFits, EventType, Rows
    <3>3. e.kind = "start" => BatchPays(e.batch)' = BatchPays(e.batch)
      BY <1>8, <3>2
    <3> QED
      BY <1>4, <3>1, <3>3 DEF EventFits
  <2> QED
    BY <1>1, <2>1, <2>2 DEF LogInOrder
<1>11. Chain' /\ TermIsLast'
  BY <1>2, <1>4, <1>9 DEF Chain, TermIsLast, Before, IsLast
<1>12. QueueIsOpenBatch'
  <2>1. PICK b : b = svc.seq
    OBVIOUS
  <2>2. BatchPays(svc.seq)' = BatchPays(b)'
    BY <1>4, <2>1 DEF BatchPays, BatchRows
  <2> QED
    BY <1>2, <1>4, <1>6, <2>1, <2>2 DEF QueueIsOpenBatch
<1>13. HistoryTyped'
  BY <1>1, <1>2, <1>4, VoidedNow DEF HistoryTyped
<1>14. ASSUME NEW c \in Readers PROVE ReaderFits(c)'
  <2>1. ReaderFits(c) /\ reader[c].pc # "ready" /\ reader' = reader
    BY DEF RIInv, Voids
  <2>2. UsedUp(svc)' <=> UsedUp(svc)
    BY <1>4 DEF UsedUp
  <2> QED
    BY <1>4, <2>1, <2>2 DEF ReaderFits
<1>15. ASSUME NEW q \in Pays PROVE VoidFits(q)'
  <2>1. CASE q = p
    <3>1. Paid(p)' /\ void'[p].state = "done" /\ void'[p].bound.case = "queued" /\ Mine(p, m)' /\ m \in log'
      BY <1>1, <1>3, VoidedNow DEF Paid, Mine
    <3> QED
      BY <1>3, <2>1, <3>1 DEF VoidFits
  <2>2. CASE q # p
    BY <1>8, <2>2, OthersFit
  <2> QED
    BY <2>1, <2>2
<1>16. OneVoid'
  BY VoidedNow
<1> QED
  BY <1>10, <1>11, <1>12, <1>13, <1>14, <1>15, <1>16 DEF RIInv


LEMMA RowWith ==
    ASSUME svc \in Rows, NEW t \in SUBSET (Pays \cup {Sale}), NEW u \in Nat, svc' = [svc EXCEPT !.term = t, !.used = u]
    PROVE  svc' \in Rows /\ svc'.term = t /\ svc'.used = u /\ svc'.seq = svc.seq /\ svc'.eseq = svc.eseq /\ svc'.queue = svc.queue
BY DEF Rows

LEMMA ApplyCurrent ==
    ASSUME RIInv, NEW p \in Pays, Voids(p), void[p].bound.case = "current",
           svc' = LET start == CHOOSE e \in void[p].bound.start : TRUE
                  IN  [svc EXCEPT !.term = start.before.term, !.used = start.before.used]
    PROVE  RIInv'
<1>1. log' = log /\ reader' = reader /\ hplan' = hplan /\ PlanOf(p) = void[p].bound /\ void[p].state = "held"
  BY DEF Voids
<1>2. HistoryTyped /\ LogInOrder /\ Chain /\ TermIsLast /\ QueueIsOpenBatch /\ svc \in Rows /\ log \subseteq EventType
      /\ \A q \in Pays : VoidFits(q)
  BY DEF RIInv, HistoryTyped
<1>3. PICK s : StartOf(p, s) /\ LaterStarts(s.at) = {} /\ svc.term = s.after /\ void[p].bound.start = {s}
  <2>1. PICK s : /\ StartOf(p, s) /\ LaterStarts(s.at) = {} /\ svc.term = s.after
                 /\ PlanOf(p) = [case |-> "current", start |-> {s}, next |-> {}, queue |-> {}]
    <3>1. Paid(p) /\ PlanOf(p).case = "current"
      BY <1>1, VoidedNow
    <3> QED
      BY <1>2, <3>1, PlanCases
  <2> QED
    BY <1>1, <2>1
<1>4. s \in log /\ s.kind \in {"start", "reset"} /\ s.at \in Nat /\ s.at >= 1 /\ s.before \in Rows /\ EventFits(s)
  BY <1>2, <1>3 DEF StartOf, LogInOrder, Numbered, EventType
<1>5. UsedUp(s.before) /\ s.before.used <= Quota(s.before.term) /\ s.before.term # {} /\ svc.term = {p}
  BY <1>3, <1>4 DEF EventFits, StartOf
<1>6. s.before.term \in SUBSET (Pays \cup {Sale}) /\ s.before.used \in Nat
  BY <1>4 DEF Rows
<1>7. svc' = [svc EXCEPT !.term = s.before.term, !.used = s.before.used]
  BY <1>3
<1>8. svc' \in Rows /\ svc'.term = s.before.term /\ svc'.used = s.before.used /\ svc'.seq = svc.seq /\ svc'.eseq = svc.eseq /\ svc'.queue = svc.queue
  <2>1. PICK t, u : t = s.before.term /\ u = s.before.used
    OBVIOUS
  <2>2. svc' = [svc EXCEPT !.term = t, !.used = u] /\ t \in SUBSET (Pays \cup {Sale}) /\ u \in Nat
    BY <1>6, <1>7, <2>1
  <2>3. svc' \in Rows /\ svc'.term = t /\ svc'.used = u /\ svc'.seq = svc.seq /\ svc'.eseq = svc.eseq /\ svc'.queue = svc.queue
    BY <1>2, <2>2, RowWith
  <2> QED
    BY <2>1, <2>3
<1>9. Undone' = Undone \cup {s} /\ Reversed("queued")' = Reversed("queued")
  BY <1>3, VoidedNow
<1>10. \A b : BatchPays(b)' = BatchPays(b) /\ ConsumedBy(b)' = ConsumedBy(b)
  BY <1>1, <1>9 DEF BatchPays, BatchRows, ConsumedBy
<1>11. s \in Stands
  <2>1. s \notin Undone
    <3> SUFFICES ASSUME s \in Undone PROVE FALSE
      OBVIOUS
    <3>1. PICK q \in Reversed("current") : s \in void[q].bound.start
      BY DEF Undone
    <3>2. q \in Pays /\ void[q].state = "done" /\ void[q].bound.case = "current" /\ VoidFits(q)
      BY <1>2, <3>1 DEF Reversed
    <3>3. StartOf(q, s)
      BY <3>1, <3>2 DEF VoidFits
    <3>4. q = p
      BY <1>3, <3>3 DEF StartOf
    <3> QED
      BY <1>1, <3>2, <3>4
  <2> QED
    BY <1>4, <2>1 DEF Stands, LaterStarts
<1>12. Stands' = Stands \ {s} /\ Stands \subseteq log
  BY <1>1, <1>9 DEF Stands, LaterStarts
<1>13. \A g \in Stands : g.at \in Nat /\ g.at <= s.at /\ (g # s => g.at < s.at)
  <2>1. \A g \in Stands : g.at \in Nat /\ ~(g.at > s.at)
    <3>1. \A g \in Stands : g \notin LaterStarts(s.at)
      BY <1>3
    <3>2. \A g \in log : g.at \in Nat
      BY <1>2 DEF EventType
    <3> QED
      BY <1>12, <3>1, <3>2 DEF Stands, LaterStarts
  <2>2. \A g \in Stands : g.at = s.at => g = s
    BY <1>2, <1>4, <1>12 DEF LogInOrder, Numbered
  <2> QED
    BY <1>4, <2>1, <2>2
<1>14. LogInOrder'
  <2>1. Numbered' /\ OnceEach' /\ BatchesStarted'
    BY <1>1, <1>2, <1>8, <1>10 DEF LogInOrder, Numbered, OnceEach, BatchesStarted
  <2>2. ASSUME NEW e \in log PROVE EventFits(e)'
    <3>1. EventFits(e) /\ (UsedUp(e.before)' <=> UsedUp(e.before))
      BY <1>2 DEF LogInOrder, UsedUp
    <3> QED
      BY <1>8, <1>10, <3>1 DEF EventFits
  <2> QED
    BY <1>1, <2>1, <2>2 DEF LogInOrder
<1>15. \A e, f \in Stands' : Before(e, f) => Before(e, f)'
  BY <1>12 DEF Before
<1>16. Chain'
  <2>1. ASSUME NEW f \in Stands'
        PROVE  \/ \E e \in Stands' : Before(e, f)' /\ f.before.term = e.after
               \/ (\A g \in Stands' : g.at >= f.at) /\ f.before.term = {Sale}
    <3>1. CASE \E e \in Stands : Before(e, f) /\ f.before.term = e.after
      <4>1. PICK e \in Stands : Before(e, f) /\ f.before.term = e.after
        BY <3>1
      <4>2. e # s
        BY <1>12, <1>13, <2>1, <4>1 DEF Before
      <4> QED
        BY <1>12, <1>15, <2>1, <4>1, <4>2
    <3>2. CASE (\A g \in Stands : g.at >= f.at) /\ f.before.term = {Sale}
      BY <1>12, <3>2
    <3> QED
      BY <1>2, <1>12, <2>1, <3>1, <3>2 DEF Chain
  <2> QED
    BY <2>1 DEF Chain
<1>17. TermIsLast'
  <2>1. CASE \E e \in Stands : Before(e, s) /\ s.before.term = e.after
    <3>1. PICK e \in Stands : Before(e, s) /\ s.before.term = e.after
      BY <2>1
    <3>2. e # s
      BY <1>13, <3>1 DEF Before
    <3>3. \A g \in Stands' : g.at <= e.at
      BY <1>12, <1>13, <3>1 DEF Before
    <3> QED
      BY <1>8, <1>12, <3>1, <3>2, <3>3 DEF TermIsLast, IsLast
  <2>2. CASE (\A g \in Stands : g.at >= s.at) /\ s.before.term = {Sale}
    <3>1. \A g \in Stands : g = s
      BY <1>4, <1>13, <2>2
    <3>2. Stands' = {}
      BY <1>12, <3>1
    <3> QED
      BY <1>8, <2>2, <3>2 DEF TermIsLast
  <2> QED
    BY <1>2, <1>11, <2>1, <2>2 DEF Chain
<1>18. QueueIsOpenBatch'
  <2>1. PICK b : b = svc.seq
    OBVIOUS
  <2>2. BatchPays(svc.seq)' = BatchPays(b)'
    BY <1>8, <2>1 DEF BatchPays, BatchRows
  <2> QED
    BY <1>2, <1>8, <1>10, <2>1, <2>2 DEF QueueIsOpenBatch
<1>19. HistoryTyped'
  BY <1>1, <1>2, <1>5, <1>8, VoidedNow DEF HistoryTyped
<1>20. ASSUME NEW c \in Readers PROVE ReaderFits(c)'
  <2>1. ReaderFits(c) /\ reader[c].pc # "ready" /\ reader' = reader
    BY DEF RIInv, Voids
  <2>2. UsedUp(svc)'
    BY <1>5, <1>8 DEF UsedUp
  <2>3. reader[c].copy.used <= Quota(svc.term) => reader[c].copy.used <= Quota(svc'.term)
    <3>1. Quota(svc.term) = 1
      BY <1>5, QuotaOfOne
    <3>2. Quota(s.before.term) \in Nat /\ Quota(s.before.term) >= 1
      BY <1>5, <1>6, QuotaOf
    <3>3. reader[c].copy.used \in Nat
      BY <1>2 DEF HistoryTyped, Reading, Rows
    <3>4. PICK u \in Nat, n \in Nat : u = reader[c].copy.used /\ n = Quota(s.before.term) /\ n >= 1
      BY <3>2, <3>3
    <3>5. Quota(svc'.term) = n
      BY <1>8, <3>4
    <3>6. u <= 1 => u <= n
      BY <3>4
    <3> HIDE DEF Quota
    <3> QED
      BY <3>1, <3>4, <3>5, <3>6
  <2> QED
    BY <1>8, <2>1, <2>2, <2>3 DEF ReaderFits
<1>21. ASSUME NEW q \in Pays PROVE VoidFits(q)'
  <2>1. CASE q = p
    <3>1. Paid(p)' /\ void'[p].state = "done" /\ void'[p].bound.case = "current" /\ void'[p].bound.start = {s}
      BY <1>1, <1>3, VoidedNow DEF Paid
    <3>2. StartOf(p, s)'
      BY <1>1, <1>3, <1>10 DEF StartOf
    <3> QED
      BY <2>1, <3>1, <3>2 DEF VoidFits
  <2>2. CASE q # p
    BY <1>10, <2>2, OthersFit
  <2> QED
    BY <2>1, <2>2
<1>22. OneVoid'
  BY VoidedNow
<1> QED
  BY <1>14, <1>16, <1>17, <1>18, <1>19, <1>20, <1>21, <1>22 DEF RIInv

LEMMA ApplyStep == ASSUME RIInv, Serial, NEW p \in Pays, ApplyVoid(p) PROVE RIInv'
<1>1. Voids(p)
  BY DEF ApplyVoid, Voids, SetVoid, Serial, Happens
<1>2. void[p].bound.case \in {"superseded", "current", "queued"}
  BY <1>1, VoidedNow
<1>3. svc' = CASE void[p].bound.case = "queued"  -> [svc EXCEPT !.queue = @ \ {p}]
               [] void[p].bound.case = "current" -> LET start == CHOOSE e \in void[p].bound.start : TRUE
                                                    IN [svc EXCEPT !.term = start.before.term,
                                                                   !.used = start.before.used]
               [] OTHER                          -> svc
  BY DEF ApplyVoid
<1>4. CASE void[p].bound.case = "queued"
  <2>1. svc' = [svc EXCEPT !.queue = @ \ {p}]
    BY <1>3, <1>4
  <2> QED
    BY <1>1, <1>4, <2>1, ApplyQueued
<1>5. CASE void[p].bound.case = "current"
  <2>1. svc' = LET start == CHOOSE e \in void[p].bound.start : TRUE
               IN  [svc EXCEPT !.term = start.before.term, !.used = start.before.used]
    BY <1>3, <1>5
  <2> QED
    BY <1>1, <1>5, <2>1, ApplyCurrent
<1>6. CASE void[p].bound.case = "superseded"
  <2>1. svc' = svc
    BY <1>3, <1>6
  <2> QED
    BY <1>1, <1>6, <2>1, ApplySuperseded
<1> QED
  BY <1>2, <1>4, <1>5, <1>6

\* Every step keeps the invariant.
LEMMA RIInvNext == RIInv /\ Serial /\ [HistoryNext]_historyvars => RIInv' /\ Serial'
<1> SUFFICES ASSUME RIInv, Serial, [HistoryNext]_historyvars PROVE RIInv' /\ Serial'
  OBVIOUS
<1>1. Serial'
  <2>1. hplan \in HPlan
    BY DEF RIInv, HistoryTyped
  <2>2. hplan'.events = hplan.events
    BY <2>1 DEF HPlan, HistoryNext, historyvars, Uses, RenewFor, Confirm, Block, ApplyVoid, Consumes, LoadService, Recheck, Commit, RollsBack
  <2> QED
    BY <2>2 DEF Serial
<1>2. CASE UNCHANGED historyvars
  <2>1. hplan' = hplan /\ svc' = svc /\ log' = log /\ reader' = reader /\ void' = void
    BY <1>2 DEF historyvars
  <2>2. PlanStays
    <3>1. DoneStay
      BY <2>1 DEF DoneStay
    <3> QED
      BY <2>1, <3>1, ReversedStay DEF PlanStays
  <2>3. HistoryTyped' /\ OneVoid' /\ \A c \in Readers : ReaderFits(c)'
    BY <2>1 DEF RIInv, HistoryTyped, OneVoid, ReaderFits
  <2>4. \A p \in Pays : VoidFits(p)'
    BY <2>1, <2>2, VoidsStay DEF RIInv
  <2>5. RIInv'
    BY <2>1, <2>2, <2>3, <2>4, QuietStep
  <2> QED
    BY <1>1, <2>5
<1>3. CASE HistoryNext
  <2>1. CASE Uses
    BY <1>1, <2>1, UsesStep
  <2>2. ASSUME NEW p \in Pays, RenewFor(p) \/ Confirm(p) \/ Block(p) \/ ApplyVoid(p) PROVE RIInv'
    BY <2>2, RenewStep, ConfirmStep, BlockStep, ApplyStep
  <2>3. ASSUME NEW c \in Readers, Consumes(c) \/ RollsBack(c) PROVE RIInv'
    BY <2>3, LoadStep, RecheckStep, CommitStep, RollsBackStep DEF Consumes
  <2> QED
    BY <1>1, <1>3, <2>1, <2>2, <2>3 DEF HistoryNext
<1> QED
  BY <1>2, <1>3


-----------------------------------------------------------------------------
(* What the invariant says *)

\* The first event of a set.
LEMMA Earliest ==
    ASSUME NEW S, S # {}, \A e \in S : e.at \in Nat
    PROVE  \E e \in S : \A f \in S : e.at <= f.at
<1> DEFINE T == {e.at : e \in S}
<1>1. T \subseteq Nat /\ T # {}
  OBVIOUS
<1> HIDE DEF T
<1>2. PICK x \in T : \A y \in T : ~(<<y, x>> \in OpToRel(<, Nat))
  BY <1>1, NatLessThanWellFounded, WFMin
<1>3. \A y \in T : ~(y < x)
  BY <1>1, <1>2 DEF OpToRel
<1>4. \A y \in T : x <= y
  BY <1>1, <1>3
<1> QED
  BY <1>2, <1>4 DEF T

LEMMA ExplainsNow == ASSUME RIInv PROVE HistoryExplainsService
<1>1. TermIsLast /\ QueueIsOpenBatch /\ Numbered
  BY DEF RIInv, LogInOrder
<1>2. Stands \subseteq log
  BY DEF Stands, LaterStarts
<1>3. CASE Stands = {}
  BY <1>1, <1>3 DEF HistoryExplainsService, TermIsLast, QueueIsOpenBatch, Stands
<1>4. CASE Stands # {}
  <2>1. PICK e \in Stands : IsLast(e) /\ svc.term = e.after
    BY <1>1, <1>4 DEF TermIsLast
  <2>2. \A f \in Stands : (\A g \in Stands : g.at <= f.at) <=> f = e
    <3>1. \A f \in Stands : f.at \in Nat
      BY <1>1, <1>2 DEF Numbered
    <3>2. \A f \in Stands : f.at = e.at => f = e
      BY <1>1, <1>2 DEF Numbered
    <3> QED
      BY <2>1, <3>1, <3>2 DEF IsLast
  <2>3. (CHOOSE f \in Stands : \A g \in Stands : g.at <= f.at) = e
    BY <2>2
  <2> QED
    BY <1>1, <1>4, <2>1, <2>3 DEF HistoryExplainsService, QueueIsOpenBatch, Stands
<1> QED
  BY <1>3, <1>4

\* Where the money of a payment is: in the batch it was queued for.
LEMMA InBatch ==
    ASSUME RIInv, NEW p, NEW m \in log, Mine(p, m)
    PROVE  \A b : p \in BatchPays(b) <=> m.kind = "queued" /\ m.batch = b /\ p \notin Reversed("queued")
<1> SUFFICES ASSUME NEW b PROVE p \in BatchPays(b) <=> m.kind = "queued" /\ m.batch = b /\ p \notin Reversed("queued")
  OBVIOUS
<1>1. \A e \in log : e.kind = "queued" /\ e.pay = p => e = m
  BY DEF RIInv, LogInOrder, OnceEach, Mine
<1>2. p \in BatchPays(b) <=> \E e \in log : e.kind = "queued" /\ e.batch = b /\ e.pay \notin Reversed("queued") /\ e.pay = p
  BY DEF BatchPays, BatchRows
<1> QED
  BY <1>1, <1>2 DEF Mine

\* A term that a payment is in, is one that its money began.
LEMMA InTerm ==
    ASSUME RIInv, NEW p \in Pays, NEW m \in log, Mine(p, m), NEW e \in log, e.kind # "queued", p \in e.after
    PROVE  TermVia(m, e) /\ p \notin Reversed("queued")
<1>1. EventFits(e) /\ e.kind \in {"reset", "start"} /\ m.kind # "start"
  BY DEF RIInv, LogInOrder, HistoryTyped, EventType, Kinds, Mine
<1>2. CASE e.kind = "reset"
  <2>1. e.pay = p
    BY <1>1, <1>2 DEF EventFits
  <2>2. e = m
    BY <1>2, <2>1 DEF RIInv, LogInOrder, OnceEach, Mine
  <2>3. p \notin Reversed("queued")
    <3>1. ASSUME p \in Reversed("queued") PROVE FALSE
      <4>1. PICK k \in log : Mine(p, k) /\ k.kind = "queued"
        BY <3>1 DEF RIInv, VoidFits, Reversed
      <4> QED
        BY <1>2, <2>2, <4>1 DEF RIInv, LogInOrder, OnceEach, Mine
    <3> QED
      BY <3>1
  <2> QED
    BY <1>2, <2>2, <2>3 DEF TermVia
<1>3. CASE e.kind = "start"
  <2>1. p \in BatchPays(e.batch)
    BY <1>1, <1>3 DEF EventFits
  <2>2. m.kind = "queued" /\ m.batch = e.batch /\ p \notin Reversed("queued")
    BY <2>1, InBatch
  <2> QED
    BY <1>3, <2>2 DEF TermVia, ConsumedBy
<1> QED
  BY <1>1, <1>2, <1>3

LEMMA OneTerm == ASSUME RIInv, NEW m, NEW s, NEW t, TermVia(m, s), TermVia(m, t) PROVE s = t
BY DEF TermVia, ConsumedBy, RIInv, LogInOrder, OnceEach

LEMMA StartIsTerm ==
    ASSUME RIInv, NEW p, NEW m \in log, Mine(p, m), NEW s, StartOf(p, s)
    PROVE  TermVia(m, s)
<1>1. CASE s.kind = "reset" /\ s.pay = p
  <2>1. s = m
    BY <1>1 DEF StartOf, RIInv, LogInOrder, OnceEach, Mine
  <2> QED
    BY <1>1, <2>1 DEF TermVia
<1>2. CASE s.kind = "start" /\ \E k \in log : k.kind = "queued" /\ k.pay = p /\ k.batch = s.batch
  <2>1. PICK k \in log : k.kind = "queued" /\ k.pay = p /\ k.batch = s.batch
    BY <1>2
  <2>2. k = m
    BY <2>1 DEF RIInv, LogInOrder, OnceEach, Mine
  <2> QED
    BY <1>2, <2>1, <2>2 DEF TermVia, ConsumedBy, StartOf
<1> QED
  BY <1>1, <1>2 DEF StartOf

\* A term that a payment alone began, or not alone: it was undone only by the
\* payment's own void.
LEMMA UndoneIsOwn ==
    ASSUME RIInv, NEW p \in Pays, NEW s, p \in s.after, s \in Undone
    PROVE  p \in Reversed("current") /\ void[p].bound.start = {s} /\ StartOf(p, s)
<1>1. PICK q \in Reversed("current") : s \in void[q].bound.start
  BY DEF Undone
<1>2. q \in Pays /\ void[q].state = "done" /\ void[q].bound.case = "current" /\ VoidFits(q)
  BY <1>1 DEF RIInv, Reversed
<1>3. StartOf(q, s) /\ void[q].bound.start = {s}
  BY <1>1, <1>2 DEF VoidFits
<1>4. s \in log /\ EventFits(s)
  BY <1>3 DEF RIInv, LogInOrder, StartOf
<1>5. q = p
  BY <1>3, <1>4 DEF StartOf, EventFits
<1> QED
  BY <1>1, <1>3, <1>5


\* A term that stands runs, or was used up before the next one.
LEMMA StandingLives ==
    ASSUME RIInv, NEW p, NEW s \in Stands, p \in s.after
    PROVE  p \in svc.term \/ Lived(p)
<1>1. Stands \subseteq log /\ \A e \in Stands : e.at \in Nat /\ EventFits(e) /\ e.kind # "queued"
  BY DEF Stands, LaterStarts, RIInv, LogInOrder, Numbered
<1>2. \A e, f \in Stands : e.at = f.at => e = f
  BY <1>1 DEF RIInv, LogInOrder, Numbered
<1>3. CASE IsLast(s)
  <2>1. PICK e \in Stands : IsLast(e) /\ svc.term = e.after
    BY DEF RIInv, TermIsLast
  <2>2. e.at <= s.at /\ s.at <= e.at
    BY <1>3, <2>1 DEF IsLast
  <2>3. e = s
    BY <1>1, <1>2, <2>2
  <2> QED
    BY <2>1, <2>3
<1>4. CASE ~IsLast(s)
  <2> DEFINE S == {e \in Stands : e.at > s.at}
  <2>1. S # {} /\ \A e \in S : e.at \in Nat
    BY <1>1, <1>4 DEF IsLast
  <2>2. PICK f \in S : \A e \in S : f.at <= e.at
    <3> HIDE DEF S
    <3> QED
      BY <2>1, Earliest
  <2>3. f \in Stands /\ f.at > s.at /\ ~(\A g \in Stands : g.at >= f.at)
    BY <1>1, <2>2
  <2>4. PICK e \in Stands : Before(e, f) /\ f.before.term = e.after
    BY <2>3 DEF RIInv, Chain
  <2>5. s.at <= e.at /\ e.at < f.at
    BY <2>3, <2>4 DEF Before
  <2>6. ~(e.at > s.at)
    BY <1>1, <2>2, <2>5
  <2>7. e = s
    BY <1>1, <1>2, <2>5, <2>6
  <2>8. UsedUp(f.before)
    BY <1>1, <2>3 DEF EventFits
  <2> QED
    BY <2>3, <2>4, <2>7, <2>8 DEF Lived, Stands
<1> QED
  BY <1>3, <1>4

\* What the term holds was begun by an event that stands.
LEMMA InRunningTerm ==
    ASSUME RIInv, NEW p \in Pays, p \in svc.term
    PROVE  \E e \in Stands : p \in e.after
<1>1. p # Sale
  BY DEF Sale
<1> QED
  BY <1>1 DEF RIInv, TermIsLast

LEMMA RightsOnce ==
    ASSUME RIInv, NEW p \in Pays, Paid(p)
    PROVE  IF p \in Reversed("queued") \cup Reversed("current") THEN p \notin svc.term \cup svc.queue
           ELSE p \in svc.term \cup svc.queue \/ Lived(p)
<1>1. PICK m \in log : Mine(p, m)
  BY DEF Paid, Mine
<1>2. m.kind \in {"queued", "reset"}
  BY <1>1 DEF RIInv, HistoryTyped, EventType, Kinds, Mine
<1>3. svc.queue = BatchPays(svc.seq) /\ Stands \subseteq log /\ (\A e \in Stands : e.kind # "queued" /\ e \notin Undone)
  BY DEF RIInv, QueueIsOpenBatch, Stands, LaterStarts
<1>4. ASSUME p \in Reversed("queued") PROVE p \notin svc.term \cup svc.queue
  <2>1. p \notin svc.queue
    BY <1>1, <1>3, <1>4, InBatch
  <2>2. p \notin svc.term
    BY <1>1, <1>3, <1>4, InRunningTerm, InTerm
  <2> QED
    BY <2>1, <2>2
<1>5. ASSUME p \in Reversed("current") PROVE p \notin svc.term \cup svc.queue
  <2>1. PICK s : void[p].bound.start = {s} /\ StartOf(p, s)
    BY <1>5 DEF RIInv, VoidFits, Reversed
  <2>2. TermVia(m, s) /\ s \in Undone
    BY <1>1, <1>5, <2>1, StartIsTerm DEF Undone
  <2>3. p \notin svc.queue
    <3>1. s \in log /\ (s.kind = "start" => s.batch # svc.seq)
      BY <2>1 DEF StartOf, RIInv, LogInOrder, EventFits, HistoryTyped, EventType, Rows
    <3>2. m.kind = "queued" => m.batch # svc.seq
      BY <2>2, <3>1 DEF TermVia, ConsumedBy
    <3> QED
      BY <1>1, <1>3, <3>2, InBatch
  <2>4. p \notin svc.term
    <3>1. ASSUME NEW e \in Stands, p \in e.after PROVE FALSE
      <4>1. TermVia(m, e)
        BY <1>1, <1>3, <3>1, InTerm
      <4>2. e = s
        BY <2>2, <4>1, OneTerm
      <4> QED
        BY <1>3, <2>2, <4>2
    <3> QED
      BY <3>1, InRunningTerm
  <2> QED
    BY <2>3, <2>4
<1>6. ASSUME p \notin Reversed("queued") \cup Reversed("current") PROVE p \in svc.term \cup svc.queue \/ Lived(p)
  <2>1. ASSUME NEW s, TermVia(m, s), s \in log, s.kind # "queued", p \in s.after PROVE p \in svc.term \/ Lived(p)
    <3>1. s \notin Undone
      BY <1>6, <2>1, UndoneIsOwn
    <3>2. s.at > 0
      BY <2>1 DEF RIInv, LogInOrder, Numbered
    <3>3. s \in Stands
      BY <2>1, <3>1, <3>2 DEF Stands, LaterStarts
    <3> QED
      BY <2>1, <3>3, StandingLives
  <2>2. CASE m.kind = "reset"
    <3>1. TermVia(m, m) /\ p \in m.after
      BY <1>1, <2>2 DEF TermVia, Mine, RIInv, LogInOrder, EventFits
    <3> QED
      BY <2>1, <2>2, <3>1
  <2>3. CASE m.kind = "queued" /\ m.batch = svc.seq
    BY <1>1, <1>3, <1>6, <2>3, InBatch
  <2>4. CASE m.kind = "queued" /\ m.batch # svc.seq
    <3>1. m.batch \in 0..svc.seq - 1
      <4>1. m.batch \in Nat /\ m.batch <= svc.seq /\ svc.seq \in Nat
        BY <2>4 DEF RIInv, LogInOrder, EventFits, HistoryTyped, EventType, Rows
      <4> QED
        BY <2>4, <4>1
    <3>2. PICK s \in ConsumedBy(m.batch) : TRUE
      BY <3>1 DEF RIInv, LogInOrder, BatchesStarted
    <3>3. s \in log /\ s.kind = "start" /\ s.batch = m.batch /\ s.after = BatchPays(s.batch)
      BY <3>2 DEF ConsumedBy, RIInv, LogInOrder, EventFits
    <3>4. p \in s.after
      BY <1>1, <1>6, <2>4, <3>3, InBatch
    <3>5. TermVia(m, s)
      BY <2>4, <3>2 DEF TermVia
    <3> QED
      BY <2>1, <3>3, <3>4, <3>5
  <2> QED
    BY <1>2, <2>2, <2>3, <2>4
<1> QED
  BY <1>4, <1>5, <1>6

LEMMA RIInvSays == RIInv => RenewalInv
<1> SUFFICES ASSUME RIInv PROVE RenewalInv
  OBVIOUS
<1>1. RenewalTypeOK
  <2>1. \A e \in log : e.before \in Rows /\ e.after \subseteq Pays \cup {Sale}
    BY DEF RIInv, HistoryTyped, EventType
  <2>2. \A c \in Readers : reader[c].pc \in {"idle", "loaded", "ready"} /\ reader[c].copy \in Rows
    BY DEF RIInv, HistoryTyped, Reading
  <2>3. \A p \in Pays : void[p].state \in {"none", "confirmed", "held", "failed", "done"}
    BY DEF RIInv, HistoryTyped, Voiding
  <2> QED
    BY <2>1, <2>2, <2>3 DEF RenewalTypeOK, RIInv, HistoryTyped
<1>2. HistoryExplainsService
  BY ExplainsNow
<1>3. EachRightOnce
  <2>1. svc.term \cap svc.queue = {}
    <3>1. svc.queue = BatchPays(svc.seq) /\ svc.queue \subseteq Pays
      BY DEF RIInv, QueueIsOpenBatch, HistoryTyped, Rows
    <3>2. ASSUME NEW p \in Pays, p \in svc.term, p \in svc.queue PROVE FALSE
      <4>1. PICK e \in Stands : p \in e.after
        BY <3>2, InRunningTerm
      <4>2. PICK m \in log : Mine(p, m)
        BY <3>1, <3>2 DEF BatchPays, BatchRows, Mine
      <4>3. m.kind = "queued" /\ m.batch = svc.seq
        BY <3>1, <3>2, <4>2, InBatch
      <4>4. e \in log /\ e.kind # "queued"
        BY DEF Stands, LaterStarts
      <4>5. TermVia(m, e)
        BY <4>1, <4>2, <4>4, InTerm
      <4>6. e.kind = "start" /\ e.batch = svc.seq
        BY <4>3, <4>5 DEF TermVia, ConsumedBy
      <4> QED
        BY <4>4, <4>6 DEF RIInv, LogInOrder, EventFits, HistoryTyped, EventType, Rows
    <3> QED
      BY <3>1, <3>2
  <2>2. \A e, f \in log : e.kind = "start" /\ f.kind = "start" /\ e.batch = f.batch => e = f
    BY DEF RIInv, LogInOrder, OnceEach
  <2>3. \A p \in Pays : Paid(p) =>
          IF p \in Reversed("queued") \cup Reversed("current") THEN p \notin svc.term \cup svc.queue
          ELSE p \in svc.term \cup svc.queue \/ Lived(p)
    BY RightsOnce
  <2> QED
    BY <2>1, <2>2, <2>3 DEF EachRightOnce
<1>4. HeldVoidApplies
  BY DEF RIInv, VoidFits, HeldVoidApplies
<1> QED
  BY <1>1, <1>2, <1>3, <1>4 DEF RenewalInv

\* A step that changes the term.
LEMMA TermLivesOut ==
    RIInv /\ Serial /\ [HistoryNext]_historyvars =>
        (svc'.term # svc.term => UsedUp(svc) \/ \E p \in Pays : void[p].state = "held" /\ void'[p].state = "done")
<1> SUFFICES ASSUME RIInv, Serial, [HistoryNext]_historyvars, svc'.term # svc.term
             PROVE  UsedUp(svc) \/ \E p \in Pays : void[p].state = "held" /\ void'[p].state = "done"
  OBVIOUS
<1>1. svc \in Rows /\ void \in [Pays -> Voiding]
  BY DEF RIInv, HistoryTyped
<1>2. svc' # svc
  OBVIOUS
<1>3. ~Uses
  BY <1>1 DEF Uses, Rows
<1>4. ASSUME NEW p \in Pays, RenewFor(p) PROVE UsedUp(svc)
  <2>1. ASSUME svc' = [svc EXCEPT !.queue = @ \cup {p}, !.eseq = @ + 1] PROVE FALSE
    BY <1>1, <2>1 DEF Rows
  <2> QED
    BY <1>4, <2>1 DEF RenewFor, RunsOut, UsedUp
<1>5. ASSUME NEW p \in Pays, ApplyVoid(p) PROVE void[p].state = "held" /\ void'[p].state = "done"
  BY <1>1, <1>5 DEF ApplyVoid, SetVoid
<1>6. ASSUME NEW c \in Readers, Commit(c) PROVE UsedUp(svc)
  <2>1. Applies(reader[c].copy) /\ reader[c].pc = "ready" /\ ReaderFits(c)
    BY <1>2, <1>6 DEF Commit, RIInv
  <2> QED
    BY <2>1 DEF Applies, ReaderFits
<1>7. \A p \in Pays : ~Confirm(p) /\ ~Block(p)
  BY <1>2 DEF Confirm, Block
<1>8. \A c \in Readers : ~LoadService(c) /\ ~Recheck(c) /\ ~RollsBack(c)
  BY <1>2 DEF LoadService, Recheck, RollsBack
<1> QED
  BY <1>2, <1>3, <1>4, <1>5, <1>6, <1>7, <1>8 DEF HistoryNext, historyvars, Consumes

-----------------------------------------------------------------------------
\* What has been proved of every behaviour: the plan stays one of the plans, and
\* where it is serial the invariant holds.
HistoryHolds == hplan \in HPlan /\ (Serial => RIInv)

LEMMA PlanKept == hplan \in HPlan /\ [HistoryNext]_historyvars => hplan' \in HPlan /\ hplan'.events = hplan.events
<1> SUFFICES ASSUME hplan \in HPlan, [HistoryNext]_historyvars PROVE hplan' \in HPlan /\ hplan'.events = hplan.events
  OBVIOUS
<1>1. \/ hplan' = hplan
      \/ hplan.units > 0 /\ hplan' = [hplan EXCEPT !.units = @ - 1]
      \/ hplan.left > 0 /\ hplan' = [hplan EXCEPT !.left = @ - 1]
  BY DEF HistoryNext, historyvars, Uses, RenewFor, Confirm, Block, ApplyVoid, Consumes, LoadService, Recheck, Commit, RollsBack
<1> QED
  BY <1>1 DEF HPlan

LEMMA HistoryStarts == HistoryInit => HistoryHolds
BY RIInvInit DEF HistoryHolds, RIInv, HistoryTyped, HistoryInit

LEMMA HistoryGoesOn == HistoryHolds /\ [HistoryNext]_historyvars => HistoryHolds'
<1> SUFFICES ASSUME HistoryHolds, [HistoryNext]_historyvars PROVE HistoryHolds'
  OBVIOUS
<1>1. hplan' \in HPlan /\ hplan'.events = hplan.events
  BY PlanKept DEF HistoryHolds
<1>2. Serial' <=> Serial
  BY <1>1 DEF Serial
<1> QED
  BY <1>1, <1>2, RIInvNext DEF HistoryHolds

\* The renewals of a service, as they are run on their own.
THEOREM RenewalInductive == HistoryInit /\ [][HistoryNext]_historyvars => []HistoryHolds
BY HistoryStarts, HistoryGoesOn, PTL

-----------------------------------------------------------------------------
(*****************************************************************************)
(* Licensing, for any connections, keys and days, and every plan; the        *)
(* invariants where no restart falls inside a restoration or an              *)
(* installation, the steps without that condition.                           *)
(*****************************************************************************)

HIDE HistoryAssumption
USE LicenceAssumption

-----------------------------------------------------------------------------
(* The inductive invariant *)

\* The plans of which the two invariants of the licence speak: no restart inside
\* a restoration or inside the installation of a key.
Untorn == "torn" \notin lplan.events

Dates == 0..Unset
Installs == [revoked: BOOLEAN, scope: {"panel_only", "everything"}, act: Dates]
Files == [revoked: BOOLEAN, scope: {"panel_only", "everything"}, act: [LKeys -> Dates], high: Days]
CheckIns == [pc: {"idle", "asked", "answered", "applying"}, key: LKeys \cup {NoKey}, act: Dates, reply: Installs]
Restoring == {"restoring", "enabled", "judged", "undoing", "undone"}
Passes == [pc: {"idle", "choosing", "marked", "stopped"} \cup Restoring, todo: SUBSET LConns, conn: LConns \cup {0}, ok: BOOLEAN]
LRows == [enabled: BOOLEAN, suspended: BOOLEAN, applied: BOOLEAN, bound: BOOLEAN]

PanelTyped ==
    /\ lplan \in LPlan /\ today \in Days /\ install \in [LKeys -> Installs]
    /\ key \in LKeys \cup {NoKey} /\ swap \in BOOLEAN /\ file \in Files /\ verdict \in {"open", "locked", "cut"}
    /\ by \in LKeys \cup {NoKey} /\ beat \in [Callers -> CheckIns]
    /\ \A b \in Callers : beat[b].pc # "idle" => beat[b].key \in LKeys

RowsTyped ==
    /\ row \in [LConns -> LRows] /\ pass \in Passes
    /\ held \in BOOLEAN /\ wire \subseteq LConns /\ allowed \subseteq LConns /\ target \subseteq LConns /\ readmitted \subseteq LConns

\* What the pass relies on while the fence is its own.
AppliedIsSuspended == \A c \in LConns : row[c].applied => row[c].suspended
PassFits ==
    /\ pass.pc \in {"idle", "choosing"} => pass.conn = 0
    /\ pass.pc \notin {"idle", "choosing"} => pass.conn \in LConns /\ row[pass.conn].suspended
    /\ pass.pc = "marked" => ~row[pass.conn].applied
    /\ pass.pc = "stopped" => pass.conn \notin wire
    /\ pass.pc = "enabled" /\ pass.ok /\ IsPeer(pass.conn) => pass.conn \in wire
    /\ pass.pc = "judged" => /\ row[pass.conn].enabled /\ SameTarget(pass.conn) /\ ~held
                             /\ IsPeer(pass.conn) => pass.conn \in wire
    /\ pass.pc = "undone" /\ pass.ok => pass.conn \notin wire

\* A reply that is being applied is about the key, unless the key is being replaced.
KeyFits == RevokedByItsKey /\ \A b \in Callers : beat[b].pc = "applying" => swap \/ beat[b].key = key

ServicesFit == RowsTyped /\ AppliedIsSuspended /\ PassFits

LInv == PanelTyped /\ ServicesFit /\ (Untorn => AppliedIsOff /\ KeyFits)

-----------------------------------------------------------------------------
(* The operators *)

LEMMA MinOfNumbers ==
    ASSUME NEW S \in SUBSET Nat, S # {}
    PROVE  Min(S) \in S /\ \A x \in S : Min(S) <= x
<1>1. PICK x \in S : \A y \in S : ~(<<y, x>> \in OpToRel(<, Nat))
  BY NatLessThanWellFounded, WFMin
<1>2. \A y \in S : ~(y < x)
  BY <1>1 DEF OpToRel
<1>3. \A y \in S : x <= y
  BY <1>2
<1> QED
  BY <1>3 DEF Min

LEMMA MaxOfTwo == ASSUME NEW a \in Nat, NEW b \in Nat PROVE Max({a, b}) \in {a, b}
<1>1. \E x \in {a, b} : \A y \in {a, b} : x >= y
  OBVIOUS
<1> QED
  BY <1>1 DEF Max

LEMMA AnchoredIs ==
    ASSUME NEW a \in Dates, NEW b \in Dates
    PROVE  Anchored(a, b) \in Dates /\ Anchored(a, b) <= a
<1>1. {a, b} \in SUBSET Nat /\ {a, b} # {}
  BY DEF Dates, Unset
<1>2. Min({a, b}) \in {a, b} /\ Min({a, b}) <= a
  BY <1>1, MinOfNumbers
<1> QED
  BY <1>2 DEF Anchored

LEMMA StampedIs ==
    ASSUME NEW f \in Files, today \in Days
    PROVE  /\ Stamped(f) \in Files /\ Stamped(f).revoked = f.revoked
           /\ \A k \in LKeys : f.act[k] # Unset => Stamped(f).act[k] = f.act[k]
<1>1. today \in Dates /\ today \in Nat /\ f.high \in Nat /\ f.high \in Days /\ f.act \in [LKeys -> Dates]
  BY DEF Days, Dates, Unset, Files
<1>2. Max({f.high, today}) \in Days
  BY <1>1, MaxOfTwo
<1>3. [k \in LKeys |-> IF k = key /\ f.act[k] = Unset THEN today ELSE f.act[k]] \in [LKeys -> Dates]
  BY <1>1
<1>4. PICK h \in Days, a \in [LKeys -> Dates] :
         h = Max({f.high, today}) /\ a = [k \in LKeys |-> IF k = key /\ f.act[k] = Unset THEN today ELSE f.act[k]]
  BY <1>2, <1>3
<1>5. Stamped(f) = [f EXCEPT !.high = h, !.act = a]
  BY <1>4 DEF Stamped
<1>6. Stamped(f) = [revoked |-> f.revoked, scope |-> f.scope, act |-> a, high |-> h]
  BY <1>5 DEF Files
<1>7. Stamped(f) \in Files
  BY <1>6 DEF Files
<1> QED
  BY <1>4, <1>6, <1>7

LEMMA VerdictIs == \A f : VerdictOf(f) \in {"open", "locked", "cut"}
BY DEF VerdictOf

LEMMA RecomputedIs ==
    ASSUME NEW f \in Files, today \in Days, Recomputed(f)
    PROVE  file' \in Files /\ verdict' \in {"open", "locked", "cut"} /\ file'.revoked = f.revoked
           /\ \A k \in LKeys : f.act[k] # Unset => file'.act[k] = f.act[k]
BY StampedIs, VerdictIs DEF Recomputed

-----------------------------------------------------------------------------
LEMMA LInvInit == LicenceInit => LInv
<1> SUFFICES ASSUME LicenceInit PROVE LInv
  OBVIOUS
<1>1. /\ lplan \in LPlans /\ today = 0 /\ key = Min(LKeys) /\ swap = FALSE
      /\ file = [revoked |-> FALSE, scope |-> "everything", act |-> [k \in LKeys |-> IF k = key THEN 0 ELSE Unset], high |-> 0]
      /\ install = [k \in LKeys |-> [Issued EXCEPT !.act = file.act[k]]]
      /\ verdict = "open" /\ beat = [b \in Callers |-> NoCheckIn]
      /\ pass = [pc |-> "idle", todo |-> {}, conn |-> 0, ok |-> FALSE]
      /\ row = [c \in LConns |-> [enabled |-> TRUE, suspended |-> FALSE, applied |-> FALSE, bound |-> FALSE]]
      /\ allowed = LConns /\ target = {} /\ held = FALSE /\ wire = LConns /\ by = NoKey /\ readmitted = {}
  BY DEF LicenceInit
<1>2. key \in LKeys
  BY <1>1, MinOfNumbers
<1>3. 0 \in Dates /\ Unset \in Dates /\ 0 \in Days
  BY DEF Dates, Days, Unset
<1>4. file \in Files
  <2>1. [k \in LKeys |-> IF k = key THEN 0 ELSE Unset] \in [LKeys -> Dates]
    BY <1>3
  <2> QED
    BY <1>1, <1>3, <2>1 DEF Files
<1>5. Fresh \in Installs /\ NoCheckIn \in CheckIns /\ NoCheckIn.pc = "idle"
  BY <1>3 DEF Fresh, Installs, NoCheckIn, CheckIns
<1>6. install \in [LKeys -> Installs]
  <2>1. ASSUME NEW k \in LKeys PROVE [Issued EXCEPT !.act = file.act[k]] \in Installs
    <3>1. file.act[k] \in Dates
      BY <1>4 DEF Files
    <3> QED
      BY <3>1 DEF Issued, Fresh, Installs
  <2> QED
    BY <1>1, <2>1
<1>7. beat \in [Callers -> CheckIns] /\ \A b \in Callers : beat[b].pc = "idle"
  BY <1>1, <1>5
<1>8. PanelTyped
  BY <1>1, <1>2, <1>3, <1>4, <1>6, <1>7 DEF PanelTyped
<1>9. RowsTyped
  <2>1. pass \in Passes
    BY <1>1 DEF Passes
  <2>2. row \in [LConns -> LRows]
    BY <1>1 DEF LRows
  <2> QED
    BY <1>1, <2>1, <2>2 DEF RowsTyped
<1>10. AppliedIsSuspended /\ PassFits /\ AppliedIsOff
  BY <1>1 DEF AppliedIsSuspended, PassFits, AppliedIsOff
<1>11. KeyFits
  BY <1>1, <1>7 DEF KeyFits, RevokedByItsKey
<1> QED
  BY <1>8, <1>9, <1>10, <1>11 DEF LInv, ServicesFit

-----------------------------------------------------------------------------
(* What a step leaves alone *)

SamePlan == lplan' \in LPlan /\ lplan'.kind = lplan.kind /\ lplan'.events = lplan.events

LEMMA CountedIs ==
    ASSUME PanelTyped, lplan' = lplan \/ (lplan' = LCounted /\ lplan.left > 0)
    PROVE  SamePlan
<1>1. lplan \in LPlan
  BY DEF PanelTyped
<1>2. CASE lplan' = lplan
  BY <1>1, <1>2 DEF SamePlan
<1>3. CASE lplan' = LCounted /\ lplan.left > 0
  <2>1. lplan.left - 1 \in Nat
    BY <1>1, <1>3 DEF LPlan
  <2>2. PICK n \in Nat : n = lplan.left - 1
    BY <2>1
  <2>3. lplan' = [kind |-> lplan.kind, term |-> lplan.term, left |-> n, events |-> lplan.events]
    BY <1>1, <1>3, <2>2 DEF LCounted, LPlan
  <2>4. lplan' \in LPlan
    BY <1>1, <2>3 DEF LPlan
  <2> QED
    BY <2>3, <2>4 DEF SamePlan
<1> QED
  BY <1>2, <1>3

LEMMA ServicesStay ==
    ASSUME UNCHANGED servicevars_, SamePlan
    PROVE  (ServicesFit => ServicesFit') /\ (AppliedIsOff => AppliedIsOff') /\ LiftedIfAllowed
<1>1. UNCHANGED <<pass, row, allowed, target, held, wire, readmitted>> /\ lplan'.kind = lplan.kind
  BY DEF servicevars_, SamePlan
<1>2. RowsTyped => RowsTyped'
  BY <1>1 DEF RowsTyped
<1>3. AppliedIsSuspended => AppliedIsSuspended'
  BY <1>1 DEF AppliedIsSuspended
<1>4. PassFits => PassFits'
  BY <1>1 DEF PassFits, IsPeer, SameTarget
<1>5. AppliedIsOff => AppliedIsOff'
  BY <1>1 DEF AppliedIsOff
<1>6. LiftedIfAllowed
  BY <1>1 DEF LiftedIfAllowed
<1> QED
  BY <1>2, <1>3, <1>4, <1>5, <1>6 DEF ServicesFit

LEMMA DatesCompare == \A d \in Dates : d \in Int /\ d <= d
BY DEF Dates

\* The panel, while the pass and the requests are at work.
LEMMA PanelStays ==
    ASSUME PanelTyped, UNCHANGED <<today, install, panelvars, beat>>, SamePlan
    PROVE  PanelTyped' /\ (KeyFits => KeyFits') /\ TermOnlyShortens
<1>1. UNCHANGED <<today, install, key, swap, file, verdict, by, beat>>
  BY DEF panelvars
<1>2. PanelTyped'
  BY <1>1 DEF PanelTyped, SamePlan
<1>3. KeyFits => KeyFits'
  BY <1>1 DEF KeyFits, RevokedByItsKey
<1>4. \A k \in LKeys : file.act[k] \in Dates /\ install[k].act \in Dates
  BY DEF PanelTyped, Files, Installs
<1>5. \A k \in LKeys : file.act[k] <= file.act[k] /\ install[k].act <= install[k].act
  BY <1>4, DatesCompare
<1> QED
  BY <1>1, <1>2, <1>3, <1>5 DEF TermOnlyShortens

-----------------------------------------------------------------------------
(* The panel and the control server *)

LEMMA RefreshKeeps ==
    ASSUME PanelTyped, Refresh
    PROVE  SamePlan /\ PanelTyped' /\ (KeyFits => KeyFits') /\ TermOnlyShortens
<1>1. Recomputed(file) /\ UNCHANGED <<lplan, today, install, key, swap, by, beat>>
  BY DEF Refresh
<1>2. file \in Files /\ today \in Days
  BY DEF PanelTyped
<1>3. file' \in Files /\ verdict' \in {"open", "locked", "cut"} /\ file'.revoked = file.revoked
      /\ \A k \in LKeys : file.act[k] # Unset => file'.act[k] = file.act[k]
  BY <1>1, <1>2, RecomputedIs
<1>4. SamePlan
  BY <1>1, CountedIs
<1>5. PanelTyped'
  BY <1>1, <1>3 DEF PanelTyped
<1>6. KeyFits => KeyFits'
  BY <1>1, <1>3 DEF KeyFits, RevokedByItsKey
<1>7. \A k \in LKeys : file.act[k] \in Dates /\ install[k].act \in Dates
  BY DEF PanelTyped, Files, Installs
<1>8. \A k \in LKeys : file.act[k] <= file.act[k] /\ install[k].act <= install[k].act
  BY <1>7 DEF Dates, Unset
<1> QED
  BY <1>1, <1>3, <1>4, <1>5, <1>6, <1>8 DEF TermOnlyShortens

\* A step that touches neither the file nor the server's rows.
LEMMA TermsStay ==
    ASSUME PanelTyped, UNCHANGED <<install, file>>
    PROVE  TermOnlyShortens
<1>1. \A k \in LKeys : file.act[k] \in Dates /\ install[k].act \in Dates
  BY DEF PanelTyped, Files, Installs
<1>2. \A k \in LKeys : file.act[k] <= file.act[k] /\ install[k].act <= install[k].act
  BY <1>1 DEF Dates, Unset
<1> QED
  BY <1>2 DEF TermOnlyShortens

LEMMA AskKeeps ==
    ASSUME PanelTyped, NEW b \in Callers, Ask(b)
    PROVE  SamePlan /\ PanelTyped' /\ (KeyFits => KeyFits') /\ TermOnlyShortens
<1>1. /\ SomeKey(key) /\ UNCHANGED <<today, install, key, swap, file, verdict, by>>
      /\ beat' = [beat EXCEPT ![b] = [pc |-> "asked", key |-> key, act |-> file.act[key], reply |-> Fresh]]
  BY DEF Ask, panelvars
<1>2. lplan' = lplan \/ (lplan' = LCounted /\ lplan.left > 0)
  BY DEF Ask, LOccurs
<1>3. SamePlan
  BY <1>2, CountedIs
<1>4. key \in LKeys /\ file.act[key] \in Dates
  BY <1>1 DEF PanelTyped, SomeKey, Files
<1>5. PICK e \in CheckIns : e = [pc |-> "asked", key |-> key, act |-> file.act[key], reply |-> Fresh]
  <2>1. Fresh \in Installs
    BY DEF Fresh, Installs, Dates, Unset
  <2> QED
    BY <1>4, <2>1 DEF CheckIns
<1>6. beat \in [Callers -> CheckIns] /\ beat' = [beat EXCEPT ![b] = e]
  BY <1>1, <1>5 DEF PanelTyped
<1>7. beat' \in [Callers -> CheckIns] /\ e.pc = "asked" /\ e.key \in LKeys
  BY <1>4, <1>5, <1>6
<1>8. PanelTyped'
  BY <1>1, <1>3, <1>6, <1>7 DEF PanelTyped, SamePlan
<1>9. KeyFits => KeyFits'
  BY <1>1, <1>6, <1>7 DEF KeyFits, RevokedByItsKey
<1> QED
  BY <1>1, <1>3, <1>8, <1>9, TermsStay

LEMMA AnswerKeeps ==
    ASSUME PanelTyped, NEW b \in Callers, Answer(b)
    PROVE  SamePlan /\ PanelTyped' /\ (KeyFits => KeyFits') /\ TermOnlyShortens
<1>1. /\ beat[b].pc = "asked" /\ UNCHANGED <<lplan, today, key, swap, file, verdict, by>>
      /\ beat \in [Callers -> CheckIns] /\ install \in [LKeys -> Installs] /\ beat[b].key \in LKeys
  BY DEF Answer, PanelTyped, panelvars
<1>2. beat[b] \in CheckIns /\ install[beat[b].key] \in Installs
  BY <1>1
<1>3. PICK k \in LKeys : k = beat[b].key
  BY <1>1
<1>4. install[k].act \in Dates /\ beat[b].act \in Dates
  BY <1>2, <1>3 DEF Installs, CheckIns
<1>5. Anchored(install[k].act, beat[b].act) \in Dates /\ Anchored(install[k].act, beat[b].act) <= install[k].act
  BY <1>4, AnchoredIs
<1>6. PICK r \in Installs : r = [install[k] EXCEPT !.act = Anchored(@, beat[b].act)]
  BY <1>2, <1>3, <1>5 DEF Installs
<1>7. r.act <= install[k].act
  BY <1>2, <1>3, <1>5, <1>6 DEF Installs
<1>8. install' = [install EXCEPT ![k] = r] /\ beat' = [beat EXCEPT ![b].pc = "answered", ![b].reply = r]
  BY <1>3, <1>6 DEF Answer
<1>9. install' \in [LKeys -> Installs]
  BY <1>1, <1>8
<1>10. PICK e \in CheckIns : e = [beat[b] EXCEPT !.pc = "answered", !.reply = r]
  BY <1>2 DEF CheckIns
<1>11. e.pc = "answered" /\ e.key = k
  BY <1>2, <1>3, <1>10 DEF CheckIns
<1>12. beat' = [beat EXCEPT ![b] = e]
  BY <1>1, <1>8, <1>10
<1>13. beat' \in [Callers -> CheckIns]
  BY <1>1, <1>12
<1>14. SamePlan
  BY <1>1, CountedIs
<1>15. PanelTyped'
  BY <1>1, <1>9, <1>11, <1>12, <1>13 DEF PanelTyped
<1>16. KeyFits => KeyFits'
  BY <1>1, <1>11, <1>12 DEF KeyFits, RevokedByItsKey
<1>17. \A j \in LKeys : file.act[j] \in Dates /\ install[j].act \in Dates
  BY DEF PanelTyped, Files, Installs
<1>18. \A j \in LKeys : file.act[j] <= file.act[j] /\ install[j].act <= install[j].act
  BY <1>17 DEF Dates, Unset
<1>19. \A j \in LKeys : install'[j].act <= install[j].act
  BY <1>1, <1>7, <1>8, <1>18
<1> QED
  BY <1>1, <1>14, <1>15, <1>16, <1>18, <1>19 DEF TermOnlyShortens

\* A check-in that ends, or never began.
LEMMA IdleCheckIn == NoCheckIn \in CheckIns /\ NoCheckIn.pc = "idle"
BY DEF NoCheckIn, CheckIns, Fresh, Installs, Dates, Unset

LEMMA UnansweredKeeps ==
    ASSUME PanelTyped, NEW b \in Callers, Unanswered(b)
    PROVE  SamePlan /\ PanelTyped' /\ (KeyFits => KeyFits') /\ TermOnlyShortens
<1>1. /\ beat' = [beat EXCEPT ![b] = NoCheckIn] /\ UNCHANGED <<today, install, key, swap, file, verdict, by>>
      /\ lplan' = LCounted /\ lplan.left > 0
  BY DEF Unanswered, LOccurs, panelvars
<1>2. SamePlan
  BY <1>1, CountedIs
<1>3. beat \in [Callers -> CheckIns] /\ beat' \in [Callers -> CheckIns]
  BY <1>1, IdleCheckIn DEF PanelTyped
<1>4. PanelTyped'
  BY <1>1, <1>2, <1>3, IdleCheckIn DEF PanelTyped, SamePlan
<1>5. KeyFits => KeyFits'
  BY <1>1, <1>3, IdleCheckIn DEF KeyFits, RevokedByItsKey
<1> QED
  BY <1>1, <1>2, <1>4, <1>5, TermsStay

LEMMA TakeReplyKeeps ==
    ASSUME PanelTyped, NEW b \in Callers, TakeReply(b)
    PROVE  SamePlan /\ PanelTyped' /\ (KeyFits => KeyFits') /\ TermOnlyShortens
<1>1. /\ beat[b].pc = "answered" /\ UNCHANGED <<lplan, today, install, key, swap, file, verdict, by>>
      /\ beat' = [beat EXCEPT ![b] = IF Current(b) THEN [@ EXCEPT !.pc = "applying"] ELSE NoCheckIn]
      /\ beat \in [Callers -> CheckIns] /\ beat[b].key \in LKeys
  BY DEF TakeReply, panelvars, PanelTyped
<1>2. beat[b] \in CheckIns
  BY <1>1
<1>3. PICK e \in CheckIns : e = [beat[b] EXCEPT !.pc = "applying"]
  BY <1>2 DEF CheckIns
<1>4. e.key = beat[b].key
  BY <1>2, <1>3 DEF CheckIns
<1>5. SamePlan
  BY <1>1, CountedIs
<1>6. CASE Current(b)
  <2>1. beat' = [beat EXCEPT ![b] = e]
    BY <1>1, <1>3, <1>6
  <2>2. beat' \in [Callers -> CheckIns]
    BY <1>1, <2>1
  <2>3. PanelTyped'
    BY <1>1, <1>4, <2>1, <2>2 DEF PanelTyped
  <2>4. KeyFits => KeyFits'
    BY <1>1, <1>4, <1>6, <2>1 DEF KeyFits, RevokedByItsKey, Current
  <2> QED
    BY <1>1, <1>5, <2>3, <2>4, TermsStay
<1>7. CASE ~Current(b)
  <2>1. beat' = [beat EXCEPT ![b] = NoCheckIn]
    BY <1>1, <1>7
  <2>2. beat' \in [Callers -> CheckIns]
    BY <1>1, <2>1, IdleCheckIn
  <2>3. PanelTyped'
    BY <1>1, <2>1, <2>2, IdleCheckIn DEF PanelTyped
  <2>4. KeyFits => KeyFits'
    BY <1>1, <2>1, IdleCheckIn DEF KeyFits, RevokedByItsKey
  <2> QED
    BY <1>1, <1>5, <2>3, <2>4, TermsStay
<1> QED
  BY <1>6, <1>7

\* What is applied: the file the reply has changed.
ReplyFile(f, k, r) == [f EXCEPT !.revoked = r.revoked, !.scope = r.scope, !.act[k] = Anchored(@, r.act)]

LEMMA AppliedFile ==
    ASSUME NEW f \in Files, NEW k \in LKeys, NEW r \in Installs
    PROVE  /\ ReplyFile(f, k, r) \in Files /\ ReplyFile(f, k, r).revoked = r.revoked
           /\ \A j \in LKeys : ReplyFile(f, k, r).act[j] <= f.act[j]
<1>1. f.act \in [LKeys -> Dates] /\ r.act \in Dates /\ r.revoked \in BOOLEAN /\ r.scope \in {"panel_only", "everything"}
  BY DEF Files, Installs
<1>2. f.act[k] \in Dates
  BY <1>1
<1>3. PICK d \in Dates : d = Anchored(f.act[k], r.act) /\ d <= f.act[k]
  BY <1>1, <1>2, AnchoredIs
<1>4. PICK a \in [LKeys -> Dates] : a = [f.act EXCEPT ![k] = d]
  BY <1>1
<1>5. \A j \in LKeys : f.act[j] \in Dates /\ f.act[j] <= f.act[j]
  BY <1>1 DEF Dates, Unset
<1>6. \A j \in LKeys : a[j] <= f.act[j]
  BY <1>1, <1>3, <1>4, <1>5
<1>7. PICK s \in {"panel_only", "everything"}, v \in BOOLEAN : s = r.scope /\ v = r.revoked
  BY <1>1
<1>8. ReplyFile(f, k, r) = [f EXCEPT !.revoked = v, !.scope = s, !.act = a]
  BY <1>3, <1>4, <1>7 DEF ReplyFile
<1>9. [f EXCEPT !.revoked = v, !.scope = s, !.act = a] \in Files
  BY DEF Files
<1>10. LET g == [f EXCEPT !.revoked = v, !.scope = s, !.act = a] IN g.revoked = v /\ g.act = a
  BY DEF Files
<1> QED
  BY <1>6, <1>7, <1>8, <1>9, <1>10

LEMMA ApplyReplyKeeps ==
    ASSUME PanelTyped, NEW b \in Callers, ApplyReply(b)
    PROVE  SamePlan /\ PanelTyped' /\ (KeyFits => KeyFits') /\ TermOnlyShortens
<1>1. /\ beat[b].pc = "applying" /\ UNCHANGED <<lplan, today, install, key, swap>>
      /\ beat' = [beat EXCEPT ![b] = NoCheckIn]
      /\ beat \in [Callers -> CheckIns] /\ beat[b].key \in LKeys /\ file \in Files /\ today \in Days
  BY DEF ApplyReply, PanelTyped
<1>2. PICK r \in Installs : r = beat[b].reply
  BY <1>1 DEF CheckIns
<1>3. PICK k \in LKeys : k = beat[b].key
  BY <1>1
<1>4. /\ Recomputed(ReplyFile(file, k, r))
      /\ by' = IF r.revoked THEN k ELSE NoKey
  BY <1>2, <1>3 DEF ApplyReply, ReplyFile
<1>5. PICK g \in Files : /\ g = ReplyFile(file, k, r)
                         /\ g.revoked = r.revoked
                         /\ \A j \in LKeys : g.act[j] <= file.act[j]
  BY <1>1, AppliedFile
<1>6. Recomputed(g)
  BY <1>4, <1>5
<1>7. file' \in Files /\ verdict' \in {"open", "locked", "cut"} /\ file'.revoked = r.revoked
      /\ \A j \in LKeys : g.act[j] # Unset => file'.act[j] = g.act[j]
  BY <1>1, <1>5, <1>6, RecomputedIs
<1>8. SamePlan
  BY <1>1, CountedIs
<1>9. beat' \in [Callers -> CheckIns]
  BY <1>1, IdleCheckIn
<1>10. PanelTyped'
  BY <1>1, <1>4, <1>7, <1>9, IdleCheckIn DEF PanelTyped
<1>11. KeyFits => KeyFits'
  BY <1>1, <1>3, <1>4, <1>7, IdleCheckIn DEF KeyFits, RevokedByItsKey
<1>12. \A j \in LKeys : file.act[j] # Unset => file'.act[j] <= file.act[j]
  <2>1. ASSUME NEW j \in LKeys, file.act[j] # Unset PROVE file'.act[j] <= file.act[j]
    <3>1. file.act[j] \in Dates /\ g.act[j] \in Dates
      BY <1>1 DEF Files
    <3>2. file.act[j] <= LastDay /\ g.act[j] <= file.act[j] /\ LastDay \in Nat
      BY <1>5, <2>1, <3>1 DEF Dates, Unset
    <3>3. g.act[j] # Unset
      BY <3>1, <3>2 DEF Dates, Unset
    <3> QED
      BY <1>7, <3>2, <3>3
  <2> QED
    BY <2>1
<1>13. \A j \in LKeys : install'[j].act <= install[j].act
  BY <1>1 DEF PanelTyped, Installs, Dates, Unset
<1> QED
  BY <1>8, <1>10, <1>11, <1>12, <1>13 DEF TermOnlyShortens

-----------------------------------------------------------------------------
LEMMA InstallKeyKeeps ==
    ASSUME PanelTyped, NEW k \in LKeys \cup {NoKey}, InstallKey(k)
    PROVE  SamePlan /\ PanelTyped' /\ (KeyFits => KeyFits') /\ TermOnlyShortens
<1>1. /\ key' = k /\ swap' = TRUE /\ UNCHANGED <<today, install, file, verdict, by, beat>>
      /\ lplan' = LCounted /\ lplan.left > 0
  BY DEF InstallKey, LOccurs
<1>2. SamePlan
  BY <1>1, CountedIs
<1>3. PanelTyped'
  BY <1>1, <1>2 DEF PanelTyped, SamePlan
<1>4. KeyFits'
  BY <1>1 DEF KeyFits, RevokedByItsKey
<1> QED
  BY <1>1, <1>2, <1>3, <1>4, TermsStay

LEMMA SetLicenseKeyKeeps ==
    ASSUME PanelTyped, SetLicenseKey
    PROVE  SamePlan /\ PanelTyped' /\ (KeyFits => KeyFits') /\ TermOnlyShortens
<1>1. /\ ~Locked /\ swap' = FALSE /\ by' = NoKey /\ Recomputed(ClearedFile)
      /\ UNCHANGED <<lplan, today, install, key, beat>> /\ file \in Files /\ today \in Days
  BY DEF SetLicenseKey, PanelTyped
<1>2. PICK g \in Files : g = ClearedFile /\ g.revoked = FALSE /\ g.act = file.act
  <2>1. ClearedFile \in Files
    BY <1>1 DEF ClearedFile, Files
  <2>2. ClearedFile.revoked = FALSE /\ ClearedFile.act = file.act
    BY <1>1 DEF ClearedFile, Files
  <2> QED
    BY <2>1, <2>2
<1>3. file' \in Files /\ verdict' \in {"open", "locked", "cut"} /\ file'.revoked = FALSE
      /\ \A j \in LKeys : file.act[j] # Unset => file'.act[j] = file.act[j]
  BY <1>1, <1>2, RecomputedIs
<1>4. SamePlan
  BY <1>1, CountedIs
<1>5. PanelTyped'
  BY <1>1, <1>3 DEF PanelTyped
<1>6. KeyFits => KeyFits'
  BY <1>1, <1>3 DEF KeyFits, RevokedByItsKey, Locked
<1>7. \A k \in LKeys : file.act[k] \in Dates /\ install[k].act \in Dates
  BY DEF PanelTyped, Files, Installs
<1>8. \A k \in LKeys : file.act[k] <= file.act[k] /\ install[k].act <= install[k].act
  BY <1>7 DEF Dates, Unset
<1> QED
  BY <1>1, <1>3, <1>4, <1>5, <1>6, <1>8 DEF TermOnlyShortens

LEMMA LoseFileKeeps ==
    ASSUME PanelTyped, LoseFile
    PROVE  SamePlan /\ PanelTyped' /\ (KeyFits => KeyFits') /\ TermOnlyShortens
<1>1. /\ by' = NoKey /\ UNCHANGED <<today, install, key, swap, verdict, beat>>
      /\ file' = [revoked |-> FALSE, scope |-> "panel_only", act |-> [k \in LKeys |-> Unset], high |-> 0]
      /\ lplan' = LCounted /\ lplan.left > 0
  BY DEF LoseFile, LOccurs
<1>2. SamePlan
  BY <1>1, CountedIs
<1>3. [k \in LKeys |-> Unset] \in [LKeys -> Dates] /\ 0 \in Days
  BY DEF Dates, Unset, Days
<1>4. file' \in Files /\ file'.act = [k \in LKeys |-> Unset] /\ file'.revoked = FALSE
  BY <1>1, <1>3 DEF Files
<1>5. PanelTyped'
  BY <1>1, <1>2, <1>4 DEF PanelTyped, SamePlan
<1>6. KeyFits => KeyFits'
  BY <1>1, <1>4 DEF KeyFits, RevokedByItsKey
<1>7. \A j \in LKeys : install'[j].act <= install[j].act
  BY <1>1 DEF PanelTyped, Installs, Dates, Unset
<1> QED
  BY <1>2, <1>4, <1>5, <1>6, <1>7 DEF TermOnlyShortens

LEMMA DecideKeeps ==
    ASSUME PanelTyped, NEW k \in LKeys, NEW revoked \in BOOLEAN, NEW scope \in {"panel_only", "everything"},
           Decide(k, revoked, scope)
    PROVE  SamePlan /\ PanelTyped' /\ (KeyFits => KeyFits') /\ TermOnlyShortens
<1>1. /\ UNCHANGED <<today, key, swap, file, verdict, by, beat>>
      /\ lplan' = LCounted /\ lplan.left > 0
      /\ install' = [install EXCEPT ![k].revoked = revoked, ![k].scope = scope] /\ install \in [LKeys -> Installs]
  BY DEF Decide, LOccurs, panelvars, PanelTyped
<1>2. SamePlan
  BY <1>1, CountedIs
<1>3. install[k] \in Installs
  BY <1>1
<1>4. PICK r \in Installs : r = [install[k] EXCEPT !.revoked = revoked, !.scope = scope] /\ r.act = install[k].act
  <2>1. [install[k] EXCEPT !.revoked = revoked, !.scope = scope] \in Installs
    BY <1>3 DEF Installs
  <2>2. [install[k] EXCEPT !.revoked = revoked, !.scope = scope].act = install[k].act
    BY <1>3 DEF Installs
  <2> QED
    BY <2>1, <2>2
<1>5. install' = [install EXCEPT ![k] = r]
  BY <1>1, <1>4
<1>6. install' \in [LKeys -> Installs]
  BY <1>1, <1>5
<1>7. PanelTyped'
  BY <1>1, <1>2, <1>6 DEF PanelTyped, SamePlan
<1>8. KeyFits => KeyFits'
  BY <1>1 DEF KeyFits, RevokedByItsKey
<1>9. \A j \in LKeys : file.act[j] \in Dates /\ install[j].act \in Dates
  BY DEF PanelTyped, Files, Installs
<1>10. \A j \in LKeys : file.act[j] <= file.act[j] /\ install[j].act <= install[j].act
  BY <1>9 DEF Dates, Unset
<1>11. \A j \in LKeys : install'[j].act = install[j].act
  BY <1>1, <1>4, <1>5
<1> QED
  BY <1>1, <1>2, <1>7, <1>8, <1>10, <1>11 DEF TermOnlyShortens

LEMMA ForgetKeeps ==
    ASSUME PanelTyped, NEW k \in LKeys, Forget(k)
    PROVE  SamePlan /\ PanelTyped' /\ (KeyFits => KeyFits') /\ TermOnlyShortens
<1>1. /\ UNCHANGED <<today, key, swap, file, verdict, by, beat>>
      /\ lplan' = LCounted /\ lplan.left > 0
      /\ install' = [install EXCEPT ![k] = Fresh] /\ install \in [LKeys -> Installs]
  BY DEF Forget, LOccurs, panelvars, PanelTyped
<1>2. SamePlan
  BY <1>1, CountedIs
<1>3. Fresh \in Installs
  BY DEF Fresh, Installs, Dates, Unset
<1>4. install' \in [LKeys -> Installs]
  BY <1>1, <1>3
<1>5. PanelTyped'
  BY <1>1, <1>2, <1>4 DEF PanelTyped, SamePlan
<1>6. KeyFits => KeyFits'
  BY <1>1 DEF KeyFits, RevokedByItsKey
<1>7. \A j \in LKeys : file.act[j] \in Dates /\ install[j].act \in Dates
  BY DEF PanelTyped, Files, Installs
<1>8. \A j \in LKeys : file.act[j] <= file.act[j] /\ install[j].act <= install[j].act
  BY <1>7, DatesCompare
<1>9. \A j \in LKeys : install'[j] = Fresh \/ install'[j].act = install[j].act
  BY <1>1
<1> QED
  BY <1>1, <1>2, <1>5, <1>6, <1>8, <1>9 DEF TermOnlyShortens

LEMMA SetClockKeeps ==
    ASSUME PanelTyped, NEW d \in Days, SetClock(d)
    PROVE  SamePlan /\ PanelTyped' /\ (KeyFits => KeyFits') /\ TermOnlyShortens
<1>1. /\ today' = d /\ UNCHANGED <<install, key, swap, file, verdict, by, beat>>
      /\ lplan' = LCounted /\ lplan.left > 0
  BY DEF SetClock, LOccurs, panelvars
<1>2. SamePlan
  BY <1>1, CountedIs
<1>3. PanelTyped'
  BY <1>1, <1>2 DEF PanelTyped, SamePlan
<1>4. KeyFits => KeyFits'
  BY <1>1 DEF KeyFits, RevokedByItsKey
<1> QED
  BY <1>1, <1>2, <1>3, <1>4, TermsStay

-----------------------------------------------------------------------------
(* The pass *)

\* The connections whose suspension a step does not lift.
NothingLifted == \A c \in LConns : row[c].suspended => row'[c].suspended

LEMMA StaysLifted ==
    ASSUME NothingLifted, ~(pass.pc # "judged" /\ pass'.pc = "judged")
    PROVE  LiftedIfAllowed
BY DEF LiftedIfAllowed, NothingLifted

LEMMA ThisIs == ASSUME RowsTyped, Next_ PROVE This \in LConns /\ This # 0 /\ pass.pc = "choosing"
<1>1. pass.todo \subseteq LConns /\ pass.todo # {} /\ pass.pc = "choosing"
  BY DEF RowsTyped, Passes, Next_
<1>2. pass.todo \in SUBSET Nat
  BY <1>1
<1> QED
  BY <1>1, <1>2, MinOfNumbers DEF This

\* The pass moves on between connections, or leaves one.
LEMMA BetweenConnections ==
    ASSUME ServicesFit, SamePlan, UNCHANGED <<row, allowed, target, held, wire, readmitted>>,
           pass' \in Passes, pass'.pc \in {"idle", "choosing"}, pass'.conn = 0
    PROVE  ServicesFit' /\ LiftedIfAllowed
<1>1. RowsTyped' /\ AppliedIsSuspended'
  BY DEF ServicesFit, RowsTyped, AppliedIsSuspended
<1>2. PassFits'
  BY DEF PassFits
<1>3. NothingLifted
  BY DEF NothingLifted
<1> QED
  BY <1>1, <1>2, <1>3, StaysLifted DEF ServicesFit

LEMMA StartPassKeeps ==
    ASSUME ServicesFit, SamePlan, StartPass
    PROVE  ServicesFit' /\ (AppliedIsOff => AppliedIsOff') /\ LiftedIfAllowed
<1>1. /\ pass.pc = "idle" /\ pass' = [pass EXCEPT !.pc = "choosing", !.todo = Selected]
      /\ UNCHANGED <<row, allowed, target, held, wire, readmitted>> /\ pass \in Passes /\ pass.conn = 0
  BY DEF StartPass, ServicesFit, RowsTyped, PassFits
<1>2. Selected \in SUBSET LConns
  BY DEF Selected
<1>3. PICK T \in SUBSET LConns : T = Selected
  BY <1>2
<1>4. pass' \in Passes
  BY <1>1, <1>3 DEF Passes
<1>5. pass'.pc = "choosing" /\ pass'.conn = 0
  BY <1>1 DEF Passes
<1>6. AppliedIsOff => AppliedIsOff'
  BY <1>1, <1>5 DEF AppliedIsOff
<1> QED
  BY <1>1, <1>4, <1>5, <1>6, BetweenConnections

LEMMA EndPassKeeps ==
    ASSUME ServicesFit, SamePlan, EndPass
    PROVE  ServicesFit' /\ (AppliedIsOff => AppliedIsOff') /\ LiftedIfAllowed
<1>1. /\ pass.pc = "choosing" /\ pass' = [pass EXCEPT !.pc = "idle"]
      /\ UNCHANGED <<row, allowed, target, held, wire, readmitted>> /\ pass \in Passes /\ pass.conn = 0
  BY DEF EndPass, ServicesFit, RowsTyped, PassFits
<1>2. pass' \in Passes /\ pass'.pc = "idle" /\ pass'.conn = 0
  BY <1>1 DEF Passes
<1>3. AppliedIsOff => AppliedIsOff'
  BY <1>1, <1>2 DEF AppliedIsOff
<1> QED
  BY <1>1, <1>2, <1>3, BetweenConnections

LEMMA SkipConnKeeps ==
    ASSUME ServicesFit, SamePlan, SkipConn
    PROVE  ServicesFit' /\ (AppliedIsOff => AppliedIsOff') /\ LiftedIfAllowed
<1>1. /\ Next_ /\ pass' = Passed
      /\ UNCHANGED <<row, allowed, target, held, wire, readmitted>> /\ pass \in Passes
  BY DEF SkipConn, ServicesFit, RowsTyped
<1>2. pass.pc = "choosing" /\ pass.conn = 0
  BY <1>1 DEF Next_, ServicesFit, PassFits
<1>3. PICK T \in SUBSET LConns : T = pass.todo \ {This}
  BY <1>1 DEF Passes
<1>4. pass' = [pass EXCEPT !.todo = T]
  BY <1>1, <1>3 DEF Passed
<1>5. pass' \in Passes /\ pass'.pc = "choosing" /\ pass'.conn = 0
  BY <1>1, <1>2, <1>4 DEF Passes
<1>6. AppliedIsOff => AppliedIsOff'
  BY <1>1, <1>2, <1>5 DEF AppliedIsOff
<1> QED
  BY <1>1, <1>5, <1>6, BetweenConnections

\* A connection is taken up, or left.
LEMMA TakenUp ==
    ASSUME RowsTyped, Next_, NEW pc \in {"marked", "restoring"}
    PROVE  AtConn(pc) \in Passes /\ AtConn(pc).pc = pc /\ AtConn(pc).conn = This
<1>1. pass \in Passes /\ This \in LConns
  BY ThisIs DEF RowsTyped
<1>2. PICK c \in LConns : c = This
  BY <1>1
<1>3. [pass EXCEPT !.pc = pc, !.conn = c, !.ok = FALSE] \in Passes
  BY <1>1 DEF Passes, Restoring
<1>4. LET p == [pass EXCEPT !.pc = pc, !.conn = c, !.ok = FALSE] IN p.pc = pc /\ p.conn = c
  BY <1>1 DEF Passes
<1> QED
  BY <1>2, <1>3, <1>4 DEF AtConn

LEMMA LeftBehind ==
    ASSUME RowsTyped
    PROVE  Left \in Passes /\ Left.pc = "choosing" /\ Left.conn = 0
<1>1. pass \in Passes
  BY DEF RowsTyped
<1>2. PICK T \in SUBSET LConns : T = pass.todo \ {pass.conn}
  BY <1>1 DEF Passes
<1>3. [pass EXCEPT !.pc = "choosing", !.todo = T, !.conn = 0, !.ok = FALSE] \in Passes
  BY <1>1 DEF Passes
<1>4. LET p == [pass EXCEPT !.pc = "choosing", !.todo = T, !.conn = 0, !.ok = FALSE] IN p.pc = "choosing" /\ p.conn = 0
  BY <1>1 DEF Passes
<1>5. Left = [pass EXCEPT !.pc = "choosing", !.todo = T, !.conn = 0, !.ok = FALSE]
  BY <1>2 DEF Left
<1> QED
  BY <1>3, <1>4, <1>5

LEMMA CutMarksKeeps ==
    ASSUME ServicesFit, SamePlan, CutMarks
    PROVE  ServicesFit' /\ (AppliedIsOff => AppliedIsOff') /\ LiftedIfAllowed
<1>1. /\ Next_ /\ MustCut(This) /\ pass' = AtConn("marked")
      /\ row' = [row EXCEPT ![This].suspended = TRUE, ![This].bound = This \in target]
      /\ UNCHANGED <<allowed, target, held, wire, readmitted>>
  BY DEF CutMarks
<1>2. PICK t \in LConns : t = This
  BY <1>1, ThisIs DEF ServicesFit
<1>3. t # 0 /\ pass.pc = "choosing" /\ pass.conn = 0
  BY <1>1, <1>2, ThisIs DEF ServicesFit, PassFits
<1>4. row \in [LConns -> LRows] /\ row[t] \in LRows
  BY DEF ServicesFit, RowsTyped
<1>5. PICK b \in BOOLEAN : b = (t \in target)
  <2>1. CASE t \in target
    <3>1. TRUE = (t \in target)
      BY <2>1
    <3> QED
      BY <3>1
  <2>2. CASE t \notin target
    <3>1. FALSE = (t \in target)
      BY <2>2
    <3> QED
      BY <3>1
  <2> QED
    BY <2>1, <2>2
<1>6. PICK r \in LRows : r = [row[t] EXCEPT !.suspended = TRUE, !.bound = b]
  BY <1>4 DEF LRows
<1>7. r.suspended /\ r.applied = row[t].applied
  BY <1>4, <1>6 DEF LRows
<1>8. row' = [row EXCEPT ![t] = r]
  BY <1>1, <1>2, <1>4, <1>5, <1>6
<1>9. row' \in [LConns -> LRows] /\ row'[t] = r /\ \A c \in LConns : c # t => row'[c] = row[c]
  BY <1>4, <1>8
<1>10. ~row[t].applied
  <2>1. row[t].applied => row[t].suspended
    BY DEF ServicesFit, AppliedIsSuspended
  <2> QED
    BY <1>1, <1>2, <2>1 DEF MustCut
<1>11. pass' \in Passes /\ pass'.pc = "marked" /\ pass'.conn = t
  BY <1>1, <1>2, TakenUp DEF ServicesFit
<1>12. RowsTyped'
  BY <1>1, <1>9, <1>11 DEF ServicesFit, RowsTyped
<1>13. AppliedIsSuspended'
  BY <1>7, <1>9 DEF ServicesFit, AppliedIsSuspended
<1>14. PassFits'
  BY <1>7, <1>9, <1>10, <1>11 DEF PassFits
<1>15. AppliedIsOff => AppliedIsOff'
  BY <1>1, <1>3, <1>9, <1>11 DEF AppliedIsOff
<1>16. NothingLifted
  BY <1>7, <1>9 DEF NothingLifted
<1> QED
  BY <1>11, <1>12, <1>13, <1>14, <1>15, <1>16, StaysLifted DEF ServicesFit

LEMMA RestoreReadsKeeps ==
    ASSUME ServicesFit, SamePlan, RestoreReads
    PROVE  ServicesFit' /\ (AppliedIsOff => AppliedIsOff') /\ LiftedIfAllowed
<1>1. /\ Next_ /\ MayRestore(This) /\ pass' = AtConn("restoring")
      /\ UNCHANGED <<row, allowed, target, held, wire, readmitted>>
  BY DEF RestoreReads
<1>2. PICK t \in LConns : t = This
  BY <1>1, ThisIs DEF ServicesFit
<1>3. t # 0 /\ pass.pc = "choosing" /\ pass.conn = 0 /\ row[t].suspended
  BY <1>1, <1>2, ThisIs DEF ServicesFit, PassFits, MayRestore
<1>4. pass' \in Passes /\ pass'.pc = "restoring" /\ pass'.conn = t
  BY <1>1, <1>2, TakenUp DEF ServicesFit
<1>5. RowsTyped' /\ AppliedIsSuspended'
  BY <1>1, <1>4 DEF ServicesFit, RowsTyped, AppliedIsSuspended
<1>6. PassFits'
  BY <1>1, <1>3, <1>4 DEF PassFits
<1>7. AppliedIsOff => AppliedIsOff'
  BY <1>1, <1>3, <1>4 DEF AppliedIsOff
<1>8. NothingLifted
  BY <1>1 DEF NothingLifted
<1> QED
  BY <1>4, <1>5, <1>6, <1>7, <1>8, StaysLifted DEF ServicesFit

LEMMA CutStandsKeeps ==
    ASSUME ServicesFit, SamePlan, CutStands
    PROVE  ServicesFit' /\ (AppliedIsOff => AppliedIsOff') /\ LiftedIfAllowed
<1>1. /\ pass.pc = "marked" /\ pass' = Left
      /\ UNCHANGED <<row, allowed, target, held, wire, readmitted>>
  BY DEF CutStands
<1>2. pass.conn \in LConns /\ ~row[pass.conn].applied
  BY <1>1 DEF ServicesFit, PassFits
<1>3. pass' \in Passes /\ pass'.pc = "choosing" /\ pass'.conn = 0
  BY <1>1, LeftBehind DEF ServicesFit
<1>4. AppliedIsOff => AppliedIsOff'
  BY <1>1, <1>2, <1>3 DEF AppliedIsOff
<1> QED
  BY <1>1, <1>3, <1>4, BetweenConnections

\* A call that is known to have taken effect has.
LEMMA CallsAre ==
    \A call \in Calls : /\ call.known \in BOOLEAN /\ (call.known => call.did)
                        /\ (~call.known => lplan.left > 0)
<1> SUFFICES ASSUME NEW call \in Calls
             PROVE  call.known \in BOOLEAN /\ (call.known => call.did) /\ (~call.known => lplan.left > 0)
  OBVIOUS
<1>1. CASE call = [did |-> TRUE, known |-> TRUE]
  BY <1>1
<1>2. LOccurs("node") => lplan.left > 0
  BY DEF LOccurs
<1>3. CASE LOccurs("node") /\ call = [did |-> TRUE, known |-> FALSE]
  <2>1. call.known = FALSE
    BY <1>3
  <2> QED
    BY <1>2, <1>3, <2>1
<1>4. CASE LOccurs("node") /\ call = [did |-> FALSE, known |-> FALSE]
  <2>1. call.known = FALSE
    BY <1>4
  <2> QED
    BY <1>2, <1>4, <2>1
<1> QED
  BY <1>1, <1>3, <1>4 DEF Calls

\* The pass stays at its connection.
StaysAt(pc, ok) == pass' = [pass EXCEPT !.pc = pc, !.ok = ok]

LEMMA StaysAtIs ==
    ASSUME RowsTyped, NEW pc \in {"marked", "stopped"} \cup Restoring, NEW ok \in BOOLEAN, StaysAt(pc, ok)
    PROVE  pass' \in Passes /\ pass'.pc = pc /\ pass'.ok = ok /\ pass'.conn = pass.conn
<1>1. pass \in Passes
  BY DEF RowsTyped
<1>2. [pass EXCEPT !.pc = pc, !.ok = ok] \in Passes
  BY <1>1 DEF Passes
<1>3. LET p == [pass EXCEPT !.pc = pc, !.ok = ok] IN p.pc = pc /\ p.ok = ok /\ p.conn = pass.conn
  BY <1>1 DEF Passes
<1> QED
  BY <1>2, <1>3 DEF StaysAt

LEMMA CutSendsKeeps ==
    ASSUME ServicesFit, SamePlan, CutSends
    PROVE  ServicesFit' /\ (AppliedIsOff => AppliedIsOff') /\ LiftedIfAllowed
<1>1. PICK call \in Calls :
          /\ wire' = IF call.did THEN wire \ {pass.conn} ELSE wire
          /\ pass' = IF call.known THEN [pass EXCEPT !.pc = "stopped"] ELSE Left
  BY DEF CutSends
<1>2. /\ pass.pc = "marked" /\ readmitted' = readmitted \ {pass.conn}
      /\ UNCHANGED <<row, allowed, target, held>>
  BY DEF CutSends
<1>3. PICK t \in LConns : t = pass.conn /\ row[t].suspended /\ ~row[t].applied /\ t # 0
  BY <1>2 DEF ServicesFit, PassFits
<1>4. wire' \subseteq wire /\ (call.known => t \notin wire')
  BY <1>1, <1>3, CallsAre
<1>5. pass' \in Passes /\ ((pass'.pc = "stopped" /\ pass'.conn = t /\ call.known) \/ (pass'.pc = "choosing" /\ pass'.conn = 0))
  <2>1. CASE call.known
    <3>1. pass' = [pass EXCEPT !.pc = "stopped"] /\ pass \in Passes
      BY <1>1, <2>1 DEF ServicesFit, RowsTyped
    <3>2. pass' \in Passes /\ pass'.pc = "stopped" /\ pass'.conn = t
      BY <1>3, <3>1 DEF Passes
    <3> QED
      BY <2>1, <3>2
  <2>2. CASE ~call.known
    BY <1>1, <2>2, LeftBehind DEF ServicesFit
  <2> QED
    BY <2>1, <2>2
<1>6. RowsTyped' /\ AppliedIsSuspended'
  BY <1>2, <1>4, <1>5 DEF ServicesFit, RowsTyped, AppliedIsSuspended
<1>7. PassFits'
  BY <1>2, <1>3, <1>4, <1>5 DEF PassFits
<1>8. AppliedIsOff => AppliedIsOff'
  <2>1. ASSUME AppliedIsOff, NEW c \in LConns, row'[c].suspended, row'[c].applied PROVE c \notin wire' \ readmitted'
    <3>1. c # t /\ row[c].suspended /\ row[c].applied
      BY <1>2, <1>3, <2>1
    <3>2. c \notin wire \ readmitted
      BY <1>3, <2>1, <3>1 DEF AppliedIsOff
    <3> QED
      BY <1>2, <1>3, <1>4, <3>1, <3>2
  <2> QED
    BY <2>1 DEF AppliedIsOff
<1>9. NothingLifted
  BY <1>2 DEF NothingLifted
<1> QED
  BY <1>5, <1>6, <1>7, <1>8, <1>9, StaysLifted DEF ServicesFit

\* The row of the connection that is being left.
RowBecomes(t, r) == row' = [row EXCEPT ![t] = r]

LEMMA CutRecordsKeeps ==
    ASSUME ServicesFit, SamePlan, CutRecords
    PROVE  ServicesFit' /\ (AppliedIsOff => AppliedIsOff') /\ LiftedIfAllowed
<1>1. /\ pass.pc = "stopped" /\ pass' = Left
      /\ row' = [row EXCEPT ![pass.conn].applied = row[pass.conn].suspended \/ @]
      /\ UNCHANGED <<allowed, target, held, wire, readmitted>>
  BY DEF CutRecords
<1>2. PICK t \in LConns : t = pass.conn /\ row[t].suspended /\ t \notin wire /\ t # 0
  BY <1>1 DEF ServicesFit, PassFits
<1>3. row \in [LConns -> LRows] /\ row[t] \in LRows
  BY DEF ServicesFit, RowsTyped
<1>4. PICK r \in LRows : r = [row[t] EXCEPT !.applied = TRUE] /\ r.suspended
  <2>1. [row[t] EXCEPT !.applied = TRUE] \in LRows
    BY <1>2, <1>3 DEF LRows
  <2>2. LET q == [row[t] EXCEPT !.applied = TRUE] IN q.suspended
    BY <1>2, <1>3 DEF LRows
  <2> QED
    BY <2>1, <2>2
<1>5. (row[t].suspended \/ row[t].applied) = TRUE
  BY <1>2
<1>6. row' = [row EXCEPT ![t] = r]
  BY <1>1, <1>2, <1>3, <1>4, <1>5
<1>7. row' \in [LConns -> LRows] /\ row'[t] = r /\ \A c \in LConns : c # t => row'[c] = row[c]
  BY <1>3, <1>6
<1>8. pass' \in Passes /\ pass'.pc = "choosing" /\ pass'.conn = 0
  BY <1>1, LeftBehind DEF ServicesFit
<1>9. RowsTyped' /\ AppliedIsSuspended'
  BY <1>1, <1>4, <1>7, <1>8 DEF ServicesFit, RowsTyped, AppliedIsSuspended
<1>10. PassFits'
  BY <1>8 DEF PassFits
<1>11. AppliedIsOff => AppliedIsOff'
  BY <1>1, <1>2, <1>7, <1>8 DEF AppliedIsOff
<1>12. NothingLifted
  BY <1>4, <1>7 DEF NothingLifted
<1> QED
  BY <1>8, <1>9, <1>10, <1>11, <1>12, StaysLifted DEF ServicesFit

LEMMA RestoreSendsKeeps ==
    ASSUME ServicesFit, SamePlan, RestoreSends
    PROVE  ServicesFit' /\ (AppliedIsOff => AppliedIsOff') /\ LiftedIfAllowed
<1>1. PICK call \in Calls :
          /\ wire' = IF IsPeer(pass.conn) /\ call.did THEN wire \cup {pass.conn} ELSE wire
          /\ pass' = [pass EXCEPT !.pc = "enabled", !.ok = call.known]
  BY DEF RestoreSends
<1>2. pass.pc = "restoring" /\ UNCHANGED <<row, allowed, target, held, readmitted>> /\ lplan'.kind = lplan.kind
  BY DEF RestoreSends, SamePlan
<1>3. PICK t \in LConns : t = pass.conn /\ row[t].suspended
  BY <1>2 DEF ServicesFit, PassFits
<1>4. PICK ok \in BOOLEAN : ok = call.known /\ (ok => call.did)
  BY CallsAre
<1>5. pass' \in Passes /\ pass'.pc = "enabled" /\ pass'.ok = ok /\ pass'.conn = t
  BY <1>1, <1>3, <1>4, StaysAtIs DEF ServicesFit, StaysAt, Restoring
<1>6. wire' \subseteq wire \cup {t} /\ (ok /\ IsPeer(t) => t \in wire')
  BY <1>1, <1>3, <1>4
<1>7. RowsTyped' /\ AppliedIsSuspended'
  BY <1>2, <1>5, <1>6 DEF ServicesFit, RowsTyped, AppliedIsSuspended
<1>8. PassFits'
  BY <1>2, <1>3, <1>5, <1>6 DEF PassFits, IsPeer
<1>9. AppliedIsOff => AppliedIsOff'
  <2>1. ASSUME AppliedIsOff, NEW c \in LConns, row'[c].suspended, row'[c].applied, c # t PROVE c \notin wire' \ readmitted'
    <3>1. c \notin wire \ readmitted
      BY <1>2, <1>3, <2>1 DEF AppliedIsOff
    <3> QED
      BY <1>2, <1>6, <2>1, <3>1
  <2> QED
    BY <1>5, <2>1 DEF AppliedIsOff
<1>10. NothingLifted
  BY <1>2 DEF NothingLifted
<1> QED
  BY <1>5, <1>7, <1>8, <1>9, <1>10, StaysLifted DEF ServicesFit

LEMMA RestoreJudgesKeeps ==
    ASSUME ServicesFit, SamePlan, RestoreJudges
    PROVE  ServicesFit' /\ (AppliedIsOff => AppliedIsOff') /\ LiftedIfAllowed
<1>1. /\ pass.pc = "enabled" /\ pass' = [pass EXCEPT !.pc = IF Restorable THEN "judged" ELSE "undoing"]
      /\ UNCHANGED <<row, allowed, target, held, wire, readmitted>> /\ lplan'.kind = lplan.kind /\ pass \in Passes
  BY DEF RestoreJudges, SamePlan, ServicesFit, RowsTyped
<1>2. PICK t \in LConns : t = pass.conn /\ row[t].suspended
  BY <1>1 DEF ServicesFit, PassFits
<1>3. PICK pc \in {"judged", "undoing"} : pc = (IF Restorable THEN "judged" ELSE "undoing")
  OBVIOUS
<1>4. pass' \in Passes /\ pass'.pc = pc /\ pass'.conn = t /\ pass'.ok = pass.ok
  <2>1. pass' = [pass EXCEPT !.pc = pc]
    BY <1>1, <1>3
  <2> QED
    BY <1>1, <1>2, <2>1 DEF Passes, Restoring
<1>5. pc = "judged" => Restorable
  BY <1>3
<1>6. Restorable => /\ row[t].enabled /\ SameTarget(t) /\ ~held /\ (IsPeer(t) => t \in wire)
                    /\ verdict # "cut" /\ t \in allowed
  BY <1>1, <1>2 DEF Restorable, MayRestore, Eligible, ServicesFit, PassFits
<1>7. RowsTyped' /\ AppliedIsSuspended'
  BY <1>1, <1>4 DEF ServicesFit, RowsTyped, AppliedIsSuspended
<1>8. PassFits'
  BY <1>1, <1>2, <1>4, <1>5, <1>6 DEF PassFits, IsPeer, SameTarget
<1>9. AppliedIsOff => AppliedIsOff'
  BY <1>1, <1>2, <1>4 DEF AppliedIsOff
<1>10. LiftedIfAllowed
  BY <1>1, <1>2, <1>4, <1>5, <1>6 DEF LiftedIfAllowed
<1> QED
  BY <1>7, <1>8, <1>9, <1>10 DEF ServicesFit

LEMMA RestoreCommitsKeeps ==
    ASSUME ServicesFit, SamePlan, RestoreCommits
    PROVE  ServicesFit' /\ (AppliedIsOff => AppliedIsOff') /\ LiftedIfAllowed
<1>1. /\ pass.pc = "judged" /\ pass' = Left /\ readmitted' = readmitted \ {pass.conn}
      /\ row' = [row EXCEPT ![pass.conn].suspended = FALSE, ![pass.conn].applied = FALSE, ![pass.conn].bound = FALSE]
      /\ UNCHANGED <<allowed, target, held, wire>>
  BY DEF RestoreCommits
<1>2. PICK t \in LConns : t = pass.conn /\ row[t].enabled /\ SameTarget(t) /\ ~held /\ (IsPeer(t) => t \in wire) /\ t # 0
  BY <1>1 DEF ServicesFit, PassFits
<1>3. row \in [LConns -> LRows] /\ row[t] \in LRows
  BY DEF ServicesFit, RowsTyped
<1>4. PICK r \in LRows : r = [row[t] EXCEPT !.suspended = FALSE, !.applied = FALSE, !.bound = FALSE] /\ ~r.suspended /\ ~r.applied
  <2>1. [row[t] EXCEPT !.suspended = FALSE, !.applied = FALSE, !.bound = FALSE] \in LRows
    BY <1>3 DEF LRows
  <2>2. LET q == [row[t] EXCEPT !.suspended = FALSE, !.applied = FALSE, !.bound = FALSE] IN ~q.suspended /\ ~q.applied
    BY <1>3 DEF LRows
  <2> QED
    BY <2>1, <2>2
<1>5. row' = [row EXCEPT ![t] = r]
  BY <1>1, <1>2, <1>3, <1>4
<1>6. row' \in [LConns -> LRows] /\ row'[t] = r /\ \A c \in LConns : c # t => row'[c] = row[c]
  BY <1>3, <1>5
<1>7. pass' \in Passes /\ pass'.pc = "choosing" /\ pass'.conn = 0
  BY <1>1, LeftBehind DEF ServicesFit
<1>8. RowsTyped' /\ AppliedIsSuspended'
  BY <1>1, <1>4, <1>6, <1>7 DEF ServicesFit, RowsTyped, AppliedIsSuspended
<1>9. PassFits'
  BY <1>7 DEF PassFits
<1>10. AppliedIsOff => AppliedIsOff'
  <2>1. ASSUME AppliedIsOff, NEW c \in LConns, row'[c].suspended, row'[c].applied PROVE c \notin wire' \ readmitted'
    <3>1. c # t /\ row[c].suspended /\ row[c].applied
      BY <1>4, <1>6, <2>1
    <3>2. c \notin wire \ readmitted
      BY <1>2, <2>1, <3>1 DEF AppliedIsOff
    <3> QED
      BY <1>1, <1>2, <3>1, <3>2
  <2> QED
    BY <2>1 DEF AppliedIsOff
<1>11. LiftedIfAllowed
  BY <1>1, <1>2, <1>4, <1>6, <1>7 DEF LiftedIfAllowed
<1> QED
  BY <1>8, <1>9, <1>10, <1>11 DEF ServicesFit

LEMMA RestoreUndoesKeeps ==
    ASSUME ServicesFit, SamePlan, RestoreUndoes
    PROVE  ServicesFit' /\ (AppliedIsOff => AppliedIsOff') /\ LiftedIfAllowed
<1>1. PICK call \in Calls :
          /\ wire' = IF call.did THEN wire \ {pass.conn} ELSE wire
          /\ pass' = [pass EXCEPT !.pc = "undone", !.ok = call.known]
  BY DEF RestoreUndoes
<1>2. pass.pc = "undoing" /\ UNCHANGED <<row, allowed, target, held, readmitted>>
  BY DEF RestoreUndoes
<1>3. PICK t \in LConns : t = pass.conn /\ row[t].suspended
  BY <1>2 DEF ServicesFit, PassFits
<1>4. PICK ok \in BOOLEAN : ok = call.known /\ (ok => call.did)
  BY CallsAre
<1>5. pass' \in Passes /\ pass'.pc = "undone" /\ pass'.ok = ok /\ pass'.conn = t
  BY <1>1, <1>3, <1>4, StaysAtIs DEF ServicesFit, StaysAt, Restoring
<1>6. wire' \subseteq wire /\ (ok => t \notin wire')
  BY <1>1, <1>3, <1>4
<1>7. RowsTyped' /\ AppliedIsSuspended'
  BY <1>2, <1>5, <1>6 DEF ServicesFit, RowsTyped, AppliedIsSuspended
<1>8. PassFits'
  BY <1>2, <1>3, <1>5, <1>6 DEF PassFits
<1>9. AppliedIsOff => AppliedIsOff'
  BY <1>2, <1>3, <1>5, <1>6 DEF AppliedIsOff
<1>10. NothingLifted
  BY <1>2 DEF NothingLifted
<1> QED
  BY <1>5, <1>7, <1>8, <1>9, <1>10, StaysLifted DEF ServicesFit

LEMMA RestoreRecordsKeeps ==
    ASSUME ServicesFit, SamePlan, RestoreRecords
    PROVE  ServicesFit' /\ (AppliedIsOff => AppliedIsOff') /\ LiftedIfAllowed
<1>1. /\ pass.pc = "undone" /\ pass' = Left
      /\ row' = [row EXCEPT ![pass.conn].applied = UndoResult]
      /\ UNCHANGED <<allowed, target, held, wire, readmitted>>
  BY DEF RestoreRecords
<1>2. PICK t \in LConns : t = pass.conn /\ row[t].suspended /\ t # 0 /\ (pass.ok => t \notin wire)
  BY <1>1 DEF ServicesFit, PassFits
<1>3. row \in [LConns -> LRows] /\ row[t] \in LRows /\ pass.ok \in BOOLEAN
  BY DEF ServicesFit, RowsTyped, Passes
<1>4. PICK ok \in BOOLEAN : ok = pass.ok
  BY <1>3
<1>5. PICK r \in LRows : r = [row[t] EXCEPT !.applied = ok] /\ r.suspended /\ (r.applied <=> ok)
  <2>1. [row[t] EXCEPT !.applied = ok] \in LRows
    BY <1>2, <1>3 DEF LRows
  <2>2. LET q == [row[t] EXCEPT !.applied = ok] IN q.suspended /\ (q.applied <=> ok)
    BY <1>2, <1>3 DEF LRows
  <2> QED
    BY <2>1, <2>2
<1>6. row' = [row EXCEPT ![t] = r]
  BY <1>1, <1>2, <1>3, <1>4, <1>5 DEF UndoResult
<1>7. row' \in [LConns -> LRows] /\ row'[t] = r /\ \A c \in LConns : c # t => row'[c] = row[c]
  BY <1>3, <1>6
<1>8. pass' \in Passes /\ pass'.pc = "choosing" /\ pass'.conn = 0
  BY <1>1, LeftBehind DEF ServicesFit
<1>9. RowsTyped' /\ AppliedIsSuspended'
  BY <1>1, <1>5, <1>7, <1>8 DEF ServicesFit, RowsTyped, AppliedIsSuspended
<1>10. PassFits'
  BY <1>8 DEF PassFits
<1>11. AppliedIsOff => AppliedIsOff'
  BY <1>1, <1>2, <1>4, <1>5, <1>7, <1>8 DEF AppliedIsOff
<1>12. NothingLifted
  BY <1>5, <1>7 DEF NothingLifted
<1> QED
  BY <1>8, <1>9, <1>10, <1>11, <1>12, StaysLifted DEF ServicesFit

-----------------------------------------------------------------------------
(* Everybody else *)

LEMMA ToggleIs ==
    ASSUME ServicesFit, NEW c \in LConns, NEW on \in BOOLEAN, Toggle(c, on)
    PROVE  /\ row' \in [LConns -> LRows] /\ \A d \in LConns : row'[d].suspended = row[d].suspended /\ row'[d].applied = row[d].applied
           /\ wire' \subseteq wire \cup {c} /\ (row[c].suspended => wire' = wire)
<1>1. row \in [LConns -> LRows] /\ row[c] \in LRows /\ c \in LConns
  BY DEF ServicesFit, RowsTyped
<1>2. CASE UNCHANGED <<row, wire>>
  BY <1>1, <1>2
<1>3. CASE /\ ~row[c].suspended /\ row' = [row EXCEPT ![c].enabled = on]
           /\ wire' = IF ~on THEN wire \ {c} ELSE IF IsPeer(c) THEN wire \cup {c} ELSE wire
  <2>1. PICK r \in LRows : r = [row[c] EXCEPT !.enabled = on]
    BY <1>1 DEF LRows
  <2>2. r.suspended = row[c].suspended /\ r.applied = row[c].applied
    BY <1>1, <2>1 DEF LRows
  <2>3. row' = [row EXCEPT ![c] = r]
    BY <1>1, <1>3, <2>1
  <2>4. row' \in [LConns -> LRows]
    BY <1>1, <2>3
  <2>5. \A d \in LConns : row'[d].suspended = row[d].suspended /\ row'[d].applied = row[d].applied
    BY <1>1, <2>2, <2>3
  <2>6. wire' \subseteq wire \cup {c}
    BY <1>3
  <2> QED
    BY <1>3, <2>4, <2>5, <2>6
<1> QED
  BY <1>2, <1>3 DEF Toggle

\* A request that reaches a service while the fence is free.
LEMMA Reached ==
    ASSUME ServicesFit, SamePlan, FenceFree, UNCHANGED <<pass, target, held>>, allowed' \subseteq LConns,
           NEW c \in LConns, NEW on \in BOOLEAN, Toggle(c, on), UNCHANGED readmitted
    PROVE  ServicesFit' /\ (AppliedIsOff => AppliedIsOff') /\ LiftedIfAllowed
<1>1. /\ row' \in [LConns -> LRows] /\ \A d \in LConns : row'[d].suspended = row[d].suspended /\ row'[d].applied = row[d].applied
      /\ wire' \subseteq wire \cup {c} /\ (row[c].suspended => wire' = wire)
  BY ToggleIs
<1>2. pass'.pc \in {"idle", "choosing"} /\ pass' = pass /\ pass.conn = 0
  BY DEF FenceFree, Between, ServicesFit, PassFits
<1>3. RowsTyped'
  BY <1>1, <1>2 DEF ServicesFit, RowsTyped
<1>4. AppliedIsSuspended'
  BY <1>1 DEF ServicesFit, AppliedIsSuspended
<1>5. PassFits'
  BY <1>2 DEF PassFits
<1>6. AppliedIsOff => AppliedIsOff'
  BY <1>1, <1>2 DEF AppliedIsOff
<1>7. NothingLifted
  BY <1>1 DEF NothingLifted
<1> QED
  BY <1>2, <1>3, <1>4, <1>5, <1>6, <1>7, StaysLifted DEF ServicesFit

LEMMA PollKeeps ==
    ASSUME ServicesFit, SamePlan, NEW c \in LConns, Poll(c)
    PROVE  ServicesFit' /\ (AppliedIsOff => AppliedIsOff') /\ LiftedIfAllowed
<1>1. FenceFree /\ Toggle(c, c \in allowed) /\ UNCHANGED <<pass, allowed, target, held, readmitted>>
  BY DEF Poll
<1>2. allowed' \subseteq LConns
  BY <1>1 DEF ServicesFit, RowsTyped
<1>3. CASE c \in allowed
  <2>1. (c \in allowed) = TRUE
    BY <1>3
  <2>2. Toggle(c, TRUE)
    BY <1>1, <2>1 DEF Toggle
  <2> QED
    BY <1>1, <1>2, <2>2, Reached
<1>4. CASE c \notin allowed
  <2>1. (c \in allowed) = FALSE
    BY <1>4
  <2>2. Toggle(c, FALSE)
    BY <1>1, <2>1 DEF Toggle
  <2> QED
    BY <1>1, <1>2, <2>2, Reached
<1> QED
  BY <1>3, <1>4

LEMMA RenewNowKeeps ==
    ASSUME ServicesFit, SamePlan, NEW c \in LConns, RenewNow(c)
    PROVE  ServicesFit' /\ (AppliedIsOff => AppliedIsOff') /\ LiftedIfAllowed
<1>1. FenceFree /\ Toggle(c, TRUE) /\ UNCHANGED <<pass, target, held, readmitted>> /\ allowed' = allowed \cup {c}
  BY DEF RenewNow
<1>2. allowed' \subseteq LConns
  BY <1>1 DEF ServicesFit, RowsTyped
<1> QED
  BY <1>1, <1>2, Reached

LEMMA RunsOutKeeps ==
    ASSUME ServicesFit, SamePlan, NEW c \in LConns, RunsOutNow(c)
    PROVE  ServicesFit' /\ (AppliedIsOff => AppliedIsOff') /\ LiftedIfAllowed
<1>1. allowed' = allowed \ {c} /\ UNCHANGED <<pass, row, target, held, wire, readmitted>> /\ lplan'.kind = lplan.kind
  BY DEF RunsOutNow, SamePlan
<1>2. RowsTyped' /\ AppliedIsSuspended'
  BY <1>1 DEF ServicesFit, RowsTyped, AppliedIsSuspended
<1>3. PassFits'
  BY <1>1 DEF ServicesFit, PassFits, IsPeer, SameTarget
<1>4. AppliedIsOff => AppliedIsOff'
  BY <1>1 DEF AppliedIsOff
<1>5. NothingLifted
  BY <1>1 DEF NothingLifted
<1> QED
  BY <1>1, <1>2, <1>3, <1>4, <1>5, StaysLifted DEF ServicesFit

\* The fence is free, and the services are left alone.
LEMMA WhileFree ==
    ASSUME ServicesFit, SamePlan, FenceFree, UNCHANGED <<pass, row, wire, allowed>>,
           target' \subseteq LConns, held' \in BOOLEAN, UNCHANGED readmitted
    PROVE  ServicesFit' /\ (AppliedIsOff => AppliedIsOff') /\ LiftedIfAllowed
<1>1. pass.pc \in {"idle", "choosing"} /\ pass' = pass /\ pass.conn = 0
  BY DEF FenceFree, Between, ServicesFit, PassFits
<1>2. RowsTyped' /\ AppliedIsSuspended'
  BY DEF ServicesFit, RowsTyped, AppliedIsSuspended
<1>3. PassFits'
  BY <1>1 DEF PassFits
<1>4. AppliedIsOff => AppliedIsOff'
  BY DEF AppliedIsOff
<1>5. NothingLifted
  BY DEF NothingLifted
<1> QED
  BY <1>1, <1>2, <1>3, <1>4, <1>5, StaysLifted DEF ServicesFit

LEMMA RetargetKeeps ==
    ASSUME ServicesFit, SamePlan, NEW c \in LConns, Retarget(c)
    PROVE  ServicesFit' /\ (AppliedIsOff => AppliedIsOff') /\ LiftedIfAllowed
<1>1. FenceFree /\ target' = target \cup {c} /\ UNCHANGED <<pass, row, allowed, held, wire, readmitted>>
  BY DEF Retarget
<1>2. target' \subseteq LConns /\ held' \in BOOLEAN
  BY <1>1 DEF ServicesFit, RowsTyped
<1> QED
  BY <1>1, <1>2, WhileFree

LEMMA HoldKeeps ==
    ASSUME ServicesFit, SamePlan, Hold
    PROVE  ServicesFit' /\ (AppliedIsOff => AppliedIsOff') /\ LiftedIfAllowed
<1>1. FenceFree /\ held' = ~held /\ UNCHANGED <<pass, row, allowed, target, wire, readmitted>>
  BY DEF Hold
<1>2. target' \subseteq LConns /\ held' \in BOOLEAN
  BY <1>1 DEF ServicesFit, RowsTyped
<1> QED
  BY <1>1, <1>2, WhileFree

LEMMA AcceptKeeps ==
    ASSUME ServicesFit, SamePlan, NEW c \in LConns, Accept(c)
    PROVE  ServicesFit' /\ (AppliedIsOff => AppliedIsOff') /\ LiftedIfAllowed
<1>1. /\ FenceFree /\ wire' = wire \cup {c} /\ UNCHANGED <<pass, row, allowed, target, held>>
      /\ readmitted' = IF row[c].suspended THEN readmitted \cup {c} ELSE readmitted
  BY DEF Accept
<1>2. pass.pc \in {"idle", "choosing"} /\ pass.conn = 0
  BY <1>1 DEF FenceFree, Between, ServicesFit, PassFits
<1>3. RowsTyped'
  <2>1. wire' \subseteq LConns /\ readmitted' \subseteq LConns
    BY <1>1 DEF ServicesFit, RowsTyped
  <2> QED
    BY <1>1, <2>1 DEF ServicesFit, RowsTyped
<1>4. AppliedIsSuspended'
  BY <1>1 DEF ServicesFit, AppliedIsSuspended
<1>5. PassFits'
  BY <1>1, <1>2 DEF PassFits
<1>6. AppliedIsOff => AppliedIsOff'
  BY <1>1, <1>2 DEF AppliedIsOff
<1>7. NothingLifted
  BY <1>1 DEF NothingLifted
<1> QED
  BY <1>1, <1>2, <1>3, <1>4, <1>5, <1>6, <1>7, StaysLifted DEF ServicesFit

-----------------------------------------------------------------------------
\* A restart inside a restoration, or inside the installation of a key, is torn.
LEMMA RestartKeeps ==
    ASSUME PanelTyped, ServicesFit, Restart
    PROVE  /\ SamePlan /\ PanelTyped' /\ ServicesFit' /\ LiftedIfAllowed /\ TermOnlyShortens
           /\ Untorn => (KeyFits => KeyFits') /\ (AppliedIsOff => AppliedIsOff')
<1>1. /\ lplan' = LCounted /\ lplan.left > 0 /\ swap' = FALSE /\ beat' = [b \in Callers |-> NoCheckIn]
      /\ pass' = [pc |-> "idle", todo |-> {}, conn |-> 0, ok |-> FALSE] /\ Recomputed(file)
      /\ UNCHANGED <<today, install, key, by, row, allowed, target, held, wire, readmitted>>
      /\ swap \/ pass.pc \in {"enabled", "judged", "undoing", "undone"} => "torn" \in lplan.events
      /\ file \in Files /\ today \in Days
  BY DEF Restart, LOccurs, PanelTyped
<1>2. SamePlan
  BY <1>1, CountedIs
<1>3. file' \in Files /\ verdict' \in {"open", "locked", "cut"} /\ file'.revoked = file.revoked
      /\ \A k \in LKeys : file.act[k] # Unset => file'.act[k] = file.act[k]
  BY <1>1, RecomputedIs
<1>4. beat' \in [Callers -> CheckIns] /\ \A b \in Callers : beat'[b].pc = "idle"
  BY <1>1, IdleCheckIn
<1>5. PanelTyped'
  BY <1>1, <1>2, <1>3, <1>4 DEF PanelTyped, SamePlan
<1>6. Untorn => ~swap /\ pass.pc \notin {"enabled", "judged", "undoing", "undone"}
  BY <1>1 DEF Untorn
<1>7. Untorn => (KeyFits => KeyFits')
  BY <1>1, <1>3, <1>4, <1>6 DEF KeyFits, RevokedByItsKey
<1>8. pass' \in Passes /\ pass'.pc = "idle" /\ pass'.conn = 0
  BY <1>1 DEF Passes
<1>9. ServicesFit' /\ LiftedIfAllowed
  BY <1>1, <1>2, <1>8, BetweenConnections
<1>10. ASSUME Untorn, AppliedIsOff PROVE AppliedIsOff'
  <2>1. ASSUME NEW c \in LConns, row[c].suspended, row[c].applied PROVE c \notin wire \ readmitted
    <3>1. CASE pass.conn # c \/ pass.pc = "restoring"
      BY <1>10, <2>1, <3>1 DEF AppliedIsOff
    <3>2. CASE pass.conn = c /\ pass.pc \in {"marked", "stopped"}
      BY <2>1, <3>2 DEF ServicesFit, PassFits
    <3>3. CASE pass.conn = c /\ pass.pc \in {"idle", "choosing"}
      BY <3>3 DEF ServicesFit, PassFits
    <3>4. pass.pc \in {"idle", "choosing", "marked", "stopped", "restoring", "enabled", "judged", "undoing", "undone"}
      BY DEF ServicesFit, RowsTyped, Passes, Restoring
    <3> QED
      BY <1>6, <1>10, <3>1, <3>2, <3>3, <3>4
  <2> QED
    BY <1>1, <2>1 DEF AppliedIsOff
<1>11. \A k \in LKeys : file.act[k] \in Dates /\ install[k].act \in Dates
  BY DEF PanelTyped, Files, Installs
<1>12. \A k \in LKeys : file.act[k] <= file.act[k] /\ install[k].act <= install[k].act
  BY <1>11 DEF Dates, Unset
<1>13. TermOnlyShortens
  BY <1>1, <1>3, <1>12 DEF TermOnlyShortens
<1> QED
  BY <1>2, <1>5, <1>7, <1>9, <1>10, <1>13

-----------------------------------------------------------------------------
(* The steps together *)

PanelWork ==
    \/ Refresh \/ SetLicenseKey \/ LoseFile
    \/ \E b \in Callers : Ask(b) \/ Answer(b) \/ Unanswered(b) \/ TakeReply(b) \/ ApplyReply(b)
    \/ \E k \in LKeys \cup {NoKey} : InstallKey(k)
    \/ \E k \in LKeys : Forget(k)
    \/ \E k \in LKeys, r \in BOOLEAN, s \in {"panel_only", "everything"} : Decide(k, r, s)
    \/ \E d \in Days : SetClock(d)

ServiceWork == PassStep \/ Hold \/ \E c \in LConns : Poll(c) \/ RunsOutNow(c) \/ RenewNow(c) \/ Retarget(c) \/ Accept(c)

LEMMA LicenceWork == LicenceNext => PanelWork \/ ServiceWork \/ Restart
BY DEF LicenceNext, PanelWork, ServiceWork

LEMMA PanelWorkKeeps ==
    ASSUME PanelTyped, PanelWork
    PROVE  SamePlan /\ PanelTyped' /\ (KeyFits => KeyFits') /\ TermOnlyShortens /\ UNCHANGED servicevars_
<1>1. CASE Refresh
  BY <1>1, RefreshKeeps DEF Refresh
<1>2. CASE SetLicenseKey
  BY <1>2, SetLicenseKeyKeeps DEF SetLicenseKey
<1>3. CASE LoseFile
  BY <1>3, LoseFileKeeps DEF LoseFile
<1>4. ASSUME NEW b \in Callers, Ask(b) PROVE SamePlan /\ PanelTyped' /\ (KeyFits => KeyFits') /\ TermOnlyShortens /\ UNCHANGED servicevars_
  BY <1>4, AskKeeps DEF Ask
<1>5. ASSUME NEW b \in Callers, Answer(b) PROVE SamePlan /\ PanelTyped' /\ (KeyFits => KeyFits') /\ TermOnlyShortens /\ UNCHANGED servicevars_
  BY <1>5, AnswerKeeps DEF Answer
<1>6. ASSUME NEW b \in Callers, Unanswered(b) PROVE SamePlan /\ PanelTyped' /\ (KeyFits => KeyFits') /\ TermOnlyShortens /\ UNCHANGED servicevars_
  BY <1>6, UnansweredKeeps DEF Unanswered
<1>7. ASSUME NEW b \in Callers, TakeReply(b) PROVE SamePlan /\ PanelTyped' /\ (KeyFits => KeyFits') /\ TermOnlyShortens /\ UNCHANGED servicevars_
  BY <1>7, TakeReplyKeeps DEF TakeReply
<1>8. ASSUME NEW b \in Callers, ApplyReply(b) PROVE SamePlan /\ PanelTyped' /\ (KeyFits => KeyFits') /\ TermOnlyShortens /\ UNCHANGED servicevars_
  BY <1>8, ApplyReplyKeeps DEF ApplyReply
<1>9. ASSUME NEW k \in LKeys \cup {NoKey}, InstallKey(k) PROVE SamePlan /\ PanelTyped' /\ (KeyFits => KeyFits') /\ TermOnlyShortens /\ UNCHANGED servicevars_
  BY <1>9, InstallKeyKeeps DEF InstallKey
<1>10. ASSUME NEW k \in LKeys, Forget(k) PROVE SamePlan /\ PanelTyped' /\ (KeyFits => KeyFits') /\ TermOnlyShortens /\ UNCHANGED servicevars_
  BY <1>10, ForgetKeeps DEF Forget
<1>11. ASSUME NEW k \in LKeys, NEW r \in BOOLEAN, NEW s \in {"panel_only", "everything"}, Decide(k, r, s)
       PROVE  SamePlan /\ PanelTyped' /\ (KeyFits => KeyFits') /\ TermOnlyShortens /\ UNCHANGED servicevars_
  BY <1>11, DecideKeeps DEF Decide
<1>12. ASSUME NEW d \in Days, SetClock(d) PROVE SamePlan /\ PanelTyped' /\ (KeyFits => KeyFits') /\ TermOnlyShortens /\ UNCHANGED servicevars_
  BY <1>12, SetClockKeeps DEF SetClock
<1> QED
  BY <1>1, <1>2, <1>3, <1>4, <1>5, <1>6, <1>7, <1>8, <1>9, <1>10, <1>11, <1>12 DEF PanelWork

\* The services at work: what they leave of the panel, and what of the plan.
LEMMA ServiceWorkIs ==
    ASSUME PanelTyped, ServiceWork
    PROVE  SamePlan /\ UNCHANGED <<today, install, panelvars, beat>>
<1>1. (lplan' = lplan \/ (lplan' = LCounted /\ lplan.left > 0)) /\ UNCHANGED <<today, install, panelvars, beat>>
  <2>1. CASE StartPass \/ EndPass \/ CutMarks \/ RestoreReads \/ SkipConn \/ CutStands \/ CutRecords
             \/ RestoreJudges \/ RestoreCommits \/ RestoreRecords
    BY <2>1 DEF StartPass, EndPass, CutMarks, RestoreReads, SkipConn, CutStands, CutRecords,
             RestoreJudges, RestoreCommits, RestoreRecords, LOccurs
  <2>2. CASE CutSends \/ RestoreSends \/ RestoreUndoes
    <3>1. (\E call \in Calls : CountCall(call)) /\ UNCHANGED <<today, install, panelvars, beat>>
      BY <2>2 DEF CutSends, RestoreSends, RestoreUndoes
    <3> QED
      BY <3>1, CallsAre DEF CountCall
  <2>3. CASE Hold \/ \E c \in LConns : Poll(c) \/ RunsOutNow(c) \/ RenewNow(c) \/ Retarget(c) \/ Accept(c)
    BY <2>3 DEF Hold, Poll, RunsOutNow, RenewNow, Retarget, Accept, LOccurs
  <2> QED
    BY <2>1, <2>2, <2>3 DEF ServiceWork, PassStep
<1> QED
  BY <1>1, CountedIs

LEMMA ServiceWorkKeeps ==
    ASSUME PanelTyped, ServicesFit, ServiceWork
    PROVE  ServicesFit' /\ (AppliedIsOff => AppliedIsOff') /\ LiftedIfAllowed
<1>1. SamePlan
  BY ServiceWorkIs
<1>2. CASE StartPass
  BY <1>1, <1>2, StartPassKeeps
<1>3. CASE EndPass
  BY <1>1, <1>3, EndPassKeeps
<1>4. CASE CutMarks
  BY <1>1, <1>4, CutMarksKeeps
<1>5. CASE RestoreReads
  BY <1>1, <1>5, RestoreReadsKeeps
<1>6. CASE SkipConn
  BY <1>1, <1>6, SkipConnKeeps
<1>7. CASE CutStands
  BY <1>1, <1>7, CutStandsKeeps
<1>8. CASE CutSends
  BY <1>1, <1>8, CutSendsKeeps
<1>9. CASE CutRecords
  BY <1>1, <1>9, CutRecordsKeeps
<1>10. CASE RestoreSends
  BY <1>1, <1>10, RestoreSendsKeeps
<1>11. CASE RestoreJudges
  BY <1>1, <1>11, RestoreJudgesKeeps
<1>12. CASE RestoreCommits
  BY <1>1, <1>12, RestoreCommitsKeeps
<1>13. CASE RestoreUndoes
  BY <1>1, <1>13, RestoreUndoesKeeps
<1>14. CASE RestoreRecords
  BY <1>1, <1>14, RestoreRecordsKeeps
<1>15. CASE Hold
  BY <1>1, <1>15, HoldKeeps
<1>16. ASSUME NEW c \in LConns, Poll(c) PROVE ServicesFit' /\ (AppliedIsOff => AppliedIsOff') /\ LiftedIfAllowed
  BY <1>1, <1>16, PollKeeps
<1>17. ASSUME NEW c \in LConns, RunsOutNow(c) PROVE ServicesFit' /\ (AppliedIsOff => AppliedIsOff') /\ LiftedIfAllowed
  BY <1>1, <1>17, RunsOutKeeps
<1>18. ASSUME NEW c \in LConns, RenewNow(c) PROVE ServicesFit' /\ (AppliedIsOff => AppliedIsOff') /\ LiftedIfAllowed
  BY <1>1, <1>18, RenewNowKeeps
<1>19. ASSUME NEW c \in LConns, Retarget(c) PROVE ServicesFit' /\ (AppliedIsOff => AppliedIsOff') /\ LiftedIfAllowed
  BY <1>1, <1>19, RetargetKeeps
<1>20. ASSUME NEW c \in LConns, Accept(c) PROVE ServicesFit' /\ (AppliedIsOff => AppliedIsOff') /\ LiftedIfAllowed
  BY <1>1, <1>20, AcceptKeeps
<1> QED
  BY <1>2, <1>3, <1>4, <1>5, <1>6, <1>7, <1>8, <1>9, <1>10, <1>11, <1>12, <1>13, <1>14, <1>15, <1>16, <1>17, <1>18, <1>19, <1>20
  DEF ServiceWork, PassStep

LEMMA LInvNext ==
    ASSUME LInv, [LicenceNext]_licencevars
    PROVE  LInv' /\ LiftedIfAllowed /\ TermOnlyShortens
<1>1. PanelTyped /\ ServicesFit /\ (Untorn => AppliedIsOff /\ KeyFits)
  BY DEF LInv
<1>2. SamePlan => (Untorn' <=> Untorn)
  BY DEF SamePlan, Untorn
<1>3. CASE PanelWork
  <2>1. SamePlan /\ PanelTyped' /\ (KeyFits => KeyFits') /\ TermOnlyShortens /\ UNCHANGED servicevars_
    BY <1>1, <1>3, PanelWorkKeeps
  <2>2. (ServicesFit => ServicesFit') /\ (AppliedIsOff => AppliedIsOff') /\ LiftedIfAllowed
    BY <2>1, ServicesStay
  <2> QED
    BY <1>1, <1>2, <2>1, <2>2 DEF LInv
<1>4. CASE ServiceWork
  <2>1. SamePlan /\ UNCHANGED <<today, install, panelvars, beat>>
    BY <1>1, <1>4, ServiceWorkIs
  <2>2. PanelTyped' /\ (KeyFits => KeyFits') /\ TermOnlyShortens
    BY <1>1, <2>1, PanelStays
  <2>3. ServicesFit' /\ (AppliedIsOff => AppliedIsOff') /\ LiftedIfAllowed
    BY <1>1, <1>4, ServiceWorkKeeps
  <2> QED
    BY <1>1, <1>2, <2>1, <2>2, <2>3 DEF LInv
<1>5. CASE Restart
  <2>1. /\ SamePlan /\ PanelTyped' /\ ServicesFit' /\ LiftedIfAllowed /\ TermOnlyShortens
        /\ Untorn => (KeyFits => KeyFits') /\ (AppliedIsOff => AppliedIsOff')
    BY <1>1, <1>5, RestartKeeps
  <2> QED
    BY <1>1, <1>2, <2>1 DEF LInv
<1>6. CASE UNCHANGED licencevars
  <2>1. lplan' = lplan /\ UNCHANGED <<today, install, panelvars, beat>> /\ UNCHANGED servicevars_
    BY <1>6 DEF licencevars
  <2>2. SamePlan
    BY <1>1, <2>1, CountedIs
  <2>3. PanelTyped' /\ (KeyFits => KeyFits') /\ TermOnlyShortens
    BY <1>1, <2>1, <2>2, PanelStays
  <2>4. (ServicesFit => ServicesFit') /\ (AppliedIsOff => AppliedIsOff') /\ LiftedIfAllowed
    BY <2>1, <2>2, ServicesStay
  <2> QED
    BY <1>1, <1>2, <2>2, <2>3, <2>4 DEF LInv
<1> QED
  BY <1>3, <1>4, <1>5, <1>6, LicenceWork

LEMMA LInvSays == LInv => LicenceTypeOK /\ (Untorn => LicenceInv)
<1>1. LInv => LicenceTypeOK
  BY DEF LInv, PanelTyped, ServicesFit, RowsTyped, LicenceTypeOK, Installs, Files, Dates, LRows
<1> QED
  BY <1>1 DEF LInv, LicenceInv, KeyFits

-----------------------------------------------------------------------------
(*****************************************************************************)
(* QuotaEnforcement, for any connections and every plan: the types of what   *)
(* the poll cycle and the short transactions hold, and the meter.            *)
(*****************************************************************************)

HIDE LicenceAssumption
USE QuotaAssumption

-----------------------------------------------------------------------------
(* The inductive invariant *)

SubRow == [status: {"active", "quota_exceeded", "expired", "disabled"}, used: Nat, expired: BOOLEAN]
ConnRow == [enabled: BOOLEAN, limited: BOOLEAN, adminOff: BOOLEAN, online: BOOLEAN, seen: Nat]
PeerRow == [on: BOOLEAN, moved: Nat]

\* What a session has loaded is a part of the rows; a purchase is never disabled.
SubPart(f) ==
    /\ DOMAIN f \subseteq Allotments /\ f \in [DOMAIN f -> SubRow]
    /\ "buy" \in DOMAIN f => f["buy"].status # "disabled"
ConnPart(f) == DOMAIN f \subseteq QConns /\ f \in [DOMAIN f -> ConnRow]
SubParts == {f \in UNION {[S -> SubRow] : S \in SUBSET Allotments} : SubPart(f)}
ConnParts == UNION {[C -> ConnRow] : C \in SUBSET QConns}
Marks == UNION {[C -> BOOLEAN] : C \in SUBSET QConns}
Sessions == [sub: SubParts, conn: ConnParts]
Todo == Seq(QConns \X BOOLEAN)
PollPcs == {"idle", "purchases", "users", "limits", "reconcile", "commit"}
Polls == [pc: PollPcs, base: Sessions, work: Sessions, flushed: Marks, live: SUBSET QConns, todo: Todo]
Conns == [QConns -> ConnRow]
Peers == [QConns -> PeerRow]
AllSubs == {f \in SubParts : DOMAIN f = Allotments}

RowsFit == sub \in AllSubs /\ qconn \in Conns /\ peer \in Peers
QTypes ==
    /\ qplan \in QPlan /\ RowsFit /\ using \subseteq QConns /\ poll \in Polls
    /\ carried \in Nat /\ billed \in Nat

\* What has been carried and is still to be billed has been carried.
Meter == billed + Metered(QConns) <= carried

QInv == QTypes /\ Meter

-----------------------------------------------------------------------------
(* Rows *)

LEMMA SubPartsAre == \A f : f \in SubParts <=> SubPart(f)
BY DEF SubParts, SubPart
LEMMA ConnPartsAre == \A f : f \in ConnParts <=> ConnPart(f)
BY DEF ConnParts, ConnPart
LEMMA AllSubsAre == \A f : f \in AllSubs <=> f \in [Allotments -> SubRow] /\ f["buy"].status # "disabled"
BY SubPartsAre DEF AllSubs, SubPart, Allotments

LEMMA LoadIs ==
    ASSUME NEW w \in Sessions, NEW S \in SUBSET Allotments, NEW C \in SUBSET QConns, RowsFit
    PROVE  /\ Load(w, S, C) \in Sessions
           /\ DOMAIN Load(w, S, C).sub = DOMAIN w.sub \cup S
           /\ DOMAIN Load(w, S, C).conn = DOMAIN w.conn \cup C
<1>1. SubPart(w.sub) /\ ConnPart(w.conn)
  BY SubPartsAre, ConnPartsAre DEF Sessions
<1>2. sub \in [Allotments -> SubRow] /\ sub["buy"].status # "disabled" /\ qconn \in [QConns -> ConnRow]
  BY AllSubsAre DEF RowsFit, Conns
<1>3. PICK f : f = Over(w.sub, [s \in S |-> sub[s]])
  OBVIOUS
<1>4. DOMAIN f = DOMAIN w.sub \cup S /\ f = [s \in DOMAIN w.sub \cup S |-> IF s \in DOMAIN w.sub THEN w.sub[s] ELSE sub[s]]
  BY <1>3 DEF Over
<1>5. SubPart(f)
  BY <1>1, <1>2, <1>4 DEF SubPart
<1>6. PICK g : g = Over(w.conn, [c \in C |-> qconn[c]])
  OBVIOUS
<1>7. DOMAIN g = DOMAIN w.conn \cup C /\ g = [c \in DOMAIN w.conn \cup C |-> IF c \in DOMAIN w.conn THEN w.conn[c] ELSE qconn[c]]
  BY <1>6 DEF Over
<1>8. ConnPart(g)
  BY <1>1, <1>2, <1>7 DEF ConnPart
<1>9. Load(w, S, C) = [sub |-> f, conn |-> g]
  BY <1>3, <1>6 DEF Load
<1>10. f \in SubParts /\ g \in ConnParts
  BY <1>5, <1>8, SubPartsAre, ConnPartsAre
<1> QED
  BY <1>4, <1>7, <1>9, <1>10 DEF Sessions

\* All of the rows.
LEMMA LoadAllIs ==
    ASSUME NEW w \in Sessions, RowsFit
    PROVE  /\ Load(w, Allotments, QConns) \in Sessions
           /\ Load(w, Allotments, QConns).sub \in AllSubs /\ Load(w, Allotments, QConns).conn \in Conns
<1>1. PICK r : r = Load(w, Allotments, QConns)
  OBVIOUS
<1>2. r \in Sessions /\ DOMAIN r.sub = DOMAIN w.sub \cup Allotments /\ DOMAIN r.conn = DOMAIN w.conn \cup QConns
  <2>1. Load(w, Allotments, QConns) \in Sessions
    BY LoadIs
  <2>2. DOMAIN Load(w, Allotments, QConns).sub = DOMAIN w.sub \cup Allotments
    BY LoadIs
  <2>3. DOMAIN Load(w, Allotments, QConns).conn = DOMAIN w.conn \cup QConns
    BY LoadIs
  <2> QED
    BY <1>1, <2>1, <2>2, <2>3
<1>3. SubPart(w.sub) /\ ConnPart(w.conn) /\ r.sub \in SubParts /\ ConnPart(r.conn)
  BY <1>2, SubPartsAre, ConnPartsAre DEF Sessions
<1>4. DOMAIN r.sub = Allotments /\ DOMAIN r.conn = QConns
  BY <1>2, <1>3 DEF SubPart, ConnPart
<1>5. r.sub \in AllSubs /\ r.conn \in Conns
  BY <1>3, <1>4 DEF AllSubs, ConnPart, Conns
<1> QED
  BY <1>1, <1>2, <1>5

LEMMA NothingIs == Nothing \in Sessions
<1>1. SubPart(<<>>) /\ ConnPart(<<>>)
  BY DEF SubPart, ConnPart
<1> QED
  BY <1>1, SubPartsAre, ConnPartsAre DEF Nothing, Sessions

-----------------------------------------------------------------------------
(* Switches *)

LEMMA GreatestOf ==
    ASSUME NEW S \in SUBSET Nat, IsFiniteSet(S), S # {}
    PROVE  \E m \in S : \A x \in S : x <= m
<1> DEFINE G == {T \in SUBSET S : T # {} => \E m \in T : \A x \in T : x <= m}
<1>1. ASSUME NEW T \in SUBSET S, \A U \in SUBSET T : U # T => U \in G PROVE T \in G
  <2> SUFFICES ASSUME T # {} PROVE \E m \in T : \A x \in T : x <= m
    OBVIOUS
  <2>1. PICK x \in T : TRUE
    OBVIOUS
  <2>2. T \ {x} \in G
    BY <1>1, <2>1
  <2>3. CASE T \ {x} = {}
    <3>1. \A y \in T : y = x /\ y \in Nat
      BY <2>3
    <3>2. \A y \in T : y <= x
      BY <3>1
    <3> QED
      BY <2>1, <3>2
  <2>4. CASE T \ {x} # {}
    <3>1. PICK m \in T \ {x} : \A y \in T \ {x} : y <= m
      BY <2>2, <2>4
    <3>2. m \in Nat /\ x \in Nat /\ \A y \in T : y \in Nat
      BY <2>1
    <3>3. CASE x <= m
      <4>1. \A y \in T : y <= m
        BY <3>1, <3>3
      <4> QED
        BY <3>1, <4>1
    <3>4. CASE m <= x
      <4>1. \A y \in T : y <= x
        BY <3>1, <3>2, <3>4
      <4> QED
        BY <2>1, <4>1
    <3> QED
      BY <3>2, <3>3, <3>4
  <2> QED
    BY <2>3, <2>4
<1> HIDE DEF G
<1>2. SUBSET S \subseteq G
  BY <1>1, EveryPart
<1>3. S \in G
  BY <1>2
<1> QED
  BY <1>3 DEF G

\* A finite set of ids can be put in order.
LEMMA InOrder ==
    ASSUME NEW S \in SUBSET QConns
    PROVE  ById(S) \in [1..Cardinality(S) -> S] /\ Cardinality(S) \in Nat
<1> DEFINE Ordered(q) == \A i, j \in DOMAIN q : i < j => q[i] < q[j]
           G == {T \in SUBSET S : \E q \in [1..Cardinality(T) -> T] : Ordered(q)}
<1>1. IsFiniteSet(S)
  BY FS_Subset
<1>2. ASSUME NEW T \in SUBSET S, \A U \in SUBSET T : U # T => U \in G PROVE T \in G
  <2>1. IsFiniteSet(T) /\ Cardinality(T) \in Nat
    BY <1>1, FS_Subset, FS_CardinalityType
  <2>2. CASE T = {}
    <3>1. Cardinality(T) = 0
      BY <2>2, FS_EmptySet
    <3>2. 1..Cardinality(T) = {}
      BY <3>1
    <3>3. <<>> \in [1..Cardinality(T) -> T] /\ Ordered(<<>>)
      BY <3>2
    <3> QED
      BY <3>3
  <2>3. CASE T # {}
    <3>1. PICK m \in T : \A x \in T : x <= m
      BY <2>1, <2>3, GreatestOf, T \in SUBSET Nat
    <3>2. T \ {m} \in SUBSET T /\ T \ {m} # T
      BY <3>1
    <3>3. Cardinality(T \ {m}) = Cardinality(T) - 1 /\ Cardinality(T) - 1 \in Nat
      <4>1. Cardinality(T \ {m}) = Cardinality(T) - 1
        BY <2>1, FS_RemoveElement
      <4>2. Cardinality(T \ {m}) \in Nat
        BY <2>1, FS_RemoveElement, FS_CardinalityType
      <4> QED
        BY <4>1, <4>2
    <3>4. PICK q \in [1..(Cardinality(T) - 1) -> T \ {m}] : Ordered(q)
      BY <1>2, <3>2, <3>3
    <3>5. PICK n \in Nat : n = Cardinality(T) - 1 /\ Cardinality(T) = n + 1
      BY <2>1, <3>3
    <3> DEFINE r == [i \in 1..(n + 1) |-> IF i = n + 1 THEN m ELSE q[i]]
    <3>6. r \in [1..Cardinality(T) -> T]
      BY <3>1, <3>4, <3>5
    <3>7. ASSUME NEW i \in 1..(n + 1), NEW j \in 1..(n + 1), i < j PROVE r[i] < r[j]
      <4>1. i \in 1..n /\ q[i] \in T \ {m} /\ r[i] = q[i]
        BY <3>4, <3>5, <3>7
      <4>2. CASE j = n + 1
        <5>1. r[j] = m /\ q[i] <= m /\ q[i] # m /\ q[i] \in Nat /\ m \in Nat
          BY <3>1, <4>1, <4>2
        <5> QED
          BY <4>1, <5>1
      <4>3. CASE j # n + 1
        <5>1. j \in 1..n /\ r[j] = q[j] /\ DOMAIN q = 1..n
          BY <3>4, <3>5, <4>3
        <5> QED
          BY <3>4, <3>7, <4>1, <5>1
      <4> QED
        BY <4>2, <4>3
    <3>8. Ordered(r)
      BY <3>7
    <3> HIDE DEF r, Ordered
    <3> QED
      BY <3>6, <3>8
  <2> QED
    BY <2>2, <2>3
<1> HIDE DEF G
<1>3. SUBSET S \subseteq G
  BY <1>1, <1>2, EveryPart
<1>4. S \in G
  BY <1>3
<1>5. \E q \in [1..Cardinality(S) -> S] : \A i, j \in DOMAIN q : i < j => q[i] < q[j]
  BY <1>4 DEF G
<1>6. ById(S) \in [1..Cardinality(S) -> S]
  BY <1>5 DEF ById
<1> QED
  BY <1>1, <1>6, FS_CardinalityType

\* A list that is made connection by connection is a list of switches.
LEMMA ListIs ==
    ASSUME NEW S \in SUBSET QConns, NEW q, DOMAIN q = DOMAIN ById(S), q = [i \in DOMAIN q |-> q[i]],
           \A i \in DOMAIN q : q[i] \in QConns \X BOOLEAN
    PROVE  q \in Todo
<1>1. PICK n \in Nat : n = Cardinality(S) /\ DOMAIN ById(S) = 1..n
  BY InOrder
<1>2. q \in [1..n -> QConns \X BOOLEAN]
  BY <1>1
<1>3. q \in Seq(QConns \X BOOLEAN)
  BY <1>2, <1>1, SeqDef
<1> QED
  BY <1>3 DEF Todo

LEMMA SwitchesIs ==
    ASSUME NEW S \in SUBSET QConns, NEW on \in BOOLEAN
    PROVE  Switches(S, on) \in Todo
<1> DEFINE q == Switches(S, on)
<1>1. \A i \in DOMAIN ById(S) : ById(S)[i] \in QConns
  BY InOrder
<1>2. q = [i \in DOMAIN ById(S) |-> <<ById(S)[i], on>>]
  BY DEF Switches
<1>3. DOMAIN q = DOMAIN ById(S) /\ q = [i \in DOMAIN q |-> q[i]]
  BY <1>2
<1>4. \A i \in DOMAIN q : q[i] \in QConns \X BOOLEAN
  BY <1>1, <1>2
<1> HIDE DEF q
<1>5. q \in Todo
  BY <1>3, <1>4, ListIs
<1> QED
  BY <1>5 DEF q

\* The rows and the peers that one switch may leave.
RowOn(f, c, on) == [f EXCEPT ![c].enabled = on]
PeerOn(p, c, on) == [p EXCEPT ![c].on = on]

LEMMA RowOnIs ==
    ASSUME NEW f, ConnPart(f), NEW c, NEW on \in BOOLEAN
    PROVE  /\ ConnPart(RowOn(f, c, on)) /\ DOMAIN RowOn(f, c, on) = DOMAIN f
           /\ \A d \in DOMAIN f : RowOn(f, c, on)[d].seen = f[d].seen
<1> DEFINE g == RowOn(f, c, on)
<1>1. f \in [DOMAIN f -> ConnRow] /\ DOMAIN f \subseteq QConns
  BY DEF ConnPart
<1>2. DOMAIN g = DOMAIN f /\ g = [d \in DOMAIN f |-> g[d]]
  BY <1>1 DEF RowOn
<1>3. ASSUME NEW d \in DOMAIN f PROVE g[d] \in ConnRow /\ g[d].seen = f[d].seen
  <2>1. f[d] \in ConnRow
    BY <1>1
  <2>2. [f[d] EXCEPT !.enabled = on] \in ConnRow
    BY <2>1 DEF ConnRow
  <2>3. [f[d] EXCEPT !.enabled = on].seen = f[d].seen
    BY <2>1 DEF ConnRow
  <2>4. CASE d = c
    <3>1. g[d] = [f[d] EXCEPT !.enabled = on]
      BY <1>1, <2>4 DEF RowOn
    <3> QED
      BY <2>2, <2>3, <3>1
  <2>5. CASE d # c
    <3>1. g[d] = f[d]
      BY <1>1, <2>5 DEF RowOn
    <3> QED
      BY <2>1, <3>1
  <2> QED
    BY <2>4, <2>5
<1> HIDE DEF g
<1>4. ConnPart(g) /\ DOMAIN g = DOMAIN f /\ \A d \in DOMAIN f : g[d].seen = f[d].seen
  BY <1>1, <1>2, <1>3 DEF ConnPart
<1> QED
  BY <1>4 DEF g

LEMMA PeerOnIs ==
    ASSUME NEW p \in Peers, NEW c, NEW on \in BOOLEAN
    PROVE  PeerOn(p, c, on) \in Peers /\ \A d \in QConns : PeerOn(p, c, on)[d].moved = p[d].moved
<1> DEFINE g == PeerOn(p, c, on)
<1>1. p \in [QConns -> PeerRow]
  BY DEF Peers
<1>2. DOMAIN g = QConns /\ g = [d \in QConns |-> g[d]]
  BY <1>1 DEF PeerOn
<1>3. ASSUME NEW d \in QConns PROVE g[d] \in PeerRow /\ g[d].moved = p[d].moved
  <2>1. p[d] \in PeerRow
    BY <1>1
  <2>2. [p[d] EXCEPT !.on = on] \in PeerRow
    BY <2>1 DEF PeerRow
  <2>3. [p[d] EXCEPT !.on = on].moved = p[d].moved
    BY <2>1 DEF PeerRow
  <2>4. CASE d = c
    <3>1. g[d] = [p[d] EXCEPT !.on = on]
      BY <1>1, <2>4 DEF PeerOn
    <3> QED
      BY <2>2, <2>3, <3>1
  <2>5. CASE d # c
    <3>1. g[d] = p[d]
      BY <1>1, <2>5 DEF PeerOn
    <3> QED
      BY <2>1, <3>1
  <2> QED
    BY <2>4, <2>5
<1> HIDE DEF g
<1>4. g \in Peers /\ \A d \in QConns : g[d].moved = p[d].moved
  BY <1>2, <1>3 DEF Peers
<1> QED
  BY <1>4 DEF g

\* What a short transaction works on, and what its switches leave of it.
Worlds == [sub: AllSubs, conn: Conns, peer: Peers]
Kin(w) == {x \in Worlds : x.sub = w.sub /\ \A c \in QConns : x.conn[c].seen = w.conn[c].seen /\ x.peer[c].moved = w.peer[c].moved}

LEMMA OneSwitch ==
    ASSUME NEW w \in Worlds, NEW x \in Kin(w), NEW c, NEW on \in BOOLEAN, NEW out
    PROVE  SetEnabled(x, c, on, out) \in Kin(w)
<1>1. /\ x \in Worlds /\ x.sub = w.sub /\ x.sub \in AllSubs
      /\ \A d \in QConns : x.conn[d].seen = w.conn[d].seen /\ x.peer[d].moved = w.peer[d].moved
      /\ x.conn \in [QConns -> ConnRow] /\ x.peer \in Peers
  BY DEF Kin, Worlds, Conns
<1>2. ConnPart(x.conn) /\ DOMAIN x.conn = QConns
  BY <1>1 DEF ConnPart
<1>3. PICK f : f = RowOn(x.conn, c, on) /\ f \in Conns /\ \A d \in QConns : f[d].seen = x.conn[d].seen
  <2>1. ConnPart(RowOn(x.conn, c, on)) /\ DOMAIN RowOn(x.conn, c, on) = QConns
        /\ \A d \in QConns : RowOn(x.conn, c, on)[d].seen = x.conn[d].seen
    BY <1>2, RowOnIs
  <2> QED
    BY <2>1 DEF ConnPart, Conns
<1>4. PICK p \in Peers : p = PeerOn(x.peer, c, on) /\ \A d \in QConns : p[d].moved = x.peer[d].moved
  BY <1>1, PeerOnIs
<1>5. [x EXCEPT !.conn = f] \in Worlds /\ [x EXCEPT !.conn = f, !.peer = p] \in Worlds
  BY <1>1, <1>3, <1>4 DEF Worlds
<1>6. /\ [x EXCEPT !.conn = f].sub = x.sub /\ [x EXCEPT !.conn = f].conn = f /\ [x EXCEPT !.conn = f].peer = x.peer
      /\ [x EXCEPT !.conn = f, !.peer = p].sub = x.sub /\ [x EXCEPT !.conn = f, !.peer = p].conn = f
      /\ [x EXCEPT !.conn = f, !.peer = p].peer = p
  BY <1>1 DEF Worlds
<1>7. [x EXCEPT !.conn = f] \in Kin(w) /\ [x EXCEPT !.conn = f, !.peer = p] \in Kin(w)
  <2>1. \A d \in QConns : f[d].seen = w.conn[d].seen /\ p[d].moved = w.peer[d].moved
    BY <1>1, <1>3, <1>4
  <2>2. PICK y, z : y = [x EXCEPT !.conn = f] /\ z = [x EXCEPT !.conn = f, !.peer = p]
    OBVIOUS
  <2>3. /\ y \in Worlds /\ y.sub = w.sub /\ y.conn = f /\ y.peer = x.peer
        /\ z \in Worlds /\ z.sub = w.sub /\ z.conn = f /\ z.peer = p
    BY <1>1, <1>5, <1>6, <2>2
  <2>4. y \in Kin(w) /\ z \in Kin(w)
    BY <1>1, <2>1, <2>3 DEF Kin
  <2> QED
    BY <2>2, <2>4
<1>8. SetEnabled(x, c, on, out) \in {x, [x EXCEPT !.conn = f], [x EXCEPT !.conn = f, !.peer = p]}
  <2>1. \/ SetEnabled(x, c, on, out) = x
        \/ SetEnabled(x, c, on, out) = [x EXCEPT !.conn = RowOn(x.conn, c, on)]
        \/ SetEnabled(x, c, on, out) = [x EXCEPT !.conn = RowOn(x.conn, c, on), !.peer = PeerOn(x.peer, c, on)]
    BY DEF SetEnabled, RowOn, PeerOn
  <2> QED
    BY <1>3, <1>4, <2>1
<1> QED
  BY <1>7, <1>8

LEMMA SetAllIs ==
    ASSUME NEW w \in Worlds, NEW switches \in Todo, NEW out
    PROVE  SetAll(w, switches, out) \in Kin(w)
<1> DEFINE n == Len(switches)
           B == Kin(w)
           ch == [T \in SUBSET (1..n) |-> Max(T)]
           step == [k \in 1..n |-> [x \in B |-> SetEnabled(x, switches[k][1], switches[k][2], out)]]
           Op(x, T, g) == SetEnabled(g[T \ {x}], switches[x][1], switches[x][2], out)
           Is(g) == g = [T \in SUBSET (1..n) |-> IF T = {} THEN w ELSE Op(Max(T), T, g)]
           it == CHOOSE g : Is(g)
<1>1. n \in Nat /\ IsFiniteSet(1..n) /\ DOMAIN switches = 1..n
  BY FS_Interval DEF Todo
<1>2. \A T \in SUBSET (1..n) : T # {} => ch[T] \in T /\ ch[T] = Max(T)
  BY <1>1, LargestOf DEF Max
<1>3. ASSUME NEW k \in 1..n PROVE switches[k][2] \in BOOLEAN
  <2>1. switches[k] \in QConns \X BOOLEAN
    BY <1>1 DEF Todo
  <2> QED
    BY <2>1
<1>4. w \in B
  BY DEF Kin
<1>5. ASSUME NEW k \in 1..n, NEW x \in B PROVE SetEnabled(x, switches[k][1], switches[k][2], out) \in B
  <2>1. PICK on \in BOOLEAN : on = switches[k][2]
    BY <1>3
  <2>2. SetEnabled(x, switches[k][1], on, out) \in B
    BY OneSwitch
  <2> QED
    BY <2>1, <2>2
<1>6. step \in [1..n -> [B -> B]] /\ \A k \in 1..n, x \in B : step[k][x] = SetEnabled(x, switches[k][1], switches[k][2], out)
  BY <1>5
<1>7. ASSUME NEW g, NEW T \in SUBSET (1..n), T # {}, g[T \ {ch[T]}] \in B
      PROVE  Op(Max(T), T, g) = step[ch[T]][g[T \ {ch[T]}]]
  BY <1>2, <1>6, <1>7
<1> HIDE DEF ch, step, B
<1>8. \E g : Is(g)
  <2>1. PICK g \in [SUBSET (1..n) -> B] : IsFolder(step, w, ch, g, 1..n)
    <3>1. \A T \in SUBSET (1..n) : T # {} => ch[T] \in T
      BY <1>2
    <3> HIDE DEF n
    <3> QED
      BY <1>1, <1>4, <1>6, <3>1, FolderExists
  <2>2. ASSUME NEW T \in SUBSET (1..n) PROVE g[T] = IF T = {} THEN w ELSE Op(Max(T), T, g)
    <3>1. g[T] = Folds(step, w, ch, g, T)
      BY <2>1 DEF IsFolder
    <3>2. T \ {ch[T]} \in SUBSET (1..n)
      OBVIOUS
    <3>3. g[T \ {ch[T]}] \in B
      BY <2>1, <3>2
    <3>4. T # {} => Op(Max(T), T, g) = step[ch[T]][g[T \ {ch[T]}]]
      BY <1>7, <3>3
    <3> HIDE DEF Op
    <3> QED
      BY <3>1, <3>4 DEF Folds
  <2>3. Is(g)
    <3> HIDE DEF Op
    <3> QED
      BY <2>1, <2>2
  <2> QED
    BY <2>3
<1>9. Is(it)
  <2> HIDE DEF Is
  <2> QED
    BY <1>8
<1>10. SetAll(w, switches, out) = it[1..n]
  BY <1>1 DEF SetAll, FoldLeft, MapThenFoldSet
<1> DEFINE G == {T \in SUBSET (1..n) : it[T] \in B}
<1>11. ASSUME NEW T \in SUBSET (1..n), \A U \in SUBSET T : U # T => U \in G PROVE T \in G
  <2>1. it[T] = IF T = {} THEN w ELSE Op(Max(T), T, it)
    <3> HIDE DEF Op, it
    <3> QED
      BY <1>9
  <2>2. CASE T = {}
    BY <1>4, <2>1, <2>2
  <2>3. CASE T # {}
    <3>1. ch[T] \in T /\ ch[T] = Max(T) /\ ch[T] \in 1..n
      BY <1>2, <2>3
    <3>2. T \ {ch[T]} \in SUBSET T /\ T \ {ch[T]} # T
      BY <3>1
    <3> HIDE DEF it
    <3>3. it[T \ {ch[T]}] \in B
      BY <1>11, <3>2
    <3>4. Op(ch[T], T, it) \in B
      BY <1>5, <3>1, <3>3
    <3> HIDE DEF Op
    <3> QED
      BY <2>1, <2>3, <3>1, <3>4
  <2> QED
    BY <2>2, <2>3
<1> HIDE DEF G, it
<1>12. SUBSET (1..n) \subseteq G
  <2>1. PICK S : S = 1..n
    OBVIOUS
  <2>2. IsFiniteSet(S) /\ \A T \in SUBSET S : (\A U \in SUBSET T : U # T => U \in G) => T \in G
    BY <1>1, <1>11, <2>1
  <2>3. SUBSET S \subseteq G
    BY <2>2, EveryPart
  <2> QED
    BY <2>1, <2>3
<1>13. it[1..n] \in B
  BY <1>12 DEF G
<1> QED
  BY <1>10, <1>13 DEF B

-----------------------------------------------------------------------------
(* Judgements *)

SubTo(f, s, status) == [f EXCEPT ![s].status = status]

LEMMA SubToIs ==
    ASSUME NEW f \in SubParts, NEW s \in Allotments, NEW t \in {"active", "quota_exceeded", "expired", "disabled"},
           s = "buy" => t # "disabled"
    PROVE  SubTo(f, s, t) \in SubParts /\ DOMAIN SubTo(f, s, t) = DOMAIN f
<1> DEFINE g == SubTo(f, s, t)
<1>1. SubPart(f)
  BY SubPartsAre
<1>2. DOMAIN g = DOMAIN f /\ g = [x \in DOMAIN f |-> g[x]]
  BY <1>1 DEF SubTo, SubPart
<1>3. ASSUME NEW x \in DOMAIN f PROVE g[x] \in SubRow /\ (x = "buy" => g[x].status # "disabled")
  <2>1. f[x] \in SubRow
    BY <1>1 DEF SubPart
  <2>2. CASE x = s
    <3>1. g[x] = [f[x] EXCEPT !.status = t]
      BY <1>1, <2>2 DEF SubTo, SubPart
    <3>2. [f[x] EXCEPT !.status = t] \in SubRow /\ [f[x] EXCEPT !.status = t].status = t
      BY <2>1 DEF SubRow
    <3> QED
      BY <2>2, <3>1, <3>2
  <2>3. CASE x # s
    <3>1. g[x] = f[x]
      BY <1>1, <2>3 DEF SubTo, SubPart
    <3> QED
      BY <1>1, <2>1, <3>1 DEF SubPart
  <2> QED
    BY <2>2, <2>3
<1> HIDE DEF g
<1>4. SubPart(g)
  BY <1>1, <1>2, <1>3 DEF SubPart
<1>5. g \in SubParts /\ DOMAIN g = DOMAIN f
  BY <1>2, <1>4, SubPartsAre
<1> QED
  BY <1>5 DEF g

LEMMA JudgedAs == \A a, s : Verdict(a, s) \in {"active", "quota_exceeded", "expired"}
BY DEF Verdict

LEMMA ApplyAllIs ==
    ASSUME NEW w, NEW S \in SUBSET QConns, NEW on \in BOOLEAN
    PROVE  ApplyAll(w, S, on) \in Todo
<1>1. PICK T \in SUBSET QConns : T = {c \in S : on => ~w.conn[c].limited}
  OBVIOUS
<1>2. Switches(T, on) \in Todo
  BY SwitchesIs
<1> QED
  BY <1>1, <1>2 DEF ApplyAll

\* The same, of what a comparison says.
LEMMA ApplyWhenActive ==
    ASSUME NEW w, NEW S \in SUBSET QConns, NEW t
    PROVE  ApplyAll(w, S, t = "active") \in Todo
<1>1. ApplyAll(w, S, TRUE) \in Todo /\ ApplyAll(w, S, FALSE) \in Todo
  BY ApplyAllIs
<1>2. CASE t = "active"
  <2>1. (t = "active") = TRUE
    BY <1>2
  <2>2. ApplyAll(w, S, t = "active") = ApplyAll(w, S, TRUE)
    BY <2>1
  <2> QED
    BY <1>1, <2>2
<1>3. CASE t # "active"
  <2>1. (t = "active") = FALSE
    BY <1>3
  <2>2. ApplyAll(w, S, t = "active") = ApplyAll(w, S, FALSE)
    BY <2>1
  <2> QED
    BY <1>1, <2>2
<1> QED
  BY <1>2, <1>3

LEMMA EmptyTodo == <<>> \in Todo
BY DEF Todo

LEMMA OwnedIs == \A s : Owned(s) \subseteq QConns
BY DEF Owned

\* What a judgement makes of the statuses a session holds.
LEMMA JudgePurchaseIs ==
    ASSUME NEW w, w.sub \in SubParts
    PROVE  /\ \E f \in SubParts : DOMAIN f = DOMAIN w.sub /\ JudgePurchase(w).w \in {w, [w EXCEPT !.sub = f]}
           /\ JudgePurchase(w).todo \in Todo
<1>1. PICK t : t = Verdict(w.sub, "buy") /\ t \in {"active", "quota_exceeded", "expired"}
  BY JudgedAs
<1>2. PICK f : f = SubTo(w.sub, "buy", t) /\ f \in SubParts /\ DOMAIN f = DOMAIN w.sub
  BY <1>1, SubToIs DEF Allotments
<1>3. CASE ~HasPurchase \/ t = w.sub["buy"].status
  <2>1. JudgePurchase(w) = [w |-> w, todo |-> <<>>]
    BY <1>1, <1>3 DEF JudgePurchase
  <2> QED
    BY <1>2, <2>1, EmptyTodo
<1>4. CASE ~(~HasPurchase \/ t = w.sub["buy"].status)
  <2>1. JudgePurchase(w) = [w |-> [w EXCEPT !.sub = f], todo |-> ApplyAll(w, Owned("buy"), t = "active")]
    BY <1>1, <1>2, <1>4 DEF JudgePurchase, SubTo
  <2>2. ApplyAll(w, Owned("buy"), t = "active") \in Todo
    BY OwnedIs, ApplyWhenActive
  <2> QED
    BY <1>2, <2>1, <2>2
<1> QED
  BY <1>3, <1>4

LEMMA JudgeUserIs ==
    ASSUME NEW w, w.sub \in AllSubs
    PROVE  /\ \E f \in AllSubs : JudgeUser(w).w \in {w, [w EXCEPT !.sub = f]}
           /\ JudgeUser(w).todo \in Todo
<1> DEFINE own == Verdict(w.sub, "user")
           badge == IF own # "active" /\ HasPurchase /\ FromPurchases(w.sub) = "active" THEN "active" ELSE own
<1>1. own \in {"active", "quota_exceeded", "expired"} /\ badge \in {"active", "quota_exceeded", "expired"}
  BY JudgedAs
<1>2. w.sub \in [Allotments -> SubRow] /\ w.sub \in SubParts
  BY AllSubsAre DEF AllSubs
<1>3. FromPurchases(w.sub) \in {"active", "quota_exceeded", "expired", "disabled"}
  <2>1. w.sub["buy"].status \in {"active", "quota_exceeded", "expired", "disabled"}
    <3>1. w.sub["buy"] \in SubRow
      BY <1>2 DEF Allotments
    <3> QED
      BY <3>1 DEF SubRow
  <2> QED
    BY <2>1 DEF FromPurchases
<1>4. ASSUME NEW t \in {"active", "quota_exceeded", "expired", "disabled"} PROVE SubTo(w.sub, "user", t) \in AllSubs
  <2>1. SubTo(w.sub, "user", t) \in SubParts /\ DOMAIN SubTo(w.sub, "user", t) = DOMAIN w.sub
    BY <1>2, SubToIs DEF Allotments
  <2> QED
    BY <2>1 DEF AllSubs
<1> HIDE DEF own, badge
<1>5. CASE w.sub["user"].status = "disabled"
  <2>1. JudgeUser(w) = [w |-> w, todo |-> <<>>]
    BY <1>5 DEF JudgeUser
  <2> QED
    BY <2>1, EmptyTodo
<1>6. CASE w.sub["user"].status # "disabled" /\ Legacy = {}
  <2>1. JudgeUser(w) = [w |-> [w EXCEPT !.sub = SubTo(w.sub, "user", FromPurchases(w.sub))], todo |-> <<>>]
    BY <1>6 DEF JudgeUser, SubTo
  <2>2. SubTo(w.sub, "user", FromPurchases(w.sub)) \in AllSubs
    BY <1>3, <1>4
  <2> QED
    BY <2>1, <2>2, EmptyTodo
<1>7. CASE w.sub["user"].status # "disabled" /\ Legacy # {}
  <2>1. JudgeUser(w) = [w |-> [w EXCEPT !.sub = SubTo(w.sub, "user", badge)], todo |-> ApplyAll(w, Legacy, own = "active")]
    BY <1>7 DEF JudgeUser, SubTo, own, badge
  <2>2. SubTo(w.sub, "user", badge) \in AllSubs
    BY <1>1, <1>4
  <2>3. ApplyAll(w, Legacy, own = "active") \in Todo
    BY OwnedIs, ApplyWhenActive DEF Legacy
  <2> QED
    BY <2>1, <2>2, <2>3
<1> QED
  BY <1>5, <1>6, <1>7

\* A transaction that changes neither a connection nor a peer.
SameRows(x, w) == x.conn = w.conn /\ x.peer = w.peer

LEMMA WorldWith ==
    ASSUME NEW w \in Worlds
    PROVE  \A x : (\E f \in AllSubs : x \in {w, [w EXCEPT !.sub = f]}) => x \in Worlds /\ SameRows(x, w)
<1>1. ASSUME NEW f \in AllSubs PROVE [w EXCEPT !.sub = f] \in Worlds /\ SameRows([w EXCEPT !.sub = f], w)
  <2>1. [w EXCEPT !.sub = f] \in Worlds
    BY DEF Worlds
  <2>2. [w EXCEPT !.sub = f].conn = w.conn /\ [w EXCEPT !.sub = f].peer = w.peer
    BY DEF Worlds
  <2> QED
    BY <2>1, <2>2 DEF SameRows
<1>2. SameRows(w, w)
  BY DEF SameRows
<1> QED
  BY <1>1, <1>2

LEMMA SessionWith ==
    ASSUME NEW w \in Sessions, NEW f \in SubParts
    PROVE  [w EXCEPT !.sub = f] \in Sessions
BY DEF Sessions

LEMMA JudgeIs ==
    ASSUME NEW w \in Worlds
    PROVE  Judge(w).w \in Worlds /\ SameRows(Judge(w).w, w) /\ Judge(w).todo \in Todo
<1> DEFINE p == JudgePurchase(w)
           u == JudgeUser(p.w)
<1>1. w.sub \in AllSubs /\ w.sub \in SubParts /\ DOMAIN w.sub = Allotments
  BY DEF Worlds, AllSubs
<1>2. PICK f \in SubParts : DOMAIN f = DOMAIN w.sub /\ p.w \in {w, [w EXCEPT !.sub = f]}
  BY <1>1, JudgePurchaseIs
<1>3. f \in AllSubs
  BY <1>1, <1>2 DEF AllSubs
<1>4. p.w \in Worlds /\ SameRows(p.w, w)
  BY <1>2, <1>3, WorldWith DEF SameRows
<1>5. p.todo \in Todo
  BY <1>1, JudgePurchaseIs
<1> HIDE DEF p
<1>6. PICK v : v = p.w
  OBVIOUS
<1>7. v.sub \in AllSubs
  BY <1>4, <1>6 DEF Worlds
<1>8. JudgeUser(v).todo \in Todo /\ \E g \in AllSubs : JudgeUser(v).w \in {v, [v EXCEPT !.sub = g]}
  BY <1>7, JudgeUserIs
<1>9. JudgeUser(v).w \in Worlds /\ SameRows(JudgeUser(v).w, w)
  <2>1. v \in Worlds /\ SameRows(v, w)
    BY <1>4, <1>6
  <2>2. JudgeUser(v).w \in Worlds /\ SameRows(JudgeUser(v).w, v)
    BY <1>8, <2>1, WorldWith
  <2> QED
    BY <2>1, <2>2 DEF SameRows
<1>10. Judge(w) = [w |-> JudgeUser(v).w, todo |-> p.todo \o JudgeUser(v).todo]
  BY <1>6 DEF Judge, p
<1>11. p.todo \o JudgeUser(v).todo \in Todo
  BY <1>5, <1>8 DEF Todo
<1> QED
  BY <1>9, <1>10, <1>11

-----------------------------------------------------------------------------
(* The meter *)

Deltas == [c \in QConns |-> Delta(c)]

LEMMA DeltaIs ==
    ASSUME RowsFit, NEW c \in QConns
    PROVE  Delta(c) \in Nat /\ peer[c].moved \in Nat /\ qconn[c].seen \in Nat /\ peer[c] \in PeerRow /\ qconn[c] \in ConnRow
<1>1. peer[c] \in PeerRow /\ qconn[c] \in ConnRow
  BY DEF RowsFit, Peers, Conns
<1>2. peer[c].moved \in Nat /\ qconn[c].seen \in Nat
  BY <1>1 DEF PeerRow, ConnRow
<1> QED
  BY <1>1, <1>2 DEF Delta

LEMMA MeteredIs ==
    ASSUME RowsFit, NEW C \in SUBSET QConns
    PROVE  Metered(C) = SumFunctionOnSet(Deltas, C) /\ Metered(C) \in Nat
<1>1. IsFiniteSet(C)
  BY FS_Subset
<1>2. PICK d : d = Deltas
  OBVIOUS
<1>3. PICK e : e = [c \in C |-> Delta(c)]
  OBVIOUS
<1>4. \A c \in C : d[c] \in Nat /\ e[c] = d[c]
  BY <1>2, <1>3, DeltaIs DEF Deltas
<1>5. \A c \in C : d[c] \in Int /\ e[c] \in Int
  BY <1>4
<1>6. SumFunctionOnSet(e, C) = SumFunctionOnSet(d, C)
  BY <1>1, <1>4, <1>5, SumsCompare
<1>7. SumFunctionOnSet(d, C) \in Nat
  BY <1>1, <1>4, <1>5, SumOfNumbers
<1> QED
  BY <1>2, <1>3, <1>6, <1>7 DEF Metered

LEMMA MeteredThen ==
    (RowsFit => Metered(QConns) = SumFunctionOnSet(Deltas, QConns) /\ Metered(QConns) \in Nat /\ \A c \in QConns : Deltas[c] \in Nat)'
<1>1. RowsFit => Metered(QConns) = SumFunctionOnSet(Deltas, QConns) /\ Metered(QConns) \in Nat /\ \A c \in QConns : Deltas[c] \in Nat
  BY MeteredIs, DeltaIs DEF Deltas
<1> QED
  BY <1>1, PTL

\* The counters of a connection, in the row and at the peer.
CountersKept == \A c \in QConns : qconn'[c].seen = qconn[c].seen /\ peer'[c].moved = peer[c].moved
Balanced == UNCHANGED <<carried, billed>> \/ (carried' = carried + 1 /\ billed' = billed + 1)

LEMMA MeterKept ==
    ASSUME QTypes, QTypes', CountersKept, Balanced, Meter
    PROVE  Meter'
<1>1. RowsFit /\ RowsFit' /\ carried \in Nat /\ billed \in Nat
  BY DEF QTypes
<1>2. PICK d, e : d = Deltas /\ e = Deltas'
  OBVIOUS
<1>3. /\ Metered(QConns) = SumFunctionOnSet(d, QConns) /\ Metered(QConns) \in Nat
      /\ \A c \in QConns : d[c] \in Int
  BY <1>1, <1>2, MeteredIs, DeltaIs DEF Deltas
<1>4. Metered(QConns)' = SumFunctionOnSet(e, QConns) /\ \A c \in QConns : e[c] \in Int
  BY <1>1, <1>2, MeteredThen
<1>5. \A c \in QConns : d[c] = e[c]
  BY <1>2 DEF Deltas, Delta, CountersKept
<1>6. SumFunctionOnSet(d, QConns) = SumFunctionOnSet(e, QConns)
  BY <1>3, <1>4, <1>5, SumsCompare
<1>7. PICK m \in Nat : m = Metered(QConns) /\ m = Metered(QConns)'
  BY <1>3, <1>4, <1>6
<1> QED
  BY <1>1, <1>7 DEF Meter, Balanced

-----------------------------------------------------------------------------
(* Short transactions *)

LEMMA PlanCounts ==
    ASSUME qplan \in QPlan, qplan.left > 0
    PROVE  Counted \in QPlan /\ [Counted EXCEPT !.left = IF @ = 0 THEN 0 ELSE @ - 1] \in QPlan
<1>1. PICK n \in Nat : n = qplan.left - 1
  BY DEF QPlan
<1>2. PICK p : p = [qplan EXCEPT !.left = n]
  OBVIOUS
<1>3. p \in QPlan /\ p.left = n
  BY <1>2 DEF QPlan
<1>4. Counted = p
  BY <1>1, <1>2 DEF Counted
<1>5. PICK m \in Nat : m = IF n = 0 THEN 0 ELSE n - 1
  OBVIOUS
<1>6. [p EXCEPT !.left = m] \in QPlan
  BY <1>3 DEF QPlan
<1>7. [p EXCEPT !.left = IF @ = 0 THEN 0 ELSE @ - 1] = [p EXCEPT !.left = m]
  BY <1>3, <1>5
<1> QED
  BY <1>3, <1>4, <1>6, <1>7

LEMMA WorldIs ==
    ASSUME RowsFit
    PROVE  World \in Worlds /\ World.sub = sub /\ World.conn = qconn /\ World.peer = peer
BY DEF World, Worlds, RowsFit

\* What a transaction may leave of the counters.
SameCounters(x) == \A c \in QConns : x.conn[c].seen = qconn[c].seen /\ x.peer[c].moved = peer[c].moved

LEMMA LeavesIs ==
    ASSUME QTypes, qplan.left > 0, NEW x \in Worlds, NEW out, SameCounters(x), Leaves(x, out), carried' \in Nat, billed' \in Nat
    PROVE  QTypes' /\ CountersKept
<1>1. /\ sub' = x.sub /\ qconn' = x.conn /\ peer' = x.peer /\ using' = using /\ poll' = poll
      /\ qplan' \in {[Counted EXCEPT !.left = IF @ = 0 THEN 0 ELSE @ - 1], Counted}
  BY DEF Leaves
<1>2. qplan' \in QPlan
  BY <1>1, PlanCounts DEF QTypes
<1>3. RowsFit'
  BY <1>1 DEF RowsFit, Worlds
<1>4. QTypes'
  BY <1>1, <1>2, <1>3 DEF QTypes
<1>5. CountersKept
  BY <1>1 DEF CountersKept, SameCounters
<1> QED
  BY <1>4, <1>5

LEMMA KinCounts ==
    ASSUME NEW w \in Worlds, SameCounters(w), NEW x \in Kin(w)
    PROVE  x \in Worlds /\ SameCounters(x)
BY DEF Kin, SameCounters

LEMMA SubWith ==
    ASSUME NEW f \in AllSubs, NEW s \in Allotments, NEW r \in SubRow, s = "buy" => r.status # "disabled"
    PROVE  [f EXCEPT ![s] = r] \in AllSubs
<1>1. f \in [Allotments -> SubRow] /\ f["buy"].status # "disabled"
  BY AllSubsAre
<1>2. [f EXCEPT ![s] = r] \in [Allotments -> SubRow]
  BY <1>1
<1>3. [f EXCEPT ![s] = r]["buy"].status # "disabled"
  BY <1>1 DEF Allotments
<1> QED
  BY <1>2, <1>3, AllSubsAre

LEMMA WorldWithSub ==
    ASSUME RowsFit, NEW f \in AllSubs
    PROVE  [World EXCEPT !.sub = f] \in Worlds /\ SameCounters([World EXCEPT !.sub = f]) /\ [World EXCEPT !.sub = f].sub = f
<1>1. World \in Worlds /\ World.conn = qconn /\ World.peer = peer
  BY WorldIs
<1>2. [World EXCEPT !.sub = f] \in Worlds /\ SameRows([World EXCEPT !.sub = f], World)
  BY <1>1, WorldWith
<1>3. [World EXCEPT !.sub = f].sub = f
  BY <1>1 DEF Worlds
<1> QED
  BY <1>1, <1>2, <1>3 DEF SameRows, SameCounters

LEMMA SubRowIs ==
    ASSUME RowsFit, NEW s \in Allotments
    PROVE  sub[s] \in SubRow /\ (s = "buy" => sub[s].status # "disabled")
BY AllSubsAre DEF RowsFit

LEMMA OnIs == ASSUME qplan \in QPlan, NEW c \in QConns PROVE On(c) \in Allotments
BY DEF QPlan, On

LEMMA ReportKeeps ==
    ASSUME QTypes, NEW c \in QConns, Report(c)
    PROVE  QTypes' /\ CountersKept /\ Balanced
<1>1. PICK out : LET j == Judge([World EXCEPT !.sub[On(c)].used = @ + 1]) IN Leaves(SetAll(j.w, j.todo, out), out)
  BY DEF Report
<1>2. carried' = carried + 1 /\ billed' = billed + 1 /\ qplan.left > 0 /\ RowsFit /\ carried \in Nat /\ billed \in Nat
  BY DEF Report, Occurs, QTypes
<1>3. PICK s \in Allotments : s = On(c)
  BY OnIs DEF QTypes
<1>4. sub[s] \in SubRow /\ sub \in AllSubs /\ (s = "buy" => sub[s].status # "disabled")
  BY <1>2, SubRowIs DEF RowsFit
<1>5. PICK r \in SubRow : r = [sub[s] EXCEPT !.used = @ + 1] /\ r.status = sub[s].status
  <2>1. [sub[s] EXCEPT !.used = @ + 1] \in SubRow /\ [sub[s] EXCEPT !.used = @ + 1].status = sub[s].status
    BY <1>4 DEF SubRow
  <2> QED
    BY <2>1
<1>6. PICK f : f = [sub EXCEPT ![s] = r] /\ f \in AllSubs
  BY <1>4, <1>5, SubWith
<1>7. PICK w : w = [World EXCEPT !.sub[On(c)].used = @ + 1]
  OBVIOUS
<1>8. w = [World EXCEPT !.sub = f]
  <2>1. [World.sub EXCEPT ![s].used = @ + 1] = f
    BY <1>2, <1>5, <1>6, WorldIs
  <2> QED
    BY <1>3, <1>7, <2>1
<1>9. w \in Worlds /\ SameCounters(w)
  BY <1>2, <1>6, <1>8, WorldWithSub
<1>10. PICK v \in Worlds, todo \in Todo : v = Judge(w).w /\ todo = Judge(w).todo /\ SameRows(v, w)
  BY <1>9, JudgeIs
<1>11. SameCounters(v)
  BY <1>9, <1>10 DEF SameRows, SameCounters
<1>12. SetAll(v, todo, out) \in Kin(v)
  BY SetAllIs
<1>13. PICK x \in Worlds : x = SetAll(v, todo, out) /\ SameCounters(x)
  BY <1>11, <1>12, KinCounts
<1>14. Leaves(x, out)
  BY <1>1, <1>7, <1>10, <1>13
<1>15. carried' \in Nat /\ billed' \in Nat
  BY <1>2
<1> QED
  BY <1>2, <1>13, <1>14, <1>15, LeavesIs DEF Balanced

LEMMA RenewKeeps ==
    ASSUME QTypes, NEW s \in Allotments, Renew(s)
    PROVE  QTypes' /\ CountersKept /\ Balanced
<1> DEFINE fresh == [World EXCEPT !.sub[s].used = 0, !.sub[s].expired = FALSE]
           w == [fresh EXCEPT !.sub[s].status = IF @ \in {"quota_exceeded", "expired"} THEN "active" ELSE @]
           told == w.sub[s].status # sub[s].status
           all == IF s = "buy" THEN Switches(Owned(s), TRUE)
                  ELSE [i \in DOMAIN ById(QConns) |->
                          LET c == ById(QConns)[i] IN <<c, On(c) = "user" \/ w.sub["buy"].status = "active">>]
<1>1. PICK out : Leaves(IF told THEN SetAll(w, all, out) ELSE w, out)
  BY DEF Renew
<1>2. UNCHANGED <<carried, billed>> /\ qplan.left > 0 /\ RowsFit /\ carried \in Nat /\ billed \in Nat
  BY DEF Renew, Occurs, QTypes
<1>3. sub[s] \in SubRow /\ sub \in AllSubs /\ (s = "buy" => sub[s].status # "disabled")
  BY <1>2, SubRowIs DEF RowsFit
<1>4. PICK t : t = IF sub[s].status \in {"quota_exceeded", "expired"} THEN "active" ELSE sub[s].status
  OBVIOUS
<1>5. t \in {"active", "disabled"} /\ (s = "buy" => t # "disabled")
  BY <1>3, <1>4 DEF SubRow
<1>6. PICK q \in SubRow, r \in SubRow :
         /\ q = [[sub[s] EXCEPT !.used = 0] EXCEPT !.expired = FALSE] /\ q.status = sub[s].status
         /\ r = [q EXCEPT !.status = t] /\ r.status = t
  <2>1. PICK q \in SubRow : q = [[sub[s] EXCEPT !.used = 0] EXCEPT !.expired = FALSE] /\ q.status = sub[s].status
    <3>1. [sub[s] EXCEPT !.used = 0] \in SubRow /\ [sub[s] EXCEPT !.used = 0].status = sub[s].status
      BY <1>3 DEF SubRow
    <3>2. PICK k \in SubRow : k = [sub[s] EXCEPT !.used = 0] /\ k.status = sub[s].status
      BY <3>1
    <3>3. [k EXCEPT !.expired = FALSE] \in SubRow /\ [k EXCEPT !.expired = FALSE].status = k.status
      BY <3>2 DEF SubRow
    <3> QED
      BY <3>2, <3>3
  <2>2. [q EXCEPT !.status = t] \in SubRow /\ [q EXCEPT !.status = t].status = t
    BY <1>5, <2>1 DEF SubRow
  <2> QED
    BY <2>1, <2>2
<1>7. PICK f : f = [sub EXCEPT ![s] = r] /\ f \in AllSubs
  BY <1>3, <1>5, <1>6, SubWith
<1>8. w = [World EXCEPT !.sub = f]
  <2>1. PICK h : h = [[sub EXCEPT ![s].used = 0] EXCEPT ![s].expired = FALSE]
    OBVIOUS
  <2>2. sub \in [Allotments -> SubRow]
    BY <1>3, AllSubsAre
  <2>3. h = [sub EXCEPT ![s] = q]
    BY <1>6, <2>1, <2>2
  <2>4. [h EXCEPT ![s].status = IF @ \in {"quota_exceeded", "expired"} THEN "active" ELSE @] = f
    <3>1. h[s] = q
      BY <2>2, <2>3
    <3>2. t = IF h[s].status \in {"quota_exceeded", "expired"} THEN "active" ELSE h[s].status
      BY <1>4, <1>6, <3>1
    <3>3. [h EXCEPT ![s].status = IF @ \in {"quota_exceeded", "expired"} THEN "active" ELSE @] = [h EXCEPT ![s].status = t]
      BY <3>2
    <3>4. [h EXCEPT ![s].status = t] = [h EXCEPT ![s] = r]
      BY <1>6, <3>1
    <3> QED
      BY <1>7, <2>2, <2>3, <3>3, <3>4
  <2>5. fresh = [World EXCEPT !.sub = h]
    BY <1>2, <2>1, WorldIs
  <2>6. World \in Worlds
    BY <1>2, WorldIs
  <2>7. fresh.sub = h
    BY <2>5, <2>6 DEF Worlds
  <2> HIDE DEF fresh
  <2>8. w = [fresh EXCEPT !.sub = f]
    BY <2>4, <2>7
  <2> QED
    BY <2>5, <2>6, <2>8 DEF Worlds
<1>9. w \in Worlds /\ SameCounters(w)
  <2> HIDE DEF w
  <2> QED
    BY <1>2, <1>7, <1>8, WorldWithSub
<1>10. all \in Todo
  <2>1. CASE s = "buy"
    BY <2>1, SwitchesIs, OwnedIs
  <2>2. CASE s # "buy"
    <3> DEFINE each == [i \in DOMAIN ById(QConns) |->
                       LET c == ById(QConns)[i] IN <<c, On(c) = "user" \/ w.sub["buy"].status = "active">>]
    <3>1. \A i \in DOMAIN ById(QConns) : ById(QConns)[i] \in QConns
      BY InOrder
    <3>2. DOMAIN each = DOMAIN ById(QConns) /\ each = [i \in DOMAIN each |-> each[i]]
      OBVIOUS
    <3>3. \A i \in DOMAIN each : each[i] \in QConns \X BOOLEAN
      <4> HIDE DEF w
      <4> QED
        BY <3>1
    <3>4. each \in Todo
      <4> HIDE DEF each
      <4> QED
        BY <3>2, <3>3, ListIs
    <3> QED
      BY <2>2, <3>4
  <2> QED
    BY <2>1, <2>2
<1> HIDE DEF w, all
<1>11. SetAll(w, all, out) \in Kin(w)
  BY <1>9, <1>10, SetAllIs
<1>12. SetAll(w, all, out) \in Worlds /\ SameCounters(SetAll(w, all, out))
  BY <1>9, <1>11, KinCounts
<1>13. PICK x \in Worlds : x = (IF told THEN SetAll(w, all, out) ELSE w) /\ SameCounters(x)
  BY <1>9, <1>12
<1>14. Leaves(x, out)
  BY <1>1, <1>13
<1> QED
  BY <1>2, <1>13, <1>14, LeavesIs DEF Balanced

LEMMA ManualSwitchKeeps ==
    ASSUME QTypes, NEW c \in QConns, NEW wanted \in BOOLEAN, ManualSwitch(c, wanted)
    PROVE  QTypes' /\ CountersKept /\ Balanced
<1>1. PICK out : LET w == [World EXCEPT !.conn[c].adminOff = ~wanted]
                 IN  Leaves(SetEnabled(w, c, wanted /\ Allowed(c), out), out)
  BY DEF ManualSwitch
<1>2. UNCHANGED <<carried, billed>> /\ qplan.left > 0 /\ RowsFit /\ carried \in Nat /\ billed \in Nat
  BY DEF ManualSwitch, Occurs, QTypes
<1>3. qconn \in [QConns -> ConnRow] /\ qconn[c] \in ConnRow /\ World \in Worlds /\ World.conn = qconn /\ World.peer = peer
  BY <1>2, WorldIs DEF RowsFit, Conns
<1>4. PICK off \in BOOLEAN : off = ~wanted
  OBVIOUS
<1>5. PICK r \in ConnRow : r = [qconn[c] EXCEPT !.adminOff = off] /\ r.seen = qconn[c].seen
  <2>1. [qconn[c] EXCEPT !.adminOff = off] \in ConnRow /\ [qconn[c] EXCEPT !.adminOff = off].seen = qconn[c].seen
    BY <1>3 DEF ConnRow
  <2> QED
    BY <2>1
<1>6. PICK g : g = [qconn EXCEPT ![c] = r] /\ g \in Conns /\ \A d \in QConns : g[d].seen = qconn[d].seen
  <2>1. [qconn EXCEPT ![c] = r] \in Conns
    BY <1>3, <1>5 DEF Conns
  <2>2. ASSUME NEW d \in QConns PROVE [qconn EXCEPT ![c] = r][d].seen = qconn[d].seen
    <3>1. CASE d = c
      BY <1>3, <1>5, <3>1
    <3>2. CASE d # c
      BY <1>3, <3>2
    <3> QED
      BY <3>1, <3>2
  <2> QED
    BY <2>1, <2>2
<1>7. PICK w : w = [World EXCEPT !.conn[c].adminOff = ~wanted]
  OBVIOUS
<1>8. w = [World EXCEPT !.conn = g]
  BY <1>3, <1>4, <1>5, <1>6, <1>7
<1>9. w \in Worlds /\ w.conn = g /\ w.peer = peer
  BY <1>3, <1>6, <1>8 DEF Worlds
<1>10. SameCounters(w)
  BY <1>6, <1>9 DEF SameCounters
<1>11. w \in Kin(w)
  BY <1>9 DEF Kin
<1>12. SetEnabled(w, c, TRUE, out) \in Kin(w) /\ SetEnabled(w, c, FALSE, out) \in Kin(w)
  BY <1>9, <1>11, OneSwitch
<1>13. CASE wanted /\ Allowed(c)
  <2>1. (wanted /\ Allowed(c)) = TRUE
    BY <1>13
  <2>2. Leaves(SetEnabled(w, c, TRUE, out), out)
    BY <1>1, <1>7, <2>1
  <2>3. PICK x \in Worlds : x = SetEnabled(w, c, TRUE, out) /\ SameCounters(x)
    BY <1>9, <1>10, <1>12, KinCounts
  <2> QED
    BY <1>2, <2>2, <2>3, LeavesIs DEF Balanced
<1>14. CASE ~(wanted /\ Allowed(c))
  <2>1. (wanted /\ Allowed(c)) = FALSE
    BY <1>14
  <2>2. Leaves(SetEnabled(w, c, FALSE, out), out)
    BY <1>1, <1>7, <2>1
  <2>3. PICK x \in Worlds : x = SetEnabled(w, c, FALSE, out) /\ SameCounters(x)
    BY <1>9, <1>10, <1>12, KinCounts
  <2> QED
    BY <1>2, <2>2, <2>3, LeavesIs DEF Balanced
<1> QED
  BY <1>13, <1>14

LEMMA SetAccountKeeps ==
    ASSUME QTypes, NEW on \in BOOLEAN, NEW how \in {"bot", "panel"}, SetAccount(on, how)
    PROVE  QTypes' /\ CountersKept /\ Balanced
<1> DEFINE w == [World EXCEPT !.sub["user"].status = IF on THEN "active" ELSE "disabled"]
           up(c) == on /\ (how = "bot" \/ On(c) = "user" \/ sub["buy"].status = "active")
           q == [i \in DOMAIN ById(QConns) |-> <<ById(QConns)[i], up(ById(QConns)[i])>>]
<1>1. PICK out : Leaves(SetAll(w, q, out), out)
  BY DEF SetAccount
<1>2. UNCHANGED <<carried, billed>> /\ qplan.left > 0 /\ RowsFit /\ carried \in Nat /\ billed \in Nat
  BY DEF SetAccount, Occurs, QTypes
<1>3. sub["user"] \in SubRow /\ sub \in AllSubs /\ sub \in [Allotments -> SubRow] /\ "user" \in Allotments
  BY <1>2, SubRowIs, AllSubsAre DEF RowsFit, Allotments
<1>4. PICK t : t = (IF on THEN "active" ELSE "disabled") /\ t \in {"active", "disabled"}
  OBVIOUS
<1>5. PICK r \in SubRow : r = [sub["user"] EXCEPT !.status = t]
  BY <1>3, <1>4 DEF SubRow
<1>6. PICK f : f = [sub EXCEPT !["user"] = r] /\ f \in AllSubs
  BY <1>3, SubWith
<1>7. w = [World EXCEPT !.sub = f]
  BY <1>2, <1>3, <1>4, <1>5, <1>6, WorldIs
<1> HIDE DEF w
<1>8. w \in Worlds /\ SameCounters(w)
  BY <1>2, <1>6, <1>7, WorldWithSub
<1>9. q \in Todo
  <2>1. \A i \in DOMAIN ById(QConns) : ById(QConns)[i] \in QConns
    BY InOrder
  <2>2. DOMAIN q = DOMAIN ById(QConns) /\ q = [i \in DOMAIN q |-> q[i]]
    OBVIOUS
  <2>3. \A i \in DOMAIN q : q[i] \in QConns \X BOOLEAN
    BY <2>1
  <2> HIDE DEF q
  <2> QED
    BY <2>2, <2>3, ListIs
<1> HIDE DEF q
<1>10. SetAll(w, q, out) \in Kin(w)
  BY <1>8, <1>9, SetAllIs
<1>11. PICK x \in Worlds : x = SetAll(w, q, out) /\ SameCounters(x)
  BY <1>8, <1>10, KinCounts
<1>12. Leaves(x, out)
  BY <1>1, <1>11
<1> QED
  BY <1>2, <1>11, <1>12, LeavesIs DEF Balanced

-----------------------------------------------------------------------------
(* The customer, the nodes, time *)

LEMMA PlanGoesOn ==
    ASSUME qplan \in QPlan, qplan' = qplan \/ (qplan' = Counted /\ qplan.left > 0)
    PROVE  qplan' \in QPlan
BY PlanCounts

LEMMA PeersWith ==
    ASSUME RowsFit, NEW c \in QConns, NEW r \in PeerRow, peer' = [peer EXCEPT ![c] = r]
    PROVE  peer' \in Peers /\ peer'[c] = r /\ \A d \in QConns \ {c} : peer'[d] = peer[d]
BY DEF RowsFit, Peers

LEMMA LoginKeeps ==
    ASSUME QTypes, NEW c \in QConns, Login(c)
    PROVE  QTypes' /\ CountersKept /\ Balanced
<1>1. peer' = [peer EXCEPT ![c].on = TRUE] /\ UNCHANGED <<qplan, sub, qconn, using, poll, carried, billed>> /\ RowsFit
  BY DEF Login, QTypes
<1>2. peer[c] \in PeerRow /\ peer \in [QConns -> PeerRow]
  BY <1>1, DeltaIs DEF RowsFit, Peers
<1>3. PICK r \in PeerRow : r = [peer[c] EXCEPT !.on = TRUE] /\ r.moved = peer[c].moved
  <2>1. [peer[c] EXCEPT !.on = TRUE] \in PeerRow /\ [peer[c] EXCEPT !.on = TRUE].moved = peer[c].moved
    BY <1>2 DEF PeerRow
  <2> QED
    BY <2>1
<1>4. peer' = [peer EXCEPT ![c] = r]
  BY <1>1, <1>2, <1>3
<1>5. peer' \in Peers /\ peer'[c] = r /\ \A d \in QConns \ {c} : peer'[d] = peer[d]
  BY <1>1, <1>4, PeersWith
<1>6. QTypes'
  BY <1>1, <1>5 DEF QTypes, RowsFit
<1>7. CountersKept
  BY <1>1, <1>3, <1>5 DEF CountersKept
<1> QED
  BY <1>1, <1>6, <1>7 DEF Balanced

LEMMA DeviceKeeps ==
    ASSUME QTypes, NEW c \in QConns, Device(c)
    PROVE  QTypes' /\ CountersKept /\ Balanced
<1>1. /\ peer' \in {[peer EXCEPT ![c].on = FALSE], peer} /\ UNCHANGED <<sub, qconn, poll, carried, billed>> /\ RowsFit
      /\ using' \subseteq using \cup {c} /\ qplan' = Counted /\ qplan.left > 0
  BY DEF Device, QTypes, Occurs
<1>2. peer[c] \in PeerRow /\ peer \in [QConns -> PeerRow]
  BY <1>1, DeltaIs DEF RowsFit, Peers
<1>3. PICK r \in PeerRow : r = [peer[c] EXCEPT !.on = FALSE] /\ r.moved = peer[c].moved
  <2>1. [peer[c] EXCEPT !.on = FALSE] \in PeerRow /\ [peer[c] EXCEPT !.on = FALSE].moved = peer[c].moved
    BY <1>2 DEF PeerRow
  <2> QED
    BY <2>1
<1>4. peer' = [peer EXCEPT ![c] = r] \/ peer' = peer
  BY <1>1, <1>2, <1>3
<1>5. peer' \in Peers /\ \A d \in QConns : peer'[d].moved = peer[d].moved
  <2>1. CASE peer' = [peer EXCEPT ![c] = r]
    <3>1. peer' \in Peers /\ peer'[c] = r /\ \A d \in QConns \ {c} : peer'[d] = peer[d]
      BY <1>1, <2>1, PeersWith
    <3> QED
      BY <1>3, <3>1
  <2>2. CASE peer' = peer
    BY <1>2, <2>2 DEF Peers
  <2> QED
    BY <1>4, <2>1, <2>2
<1>6. qplan' \in QPlan
  BY <1>1, PlanGoesOn DEF QTypes
<1>7. QTypes'
  BY <1>1, <1>5, <1>6 DEF QTypes, RowsFit
<1>8. CountersKept
  BY <1>1, <1>5 DEF CountersKept
<1> QED
  BY <1>1, <1>7, <1>8 DEF Balanced

LEMMA ExpireKeeps ==
    ASSUME QTypes, NEW s \in Allotments, Expire(s)
    PROVE  QTypes' /\ CountersKept /\ Balanced
<1>1. /\ sub' = [sub EXCEPT ![s].expired = TRUE] /\ UNCHANGED <<qconn, peer, using, poll, carried, billed>>
      /\ qplan' = Counted /\ qplan.left > 0 /\ RowsFit
  BY DEF Expire, Occurs, QTypes
<1>2. sub[s] \in SubRow /\ sub \in AllSubs /\ (s = "buy" => sub[s].status # "disabled")
  BY <1>1, SubRowIs DEF RowsFit
<1>3. PICK r \in SubRow : r = [sub[s] EXCEPT !.expired = TRUE] /\ r.status = sub[s].status
  <2>1. [sub[s] EXCEPT !.expired = TRUE] \in SubRow /\ [sub[s] EXCEPT !.expired = TRUE].status = sub[s].status
    BY <1>2 DEF SubRow
  <2> QED
    BY <2>1
<1>4. sub \in [Allotments -> SubRow]
  BY <1>2, AllSubsAre
<1>5. sub' = [sub EXCEPT ![s] = r]
  BY <1>1, <1>3, <1>4
<1>6. [sub EXCEPT ![s] = r] \in AllSubs
  BY <1>2, <1>3, SubWith
<1>7. qplan' \in QPlan
  BY <1>1, PlanGoesOn DEF QTypes
<1>8. QTypes'
  BY <1>1, <1>5, <1>6, <1>7 DEF QTypes, RowsFit
<1> QED
  BY <1>1, <1>8 DEF CountersKept, Balanced

\* The counter of one peer moves: what is still to be billed grows by no more
\* than what has been carried.
LEMMA CounterMoves ==
    ASSUME QTypes, QTypes', Meter, NEW c \in QConns, NEW more \in {0, 1},
           Delta(c)' <= Delta(c) + more, \A d \in QConns \ {c} : qconn'[d] = qconn[d] /\ peer'[d] = peer[d],
           carried' = carried + more, billed' = billed
    PROVE  Meter'
<1>1. RowsFit /\ RowsFit' /\ carried \in Nat /\ billed \in Nat
  BY DEF QTypes
<1>2. PICK d, e : d = Deltas /\ e = Deltas'
  OBVIOUS
<1>3. /\ Metered(QConns) = SumFunctionOnSet(d, QConns) /\ Metered(QConns) \in Nat
      /\ \A b \in QConns : d[b] \in Int
  BY <1>1, <1>2, MeteredIs, DeltaIs DEF Deltas
<1>4. Metered(QConns)' = SumFunctionOnSet(e, QConns) /\ Metered(QConns)' \in Nat /\ \A b \in QConns : e[b] \in Int
  BY <1>1, <1>2, MeteredThen
<1>5. d[c] = Delta(c) /\ e[c] = Delta(c)'
  BY <1>2 DEF Deltas
<1>6. \A b \in QConns \ {c} : e[b] = d[b]
  BY <1>2 DEF Deltas, Delta
<1>7. SumFunctionOnSet(e, QConns) = SumFunctionOnSet(d, QConns) + (e[c] - d[c])
  BY <1>3, <1>4, <1>6, SumChanges
<1>8. PICK m \in Nat, n \in Nat : m = Metered(QConns) /\ n = Metered(QConns)' /\ n = m + (e[c] - d[c])
  BY <1>3, <1>4, <1>7
<1>9. e[c] - d[c] <= more
  BY <1>3, <1>4, <1>5
<1> QED
  BY <1>1, <1>3, <1>4, <1>8, <1>9 DEF Meter

LEMMA TrafficKeeps ==
    ASSUME QTypes, Meter, NEW c \in QConns, Traffic(c)
    PROVE  QTypes' /\ Meter'
<1>1. /\ peer' = [peer EXCEPT ![c].moved = @ + 1] /\ UNCHANGED <<sub, qconn, using, poll, billed>>
      /\ qplan' = Counted /\ qplan.left > 0 /\ RowsFit /\ carried' = carried + 1
  BY DEF Traffic, Occurs, QTypes
<1>2. peer[c] \in PeerRow /\ peer \in [QConns -> PeerRow] /\ peer[c].moved \in Nat /\ qconn[c].seen \in Nat /\ Delta(c) \in Nat
  BY <1>1, DeltaIs DEF RowsFit, Peers
<1>3. PICK r \in PeerRow : r = [peer[c] EXCEPT !.moved = @ + 1] /\ r.moved = peer[c].moved + 1
  <2>1. [peer[c] EXCEPT !.moved = @ + 1] \in PeerRow /\ [peer[c] EXCEPT !.moved = @ + 1].moved = peer[c].moved + 1
    BY <1>2 DEF PeerRow
  <2> QED
    BY <2>1
<1>4. peer' = [peer EXCEPT ![c] = r]
  BY <1>1, <1>2, <1>3
<1>5. peer' \in Peers /\ peer'[c] = r /\ \A d \in QConns \ {c} : peer'[d] = peer[d]
  BY <1>1, <1>4, PeersWith
<1>6. qplan' \in QPlan
  BY <1>1, PlanGoesOn DEF QTypes
<1>7. QTypes'
  BY <1>1, <1>5, <1>6 DEF QTypes, RowsFit
<1>8. Delta(c)' = IF peer'[c].moved >= qconn'[c].seen THEN peer'[c].moved - qconn'[c].seen ELSE peer'[c].moved
  BY DEF Delta
<1>9. Delta(c)' <= Delta(c) + 1
  <2>1. PICK m \in Nat, n \in Nat : m = peer[c].moved /\ n = qconn[c].seen
    BY <1>2
  <2>2. peer'[c].moved = m + 1 /\ qconn'[c].seen = n
    BY <1>1, <1>3, <1>5, <2>1
  <2>3. Delta(c) = IF m >= n THEN m - n ELSE m
    BY <2>1 DEF Delta
  <2> QED
    BY <1>8, <2>2, <2>3
<1> QED
  BY <1>1, <1>5, <1>7, <1>9, CounterMoves

LEMMA CounterResetKeeps ==
    ASSUME QTypes, Meter, NEW c \in QConns, CounterReset(c)
    PROVE  QTypes' /\ Meter'
<1>1. /\ peer' = [peer EXCEPT ![c].moved = 0] /\ UNCHANGED <<sub, qconn, using, poll, carried, billed>>
      /\ qplan' = Counted /\ qplan.left > 0 /\ RowsFit
  BY DEF CounterReset, Occurs, QTypes
<1>2. peer[c] \in PeerRow /\ peer \in [QConns -> PeerRow] /\ peer[c].moved \in Nat /\ qconn[c].seen \in Nat /\ Delta(c) \in Nat
  BY <1>1, DeltaIs DEF RowsFit, Peers
<1>3. PICK r \in PeerRow : r = [peer[c] EXCEPT !.moved = 0] /\ r.moved = 0
  <2>1. [peer[c] EXCEPT !.moved = 0] \in PeerRow /\ [peer[c] EXCEPT !.moved = 0].moved = 0
    BY <1>2 DEF PeerRow
  <2> QED
    BY <2>1
<1>4. peer' = [peer EXCEPT ![c] = r]
  BY <1>1, <1>2, <1>3
<1>5. peer' \in Peers /\ peer'[c] = r /\ \A d \in QConns \ {c} : peer'[d] = peer[d]
  BY <1>1, <1>4, PeersWith
<1>6. qplan' \in QPlan
  BY <1>1, PlanGoesOn DEF QTypes
<1>7. QTypes'
  BY <1>1, <1>5, <1>6 DEF QTypes, RowsFit
<1>8. Delta(c)' = IF peer'[c].moved >= qconn'[c].seen THEN peer'[c].moved - qconn'[c].seen ELSE peer'[c].moved
  BY DEF Delta
<1>9. Delta(c)' <= Delta(c) + 0
  <2>1. peer'[c].moved = 0 /\ qconn'[c].seen \in Nat
    BY <1>1, <1>2, <1>3, <1>5
  <2>2. Delta(c)' = 0
    BY <1>8, <2>1
  <2> QED
    BY <1>2, <2>2
<1>10. carried' = carried + 0
  BY <1>1 DEF QTypes
<1> QED
  BY <1>1, <1>5, <1>7, <1>9, <1>10, CounterMoves


-----------------------------------------------------------------------------
(* The poll cycle *)

\* What a pass over some of the counters takes off the rest.
LEMMA SumParts ==
    ASSUME NEW S, IsFiniteSet(S), NEW C, NEW d, NEW e, \A x \in S : d[x] \in Int /\ e[x] \in Int,
           \A x \in S : e[x] = IF x \in C THEN 0 ELSE d[x]
    PROVE  SumFunctionOnSet(d, S) = SumFunctionOnSet(d, C \cap S) + SumFunctionOnSet(e, S)
<1> DEFINE G == {T \in SUBSET S : SumFunctionOnSet(d, T) = SumFunctionOnSet(d, C \cap T) + SumFunctionOnSet(e, T)}
<1>1. ASSUME NEW T \in SUBSET S PROVE IsFiniteSet(T) /\ SumFunctionOnSet(d, T) \in Int /\ SumFunctionOnSet(e, T) \in Int
  <2>1. IsFiniteSet(T)
    BY FS_Subset
  <2> QED
    BY <2>1, SumOfNumbers
<1>2. ASSUME NEW T \in SUBSET S, \A U \in SUBSET T : U # T => U \in G PROVE T \in G
  <2>1. CASE T = {}
    <3>1. C \cap T = {}
      BY <2>1
    <3>2. SumFunctionOnSet(d, T) = 0 /\ SumFunctionOnSet(e, T) = 0 /\ SumFunctionOnSet(d, C \cap T) = 0
      BY <2>1, <3>1, SumOfNone
    <3> QED
      BY <3>2
  <2>2. CASE T # {}
    <3>1. PICK y \in T : TRUE
      BY <2>2
    <3>2. PICK U \in SUBSET S : U = T \ {y} /\ U \in SUBSET T /\ U # T
      <4>1. T \ {y} \in SUBSET S /\ T \ {y} \in SUBSET T /\ T \ {y} # T
        BY <3>1
      <4> QED
        BY <4>1
    <3>3. SumFunctionOnSet(d, U) = SumFunctionOnSet(d, C \cap U) + SumFunctionOnSet(e, U)
      BY <1>2, <3>2
    <3>4. IsFiniteSet(T) /\ \A x \in T : d[x] \in Int /\ e[x] \in Int
      BY <1>1
    <3>5. SumFunctionOnSet(d, T) = d[y] + SumFunctionOnSet(d, U) /\ SumFunctionOnSet(e, T) = e[y] + SumFunctionOnSet(e, U)
      BY <3>1, <3>2, <3>4, SumOfAny
    <3>6. PICK a \in Int, b \in Int, c \in Int, m \in Int :
             a = SumFunctionOnSet(d, U) /\ b = SumFunctionOnSet(d, C \cap U) /\ c = SumFunctionOnSet(e, U) /\ m = d[y]
      BY <1>1, <3>1, <3>2
    <3>7. CASE y \in C
      <4>1. PICK V \in SUBSET S : V = C \cap T /\ y \in V /\ V \ {y} = C \cap U
        <5>1. C \cap T \in SUBSET S /\ y \in C \cap T /\ (C \cap T) \ {y} = C \cap U
          BY <3>1, <3>2, <3>7
        <5> QED
          BY <5>1
      <4>2. IsFiniteSet(V) /\ \A x \in V : d[x] \in Int
        BY <1>1, <4>1
      <4>3. SumFunctionOnSet(d, V) = d[y] + SumFunctionOnSet(d, V \ {y})
        BY <4>1, <4>2, SumOfAny
      <4>4. e[y] = 0
        BY <3>1, <3>7
      <4> QED
        BY <3>3, <3>5, <3>6, <4>1, <4>3, <4>4
    <3>8. CASE y \notin C
      <4>1. C \cap T = C \cap U /\ e[y] = d[y]
        BY <3>1, <3>2, <3>8
      <4>2. SumFunctionOnSet(d, C \cap T) = b
        BY <3>6, <4>1
      <4>3. SumFunctionOnSet(d, T) = m + a /\ SumFunctionOnSet(e, T) = m + c /\ a = b + c
        BY <3>3, <3>5, <3>6, <4>1
      <4> QED
        BY <4>2, <4>3
    <3> QED
      BY <3>7, <3>8
  <2> QED
    BY <2>1, <2>2
<1> HIDE DEF G
<1>3. SUBSET S \subseteq G
  BY <1>2, EveryPart
<1>4. S \in G
  BY <1>3
<1> QED
  BY <1>4 DEF G


\* What a cycle leaves that touches no counter.
LEMMA RestingIs == Resting \in Polls /\ \A live \in SUBSET QConns : [Resting EXCEPT !.pc = "purchases", !.live = live] \in Polls
<1>1. Nothing \in Sessions /\ <<>> \in Todo /\ {} \in SUBSET QConns
  BY NothingIs, EmptyTodo
<1>2. <<>> \in Marks
  <2>1. <<>> \in [{} -> BOOLEAN]
    OBVIOUS
  <2> QED
    BY <2>1 DEF Marks
<1>3. Resting \in Polls
  BY <1>1, <1>2 DEF Resting, Polls, PollPcs
<1>4. ASSUME NEW live \in SUBSET QConns PROVE [Resting EXCEPT !.pc = "purchases", !.live = live] \in Polls
  BY <1>3 DEF Polls, PollPcs
<1> QED
  BY <1>3, <1>4

\* The rows a reading of the nodes leaves.
Read(c) == [qconn[c] EXCEPT !.seen = Baseline(c), !.online = peer[c].on /\ c \in using]

LEMMA ReadIs ==
    ASSUME RowsFit, NEW c \in QConns
    PROVE  Read(c) \in ConnRow /\ Read(c).seen = peer[c].moved
<1>1. qconn[c] \in ConnRow /\ peer[c] \in PeerRow /\ peer[c].moved \in Nat
  BY DeltaIs
<1>2. PICK b \in BOOLEAN : b = (peer[c].on /\ c \in using)
  <2>1. CASE peer[c].on /\ c \in using
    <3>1. TRUE = (peer[c].on /\ c \in using)
      BY <2>1
    <3> QED
      BY <3>1
  <2>2. CASE ~(peer[c].on /\ c \in using)
    <3>1. FALSE = (peer[c].on /\ c \in using)
      BY <2>2
    <3> QED
      BY <3>1
  <2> QED
    BY <2>1, <2>2
<1>3. PICK n \in Nat : n = peer[c].moved
  BY <1>1
<1>4. Read(c) = [qconn[c] EXCEPT !.seen = n, !.online = b]
  BY <1>2, <1>3 DEF Read, Baseline
<1>5. [qconn[c] EXCEPT !.seen = n, !.online = b] \in ConnRow /\ [qconn[c] EXCEPT !.seen = n, !.online = b].seen = n
  BY <1>1 DEF ConnRow
<1> QED
  BY <1>3, <1>4, <1>5

LEMMA NodesKeep ==
    ASSUME QTypes, Meter, PollNodes
    PROVE  QTypes' /\ Meter'
<1> DEFINE V == {c \in QConns : ~IsNode(c) /\ peer[c].on}
<1>1. PICK C \in SUBSET QConns :
        /\ sub' = [s \in Allotments |-> [sub[s] EXCEPT !.used = @ + Metered(C \cap Owned(s))]]
        /\ billed' = billed + Metered(C)
        /\ qconn' = [c \in QConns |->
                        IF c \in C THEN [qconn[c] EXCEPT !.seen = Baseline(c), !.online = peer[c].on /\ c \in using]
                        ELSE qconn[c]]
  BY DEF PollNodes
<1>2. /\ RowsFit /\ carried \in Nat /\ billed \in Nat /\ UNCHANGED <<qplan, peer, using, carried>>
      /\ poll' = [Resting EXCEPT !.pc = "purchases", !.live = V]
  BY DEF PollNodes, QTypes
<1>3. poll' \in Polls
  <2>1. V \in SUBSET QConns
    OBVIOUS
  <2> HIDE DEF V
  <2> QED
    BY <1>2, <2>1, RestingIs
<1>4. \A s \in Allotments : Metered(C \cap Owned(s)) \in Nat
  <2>1. \A s : C \cap Owned(s) \in SUBSET QConns
    BY OwnedIs
  <2> QED
    BY <1>2, <2>1, MeteredIs
<1>5. sub' \in AllSubs
  <2>1. ASSUME NEW s \in Allotments PROVE sub'[s] \in SubRow /\ (s = "buy" => sub'[s].status # "disabled")
    <3>1. PICK n \in Nat : n = Metered(C \cap Owned(s))
      BY <1>4
    <3>2. sub'[s] = [sub[s] EXCEPT !.used = @ + n]
      BY <1>1, <3>1
    <3>3. sub[s] \in SubRow /\ (s = "buy" => sub[s].status # "disabled")
      BY <1>2, SubRowIs
    <3>4. [sub[s] EXCEPT !.used = @ + n] \in SubRow /\ [sub[s] EXCEPT !.used = @ + n].status = sub[s].status
      BY <3>3 DEF SubRow
    <3> QED
      BY <3>2, <3>3, <3>4
  <2>2. sub' = [s \in Allotments |-> sub'[s]]
    BY <1>1
  <2>3. PICK f : f = sub'
    OBVIOUS
  <2>4. f \in [Allotments -> SubRow] /\ f["buy"].status # "disabled"
    BY <2>1, <2>2, <2>3 DEF Allotments
  <2> QED
    BY <2>3, <2>4, AllSubsAre
<1>6. ASSUME NEW c \in QConns PROVE qconn'[c] \in ConnRow /\ qconn'[c].seen = IF c \in C THEN peer[c].moved ELSE qconn[c].seen
  <2>1. CASE c \in C
    <3>1. qconn'[c] = Read(c)
      BY <1>1, <2>1 DEF Read
    <3> QED
      BY <1>2, <2>1, <3>1, ReadIs
  <2>2. CASE c \notin C
    <3>1. qconn'[c] = qconn[c]
      BY <1>1, <2>2
    <3> QED
      BY <1>2, <2>2, <3>1, DeltaIs
  <2> QED
    BY <2>1, <2>2
<1>7. qconn' \in Conns
  <2>1. qconn' = [c \in QConns |-> qconn'[c]]
    BY <1>1
  <2> QED
    BY <1>6, <2>1 DEF Conns
<1>8. QTypes'
  <2>1. Metered(C) \in Nat
    BY <1>2, MeteredIs
  <2>2. billed' \in Nat
    <3>1. billed' = billed + Metered(C)
      BY <1>1
    <3> QED
      BY <1>2, <2>1, <3>1
  <2>3. RowsFit'
    BY <1>2, <1>5, <1>7 DEF RowsFit
  <2> QED
    BY <1>2, <1>3, <2>2, <2>3 DEF QTypes
<1>9. PICK d, e : d = Deltas /\ e = Deltas'
  OBVIOUS
<1>10. /\ Metered(QConns) = SumFunctionOnSet(d, QConns) /\ Metered(C) = SumFunctionOnSet(d, C) /\ Metered(C) \in Nat
       /\ Metered(QConns) \in Nat /\ \A c \in QConns : d[c] \in Int
  BY <1>2, <1>9, MeteredIs, DeltaIs DEF Deltas
<1>11. RowsFit'
  BY <1>8 DEF QTypes
<1>12. Metered(QConns)' = SumFunctionOnSet(e, QConns) /\ Metered(QConns)' \in Nat /\ \A b \in QConns : e[b] \in Int
  BY <1>9, <1>11, MeteredThen
<1>13. ASSUME NEW c \in QConns PROVE e[c] = IF c \in C THEN 0 ELSE d[c]
  <2>1. e[c] = Delta(c)' /\ d[c] = Delta(c)
    BY <1>9 DEF Deltas
  <2>2. Delta(c)' = IF peer'[c].moved >= qconn'[c].seen THEN peer'[c].moved - qconn'[c].seen ELSE peer'[c].moved
    BY DEF Delta
  <2>3. PICK m \in Nat, n \in Nat : m = peer[c].moved /\ n = qconn[c].seen
    BY <1>2, DeltaIs
  <2>4. peer'[c].moved = m
    BY <1>2, <2>3
  <2>5. CASE c \in C
    <3>1. qconn'[c].seen = m
      BY <1>6, <2>3, <2>5
    <3>2. Delta(c)' = 0
      BY <2>2, <2>4, <3>1
    <3> QED
      BY <2>1, <2>5, <3>2
  <2>6. CASE c \notin C
    <3>1. qconn'[c].seen = n
      BY <1>6, <2>3, <2>6
    <3>2. Delta(c) = IF m >= n THEN m - n ELSE m
      BY <2>3 DEF Delta
    <3>3. Delta(c)' = IF m >= n THEN m - n ELSE m
      BY <2>2, <2>4, <3>1
    <3> QED
      BY <2>1, <2>6, <3>2, <3>3
  <2> QED
    BY <2>5, <2>6
<1>14. SumFunctionOnSet(d, QConns) = SumFunctionOnSet(d, C \cap QConns) + SumFunctionOnSet(e, QConns)
  <2>1. PICK S : S = QConns
    OBVIOUS
  <2>2. IsFiniteSet(S) /\ \A x \in S : d[x] \in Int /\ e[x] \in Int
    BY <1>10, <1>12, <2>1
  <2>3. \A x \in S : e[x] = IF x \in C THEN 0 ELSE d[x]
    BY <1>13, <2>1
  <2>4. SumFunctionOnSet(d, S) = SumFunctionOnSet(d, C \cap S) + SumFunctionOnSet(e, S)
    BY <2>2, <2>3, SumParts
  <2> QED
    BY <2>1, <2>4
<1>15. C \cap QConns = C
  OBVIOUS
<1>16. PICK m \in Nat, n \in Nat, k \in Nat : m = Metered(QConns) /\ n = Metered(QConns)' /\ k = Metered(C) /\ m = k + n
  BY <1>10, <1>12, <1>14, <1>15
<1>17. billed + m <= carried
  BY <1>16 DEF Meter
<1>18. billed' + n <= carried'
  <2>1. billed' = billed + k
    BY <1>1, <1>16
  <2>2. carried' = carried
    BY <1>2
  <2> QED
    BY <1>2, <1>16, <1>17, <2>1, <2>2
<1> QED
  BY <1>8, <1>16, <1>18 DEF Meter


LEMMA PollGoesOn ==
    ASSUME QTypes, poll' \in Polls, UNCHANGED <<qplan, sub, qconn, peer, using, carried, billed>>
    PROVE  QTypes' /\ CountersKept /\ Balanced
BY DEF QTypes, RowsFit, CountersKept, Balanced

LEMMA StepIs ==
    ASSUME QTypes, NEW pc \in PollPcs, NEW S \in SUBSET Allotments, NEW C \in SUBSET QConns,
           NEW w \in Sessions, NEW todo \in Todo, Step(pc, S, C, w, todo)
    PROVE  poll' \in Polls
<1>1. poll \in Polls /\ RowsFit /\ poll.base \in Sessions
  BY DEF QTypes, Polls
<1>2. PICK b \in Sessions : b = Load(poll.base, S, C)
  BY <1>1, LoadIs
<1>3. poll' = [poll EXCEPT !.pc = pc, !.base = b, !.work = w, !.todo = todo]
  BY <1>2 DEF Step
<1> QED
  BY <1>1, <1>3 DEF Polls

LEMMA PurchasesKeep ==
    ASSUME QTypes, PollPurchases
    PROVE  QTypes' /\ CountersKept /\ Balanced
<1> DEFINE due == HasPurchase /\ Verdict(sub, "buy") # sub["buy"].status
           S == IF due THEN {"buy"} ELSE {}
           C == IF due THEN Owned("buy") ELSE {}
           read == Load(Nothing, S, C)
           j == IF due THEN JudgePurchase(read) ELSE [w |-> read, todo |-> <<>>]
<1>1. Step("users", S, C, j.w, j.todo) /\ UNCHANGED <<qplan, sub, qconn, peer, using, carried, billed>>
  BY DEF PollPurchases
<1>2. S \in SUBSET Allotments /\ C \in SUBSET QConns /\ RowsFit
  BY OwnedIs DEF Allotments, QTypes
<1> HIDE DEF S, C
<1>3. PICK r \in Sessions : r = read
  BY <1>2, NothingIs, LoadIs
<1>4. j.w \in Sessions /\ j.todo \in Todo
  <2>1. CASE due
    <3>1. j = JudgePurchase(r)
      BY <1>3, <2>1
    <3>2. r.sub \in SubParts
      BY DEF Sessions
    <3>3. JudgePurchase(r).todo \in Todo /\ \E f \in SubParts : JudgePurchase(r).w \in {r, [r EXCEPT !.sub = f]}
      BY <3>2, JudgePurchaseIs
    <3> QED
      BY <3>1, <3>3, SessionWith
  <2>2. CASE ~due
    <3>1. j = [w |-> r, todo |-> <<>>]
      BY <1>3, <2>2
    <3> QED
      BY <3>1, EmptyTodo
  <2> QED
    BY <2>1, <2>2
<1> HIDE DEF j
<1>5. poll' \in Polls
  BY <1>1, <1>2, <1>4, StepIs DEF PollPcs
<1> QED
  BY <1>1, <1>5, PollGoesOn

\* What a session has changed is marked by connection.
LEMMA DirtyIs ==
    ASSUME QTypes, NEW col \in {"enabled", "limited"}
    PROVE  Dirty(col) \in Marks
<1>1. ConnPart(poll.work.conn)
  BY ConnPartsAre DEF QTypes, Polls, Sessions
<1> DEFINE C == {c \in DOMAIN poll.work.conn : poll.work.conn[c][col] # poll.base.conn[c][col]}
<1>2. C \in SUBSET QConns
  BY <1>1 DEF ConnPart
<1>3. ASSUME NEW c \in C PROVE poll.work.conn[c][col] \in BOOLEAN
  <2>1. poll.work.conn[c] \in ConnRow
    BY <1>1 DEF ConnPart
  <2> QED
    BY <2>1 DEF ConnRow
<1>4. Dirty(col) = [c \in C |-> poll.work.conn[c][col]]
  BY DEF Dirty
<1> HIDE DEF C
<1>5. Dirty(col) \in [C -> BOOLEAN]
  BY <1>3, <1>4
<1> QED
  BY <1>2, <1>5 DEF Marks

LEMMA UsersKeep ==
    ASSUME QTypes, PollUsers
    PROVE  QTypes' /\ CountersKept /\ Balanced
<1> DEFINE seen == Load(poll.work, Allotments, QConns)
           due == /\ sub["user"].status # "disabled"
                  /\ Legacy # {} \/ FromPurchases(seen.sub) # sub["user"].status
           j == IF due THEN JudgeUser(seen) ELSE [w |-> poll.work, todo |-> <<>>]
<1>1. /\ poll' = [poll EXCEPT !.pc = "limits", !.work = j.w, !.todo = j.todo, !.flushed = Dirty("enabled"),
                              !.base = IF due THEN Load(@, Allotments, QConns) ELSE @]
      /\ UNCHANGED <<qplan, sub, qconn, peer, using, carried, billed>>
  BY DEF PollUsers
<1>2. poll \in Polls /\ RowsFit /\ poll.work \in Sessions /\ poll.base \in Sessions
  BY DEF QTypes, Polls
<1>3. PICK r \in Sessions : r = seen /\ r.sub \in AllSubs
  <2>1. seen \in Sessions /\ seen.sub \in AllSubs
    BY <1>2, LoadAllIs
  <2> HIDE DEF seen
  <2> QED
    BY <2>1
<1>5. j.w \in Sessions /\ j.todo \in Todo
  <2>1. CASE due
    <3>1. j = JudgeUser(r)
      BY <1>3, <2>1
    <3>2. JudgeUser(r).todo \in Todo /\ \E f \in AllSubs : JudgeUser(r).w \in {r, [r EXCEPT !.sub = f]}
      BY <1>3, JudgeUserIs
    <3>3. AllSubs \subseteq SubParts
      BY DEF AllSubs
    <3> QED
      BY <3>1, <3>2, <3>3, SessionWith
  <2>2. CASE ~due
    <3>1. j = [w |-> poll.work, todo |-> <<>>]
      BY <2>2
    <3> QED
      BY <1>2, <3>1, EmptyTodo
  <2> QED
    BY <2>1, <2>2
<1>6. PICK b \in Sessions : b = IF due THEN Load(poll.base, Allotments, QConns) ELSE poll.base
  BY <1>2, LoadIs
<1>7. PICK m \in Marks : m = Dirty("enabled")
  BY DirtyIs
<1>8. PICK w \in Sessions, todo \in Todo : w = j.w /\ todo = j.todo
  BY <1>5
<1>9. poll' = [poll EXCEPT !.pc = "limits", !.work = w, !.todo = todo, !.flushed = m, !.base = b]
  <2> HIDE DEF due, j
  <2> QED
    BY <1>1, <1>6, <1>7, <1>8
<1>10. poll' \in Polls
  <2> HIDE DEF due, j
  <2> QED
    BY <1>2, <1>9 DEF Polls, PollPcs
<1> QED
  BY <1>1, <1>10, PollGoesOn

LEMMA ScopesAre == \A sc \in Scopes : sc.conns \subseteq QConns
<1>1. CASE qplan.mode = "legacy"
  <2>1. Scopes = {[cap |-> qplan.cap["user"], conns |-> QConns]}
    BY <1>1 DEF Scopes
  <2> QED
    BY <2>1
<1>2. CASE qplan.mode # "legacy"
  <2>1. Scopes = {[cap |-> qplan.cap[s], conns |-> Owned(s)] : s \in Allotments}
    BY <1>2 DEF Scopes
  <2> QED
    BY <2>1, OwnedIs
<1> QED
  BY <1>1, <1>2

LEMMA LimitsAre ==
    /\ \A w : UNION {Kicked(w, sc) : sc \in Scopes} \in SUBSET QConns
    /\ \A w : UNION {Released(w, sc) : sc \in Scopes} \in SUBSET QConns
<1>1. ASSUME NEW w, NEW sc \in Scopes PROVE Kicked(w, sc) \subseteq QConns /\ Released(w, sc) \subseteq QConns
  <2>1. sc.conns \subseteq QConns
    BY ScopesAre
  <2>2. Kicked(w, sc) \subseteq sc.conns
    BY DEF Kicked, Highest, CountedOnline
  <2>3. Released(w, sc) \subseteq sc.conns
    BY DEF Released, Lowest
  <2> QED
    BY <2>1, <2>2, <2>3
<1> QED
  BY <1>1

\* The rows of a session once kicks and releases are marked.
Marked(f, kicks, frees) == [c \in QConns |-> [f[c] EXCEPT !.limited = (@ \/ c \in kicks) /\ c \notin frees]]

LEMMA MarkedIs ==
    ASSUME NEW f \in Conns, NEW kicks, NEW frees
    PROVE  Marked(f, kicks, frees) \in Conns
<1>1. ASSUME NEW c \in QConns PROVE [f[c] EXCEPT !.limited = (@ \/ c \in kicks) /\ c \notin frees] \in ConnRow
  <2>1. f[c] \in ConnRow
    BY DEF Conns
  <2>2. PICK b \in BOOLEAN : b = ((f[c].limited \/ c \in kicks) /\ c \notin frees)
    <3>1. CASE (f[c].limited \/ c \in kicks) /\ c \notin frees
      <4>1. TRUE = ((f[c].limited \/ c \in kicks) /\ c \notin frees)
        BY <3>1
      <4> QED
        BY <4>1
    <3>2. CASE ~((f[c].limited \/ c \in kicks) /\ c \notin frees)
      <4>1. FALSE = ((f[c].limited \/ c \in kicks) /\ c \notin frees)
        BY <3>2
      <4> QED
        BY <4>1
    <3> QED
      BY <3>1, <3>2
  <2>3. [f[c] EXCEPT !.limited = b] \in ConnRow
    BY <2>1 DEF ConnRow
  <2> QED
    BY <2>2, <2>3
<1> QED
  BY <1>1 DEF Marked, Conns

LEMMA LimitsKeep ==
    ASSUME QTypes, PollLimits
    PROVE  QTypes' /\ CountersKept /\ Balanced
<1> DEFINE candidate == (\E s \in Allotments : qplan.cap[s] > 0) \/ (\E c \in QConns : qconn[c].limited)
           w == Load(poll.work, Allotments, QConns)
           kicks == UNION {Kicked(w, sc) : sc \in Scopes}
           frees == UNION {Released(w, sc) : sc \in Scopes}
           told == [w EXCEPT !.conn = Marked(w.conn, kicks, frees)]
<1>1. /\ IF candidate
         THEN Step("reconcile", Allotments, QConns, told, Switches(kicks, FALSE) \o Switches(frees, TRUE))
         ELSE Step("reconcile", {}, {}, poll.work, <<>>)
      /\ UNCHANGED <<qplan, sub, qconn, peer, using, carried, billed>>
  BY DEF PollLimits, Marked
<1>2. poll.work \in Sessions /\ RowsFit
  BY DEF QTypes, Polls
<1>3. PICK r \in Sessions : r = w /\ r.conn \in Conns
  <2>1. w \in Sessions /\ w.conn \in Conns
    BY <1>2, LoadAllIs
  <2> HIDE DEF w
  <2> QED
    BY <2>1
<1>5. PICK K \in SUBSET QConns, F \in SUBSET QConns : K = kicks /\ F = frees
  BY LimitsAre
<1>6. PICK g : g = Marked(r.conn, K, F) /\ g \in Conns
  BY <1>3, MarkedIs
<1>7. g \in ConnParts
  BY <1>6, ConnPartsAre DEF Conns, ConnPart
<1>8. told \in Sessions
  <2>1. told = [r EXCEPT !.conn = g]
    BY <1>3, <1>5, <1>6
  <2>2. [r EXCEPT !.conn = g] \in Sessions
    BY <1>7 DEF Sessions
  <2> QED
    BY <2>1, <2>2
<1>9. Switches(kicks, FALSE) \o Switches(frees, TRUE) \in Todo
  <2>1. Switches(K, FALSE) \in Todo /\ Switches(F, TRUE) \in Todo
    BY SwitchesIs
  <2>2. \A x, y \in Todo : x \o y \in Todo
    BY DEF Todo
  <2>3. Switches(K, FALSE) \o Switches(F, TRUE) \in Todo
    BY <2>1, <2>2
  <2> QED
    BY <1>5, <2>3
<1> HIDE DEF w, kicks, frees, told
<1>10. poll' \in Polls
  <2>1. CASE candidate
    <3>1. PICK todo \in Todo : todo = Switches(kicks, FALSE) \o Switches(frees, TRUE)
      BY <1>9
    <3>2. Step("reconcile", Allotments, QConns, told, todo)
      BY <1>1, <2>1, <3>1
    <3> QED
      BY <1>8, <3>2, StepIs DEF PollPcs
  <2>2. CASE ~candidate
    <3>1. Step("reconcile", {}, {}, poll.work, <<>>)
      BY <1>1, <2>2
    <3> QED
      BY <1>2, <3>1, StepIs, EmptyTodo DEF PollPcs
  <2> QED
    BY <2>1, <2>2
<1> QED
  BY <1>1, <1>10, PollGoesOn

LEMMA ReconcileKeeps ==
    ASSUME QTypes, PollReconcile
    PROVE  QTypes' /\ CountersKept /\ Balanced
<1> DEFINE S == {c \in QConns : OutOfStep(c)}
           q == [i \in DOMAIN ById(S) |->
                   LET c == ById(S)[i] IN <<c, ~(Exhausted(sub, On(c)) \/ qconn[c].adminOff)>>]
<1>1. Step("commit", {}, S, Load(poll.work, {}, S), q) /\ UNCHANGED <<qplan, sub, qconn, peer, using, carried, billed>>
  BY DEF PollReconcile
<1>2. S \in SUBSET QConns /\ poll.work \in Sessions /\ RowsFit
  BY DEF QTypes, Polls
<1> HIDE DEF S
<1>3. q \in Todo
  <2>1. \A i \in DOMAIN ById(S) : ById(S)[i] \in QConns
    BY <1>2, InOrder
  <2>2. DOMAIN q = DOMAIN ById(S) /\ q = [i \in DOMAIN q |-> q[i]]
    OBVIOUS
  <2>3. \A i \in DOMAIN q : q[i] \in QConns \X BOOLEAN
    BY <2>1
  <2> HIDE DEF q
  <2> QED
    BY <1>2, <2>2, <2>3, ListIs
<1>4. PICK w \in Sessions : w = Load(poll.work, {}, S)
  BY <1>2, LoadIs
<1> HIDE DEF q
<1>5. Step("commit", {}, S, w, q)
  BY <1>1, <1>4
<1>6. poll' \in Polls
  BY <1>2, <1>3, <1>5, StepIs DEF PollPcs
<1> QED
  BY <1>1, <1>6, PollGoesOn


LEMMA SwitchKeeps ==
    ASSUME QTypes, PollSwitch
    PROVE  QTypes' /\ CountersKept /\ Balanced
<1>1. PICK out \in Outcomes :
        LET p == Head(poll.todo)
            r == SetEnabled([conn |-> poll.work.conn, peer |-> peer], p[1], p[2], out)
        IN /\ poll' = [poll EXCEPT !.work.conn = r.conn, !.todo = Tail(@)]
           /\ peer' = r.peer
           /\ qplan' = IF out = "refused" THEN Counted ELSE qplan
  BY DEF PollSwitch
<1>2. /\ poll.todo # <<>> /\ UNCHANGED <<sub, qconn, using, carried, billed>>
      /\ poll \in Polls /\ poll.todo \in Todo /\ poll.work \in Sessions /\ RowsFit /\ qplan \in QPlan
  BY DEF PollSwitch, QTypes, Polls
<1>3. Head(poll.todo) \in QConns \X BOOLEAN /\ Tail(poll.todo) \in Todo
  BY <1>2 DEF Todo
<1>4. PICK c \in QConns, on \in BOOLEAN : c = Head(poll.todo)[1] /\ on = Head(poll.todo)[2]
  BY <1>3
<1>5. PICK f : f = poll.work.conn
  OBVIOUS
<1>6. ConnPart(f)
  BY <1>2, <1>5, ConnPartsAre DEF Sessions
<1>7. PICK v : v = [conn |-> f, peer |-> peer]
  OBVIOUS
<1>8. PICK r : r = SetEnabled(v, c, on, out)
  OBVIOUS
<1>9. PICK g, p : g = RowOn(f, c, on) /\ p = PeerOn(peer, c, on)
  OBVIOUS
<1>10. r \in {v, [v EXCEPT !.conn = g], [v EXCEPT !.conn = g, !.peer = p]}
  BY <1>7, <1>8, <1>9 DEF SetEnabled, RowOn, PeerOn
<1>11. r.conn \in {f, g} /\ r.peer \in {peer, p}
  <2>1. v.conn = f /\ v.peer = peer
    BY <1>7
  <2>2. [v EXCEPT !.conn = g].conn = g /\ [v EXCEPT !.conn = g].peer = peer
    BY <1>7
  <2>3. [v EXCEPT !.conn = g, !.peer = p].conn = g /\ [v EXCEPT !.conn = g, !.peer = p].peer = p
    BY <1>7
  <2> QED
    BY <1>10, <2>1, <2>2, <2>3
<1>12. ConnPart(g)
  BY <1>6, <1>9, RowOnIs
<1>13. PICK h \in ConnParts : h = r.conn
  BY <1>6, <1>11, <1>12, ConnPartsAre
<1>14. peer \in Peers /\ p \in Peers /\ \A d \in QConns : p[d].moved = peer[d].moved
  BY <1>2, <1>9, PeerOnIs DEF RowsFit
<1>15. poll' = [poll EXCEPT !.work.conn = h, !.todo = Tail(@)] /\ peer' = r.peer /\ qplan' \in {Counted, qplan}
       /\ (qplan' # qplan => out = "refused")
  BY <1>1, <1>4, <1>5, <1>7, <1>8, <1>13
<1>16. poll' \in Polls
  <2>1. PICK w \in Sessions : w = [poll.work EXCEPT !.conn = h]
    BY <1>2 DEF Sessions
  <2>2. PICK todo \in Todo : todo = Tail(poll.todo)
    BY <1>3
  <2>3. poll' = [poll EXCEPT !.work = w, !.todo = todo]
    BY <1>2, <1>15, <2>1, <2>2 DEF Polls
  <2> QED
    BY <1>2, <2>3 DEF Polls
<1>17. peer' \in Peers /\ \A d \in QConns : peer'[d].moved = peer[d].moved
  BY <1>11, <1>14, <1>15
<1>18. qplan' \in QPlan
  <2>1. out = "refused" => qplan.left > 0
    BY DEF Outcomes, Occurs
  <2> QED
    BY <1>2, <1>15, <2>1, PlanGoesOn
<1>19. QTypes'
  BY <1>2, <1>16, <1>17, <1>18 DEF QTypes, RowsFit
<1>20. CountersKept
  BY <1>2, <1>17 DEF CountersKept
<1> QED
  BY <1>2, <1>19, <1>20 DEF Balanced

LEMMA FailsKeeps ==
    ASSUME QTypes, PollFails
    PROVE  QTypes' /\ CountersKept /\ Balanced
<1>1. /\ qplan' = Counted /\ qplan.left > 0 /\ poll' = Resting /\ UNCHANGED <<sub, qconn, peer, using, carried, billed>>
  BY DEF PollFails, Occurs
<1>2. qplan' \in QPlan /\ poll' \in Polls
  BY <1>1, PlanGoesOn, RestingIs DEF QTypes
<1> QED
  BY <1>1, <1>2 DEF QTypes, RowsFit, CountersKept, Balanced

LEMMA MarksAre == \A m \in Marks : \A c \in DOMAIN m : m[c] \in BOOLEAN
BY DEF Marks

LEMMA CommitKeeps ==
    ASSUME QTypes, PollCommit
    PROVE  QTypes' /\ CountersKept /\ Balanced
<1> DEFINE T == {s \in DOMAIN poll.work.sub : poll.work.sub[s].status # poll.base.sub[s].status}
           statuses == [s \in T |-> poll.work.sub[s].status]
           Ena == Dirty("enabled")
           Lim == Dirty("limited")
           cut == {c \in poll.live : ~qconn'[c].enabled}
<1>1. /\ sub' = [s \in Allotments |-> [sub[s] EXCEPT !.status = IF s \in DOMAIN statuses THEN statuses[s] ELSE @]]
      /\ qconn' = [c \in QConns |-> [qconn[c] EXCEPT !.enabled = IF c \in DOMAIN Ena THEN Ena[c] ELSE @,
                                                     !.limited = IF c \in DOMAIN Lim THEN Lim[c] ELSE @]]
      /\ poll' = Resting /\ UNCHANGED <<using, carried, billed>>
  BY DEF PollCommit
<1>2. PICK out \in Outcomes :
        /\ peer' = [c \in QConns |-> IF c \in cut /\ out = "done" THEN [peer[c] EXCEPT !.on = FALSE] ELSE peer[c]]
        /\ qplan' = IF out = "refused" THEN Counted ELSE qplan
  BY DEF PollCommit
<1>3. RowsFit /\ qplan \in QPlan /\ SubPart(poll.work.sub)
  BY SubPartsAre DEF QTypes, Polls, Sessions
<1>4. sub' \in AllSubs
  <2>1. ASSUME NEW s \in Allotments PROVE sub'[s] \in SubRow /\ (s = "buy" => sub'[s].status # "disabled")
    <3>1. sub[s] \in SubRow /\ (s = "buy" => sub[s].status # "disabled")
      BY <1>3, SubRowIs
    <3>2. CASE s \in T
      <4>1. PICK r \in SubRow : r = poll.work.sub[s] /\ (s = "buy" => r.status # "disabled")
        BY <1>3, <3>2 DEF SubPart
      <4>2. DOMAIN statuses = T /\ statuses[s] = r.status
        BY <3>2, <4>1
      <4> HIDE DEF statuses
      <4>3. sub'[s] = [sub[s] EXCEPT !.status = r.status]
        BY <1>1, <3>2, <4>2
      <4>4. [sub[s] EXCEPT !.status = r.status] \in SubRow /\ [sub[s] EXCEPT !.status = r.status].status = r.status
        BY <3>1 DEF SubRow
      <4> QED
        BY <4>1, <4>3, <4>4
    <3>3. CASE s \notin T
      <4>1. DOMAIN statuses = T
        OBVIOUS
      <4> HIDE DEF statuses
      <4>2. sub'[s] = [sub[s] EXCEPT !.status = sub[s].status]
        BY <1>1, <3>3, <4>1
      <4>3. [sub[s] EXCEPT !.status = sub[s].status] \in SubRow
            /\ [sub[s] EXCEPT !.status = sub[s].status].status = sub[s].status
        BY <3>1 DEF SubRow
      <4> QED
        BY <3>1, <4>2, <4>3
    <3> QED
      BY <3>2, <3>3
  <2>2. sub' = [s \in Allotments |-> sub'[s]]
    BY <1>1
  <2>3. PICK f : f = sub'
    OBVIOUS
  <2>4. f \in [Allotments -> SubRow] /\ f["buy"].status # "disabled"
    BY <2>1, <2>2, <2>3 DEF Allotments
  <2> QED
    BY <2>3, <2>4, AllSubsAre
<1> HIDE DEF T, statuses
<1>5. /\ \A c \in DOMAIN Ena : Ena[c] \in BOOLEAN
      /\ \A c \in DOMAIN Lim : Lim[c] \in BOOLEAN
  <2>1. Ena \in Marks /\ Lim \in Marks
    BY DirtyIs
  <2> HIDE DEF Ena, Lim
  <2> QED
    BY <2>1, MarksAre
<1> HIDE DEF Ena, Lim
<1>6. ASSUME NEW c \in QConns PROVE qconn'[c] \in ConnRow /\ qconn'[c].seen = qconn[c].seen
  <2>1. qconn[c] \in ConnRow
    BY <1>3, DeltaIs
  <2>2. qconn[c].enabled \in BOOLEAN /\ qconn[c].limited \in BOOLEAN
    BY <2>1 DEF ConnRow
  <2>3. PICK a \in BOOLEAN : a = IF c \in DOMAIN Ena THEN Ena[c] ELSE qconn[c].enabled
    BY <1>5, <2>2
  <2>4. PICK b \in BOOLEAN : b = IF c \in DOMAIN Lim THEN Lim[c] ELSE qconn[c].limited
    BY <1>5, <2>2
  <2>5. qconn'[c] = [qconn[c] EXCEPT !.enabled = a, !.limited = b]
    BY <1>1, <2>1, <2>3, <2>4
  <2>6. [qconn[c] EXCEPT !.enabled = a, !.limited = b] \in ConnRow
        /\ [qconn[c] EXCEPT !.enabled = a, !.limited = b].seen = qconn[c].seen
    BY <2>1 DEF ConnRow
  <2> QED
    BY <2>5, <2>6
<1>7. qconn' \in Conns
  <2>1. qconn' = [c \in QConns |-> qconn'[c]]
    BY <1>1
  <2> QED
    BY <1>6, <2>1 DEF Conns
<1> HIDE DEF cut
<1>8. ASSUME NEW c \in QConns PROVE peer'[c] \in PeerRow /\ peer'[c].moved = peer[c].moved
  <2>1. peer[c] \in PeerRow
    BY <1>3, DeltaIs
  <2>2. [peer[c] EXCEPT !.on = FALSE] \in PeerRow /\ [peer[c] EXCEPT !.on = FALSE].moved = peer[c].moved
    BY <2>1 DEF PeerRow
  <2>3. peer'[c] \in {[peer[c] EXCEPT !.on = FALSE], peer[c]}
    BY <1>2
  <2> QED
    BY <2>1, <2>2, <2>3
<1>9. peer' \in Peers
  <2>1. peer' = [c \in QConns |-> peer'[c]]
    BY <1>2
  <2> QED
    BY <1>8, <2>1 DEF Peers
<1>10. qplan' \in QPlan
  <2>1. out = "refused" => qplan.left > 0
    BY DEF Outcomes, Occurs
  <2>2. qplan' = qplan \/ (qplan' = Counted /\ qplan.left > 0)
    BY <1>2, <2>1
  <2> QED
    BY <1>3, <2>2, PlanGoesOn
<1>11. QTypes'
  <2>1. poll' \in Polls
    BY <1>1, RestingIs
  <2>2. RowsFit'
    BY <1>4, <1>7, <1>9 DEF RowsFit
  <2>3. UNCHANGED <<using, carried, billed>>
    BY <1>1
  <2> QED
    BY <1>10, <2>1, <2>2, <2>3 DEF QTypes
<1>12. CountersKept
  BY <1>6, <1>8 DEF CountersKept
<1>13. Balanced
  BY <1>1 DEF Balanced
<1> QED
  BY <1>11, <1>12, <1>13


-----------------------------------------------------------------------------
(* The invariant holds *)

LEMMA QInvInit ==
    ASSUME QuotaInit
    PROVE  QInv
<1>1. /\ qplan \in QPlan /\ using = QConns /\ poll = Resting /\ carried = 0 /\ billed = 0
      /\ sub = [s \in Allotments |-> [status |-> "active", used |-> 0, expired |-> FALSE]]
      /\ qconn = [c \in QConns |-> Row] /\ peer = [c \in QConns |-> [on |-> IsNode(c), moved |-> 0]]
  BY DEF QuotaInit, Resting, Nothing
<1>2. sub \in AllSubs
  <2>1. sub \in [Allotments -> SubRow] /\ sub["buy"].status # "disabled"
    BY <1>1 DEF SubRow, Allotments
  <2> QED
    BY <2>1, AllSubsAre
<1>3. qconn \in Conns
  <2>1. Row \in ConnRow
    BY DEF Row, ConnRow
  <2> HIDE DEF Row
  <2> QED
    BY <1>1, <2>1 DEF Conns
<1>4. ASSUME NEW c \in QConns PROVE peer[c] \in PeerRow /\ peer[c].moved = 0
  <2>1. IsNode(c) \in BOOLEAN
    BY DEF IsNode
  <2>2. [on |-> IsNode(c), moved |-> 0] \in PeerRow
    BY <2>1 DEF PeerRow
  <2>3. peer[c] = [on |-> IsNode(c), moved |-> 0]
    BY <1>1
  <2> QED
    BY <2>2, <2>3
<1>5. peer \in Peers
  <2>1. peer = [c \in QConns |-> peer[c]]
    BY <1>1
  <2> QED
    BY <1>4, <2>1 DEF Peers
<1>6. QTypes
  BY <1>1, <1>2, <1>3, <1>5, RestingIs DEF QTypes, RowsFit
<1>7. Metered(QConns) = 0
  <2>1. PICK d : d = Deltas
    OBVIOUS
  <2>2. \A c \in QConns : d[c] = 0
    <3>1. ASSUME NEW c \in QConns PROVE Delta(c) = 0
      <4>1. qconn[c].seen = 0
        BY <1>1 DEF Row
      <4> QED
        BY <1>4, <4>1 DEF Delta
    <3> QED
      BY <2>1, <3>1 DEF Deltas
  <2>3. SumFunctionOnSet(d, QConns) = 0
    BY <2>2, SumOfZeros
  <2>4. RowsFit
    BY <1>6 DEF QTypes
  <2> QED
    BY <2>1, <2>3, <2>4, MeteredIs
<1> QED
  BY <1>1, <1>6, <1>7 DEF QInv, Meter

LEMMA QInvNext ==
    ASSUME QInv, [QuotaNext]_quotavars
    PROVE  QInv'
<1>1. QTypes /\ Meter
  BY DEF QInv
<1> DEFINE Kept == QTypes' /\ CountersKept /\ Balanced
           Rest == QTypes' /\ Meter'
<1>2. Kept => Rest
  BY <1>1, MeterKept
<1>3. CASE UNCHANGED quotavars
  <2>1. UNCHANGED <<qplan, sub, qconn, peer, using, poll, carried, billed>>
    BY <1>3 DEF quotavars
  <2>2. poll' \in Polls
    BY <1>1, <2>1 DEF QTypes
  <2>3. Kept
    BY <1>1, <2>1, <2>2, PollGoesOn
  <2> QED
    BY <1>2, <2>3 DEF QInv
<1>4. CASE QuotaNext
  <2>1. CASE PollNodes
    BY <1>1, <2>1, NodesKeep DEF QInv
  <2>2. CASE PollPurchases \/ PollUsers \/ PollSwitch \/ PollLimits \/ PollReconcile \/ PollCommit \/ PollFails
    <3>1. Kept
      BY <1>1, <2>2, PurchasesKeep, UsersKeep, SwitchKeeps, LimitsKeep, ReconcileKeeps, CommitKeeps, FailsKeeps
    <3> QED
      BY <1>2, <3>1 DEF QInv
  <2>3. CASE \E c \in QConns : Login(c) \/ Report(c) \/ Device(c)
    <3>1. Kept
      BY <1>1, <2>3, LoginKeeps, ReportKeeps, DeviceKeeps
    <3> QED
      BY <1>2, <3>1 DEF QInv
  <2>4. CASE \E c \in QConns : Traffic(c) \/ CounterReset(c)
    BY <1>1, <2>4, TrafficKeeps, CounterResetKeeps DEF QInv
  <2>5. CASE \E c \in QConns, wanted \in BOOLEAN : ManualSwitch(c, wanted)
    <3>1. Kept
      BY <1>1, <2>5, ManualSwitchKeeps
    <3> QED
      BY <1>2, <3>1 DEF QInv
  <2>6. CASE \E s \in Allotments : Renew(s) \/ Expire(s)
    <3>1. Kept
      BY <1>1, <2>6, RenewKeeps, ExpireKeeps
    <3> QED
      BY <1>2, <3>1 DEF QInv
  <2>7. CASE \E on \in BOOLEAN, how \in {"bot", "panel"} : SetAccount(on, how)
    <3>1. Kept
      BY <1>1, <2>7, SetAccountKeeps
    <3> QED
      BY <1>2, <3>1 DEF QInv
  <2> QED
    BY <1>4, <2>1, <2>2, <2>3, <2>4, <2>5, <2>6, <2>7 DEF QuotaNext, PollCycle
<1> QED
  BY <1>3, <1>4

LEMMA QInvSays == QInv => QuotaInv
<1> SUFFICES ASSUME QInv PROVE QuotaInv
  OBVIOUS
<1>1. QTypes /\ Meter /\ RowsFit /\ billed \in Nat /\ carried \in Nat
  BY DEF QInv, QTypes
<1>2. NeverOverMetered
  <2>1. Metered(QConns) \in Nat
    BY <1>1, MeteredIs
  <2> QED
    BY <1>1, <2>1 DEF Meter, NeverOverMetered
<1>3. /\ \A s \in Allotments :
           /\ sub[s].status \in {"active", "quota_exceeded", "expired", "disabled"}
           /\ sub[s].used \in Nat /\ sub[s].expired \in BOOLEAN
      /\ sub["buy"].status # "disabled"
  <2>1. \A s \in Allotments : sub[s] \in SubRow
    BY <1>1, SubRowIs
  <2>2. sub["buy"].status # "disabled"
    BY <1>1, AllSubsAre DEF RowsFit
  <2> QED
    BY <2>1, <2>2 DEF SubRow
<1>4. qconn \in [QConns -> [enabled: BOOLEAN, limited: BOOLEAN, adminOff: BOOLEAN, online: BOOLEAN, seen: Nat]]
      /\ peer \in [QConns -> [on: BOOLEAN, moved: Nat]]
  BY <1>1 DEF RowsFit, Conns, ConnRow, Peers, PeerRow
<1>5. poll.pc \in PollPcs /\ poll.todo \in Todo /\ using \subseteq QConns
  BY <1>1 DEF QTypes, Polls
<1>6. \A i \in DOMAIN poll.todo : poll.todo[i] \in QConns \X BOOLEAN
  BY <1>5 DEF Todo
<1>7. QuotaTypeOK
  BY <1>3, <1>4, <1>5, <1>6 DEF QuotaTypeOK, PollPcs
<1> QED
  BY <1>2, <1>7 DEF QuotaInv
-----------------------------------------------------------------------------
(***************************************************************************)
(* The behaviours MCService checks: each part's theorems hold of them.     *)
(***************************************************************************)

HIDE QuotaAssumption

\* A part that is not a behaviour's stutters in it.
LEMMA EachServicePart ==
    ServiceSpec => /\ HistoryInit /\ [][HistoryNext]_historyvars
                   /\ LicenceInit /\ [][LicenceNext]_licencevars
                   /\ QuotaInit /\ [][QuotaNext]_quotavars
<1>1. ServiceInit => HistoryInit /\ LicenceInit /\ QuotaInit
  BY DEF ServiceInit
<1>2. [ServiceNext]_servicevars => [HistoryNext]_historyvars /\ [LicenceNext]_licencevars /\ [QuotaNext]_quotavars
  <2>1. ServiceNext => [HistoryNext]_historyvars /\ [LicenceNext]_licencevars /\ [QuotaNext]_quotavars
    BY DEF ServiceNext, HistoryPart, LicencePart, QuotaPart
  <2>2. UNCHANGED servicevars => [HistoryNext]_historyvars /\ [LicenceNext]_licencevars /\ [QuotaNext]_quotavars
    BY DEF servicevars
  <2> QED
    BY <2>1, <2>2
<1> QED
  BY <1>1, <1>2, PTL DEF ServiceSpec

\* The panel's licence (license_state.py, license_client.py,
\* license_enforcement.py), as it is run on its own: what a copy knows of its
\* keys, what is installed and what the services' rows record agree after every
\* step, whatever is lost, set back, decided or restarted in between.
THEOREM LicenceInductive == LicenceInit /\ [][LicenceNext]_licencevars => []LInv
<1>1. LInv /\ [LicenceNext]_licencevars => LInv'
  BY LInvNext
<1> QED
  BY LInvInit, <1>1, PTL

\* The enforcement of one customer's limits (quota_manager.poll_all, the RADIUS
\* server, renewals, the panel), as it is run on its own: rows and statuses stay
\* in their ranges, and what was billed and what the nodes' counters still hold
\* to be billed was carried, whoever meters at the same time and whichever
\* counter is reset.
THEOREM QuotaInductive == QuotaInit /\ [][QuotaNext]_quotavars => []QInv
<1>1. QInv /\ [QuotaNext]_quotavars => QInv'
  BY QInvNext
<1> QED
  BY QInvInit, <1>1, PTL

\* The customer never pays for a unit that was not carried, and a purchase is
\* never in a state only an account has, with no condition on the plan.
THEOREM NeverBilledTwice == ServiceSpec => []QuotaInv
BY EachServicePart, QuotaInductive, QInvSays, PTL

\* What the readers of a service promise, and the panel's own licence: what was
\* paid for runs, waits or was lived out, the licence's record is the one its key
\* decided, and nobody is billed beyond what was carried.
THEOREM ServicesKeepTheirWord == ServiceSpec => []((Serial /\ Untorn) => ServiceInv)
<1>1. HistoryHolds => (Serial => RenewalInv)
  BY RIInvSays DEF HistoryHolds
<1>2. (Serial => RenewalInv) /\ (Untorn => LicenceInv) /\ QuotaInv => ((Serial /\ Untorn) => ServiceInv)
  BY DEF ServiceInv
<1> QED
  BY <1>1, <1>2, EachServicePart, RenewalInductive, LicenceInductive, QuotaInductive, LInvSays, QInvSays, PTL

\* A term is replaced only when it was used up, or by a void: no reader of an
\* older copy (the poller, the RADIUS server) and no renewal cuts it short.
THEOREM TermsAreLivedOut == ServiceSpec /\ Serial => TermsLiveOut
<1>1. HistoryHolds /\ Serial /\ [HistoryNext]_historyvars => Serial'
  BY PlanKept DEF HistoryHolds, Serial
<1>2. HistoryHolds /\ Serial /\ [HistoryNext]_historyvars =>
        [svc'.term # svc.term => UsedUp(svc) \/ \E p \in Pays : void[p].state = "held" /\ void'[p].state = "done"]_historyvars
  BY TermLivesOut DEF HistoryHolds
<1> QED
  BY <1>1, <1>2, EachServicePart, RenewalInductive, PTL DEF TermsLiveOut

\* No step of anybody lifts a suspension that something still justifies, or
\* lengthens the term of a key: of every plan, torn or not.
THEOREM LicenceStepsHold == ServiceSpec => LicenceSteps
<1>1. LInv /\ [LicenceNext]_licencevars => [LiftedIfAllowed /\ TermOnlyShortens]_licencevars
  BY LInvNext
<1> QED
  BY <1>1, EachServicePart, LicenceInductive, PTL DEF LicenceSteps
=============================================================================
