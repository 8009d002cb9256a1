------------------------- MODULE Provisioning_proofs -------------------------
(***************************************************************************)
(* Theorems about Provisioning, for any number of operations, steps,       *)
(* nodes, payers and workers, any prices and any mix of outside events.    *)
(***************************************************************************)
EXTENDS Provisioning, Sums_proofs

-----------------------------------------------------------------------------
(* Type correctness *)

\* A non-empty set of naturals has a least element.  (Below[m] grows with m, and
\* strict inclusion of finite sets is well founded.)
LEMMA LeastNatural ==
    ASSUME NEW T \in SUBSET Nat, T # {}
    PROVE  \E m \in T : \A n \in T : m <= n
<1> DEFINE Below(m) == {n \in T : n < m}
           D == {Below(m) : m \in T}
           R == StrictSubsetOrdering(Nat)
<1>1. D \subseteq FiniteSubsetsOf(Nat) /\ D # {}
  <2>1. ASSUME NEW m \in T PROVE Below(m) \in FiniteSubsetsOf(Nat)
    <3>1. Below(m) \in SUBSET Nat
      OBVIOUS
    <3>2. \A n \in T : n \in Nat
      OBVIOUS
    <3>3. \A n \in Below(m) : n <= m
      BY <3>2
    <3>4. IsFiniteSet(Below(m))
      BY <3>1, <3>3, FS_BoundedSetOfNaturals
    <3>5. QED
      BY <3>1, <3>4 DEF FiniteSubsetsOf
  <2>2. QED
    BY <2>1
<1>2. \E d \in D : \A e \in D : ~(<<e, d>> \in R)
  <2> HIDE DEF D, R
  <2>1. IsWellFoundedOn(R, FiniteSubsetsOf(Nat))
    BY FS_StrictSubsetOrderingWellFounded DEF R
  <2>2. QED
    BY <1>1, <2>1, WFMin
<1>3. PICK m \in T : \A n \in T : ~(<<Below(n), Below(m)>> \in R)
  BY <1>2
<1>4. ASSUME NEW n \in T, n < m PROVE FALSE
  <2>1. ASSUME NEW k \in T, k < n PROVE k < m
    <3>1. k \in Nat /\ n \in Nat /\ m \in Nat
      OBVIOUS
    <3>2. QED
      BY <1>4, <2>1, <3>1
  <2>3. Below(n) \subseteq Below(m)
    BY <2>1
  <2>4. n \in Below(m)
    BY <1>4
  <2>5. n \notin Below(n)
    BY n \in Nat
  <2>2. <<Below(n), Below(m)>> \in (SUBSET Nat) \X (SUBSET Nat)
    OBVIOUS
  <2>6. <<Below(n), Below(m)>> \in R
    BY <2>2, <2>3, <2>4, <2>5 DEF StrictSubsetOrdering
  <2>7. QED
    BY <1>3, <2>6
<1>5. \A n \in T : m <= n
  BY <1>4
<1>6. QED
  BY <1>5

\* A non-empty set of steps has a first one.
LEMMA FirstIsMember ==
    ASSUME NEW S \in SUBSET Steps, S # {}
    PROVE  First(S) \in S
<1> DEFINE T == {Order[s] : s \in S}
<1>1. T \in SUBSET Nat /\ T # {}
  BY ShapeAssumption
<1>2. \E m \in T : \A n \in T : m <= n
  <2> HIDE DEF T
  <2>1. QED
    BY <1>1, LeastNatural
<1>3. \E s \in S : \A t \in S : Order[s] <= Order[t]
  BY <1>2
<1>4. QED
  BY <1>3 DEF First

\* The step a tick picks is a step of the operation.
LEMMA PickedIsStep ==
    ASSUME NEW o \in Ops, HasWork(o)
    PROVE  /\ Picked(o) \in StepsOf(o)
           /\ opst[o] = "compensating" => Picked(o) \in ToRemove(o)
           /\ opst[o] # "compensating" => /\ opst[o] \in Forward
                                          /\ Picked(o) \in ToCreate(o)
                                          /\ Calling(o) # {} => Picked(o) \in Calling(o)
<1>1. /\ ToRemove(o) \in SUBSET Steps /\ Calling(o) \in SUBSET Steps /\ ToCreate(o) \in SUBSET Steps
      /\ ToRemove(o) \subseteq StepsOf(o) /\ Calling(o) \subseteq ToCreate(o) /\ ToCreate(o) \subseteq StepsOf(o)
  BY DEF ToRemove, Calling, ToCreate, Remote, StepsOf
<1>2. CASE opst[o] = "compensating"
  BY <1>1, <1>2, FirstIsMember DEF HasWork, Picked, Forward
<1>3. CASE opst[o] # "compensating"
  BY <1>1, <1>3, FirstIsMember DEF HasWork, Picked
<1>4. QED
  BY <1>2, <1>3

LEMMA LeaveType ==
    ASSUME wk \in [Workers -> WorkerRecord], NEW w \in Workers
    PROVE  Leave(w) \in WorkerRecord
BY DEF Leave, WorkerRecord

LEMMA IdleType == Idle \in WorkerRecord
BY DEF Idle, WorkerRecord

\* Marking what others know as stale keeps the workers well formed.
LEMMA WrittenType ==
    ASSUME wk \in [Workers -> WorkerRecord], NEW rec \in WorkerRecord, NEW w, NEW o, NEW S, NEW s
    PROVE  /\ Written(w, o, S, rec) \in [Workers -> WorkerRecord]
           /\ StepWritten(w, s, rec) \in [Workers -> WorkerRecord]
<1>1. \A v \in Workers : [wk[v] EXCEPT !.fresh = FALSE] \in WorkerRecord
  BY DEF WorkerRecord
<1>2. QED
  BY <1>1 DEF Written, StepWritten

LEMMA CleanedType ==
    ASSUME step \in [Steps -> StepRecord], NEW s \in Steps
    PROVE  Cleaned(s) \in StepRecord
BY DEF Cleaned, StepRecord, StepStates

LEMMA RecordedType ==
    ASSUME step \in [Steps -> StepRecord], NEW s \in Steps, NEW ph, NEW result,
           result \in {"present", "convergence", "absent", "conflict", "unknown"}
    PROVE  Recorded(s, ph, result) \in StepRecord
BY DEF Recorded, StepRecord, StepStates

\* A worker's record with a few fields changed stays well formed.
LEMMA RecordType ==
    ASSUME wk \in [Workers -> WorkerRecord], NEW w \in Workers
    PROVE  /\ \A c \in {"spawned", "gated", "inside", "writing", "authorised"} :
                  [wk[w] EXCEPT !.pc = c] \in WorkerRecord
           /\ \A c \in {"verify", "done", "writing"},
                 r \in {"present", "partial", "absent", "convergence", "conflict", "unknown"} :
                  [wk[w] EXCEPT !.pc = c, !.result = r] \in WorkerRecord
           /\ \A c \in {"releasing", "ticking"}, o \in Ops :
                  [Idle EXCEPT !.pc = c, !.op = o] \in WorkerRecord
           /\ \A s \in Steps, ph \in {"create", "read", "remove"} :
                  [wk[w] EXCEPT !.pc = "dispatching", !.step = s, !.fresh = TRUE, !.phase = ph]
                      \in WorkerRecord
<1>1. wk[w] \in WorkerRecord
  OBVIOUS
<1>2. \A c \in {"spawned", "gated", "inside", "writing", "authorised"} :
          [wk[w] EXCEPT !.pc = c] \in WorkerRecord
  BY <1>1 DEF WorkerRecord, ChildPcs
<1>3. \A c \in {"verify", "done", "writing"},
         r \in {"present", "partial", "absent", "convergence", "conflict", "unknown"} :
          [wk[w] EXCEPT !.pc = c, !.result = r] \in WorkerRecord
  BY <1>1 DEF WorkerRecord, ChildPcs
<1>4. \A c \in {"releasing", "ticking"}, o \in Ops : [Idle EXCEPT !.pc = c, !.op = o] \in WorkerRecord
  BY DEF WorkerRecord, Idle
<1>5. \A s \in Steps, ph \in {"create", "read", "remove"} :
          [wk[w] EXCEPT !.pc = "dispatching", !.step = s, !.fresh = TRUE, !.phase = ph] \in WorkerRecord
  BY <1>1 DEF WorkerRecord
<1>6. QED
  BY <1>2, <1>3, <1>4, <1>5

\* A child ends with what it has seen.
LEMMA EndedType ==
    ASSUME wk \in [Workers -> WorkerRecord], gate \in [Nodes -> Workers \cup {NoWorker}],
           NEW w \in Workers, NEW r \in {"present", "absent", "convergence", "conflict", "unknown"},
           Ended(w, r)
    PROVE  /\ wk' \in [Workers -> WorkerRecord]
           /\ gate' \in [Nodes -> Workers \cup {NoWorker}]
BY RecordType DEF Ended

\* Results a worker brings home.
Known == {"present", "absent", "convergence", "conflict", "unknown"}

LEMMA ResultsKnown ==
    ASSUME WorkersServe, ResultsHold, NEW w \in Workers, wk[w].pc \in {"verify", "done"}
    PROVE  wk[w].result \in Known
BY DEF WorkersServe, ResultsHold, Known, Busy, Called, ChildPcs

LEMMA TypeInit == Init => TypeOK
<1> SUFFICES ASSUME Init PROVE TypeOK
  OBVIOUS
<1>1. Blank \in StepRecord /\ Idle \in WorkerRecord
  BY IdleType DEF Blank, StepRecord, StepStates
<1>2. wk \in [Workers -> WorkerRecord] /\ step \in [Steps -> StepRecord]
  BY <1>1 DEF Init
<1>3. remote \in [Steps -> {"absent", "partial", "present", "foreign"}]
  BY DEF Init
<1>4. /\ opst \in [Ops -> OpStates]
      /\ res \in [Ops -> [Payers -> {"none", "reserved", "captured", "released"}]]
      /\ balance \in [Payers -> Nat]
  BY MoneyAssumption DEF Init, OpStates
<1>5. QED
  BY <1>2, <1>3, <1>4 DEF Init, TypeOK

\* Steps of a worker on the tables.
LEMMA TypeTables ==
    ASSUME TypeOK, WorkersServe, ResultsHold, NEW w \in Workers, NEW o, NEW s,
           \/ /\ o \in Ops
              /\ \/ Prepare(w, o) \/ Reacquire(w, o) \/ TickFails(w, o) \/ TickPicks(w, o)
                 \/ TickCompletes(w, o) \/ TickCompensates(w, o) \/ TickLeaves(w, o)
           \/ s \in Steps /\ (Dispatch(w, s) \/ Record(w, s))
           \/ DispatchRefused(w) \/ Refused(w) \/ Release(w) \/ TransientConflict(w) \/ Crash(w)
    PROVE  TypeOK'
<1> USE ShapeAssumption, MoneyAssumption DEF opvars, money, leasevars, world, control
<1>0. /\ wk \in [Workers -> WorkerRecord] /\ step \in [Steps -> StepRecord]
      /\ Leave(w) \in WorkerRecord
  BY LeaveType DEF TypeOK
<1>1. CASE o \in Ops /\ Prepare(w, o)
  <2>1. wk' \in [Workers -> WorkerRecord]
    BY <1>0, <1>1, RecordType DEF Prepare
  <2>2. step' \in [Steps -> StepRecord]
    BY <1>0, <1>1 DEF Prepare, Blank, StepRecord, StepStates
  <2>3. balance' \in [Payers -> Nat]
    BY <1>1 DEF Prepare, Affordable, TypeOK
  <2>4. QED
    BY <1>1, <2>1, <2>2, <2>3 DEF Prepare, TypeOK, OpStates, Forward
<1>2. CASE o \in Ops /\ Reacquire(w, o)
  <2>1. wk' \in [Workers -> WorkerRecord]
    BY <1>0, <1>2, RecordType DEF Reacquire
  <2>2. QED
    BY <1>2, <2>1 DEF Reacquire, TypeOK
<1>3. CASE o \in Ops /\ TickFails(w, o)
  <2>1. wk' \in [Workers -> WorkerRecord]
    BY <1>0, <1>3, WrittenType DEF TickFails
  <2>2. step' \in [Steps -> StepRecord]
    BY <1>0, <1>3, CleanedType DEF TickFails, BeginCompensation
  <2>3. QED
    BY <1>3, <2>1, <2>2 DEF TickFails, BeginCompensation, TypeOK, OpStates
<1>4. CASE o \in Ops /\ TickPicks(w, o)
  <2>1. Picked(o) \in Steps
    BY <1>4, PickedIsStep DEF TickPicks, StepsOf
  <2>2. wk' \in [Workers -> WorkerRecord]
    <3> DEFINE ph == IF opst[o] = "compensating" THEN "remove"
                     ELSE IF step[Picked(o)].state = "remote_calling" THEN "read"
                     ELSE "create"
               picks == [wk[w] EXCEPT !.pc = "dispatching", !.step = Picked(o), !.fresh = TRUE, !.phase = ph]
    <3>1. ph \in {"create", "read", "remove"}
      OBVIOUS
    <3>2. wk' = [wk EXCEPT ![w] = picks]
      BY <1>0, <1>4 DEF TickPicks
    <3> HIDE DEF ph
    <3>3. picks \in WorkerRecord
      BY <1>0, <2>1, <3>1, RecordType
    <3> HIDE DEF picks
    <3>4. QED
      BY <1>0, <3>2, <3>3
  <2>3. QED
    BY <1>4, <2>2 DEF TickPicks, TypeOK
<1>5. CASE o \in Ops /\ TickCompletes(w, o)
  <2>1. wk' \in [Workers -> WorkerRecord]
    BY <1>0, <1>5, WrittenType DEF TickCompletes
  <2>2. step' \in [Steps -> StepRecord]
    <3>1. \A t \in Steps : [step[t] EXCEPT !.state = "active"] \in StepRecord
      BY <1>0 DEF StepRecord, StepStates
    <3>2. step' = [t \in Steps |-> IF OpOf[t] = o THEN [step[t] EXCEPT !.state = "active"] ELSE step[t]]
      BY <1>5 DEF TickCompletes
    <3>3. QED
      BY <1>0, <3>1, <3>2
  <2>3. QED
    BY <1>5, <2>1, <2>2 DEF TickCompletes, Captured, TypeOK, OpStates, Terminal
<1>6. CASE o \in Ops /\ TickCompensates(w, o)
  <2>1. wk' \in [Workers -> WorkerRecord]
    BY <1>0, <1>6, WrittenType DEF TickCompensates
  <2>2. balance' \in [Payers -> Nat]
    BY <1>6 DEF TickCompensates, TypeOK
  <2>3. QED
    BY <1>6, <2>1, <2>2 DEF TickCompensates, TypeOK, OpStates, Terminal
<1>7. CASE o \in Ops /\ TickLeaves(w, o)
  BY <1>0, <1>7 DEF TickLeaves, TypeOK
<1>8. CASE s \in Steps /\ Dispatch(w, s)
  <2>1. wk' \in [Workers -> WorkerRecord]
    <3>1. [wk[w] EXCEPT !.pc = "spawned"] \in WorkerRecord
      BY <1>0, RecordType
    <3>2. Written(w, OpOf[s], {s}, [wk[w] EXCEPT !.pc = "spawned"]) \in [Workers -> WorkerRecord]
      BY <1>0, <3>1, WrittenType
    <3>3. \/ wk' = Written(w, OpOf[s], {s}, [wk[w] EXCEPT !.pc = "spawned"])
          \/ wk' = [wk EXCEPT ![w] = [wk[w] EXCEPT !.pc = "spawned"]]
      BY <1>8 DEF Dispatch
    <3>4. QED
      BY <1>0, <3>1, <3>2, <3>3
  <2>2. step' \in [Steps -> StepRecord]
    <3>1. Marked(step[s]) \in StepRecord
      <4>1. step[s] \in StepRecord
        BY <1>0, <1>8
      <4>2. QED
        BY <4>1 DEF Marked, StepRecord, StepStates
    <3>2. step' = step \/ step' = [step EXCEPT ![s] = Marked(step[s])]
      BY <1>8 DEF Dispatch
    <3>3. QED
      BY <1>0, <3>1, <3>2
  <2>3. QED
    BY <1>8, <2>1, <2>2 DEF Dispatch, TypeOK, OpStates, Forward
<1>9. CASE s \in Steps /\ Record(w, s)
  <2>1. wk' \in [Workers -> WorkerRecord]
    <3>1. Written(w, OpOf[s], {s}, Leave(w)) \in [Workers -> WorkerRecord]
      BY <1>0, WrittenType
    <3>2. StepWritten(w, s, Leave(w)) \in [Workers -> WorkerRecord]
      BY <1>0, WrittenType
    <3>3. QED
      BY <1>9, <3>1, <3>2 DEF Record
  <2>2. step' \in [Steps -> StepRecord]
    BY <1>0, <1>9, ResultsKnown, RecordedType DEF Record, At, Known
  <2>3. QED
    BY <1>9, <2>1, <2>2 DEF Record, TypeOK, OpStates
<1>10. CASE DispatchRefused(w) \/ Refused(w) \/ TransientConflict(w)
  BY <1>0, <1>10 DEF DispatchRefused, Refused, TransientConflict, TypeOK
<1>11. CASE Release(w)
  <2>1. wk' \in [Workers -> WorkerRecord]
    BY <1>0, <1>11, IdleType DEF Release
  <2>2. QED
    BY <1>11, <2>1 DEF Release, TypeOK
<1>12. CASE Crash(w)
  BY <1>0, <1>12, IdleType DEF Crash, Unmoved, TypeOK
<1>13. QED
  BY <1>1, <1>2, <1>3, <1>4, <1>5, <1>6, <1>7, <1>8, <1>9, <1>10, <1>11, <1>12

\* Steps of a child.
LEMMA TypeChild ==
    ASSUME TypeOK, WorkersServe, ResultsHold, NEW w \in Workers,
           \/ TakeGate(w) \/ Enter(w) \/ ReadNode(w) \/ Authorise(w) \/ WriteNode(w)
           \/ Verify(w) \/ ChildRefused(w) \/ ChildDies(w)
    PROVE  TypeOK'
<1> USE DEF Unmoved, opvars, money, leasevars, world, control
<1>0. wk \in [Workers -> WorkerRecord] /\ gate \in [Nodes -> Workers \cup {NoWorker}]
  BY DEF TypeOK
<1>1. wk' \in [Workers -> WorkerRecord] /\ gate' \in [Nodes -> Workers \cup {NoWorker}]
  <2>1. CASE TakeGate(w) \/ Enter(w) \/ Authorise(w)
    BY <1>0, <2>1, RecordType DEF TakeGate, Enter, Authorise
  <2>2. CASE ReadNode(w)
    <3> DEFINE answer == Verdict(wk[w].phase, wk[w].step, remote[wk[w].step])
    <3>1. CASE answer = "write"
      BY <1>0, <2>2, <3>1, RecordType DEF ReadNode
    <3>2. CASE answer = "conflict" /\ wk[w].phase # "read"
      BY <1>0, <2>2, <3>2, EndedType DEF ReadNode
    <3>3. CASE answer # "write" /\ ~(answer = "conflict" /\ wk[w].phase # "read")
      <4>1. answer \in {"present", "absent", "convergence", "conflict", "write"}
        BY <2>2 DEF WorkersServe, Busy, Called, ChildPcs, ReadNode, At, Verdict
      <4>2. wk' = [wk EXCEPT ![w].pc = "verify", ![w].result = answer] /\ gate' = gate
        BY <2>2, <3>3 DEF ReadNode
      <4>3. QED
        BY <1>0, <3>3, <4>1, <4>2, RecordType
    <3>4. QED
      BY <3>1, <3>2, <3>3
  <2>3. CASE WriteNode(w)
    <3> DEFINE now == AfterWrite(wk[w].phase, wk[w].step)
    <3>1. now \in {"absent", "partial", "present"}
      BY DEF AfterWrite
    <3>2. \/ wk' = [wk EXCEPT ![w].pc = "writing", ![w].result = now]
          \/ wk' = [wk EXCEPT ![w].pc = "verify", ![w].result = now]
      BY <2>3 DEF WriteNode
    <3>3. gate' = gate
      BY <2>3 DEF WriteNode
    <3> HIDE DEF now
    <3>4. /\ [wk[w] EXCEPT !.pc = "writing", !.result = now] \in WorkerRecord
          /\ [wk[w] EXCEPT !.pc = "verify", !.result = now] \in WorkerRecord
      BY <1>0, <3>1, RecordType
    <3>5. \/ wk' = [wk EXCEPT ![w] = [wk[w] EXCEPT !.pc = "writing", !.result = now]]
          \/ wk' = [wk EXCEPT ![w] = [wk[w] EXCEPT !.pc = "verify", !.result = now]]
      BY <1>0, <3>2
    <3>6. QED
      BY <1>0, <3>3, <3>4, <3>5
  <2>4. CASE Verify(w)
    BY <1>0, <2>4, ResultsKnown, EndedType DEF Verify, At, Known
  <2>5. CASE ChildRefused(w) \/ ChildDies(w)
    BY <1>0, <2>5, EndedType DEF ChildRefused, ChildDies
  <2>6. QED
    BY <2>1, <2>2, <2>3, <2>4, <2>5
<1>2. remote' \in [Steps -> {"absent", "partial", "present", "foreign"}]
  <2>1. AfterWrite(wk[w].phase, wk[w].step) \in {"absent", "partial", "present"}
    BY DEF AfterWrite
  <2>2. CASE WriteNode(w)
    BY <2>1, <2>2 DEF WriteNode, TypeOK
  <2>3. CASE ~WriteNode(w)
    BY <2>3 DEF TypeOK, TakeGate, Enter, ReadNode, Authorise, Verify, ChildRefused, ChildDies
  <2>4. QED
    BY <2>2, <2>3
<1>3. UNCHANGED <<opvars, step, money, leasevars, up, control>>
  BY DEF TakeGate, Enter, ReadNode, Authorise, WriteNode, Verify, ChildRefused, ChildDies
<1>4. QED
  BY <1>1, <1>2, <1>3 DEF TypeOK

\* Steps of the operator, of time, of the nodes and of the administrators.
LEMMA TypeOutside ==
    ASSUME TypeOK, NEW o, NEW s, NEW n, NEW e,
           \/ /\ o \in Ops
              /\ \/ Retry(o) \/ (s \in Steps /\ ForceStep(o, s))
                 \/ ExpireDead(o) \/ ExpireBusy(o) \/ PassDeadline(o)
           \/ s \in Steps /\ Due(s)
           \/ n \in Nodes /\ (NodeDown(n) \/ NodeUp(n) \/ ToggleEnabled(n))
           \/ n \in Nodes /\ e \in Endpoints /\ MoveEndpoint(n, e)
           \/ ToggleDrain \/ WalletCutover \/ WalletRollback
    PROVE  TypeOK'
<1> USE DEF Unmoved, opvars, money, leasevars, world, control
<1>0. wk \in [Workers -> WorkerRecord] /\ step \in [Steps -> StepRecord]
  BY DEF TypeOK
<1>1. CASE o \in Ops /\ (Retry(o) \/ (s \in Steps /\ ForceStep(o, s)))
  <2>1. wk' \in [Workers -> WorkerRecord]
    <3>1. Written(NoWorker, o, StepsOf(o), Idle) \in [Workers -> WorkerRecord]
      BY <1>0, IdleType, WrittenType
    <3>2. QED
      BY <1>1, <3>1 DEF Retry, ForceStep
  <2>2. step' \in [Steps -> StepRecord]
    <3>1. \A t \in Steps :
              /\ [step[t] EXCEPT !.state = "compensating", !.outcome = "none", !.due = TRUE] \in StepRecord
              /\ [step[t] EXCEPT !.state = "removed", !.outcome = "abandoned", !.due = TRUE] \in StepRecord
              /\ step[t] \in StepRecord
      BY <1>0 DEF StepRecord, StepStates
    <3>2. QED
      BY <1>0, <1>1, <3>1, CleanedType DEF Retry, ForceStep
  <2>3. QED
    BY <1>1, <2>1, <2>2 DEF Retry, ForceStep, TypeOK, OpStates
<1>2. CASE o \in Ops /\ (ExpireDead(o) \/ ExpireBusy(o) \/ PassDeadline(o))
  BY <1>2 DEF ExpireDead, ExpireBusy, Expire, PassDeadline, TypeOK
<1>3. CASE s \in Steps /\ Due(s)
  <2>1. step' \in [Steps -> StepRecord]
    BY <1>0, <1>3 DEF Due, StepRecord
  <2>2. QED
    BY <1>3, <2>1 DEF Due, TypeOK
<1>4. CASE n \in Nodes /\ (NodeDown(n) \/ NodeUp(n) \/ ToggleEnabled(n) \/ (e \in Endpoints /\ MoveEndpoint(n, e)))
  BY <1>4 DEF NodeDown, NodeUp, ToggleEnabled, MoveEndpoint, TypeOK
<1>5. CASE ToggleDrain
  <2>1. draining' \in BOOLEAN
    BY <1>5 DEF ToggleDrain, TypeOK
  <2>2. QED
    BY <1>5, <2>1 DEF ToggleDrain, TypeOK
<1>6. CASE WalletCutover \/ WalletRollback
  BY <1>6 DEF WalletCutover, WalletRollback, SetPhase, TypeOK
<1>7. QED
  BY <1>1, <1>2, <1>3, <1>4, <1>5, <1>6

-----------------------------------------------------------------------------
(* The invariant of the sale *)

\* What a step does to a worker other than the one that takes it: nothing, or
\* make what it has seen stale; or it stops working.
Keeps(v) == /\ wk'[v].pc = wk[v].pc /\ wk'[v].op = wk[v].op /\ wk'[v].step = wk[v].step
            /\ wk'[v].phase = wk[v].phase /\ wk'[v].result = wk[v].result
            /\ wk'[v].fresh => wk[v].fresh
            /\ \A n \in Nodes : gate[n] = v => gate'[n] = v
Stops(v) == /\ wk'[v].pc \notin Busy /\ wk'[v].step = NoStep /\ ~wk'[v].fresh
            /\ wk'[v].pc # "idle" => wk'[v].op \in Ops /\ opst'[wk'[v].op] # "none"

Selling == Forward \cup {"completed"}
GivenUp == {"compensating", "cleanup_required", "compensated"}

\* Transactions that move operations only forward, and never forget an attempt,
\* keep what the invariant says of workers and children.
LEMMA TablesKeep ==
    ASSUME TypeOK, SaleInv, remote' = remote,
           \A v \in Workers : Keeps(v) \/ Stops(v),
           \A q \in Ops : /\ opst[q] # "none" => opst'[q] # "none"
                          /\ opst[q] \in GivenUp => opst'[q] \in GivenUp
                          /\ opst'[q] \in Selling => opst[q] \in Selling \cup {"none"},
           \A s \in Steps : step[s].attempted => step'[s].attempted
    PROVE  WorkersServe' /\ CallsAreMarked' /\ GateIsHeld' /\ ResultsHold' /\ UnmarkedIsUntouched'
<1> USE ShapeAssumption
<1>1. WorkersServe'
  BY DEF SaleInv, WorkersServe, At, Keeps, Stops
<1>2. CallsAreMarked'
  BY DEF SaleInv, WorkersServe, CallsAreMarked, At, Keeps, Stops, Busy, Called, GivenUp
<1>3. GateIsHeld'
  BY DEF SaleInv, WorkersServe, GateIsHeld, Keeps, Stops, Node, Busy, Called, ChildPcs, AtNode
<1>4. ResultsHold'
  BY DEF SaleInv, WorkersServe, ResultsHold, At, Keeps, Stops, Busy, Called, ChildPcs, Selling
<1>5. UnmarkedIsUntouched'
  BY DEF SaleInv, UnmarkedIsUntouched
<1>6. QED
  BY <1>1, <1>2, <1>3, <1>4, <1>5

\* A worker that stops or is overtaken, time, and the administrators disturb
\* nothing.
LEMMA QuietStep ==
    ASSUME TypeOK, SaleInv, remote' = remote, opst' = opst,
           \A v \in Workers : Keeps(v) \/ Stops(v),
           \A s \in Steps : /\ step'[s].state = step[s].state
                            /\ step'[s].attempted = step[s].attempted
                            /\ step'[s].outcome = step[s].outcome
    PROVE  SaleInv'
<1> USE ShapeAssumption
<1>1. WorkersServe' /\ CallsAreMarked' /\ GateIsHeld' /\ ResultsHold' /\ UnmarkedIsUntouched'
  BY TablesKeep DEF Selling, GivenUp
<1>2. StepsFollow' /\ RowsHold' /\ PaidIsDelivered'
  BY DEF SaleInv, StepsFollow, RowsHold, PaidIsDelivered
<1>3. StepChecks'
  BY DEF SaleInv, StepChecks
<1>4. AbsenceIsFinal'
  BY DEF SaleInv, AbsenceIsFinal, At, Keeps, Stops, Busy, Called, ChildPcs
<1>5. FreshIsCurrent'
  BY DEF SaleInv, WorkersServe, FreshIsCurrent, At, Keeps, Stops, Busy, Called, ChildPcs
<1>6. QED
  BY <1>1, <1>2, <1>3, <1>4, <1>5 DEF SaleInv

\* A worker that stops, and every action outside the workers but the operator's.
LEMMA SaleQuiet ==
    ASSUME TypeOK, TypeOK', SaleInv, NEW w, NEW o, NEW s, NEW n, NEW e,
           \/ w \in Workers /\ o \in Ops /\ (Reacquire(w, o) \/ TickLeaves(w, o))
           \/ /\ w \in Workers
              /\ DispatchRefused(w) \/ Refused(w) \/ TransientConflict(w) \/ Release(w) \/ Crash(w)
           \/ ExpireDead(o) \/ ExpireBusy(o) \/ PassDeadline(o) \/ Due(s)
           \/ NodeDown(n) \/ NodeUp(n) \/ ToggleEnabled(n) \/ MoveEndpoint(n, e)
           \/ ToggleDrain \/ WalletCutover \/ WalletRollback
    PROVE  SaleInv'
<1> USE DEF Unmoved, opvars, money, leasevars, world, control
<1>1. remote' = remote /\ opst' = opst
  BY DEF Reacquire, TickLeaves, DispatchRefused, Refused, TransientConflict, Release, Crash,
         ExpireDead, ExpireBusy, Expire, PassDeadline, Due, NodeDown, NodeUp, ToggleEnabled,
         MoveEndpoint, ToggleDrain, WalletCutover, WalletRollback, SetPhase
<1>2. ASSUME NEW t \in Steps
      PROVE  /\ step'[t].state = step[t].state /\ step'[t].attempted = step[t].attempted
             /\ step'[t].outcome = step[t].outcome
  <2>1. CASE Due(s)
    BY <2>1 DEF Due, TypeOK, StepRecord
  <2>2. CASE ~Due(s)
    BY <2>2 DEF Reacquire, TickLeaves, DispatchRefused, Refused, TransientConflict, Release, Crash,
         ExpireDead, ExpireBusy, Expire, PassDeadline, NodeDown, NodeUp, ToggleEnabled,
         MoveEndpoint, ToggleDrain, WalletCutover, WalletRollback, SetPhase
  <2>3. QED
    BY <2>1, <2>2
<1>3. ASSUME NEW v \in Workers PROVE Keeps(v) \/ Stops(v)
  <2>0. wk \in [Workers -> WorkerRecord] /\ gate \in [Nodes -> Workers \cup {NoWorker}]
    BY DEF TypeOK
  <2>1. CASE w \in Workers /\ o \in Ops /\ Reacquire(w, o)
    BY <2>0, <2>1 DEF Reacquire, Keeps, Stops, Idle, Busy, Called, ChildPcs
  <2>2. CASE w \in Workers /\ (TickLeaves(w, o) \/ DispatchRefused(w) \/ Refused(w) \/ TransientConflict(w))
    <3>1. /\ wk' = [wk EXCEPT ![w] = Leave(w)] /\ gate' = gate /\ ~At(w, "idle")
      BY <2>2 DEF TickLeaves, Tick, DispatchRefused, Refused, TransientConflict, At
    <3>2. /\ Leave(w).pc = "releasing" /\ Leave(w).op = wk[w].op /\ Leave(w).step = NoStep
          /\ Leave(w).fresh = FALSE
      BY <2>0 DEF Leave, WorkerRecord
    <3>3. wk[w].op \in Ops /\ opst[wk[w].op] # "none"
      BY <2>2, <3>1 DEF SaleInv, WorkersServe
    <3>4. QED
      BY <1>1, <2>0, <3>1, <3>2, <3>3 DEF Keeps, Stops, Busy, Called, ChildPcs
  <2>3. CASE w \in Workers /\ (Release(w) \/ Crash(w))
    <3>1. wk' = [wk EXCEPT ![w] = Idle]
      BY <2>3 DEF Release, Crash
    <3>2. CASE v = w
      BY <2>0, <3>1, <3>2 DEF Stops, Idle, Busy, Called, ChildPcs
    <3>3. CASE v # w
      BY <2>0, <2>3, <3>1, <3>3 DEF Release, Crash, Keeps
    <3>4. QED
      BY <3>2, <3>3
  <2>4. CASE wk' = wk /\ gate' = gate
    BY <2>4 DEF Keeps
  <2>5. QED
    BY <2>1, <2>2, <2>3, <2>4 DEF ExpireDead, ExpireBusy, Expire, PassDeadline, Due, NodeDown, NodeUp,
         ToggleEnabled, MoveEndpoint, ToggleDrain, WalletCutover, WalletRollback, SetPhase
<1>4. QED
  BY <1>1, <1>2, <1>3, QuietStep

\* A tick pins the step it picked, as it is now.
LEMMA SalePicks ==
    ASSUME TypeOK, SaleInv, NEW w \in Workers, NEW o \in Ops, TickPicks(w, o)
    PROVE  SaleInv'
<1> USE ShapeAssumption DEF opvars, money, leasevars, world, control
<1> DEFINE p == Picked(o)
<1>0. wk \in [Workers -> WorkerRecord]
  BY DEF TypeOK
<1>1. /\ p \in Steps /\ OpOf[p] = o
      /\ opst[o] = "compensating" => step[p].state = "compensating"
      /\ opst[o] # "compensating" => /\ opst[o] \in Forward
                                     /\ step[p].state \in {"staged", "remote_calling"}
                                     /\ p \notin PppSteps
  BY PickedIsStep DEF TickPicks, StepsOf, ToRemove, ToCreate, Remote, SaleInv, StepsFollow
<1>2. /\ wk'[w].pc = "dispatching" /\ wk'[w].op = o /\ wk'[w].step = p
      /\ wk'[w].phase = IF opst[o] = "compensating" THEN "remove"
                        ELSE IF step[p].state = "remote_calling" THEN "read" ELSE "create"
      /\ \A v \in Workers \ {w} : wk'[v] = wk[v]
      /\ UNCHANGED <<opst, step, gate, remote>>
      /\ opst[o] # "none"
  BY <1>0 DEF TickPicks, HasWork, Tick, Forward
<1> HIDE DEF p
<1>3. WorkersServe'
  BY <1>1, <1>2 DEF SaleInv, WorkersServe, At, Busy
<1>4. FreshIsCurrent'
  BY <1>1, <1>2 DEF SaleInv, FreshIsCurrent, At, Called, ChildPcs
<1>5. CallsAreMarked'
  BY <1>1, <1>2 DEF SaleInv, CallsAreMarked, Called, ChildPcs, Forward
<1>6. GateIsHeld' /\ AbsenceIsFinal'
  BY <1>1, <1>2 DEF SaleInv, GateIsHeld, AbsenceIsFinal, AtNode, At, Node
<1>7. ResultsHold'
  BY <1>1, <1>2 DEF SaleInv, ResultsHold, At
<1>8. StepsFollow' /\ RowsHold' /\ StepChecks' /\ UnmarkedIsUntouched' /\ PaidIsDelivered'
  BY <1>2 DEF SaleInv, StepsFollow, RowsHold, StepChecks, UnmarkedIsUntouched, PaidIsDelivered
<1>9. QED
  BY <1>3, <1>4, <1>5, <1>6, <1>7, <1>8 DEF SaleInv

\* A child that goes on serves the same step under the same dispatch.
LEMMA ChildGoesOn ==
    ASSUME TypeOK, SaleInv, NEW w \in Workers, wk[w].pc \in ChildPcs, wk'[w].pc \in Called,
           wk'[w].op = wk[w].op, wk'[w].step = wk[w].step, wk'[w].phase = wk[w].phase,
           wk'[w].fresh = wk[w].fresh, \A v \in Workers \ {w} : wk'[v] = wk[v],
           opst' = opst, step' = step
    PROVE  WorkersServe' /\ StepsFollow' /\ FreshIsCurrent' /\ CallsAreMarked' /\ StepChecks'
<1>1. WorkersServe'
  BY DEF SaleInv, WorkersServe, At, Busy, Called, ChildPcs
<1>2. FreshIsCurrent'
  BY DEF SaleInv, FreshIsCurrent, At, Busy, Called, ChildPcs
<1>3. CallsAreMarked'
  BY DEF SaleInv, CallsAreMarked, Busy, Called, ChildPcs
<1>4. StepsFollow' /\ StepChecks'
  BY DEF SaleInv, StepsFollow, StepChecks
<1>5. QED
  BY <1>1, <1>2, <1>3, <1>4

\* Taking the gate, and passing a check of the dispatch.
LEMMA SaleGate ==
    ASSUME TypeOK, SaleInv, NEW w \in Workers, TakeGate(w) \/ Enter(w) \/ Authorise(w)
    PROVE  SaleInv'
<1> USE ShapeAssumption, NoneAssumption DEF Unmoved, opvars, money, leasevars, world, control
<1> DEFINE s == wk[w].step
<1>0. /\ gate \in [Nodes -> Workers \cup {NoWorker}]
      /\ s \in Steps /\ Node(w) \in Nodes /\ OpOf[s] = wk[w].op
  BY DEF TypeOK, SaleInv, WorkersServe, TakeGate, Enter, Authorise, At, Busy, Called, ChildPcs, Node
<1>1. /\ wk[w].pc \in ChildPcs /\ wk'[w].pc \in {"gated", "inside", "authorised"}
      /\ wk'[w].result = wk[w].result
      /\ wk'[w].op = wk[w].op /\ wk'[w].step = wk[w].step
      /\ wk'[w].phase = wk[w].phase /\ wk'[w].fresh = wk[w].fresh
      /\ \A v \in Workers \ {w} : wk'[v] = wk[v]
      /\ opst' = opst /\ step' = step /\ remote' = remote
  <2>1. /\ wk[w].pc \in ChildPcs /\ UNCHANGED <<opst, step, remote>>
        /\ \/ wk' = [wk EXCEPT ![w].pc = "gated"]
           \/ wk' = [wk EXCEPT ![w].pc = "inside"]
           \/ wk' = [wk EXCEPT ![w].pc = "authorised"]
    BY DEF TakeGate, Enter, Authorise, At, ChildPcs
  <2>2. wk \in [Workers -> WorkerRecord]
    BY DEF TypeOK
  <2>3. QED
    BY <2>1, <2>2 DEF WorkerRecord
<1>2. gate'[Node(w)] = w /\ \A v \in Workers \ {w}, n \in Nodes : gate[n] = v => gate'[n] = v
  BY <1>0 DEF TakeGate, Enter, Authorise, SaleInv, GateIsHeld, AtNode, At
<1>3. wk'[w].pc = "authorised" => wk[w].pc = "writing" /\ wk[w].fresh
  <2>0. wk \in [Workers -> WorkerRecord]
    BY DEF TypeOK
  <2>1. TakeGate(w) => wk'[w].pc = "gated"
    BY <2>0 DEF TakeGate, WorkerRecord
  <2>2. Enter(w) => wk'[w].pc = "inside"
    BY <2>0 DEF Enter, WorkerRecord
  <2>3. Authorise(w) => wk[w].pc = "writing" /\ wk[w].fresh
    BY DEF Authorise, Bound, At
  <2>4. QED
    BY <2>1, <2>2, <2>3
<1> HIDE DEF s
<1>4. WorkersServe' /\ StepsFollow' /\ FreshIsCurrent' /\ CallsAreMarked' /\ StepChecks'
  BY <1>1, ChildGoesOn DEF Called, ChildPcs
<1>5. GateIsHeld'
  BY <1>0, <1>1, <1>2, <1>3 DEF SaleInv, WorkersServe, GateIsHeld, Node, AtNode, Busy, Called, ChildPcs, s
<1>6. wk'[w].pc = "authorised" /\ wk[w].phase = "create" => step[s].state = "remote_calling"
  BY <1>1, <1>3 DEF SaleInv, FreshIsCurrent, At, Busy, Called, ChildPcs, s
<1>7. AbsenceIsFinal'
  BY <1>0, <1>1, <1>6 DEF SaleInv, AbsenceIsFinal, StepChecks, At, s
<1>8. ResultsHold'
  <2>1. ASSUME NEW v \in Workers, wk[v].pc = "done", wk[v].fresh, wk[v].phase = "remove", wk[v].step = s
        PROVE  step[s].state = "compensating"
    BY <2>1 DEF SaleInv, FreshIsCurrent, Busy, Called
  <2>2. QED
    BY <1>1, <1>6, <2>1 DEF SaleInv, ResultsHold, At, s
<1>9. RowsHold' /\ UnmarkedIsUntouched' /\ PaidIsDelivered'
  BY <1>1 DEF SaleInv, RowsHold, UnmarkedIsUntouched, PaidIsDelivered
<1>10. QED
  BY <1>4, <1>5, <1>7, <1>8, <1>9 DEF SaleInv

\* A child that ends, with a result or without, lets nobody write a verified
\* step: whoever else is at its node would hold the gate it still holds.
LEMMA SaleEnds ==
    ASSUME TypeOK, SaleInv, NEW w \in Workers, NEW r, Ended(w, r), wk[w].pc \in ChildPcs,
           UNCHANGED <<opst, step, remote>>,
           \/ r = "unknown"
           \/ At(w, "verify") /\ r = wk[w].result
           \/ r = "conflict" /\ remote[wk[w].step] = "foreign"
    PROVE  SaleInv'
<1> USE ShapeAssumption
<1> DEFINE s == wk[w].step
<1>0. /\ gate \in [Nodes -> Workers \cup {NoWorker}]
      /\ s \in Steps /\ OpOf[s] = wk[w].op /\ wk[w].phase \in {"create", "read", "remove"}
  BY DEF TypeOK, SaleInv, WorkersServe, Busy, Called
<1>1. /\ wk'[w].pc = "done" /\ wk'[w].result = r
      /\ wk'[w].op = wk[w].op /\ wk'[w].step = wk[w].step
      /\ wk'[w].phase = wk[w].phase /\ wk'[w].fresh = wk[w].fresh
      /\ \A v \in Workers \ {w} : wk'[v] = wk[v]
  <2>1. wk \in [Workers -> WorkerRecord] /\ wk' = [wk EXCEPT ![w].pc = "done", ![w].result = r]
    BY DEF TypeOK, Ended
  <2>2. QED
    BY <2>1 DEF WorkerRecord
<1>2. \A v \in Workers \ {w}, n \in Nodes : gate[n] = v => gate'[n] = v
  BY <1>0 DEF Ended
<1>3. WorkersServe' /\ StepsFollow' /\ FreshIsCurrent' /\ CallsAreMarked' /\ StepChecks'
  BY <1>1, ChildGoesOn DEF Called
<1> HIDE DEF s
<1>4. GateIsHeld'
  BY <1>1, <1>2 DEF SaleInv, WorkersServe, GateIsHeld, Node, AtNode, Busy, Called, ChildPcs
<1>5. AbsenceIsFinal'
  BY <1>1 DEF SaleInv, AbsenceIsFinal, At
<1>6. ASSUME At(w, "verify"), NEW v \in Workers \ {w}
      PROVE  ~(wk[v].step = s /\ At(v, "authorised"))
  BY <1>6 DEF SaleInv, GateIsHeld, AtNode, At, Node, s
<1>7. ResultsHold'
  BY <1>0, <1>1, <1>6 DEF SaleInv, ResultsHold, At, s
<1>8. RowsHold' /\ UnmarkedIsUntouched' /\ PaidIsDelivered'
  BY <1>1 DEF SaleInv, RowsHold, UnmarkedIsUntouched, PaidIsDelivered
<1>9. QED
  BY <1>3, <1>4, <1>5, <1>7, <1>8 DEF SaleInv

\* What a child makes of the node's answer.
LEMMA SaleReads ==
    ASSUME TypeOK, SaleInv, NEW w \in Workers, ReadNode(w)
    PROVE  SaleInv'
<1> USE ShapeAssumption DEF Unmoved, opvars, money, leasevars, world, control
<1> DEFINE s == wk[w].step
           answer == Verdict(wk[w].phase, s, remote[s])
<1>0. /\ s \in Steps /\ OpOf[s] = wk[w].op /\ At(w, "inside")
      /\ wk[w].phase \in {"create", "read", "remove"} /\ gate[Node(w)] = w
      /\ remote[s] \in {"absent", "partial", "present", "foreign"}
      /\ remote[s] = "partial" => s \in Converging
      /\ UNCHANGED <<opst, step, remote>>
  BY DEF TypeOK, SaleInv, WorkersServe, GateIsHeld, RowsHold, ReadNode, At, Busy, Called, ChildPcs, AtNode
<1>1. CASE answer = "conflict" /\ wk[w].phase # "read"
  <2>1. Ended(w, "conflict")
    BY <1>1 DEF ReadNode
  <2>2. remote[s] = "foreign"
    BY <1>0, <1>1 DEF Verdict
  <2>3. QED
    BY <1>0, <2>1, <2>2, SaleEnds DEF ChildPcs, At
<1>2. CASE ~(answer = "conflict" /\ wk[w].phase # "read")
  <2>1. /\ gate' = gate
        /\ wk'[w].pc = IF answer = "write" THEN "writing" ELSE "verify"
        /\ answer # "write" => wk'[w].result = answer
        /\ wk'[w].op = wk[w].op /\ wk'[w].step = wk[w].step
        /\ wk'[w].phase = wk[w].phase /\ wk'[w].fresh = wk[w].fresh
        /\ \A v \in Workers \ {w} : wk'[v] = wk[v]
    <3>1. CASE answer = "write"
      <4>1. wk' = [wk EXCEPT ![w].pc = "writing"] /\ gate' = gate
        BY <3>1 DEF ReadNode
      <4>2. wk \in [Workers -> WorkerRecord]
        BY DEF TypeOK
      <4> HIDE DEF answer
      <4>3. QED
        BY <3>1, <4>1, <4>2 DEF WorkerRecord
    <3>2. CASE answer # "write"
      <4>1. wk' = [wk EXCEPT ![w].pc = "verify", ![w].result = answer] /\ gate' = gate
        BY <1>2, <3>2 DEF ReadNode
      <4>2. wk \in [Workers -> WorkerRecord]
        BY DEF TypeOK
      <4> HIDE DEF answer
      <4>3. QED
        BY <3>2, <4>1, <4>2 DEF WorkerRecord
    <3>3. QED
      BY <3>1, <3>2
  <2>2. /\ answer = "write" => wk[w].phase # "read" /\ remote[s] # "foreign"
        /\ answer # "write" =>
              /\ answer \in {"absent", "present", "convergence", "conflict"}
              /\ wk[w].phase = "create" => answer \in {"present", "conflict"}
              /\ wk[w].phase = "remove" => answer \in {"absent", "conflict"}
              /\ answer = "conflict" => remote[s] = "foreign"
              /\ answer = "present" => remote[s] = "present"
              /\ answer = "absent" => remote[s] = "absent"
    BY <1>0 DEF Verdict
  <2> HIDE DEF s, answer
  <2>3. WorkersServe' /\ StepsFollow' /\ FreshIsCurrent' /\ CallsAreMarked' /\ StepChecks'
    BY <1>0, <2>1, ChildGoesOn DEF Called, ChildPcs, At
  <2>4. GateIsHeld'
    BY <1>0, <2>1, <2>2 DEF SaleInv, WorkersServe, GateIsHeld, Node, AtNode, Busy, Called, ChildPcs, At, s
  <2>5. AbsenceIsFinal'
    BY <1>0, <2>1 DEF SaleInv, AbsenceIsFinal, At
  <2>6. ResultsHold'
    BY <1>0, <2>1, <2>2 DEF SaleInv, ResultsHold, At, s
  <2>7. RowsHold' /\ UnmarkedIsUntouched' /\ PaidIsDelivered'
    BY <1>0 DEF SaleInv, RowsHold, UnmarkedIsUntouched, PaidIsDelivered
  <2>8. QED
    BY <2>3, <2>4, <2>5, <2>6, <2>7 DEF SaleInv
<1>3. QED
  BY <1>1, <1>2

\* A request: the writer is alone at the node, so no result that others still
\* hold speaks of the step, except one that the writing confirms.
LEMMA SaleWrites ==
    ASSUME TypeOK, SaleInv, NEW w \in Workers, WriteNode(w)
    PROVE  SaleInv'
<1> USE ShapeAssumption DEF Unmoved, opvars, money, leasevars, world, control
<1> DEFINE s == wk[w].step
           now == AfterWrite(wk[w].phase, s)
<1>0. /\ s \in Steps /\ OpOf[s] = wk[w].op /\ At(w, "authorised") /\ step[s].attempted
      /\ wk[w].phase \in {"create", "remove"} /\ gate[Node(w)] = w /\ remote[s] # "foreign"
      /\ wk[w].phase = "remove" => opst[wk[w].op] \in GivenUp
      /\ wk[w].phase = "create" => step[s].outcome # "verified_absent"
      /\ UNCHANGED <<opst, step, gate>>
      /\ remote' = [remote EXCEPT ![s] = now]
      /\ remote \in [Steps -> {"absent", "partial", "present", "foreign"}]
  BY DEF TypeOK, SaleInv, WorkersServe, GateIsHeld, CallsAreMarked, AbsenceIsFinal, WriteNode, At, Busy,
         Called, ChildPcs, AtNode, GivenUp
<1>1. /\ now \in {"absent", "partial", "present"}
      /\ wk[w].phase = "remove" <=> now = "absent"
      /\ now = "partial" => s \in Converging /\ remote[s] = "absent"
  BY <1>0 DEF AfterWrite
<1>2. /\ wk'[w].pc = IF now = "partial" THEN "writing" ELSE "verify"
      /\ wk'[w].result = now
      /\ wk'[w].op = wk[w].op /\ wk'[w].step = wk[w].step
      /\ wk'[w].phase = wk[w].phase /\ wk'[w].fresh = wk[w].fresh
      /\ \A v \in Workers \ {w} : wk'[v] = wk[v]
  <2>1. wk' = [wk EXCEPT ![w].pc = IF now = "partial" THEN "writing" ELSE "verify", ![w].result = now]
    BY DEF WriteNode
  <2>2. wk \in [Workers -> WorkerRecord]
    BY DEF TypeOK
  <2> HIDE DEF now
  <2>3. QED
    BY <2>1, <2>2 DEF WorkerRecord
<1> HIDE DEF s, now
<1>3. /\ remote'[s] = now /\ \A t \in Steps \ {s} : remote'[t] = remote[t]
  BY <1>0
<1>4. WorkersServe' /\ StepsFollow' /\ FreshIsCurrent' /\ CallsAreMarked' /\ StepChecks'
  BY <1>0, <1>2, ChildGoesOn DEF Called, ChildPcs, At
<1>5. ASSUME NEW v \in Workers \ {w}, wk[v].pc \in AtNode
      PROVE  wk[v].step # s
  BY <1>0, <1>5 DEF SaleInv, GateIsHeld, Node, s
<1>6. GateIsHeld'
  <2>1. gate'[Node(w)'] = w
    BY <1>0, <1>2 DEF Node
  <2>2. ASSUME NEW v \in Workers \ {w}, wk[v].pc \in AtNode
        PROVE  gate'[Node(v)'] = v /\ remote'[wk[v].step] = remote[wk[v].step]
    BY <1>0, <1>2, <1>3, <1>5, <2>2 DEF SaleInv, WorkersServe, GateIsHeld, Node, Busy, Called, ChildPcs, AtNode
  <2>3. QED
    BY <1>0, <1>1, <1>2, <1>3, <2>1, <2>2 DEF SaleInv, GateIsHeld, AtNode, s
<1>7. AbsenceIsFinal'
  BY <1>0, <1>1, <1>2, <1>3 DEF SaleInv, AbsenceIsFinal, At, s
<1>8. ResultsHold'
  <2>1. ASSUME NEW v \in Workers \ {w}, wk[v].pc = "verify"
        PROVE  wk[v].step # s
    BY <1>5, <2>1 DEF AtNode
  <2>2. ASSUME NEW v \in Workers, wk[v].pc = "done", wk[v].step = s
        PROVE  /\ wk[v].result # "conflict"
               /\ wk[v].result = "present" /\ opst[wk[v].op] \in Forward \cup {"completed"}
                      => remote[s] = "present" /\ now = "present"
               /\ wk[v].result = "absent" /\ wk[v].phase = "remove" /\ wk[v].fresh => now = "absent"
    <3>1. wk[v].op = wk[w].op
      BY <1>0, <2>2 DEF SaleInv, WorkersServe, Busy, Called
    <3>2. wk[v].result # "conflict"
      BY <1>0, <2>2 DEF SaleInv, ResultsHold
    <3>3. wk[v].result = "present" /\ opst[wk[v].op] \in Forward \cup {"completed"} => remote[s] = "present"
      BY <2>2 DEF SaleInv, ResultsHold
    <3>4. wk[v].result = "absent" /\ wk[v].phase = "remove" /\ wk[v].fresh => wk[w].phase = "remove"
      BY <1>0, <2>2 DEF SaleInv, ResultsHold, At, s
    <3>5. QED
      BY <1>0, <1>1, <3>1, <3>2, <3>3, <3>4 DEF GivenUp, Forward
  <2>3. ASSUME NEW v \in Workers, wk'[v].pc = "done"
        PROVE  v # w /\ wk'[v] = wk[v]
    BY <1>2, <2>3
  <2>4. ASSUME NEW v \in Workers, wk[v].pc \in {"verify", "done"}
        PROVE  wk[v].step \in Steps
    BY <2>4 DEF SaleInv, WorkersServe, Busy, Called, ChildPcs
  <2>5. QED
    BY <1>0, <1>1, <1>2, <1>3, <2>1, <2>2, <2>3, <2>4 DEF SaleInv, ResultsHold, At, s
<1>9. RowsHold'
  BY <1>0, <1>1, <1>3 DEF SaleInv, RowsHold, GivenUp, Forward
<1>10. UnmarkedIsUntouched'
  BY <1>0, <1>3 DEF SaleInv, UnmarkedIsUntouched
<1>11. PaidIsDelivered'
  BY <1>0, <1>1, <1>3 DEF SaleInv, PaidIsDelivered, GivenUp
<1>12. QED
  BY <1>4, <1>6, <1>7, <1>8, <1>9, <1>10, <1>11 DEF SaleInv

\* Every step of a child.
LEMMA SaleChild ==
    ASSUME TypeOK, SaleInv, NEW w \in Workers,
           \/ TakeGate(w) \/ Enter(w) \/ ReadNode(w) \/ Authorise(w) \/ WriteNode(w)
           \/ Verify(w) \/ ChildRefused(w) \/ ChildDies(w)
    PROVE  SaleInv'
<1> USE DEF Unmoved, opvars, money, leasevars, world, control
<1>1. CASE Verify(w)
  BY <1>1, SaleEnds DEF Verify, At, ChildPcs
<1>2. CASE ChildRefused(w) \/ ChildDies(w)
  BY <1>2, SaleEnds DEF ChildRefused, ChildDies, At, ChildPcs
<1>3. QED
  BY <1>1, <1>2, SaleGate, SaleReads, SaleWrites

\* What a worker that is not the writer knows after a write.
LEMMA WrittenFacts ==
    ASSUME TypeOK, NEW w, NEW o, NEW S, NEW rec, wk' = Written(w, o, S, rec)
    PROVE  /\ w \in Workers => wk'[w] = rec
           /\ \A v \in Workers \ {w} :
                  /\ wk'[v].pc = wk[v].pc /\ wk'[v].op = wk[v].op /\ wk'[v].step = wk[v].step
                  /\ wk'[v].phase = wk[v].phase /\ wk'[v].result = wk[v].result
                  /\ wk'[v].fresh => wk[v].fresh /\ ~(wk[v].op = o /\ (wk[v].step \in S \/ wk[v].pc \in Called))
<1>1. wk \in [Workers -> WorkerRecord]
  BY DEF TypeOK
<1>2. ASSUME NEW v \in Workers \ {w}
      PROVE  wk'[v] = IF wk[v].op = o /\ (wk[v].step \in S \/ wk[v].pc \in Called)
                      THEN [wk[v] EXCEPT !.fresh = FALSE] ELSE wk[v]
  BY DEF Written, At, Called
<1>3. ASSUME NEW v \in Workers
      PROVE  LET r == [wk[v] EXCEPT !.fresh = FALSE] IN
             /\ r.pc = wk[v].pc /\ r.op = wk[v].op /\ r.step = wk[v].step
             /\ r.phase = wk[v].phase /\ r.result = wk[v].result /\ ~r.fresh
  BY <1>1 DEF WorkerRecord
<1>4. w \in Workers => wk'[w] = rec
  BY DEF Written
<1>5. QED
  BY <1>2, <1>3, <1>4

\* The same when the step alone was written.
LEMMA StepWrittenFacts ==
    ASSUME TypeOK, NEW w, NEW s, NEW rec, wk' = StepWritten(w, s, rec)
    PROVE  /\ w \in Workers => wk'[w] = rec
           /\ \A v \in Workers \ {w} :
                  /\ wk'[v].pc = wk[v].pc /\ wk'[v].op = wk[v].op /\ wk'[v].step = wk[v].step
                  /\ wk'[v].phase = wk[v].phase /\ wk'[v].result = wk[v].result
                  /\ wk'[v].fresh => wk[v].fresh /\ wk[v].step # s
<1>1. wk \in [Workers -> WorkerRecord]
  BY DEF TypeOK
<1>2. ASSUME NEW v \in Workers \ {w}
      PROVE  wk'[v] = IF wk[v].step = s THEN [wk[v] EXCEPT !.fresh = FALSE] ELSE wk[v]
  BY DEF StepWritten
<1>3. ASSUME NEW v \in Workers
      PROVE  LET r == [wk[v] EXCEPT !.fresh = FALSE] IN
             /\ r.pc = wk[v].pc /\ r.op = wk[v].op /\ r.step = wk[v].step
             /\ r.phase = wk[v].phase /\ r.result = wk[v].result /\ ~r.fresh
  BY <1>1 DEF WorkerRecord
<1>4. w \in Workers => wk'[w] = rec
  BY DEF StepWritten
<1>5. QED
  BY <1>2, <1>3, <1>4

\* A worker that leaves remembers its operation only.
LEMMA LeaveFacts ==
    ASSUME TypeOK, NEW w \in Workers
    PROVE  /\ Leave(w).pc = "releasing" /\ Leave(w).op = wk[w].op
           /\ Leave(w).step = NoStep /\ ~Leave(w).fresh
<1>1. wk[w] \in WorkerRecord
  BY DEF TypeOK
<1>2. QED
  BY <1>1 DEF Leave, WorkerRecord

\* A transaction on one operation o and some of its steps: the other operations
\* keep their states, and a row keeps an outcome of which the nodes are told.
LEMMA OperationStep ==
    ASSUME TypeOK, SaleInv, UNCHANGED <<gate, remote>>, NEW o \in Ops,
           \A v \in Workers : Keeps(v) \/ Stops(v),
           \A v \in Workers : wk'[v].fresh => wk[v].op # o,
           \A q \in Ops \ {o} : opst'[q] = opst[q],
           opst'[o] # "none",
           opst[o] \in GivenUp => opst'[o] \in GivenUp,
           opst'[o] \in Selling => opst[o] \in Selling \cup {"none"},
           \A s \in Steps \ StepsOf(o) : step'[s] = step[s],
           \A s \in StepsOf(o) :
               /\ step[s].attempted => step'[s].attempted
               /\ step'[s].outcome = "verified_absent" => step[s].outcome = "verified_absent"
    PROVE  /\ WorkersServe' /\ CallsAreMarked' /\ GateIsHeld' /\ ResultsHold' /\ UnmarkedIsUntouched'
           /\ FreshIsCurrent' /\ AbsenceIsFinal'
<1> USE ShapeAssumption
<1>1. /\ \A q \in Ops : /\ opst[q] # "none" => opst'[q] # "none"
                        /\ opst[q] \in GivenUp => opst'[q] \in GivenUp
                        /\ opst'[q] \in Selling => opst[q] \in Selling \cup {"none"}
      /\ \A s \in Steps : /\ step[s].attempted => step'[s].attempted
                          /\ step'[s].outcome = "verified_absent" => step[s].outcome = "verified_absent"
  <2>1. ASSUME NEW q \in Ops
        PROVE  /\ opst[q] # "none" => opst'[q] # "none"
               /\ opst[q] \in GivenUp => opst'[q] \in GivenUp
               /\ opst'[q] \in Selling => opst[q] \in Selling \cup {"none"}
    BY DEF Selling
  <2>2. QED
    BY <2>1
<1>2. WorkersServe' /\ CallsAreMarked' /\ GateIsHeld' /\ ResultsHold' /\ UnmarkedIsUntouched'
  BY <1>1, TablesKeep
<1>3. FreshIsCurrent'
  <2>1. ASSUME NEW v \in Workers, wk'[v].pc \in Busy, wk'[v].fresh
        PROVE  /\ Keeps(v) /\ wk[v].fresh /\ wk[v].pc \in Busy /\ wk[v].op # o
               /\ wk[v].step \in Steps \ StepsOf(o) /\ wk[v].op \in Ops
               /\ step'[wk[v].step] = step[wk[v].step] /\ opst'[wk[v].op] = opst[wk[v].op]
    BY <2>1 DEF SaleInv, WorkersServe, Keeps, Stops, StepsOf, At, Busy, Called, ChildPcs
  <2>2. QED
    BY <2>1 DEF SaleInv, FreshIsCurrent, Keeps, At
<1>4. AbsenceIsFinal'
  BY <1>1 DEF SaleInv, AbsenceIsFinal, At, Keeps, Stops, Busy, Called, ChildPcs
<1>5. QED
  BY <1>2, <1>3, <1>4

\* Beginning to compensate leaves every step removed or to be removed.
LEMMA CleanedFacts ==
    ASSUME TypeOK, SaleInv, NEW s \in Steps,
           opst[OpOf[s]] \in Forward \cup {"cleanup_required"}, step[s].state # "cleanup_required"
    PROVE  LET c == Cleaned(s) IN
           /\ c.state \in {"compensating", "removed"}
           /\ c.attempted = step[s].attempted
           /\ c.state = "compensating" => c.attempted /\ c.outcome = "none"
           /\ c.state = "removed" => IF c.attempted THEN c.outcome \in {"verified_absent", "abandoned"}
                                                    ELSE c.outcome # "unverified"
           /\ c.outcome \in {"none", step[s].outcome}
<1>1. step[s] \in StepRecord
  BY DEF TypeOK
<1>2. step[s].state \notin {"none", "active"} /\ OpOf[s] \in Ops
  BY ShapeAssumption DEF SaleInv, StepsFollow, Forward
<1>3. /\ step[s].outcome # "none" => step[s].state \in {"removed", "cleanup_required"}
      /\ step[s].state = "removed" /\ step[s].attempted =>
             step[s].outcome \in {"verified_absent", "abandoned"}
      /\ step[s].state \in {"none", "staged", "removed", "active"} \/ step[s].attempted
      /\ s \in PppSteps => ~step[s].attempted
      /\ step[s].outcome = "unverified" => step[s].state = "cleanup_required"
  BY DEF SaleInv, StepChecks, RowsHold
<1>4. QED
  BY <1>1, <1>2, <1>3 DEF Cleaned, StepRecord

\* T1 stages steps that no worker serves and no node knows.
LEMMA SalePrepares ==
    ASSUME TypeOK, SaleInv, NEW w \in Workers, NEW o \in Ops, Prepare(w, o)
    PROVE  SaleInv'
<1> USE ShapeAssumption DEF opvars, money, leasevars, world, control
<1>1. /\ opst[o] = "none" /\ opst' = [opst EXCEPT ![o] = "prepared"]
      /\ opst \in [Ops -> OpStates] /\ wk \in [Workers -> WorkerRecord]
      /\ UNCHANGED <<gate, remote>>
      /\ wk' = [wk EXCEPT ![w] = [Idle EXCEPT !.pc = "releasing", !.op = o]]
  BY DEF Prepare, TypeOK
<1>2. \A s \in Steps : step'[s] = IF OpOf[s] = o THEN [Blank EXCEPT !.state = "staged"] ELSE step[s]
  BY DEF Prepare
<1>3. \A s \in StepsOf(o) : /\ step[s].state = "none" /\ ~step[s].attempted
                            /\ step'[s].state = "staged" /\ ~step'[s].attempted /\ step'[s].outcome = "none"
  BY <1>1, <1>2 DEF StepsOf, Blank, SaleInv, StepsFollow
<1>4. \A s \in Steps \ StepsOf(o) : step'[s] = step[s]
  BY <1>2 DEF StepsOf
<1>5. \A v \in Workers : Keeps(v) \/ Stops(v)
  BY <1>1 DEF Keeps, Stops, Idle, Busy, Called, ChildPcs
<1>6. \A v \in Workers : wk'[v].fresh => wk[v].op # o
  <2>1. \A v \in Workers : wk[v].fresh => ~At(v, "idle")
    BY DEF SaleInv, WorkersServe, At, Busy, Called, ChildPcs
  <2>2. QED
    BY <1>1, <1>5, <2>1 DEF Keeps, Stops, SaleInv, WorkersServe
<1>7. /\ WorkersServe' /\ CallsAreMarked' /\ GateIsHeld' /\ ResultsHold' /\ UnmarkedIsUntouched'
      /\ FreshIsCurrent' /\ AbsenceIsFinal'
  BY <1>1, <1>3, <1>4, <1>5, <1>6, OperationStep DEF GivenUp, Selling
<1>8. StepsFollow'
  BY <1>1, <1>3, <1>4 DEF SaleInv, StepsFollow, StepsOf, Forward
<1>9. RowsHold'
  BY <1>1, <1>3, <1>4 DEF SaleInv, RowsHold, StepsOf, Forward
<1>10. StepChecks'
  BY <1>3, <1>4 DEF SaleInv, StepChecks
<1>11. PaidIsDelivered'
  BY <1>1 DEF SaleInv, PaidIsDelivered
<1>12. QED
  BY <1>7, <1>8, <1>9, <1>10, <1>11 DEF SaleInv

\* An operation begins to compensate: by a failing tick, by the operator's retry
\* or because he gave up its last unclean step.
LEMMA SaleCleans ==
    ASSUME TypeOK, SaleInv, UNCHANGED <<gate, remote>>, NEW o \in Ops, NEW w \in Workers \cup {NoWorker},
           NEW rec, wk' = Written(w, o, StepsOf(o), rec),
           w \in Workers => Stops(w),
           opst[o] \in Forward \cup {"cleanup_required"},
           opst' = [opst EXCEPT ![o] = "compensating"],
           \A s \in Steps \ StepsOf(o) : step'[s] = step[s],
           \A s \in StepsOf(o) :
               \/ step[s].state # "cleanup_required" /\ step'[s] = Cleaned(s)
               \/ /\ step[s].state = "cleanup_required" /\ step'[s].attempted = step[s].attempted
                  /\ \/ step'[s].state = "compensating" /\ step'[s].outcome = "none"
                     \/ step'[s].state = "removed" /\ step'[s].outcome = "abandoned"
    PROVE  SaleInv'
<1> USE ShapeAssumption
<1>1. /\ opst \in [Ops -> OpStates] /\ opst'[o] = "compensating"
      /\ \A q \in Ops \ {o} : opst'[q] = opst[q]
  BY DEF TypeOK
<1>2. \A v \in Workers : Keeps(v) \/ Stops(v)
  BY WrittenFacts DEF Keeps
<1>3. \A v \in Workers : wk'[v].fresh => wk[v].op # o
  <2>1. ASSUME NEW v \in Workers, wk[v].fresh
        PROVE  wk[v].step \in StepsOf(wk[v].op)
    BY <2>1 DEF SaleInv, WorkersServe, StepsOf
  <2>2. QED
    BY <2>1, WrittenFacts DEF Stops
<1>4. \A s \in StepsOf(o) :
          /\ step'[s].state \in {"compensating", "removed"}
          /\ step'[s].attempted = step[s].attempted
          /\ step'[s].state = "compensating" => step'[s].attempted /\ step'[s].outcome = "none"
          /\ step'[s].state = "removed" => IF step'[s].attempted
                                           THEN step'[s].outcome \in {"verified_absent", "abandoned"}
                                           ELSE step'[s].outcome # "unverified"
          /\ step'[s].outcome = "verified_absent" => step[s].outcome = "verified_absent"
          /\ step'[s].outcome = "abandoned" => step[s].outcome \in {"abandoned", "unverified"}
  <2>1. ASSUME NEW s \in StepsOf(o), step[s].state = "cleanup_required"
        PROVE  step[s].attempted /\ step[s].outcome = "unverified"
    BY <2>1 DEF SaleInv, StepChecks, StepsOf
  <2>2. ASSUME NEW s \in StepsOf(o), step[s].state # "cleanup_required", step'[s] = Cleaned(s)
        PROVE  /\ step'[s].state \in {"compensating", "removed"}
               /\ step'[s].attempted = step[s].attempted
               /\ step'[s].state = "compensating" => step'[s].attempted /\ step'[s].outcome = "none"
               /\ step'[s].state = "removed" => IF step'[s].attempted
                                                THEN step'[s].outcome \in {"verified_absent", "abandoned"}
                                                ELSE step'[s].outcome # "unverified"
               /\ step'[s].outcome \in {"none", step[s].outcome}
    BY <2>2, CleanedFacts DEF StepsOf
  <2>3. QED
    BY <2>1, <2>2
<1>5. /\ WorkersServe' /\ CallsAreMarked' /\ GateIsHeld' /\ ResultsHold' /\ UnmarkedIsUntouched'
      /\ FreshIsCurrent' /\ AbsenceIsFinal'
  BY <1>1, <1>2, <1>3, <1>4, OperationStep DEF GivenUp, Selling, Forward
<1>6. StepsFollow'
  BY <1>1, <1>4 DEF SaleInv, StepsFollow, StepsOf, Forward
<1>7. RowsHold'
  BY <1>1, <1>4 DEF SaleInv, RowsHold, StepsOf, Forward
<1>8. StepChecks'
  <2>1. \A s \in StepsOf(o) : s \in PppSteps => ~step'[s].attempted
    BY <1>4 DEF SaleInv, StepChecks, StepsOf
  <2>2. QED
    BY <1>4, <2>1 DEF SaleInv, StepChecks
<1>9. PaidIsDelivered'
  BY <1>1 DEF SaleInv, PaidIsDelivered
<1>10. QED
  BY <1>5, <1>6, <1>7, <1>8, <1>9 DEF SaleInv

\* The transactions that begin to compensate.
LEMMA SaleGivesUp ==
    ASSUME TypeOK, SaleInv, NEW w, NEW o \in Ops, NEW s,
           (w \in Workers /\ TickFails(w, o)) \/ Retry(o) \/ (s \in Steps /\ ForceStep(o, s))
    PROVE  SaleInv'
<1> USE ShapeAssumption DEF opvars, money, leasevars, world, control
<1>0. opst \in [Ops -> OpStates] /\ step \in [Steps -> StepRecord] /\ wk \in [Workers -> WorkerRecord]
  BY DEF TypeOK
<1>1. CASE w \in Workers /\ TickFails(w, o)
  <2>1. \A t \in StepsOf(o) : step[t].state # "cleanup_required"
    BY <1>1 DEF TickFails, StepsOf, SaleInv, StepsFollow, Forward
  <2>2. wk' = Written(w, o, StepsOf(o), Leave(w)) /\ wk[w].op = o /\ opst[o] # "none"
        /\ opst' = [opst EXCEPT ![o] = "compensating"] /\ UNCHANGED <<gate, remote>>
    BY <1>1 DEF TickFails, BeginCompensation, Tick, Forward
  <2>3. Stops(w)
    BY <1>1, <1>0, <2>2, WrittenFacts, LeaveFacts DEF Stops, Busy, Called, ChildPcs
  <2>4. /\ \A t \in Steps \ StepsOf(o) : step'[t] = step[t]
        /\ \A t \in StepsOf(o) : step[t].state # "cleanup_required" /\ step'[t] = Cleaned(t)
    BY <1>1, <2>1 DEF TickFails, BeginCompensation, StepsOf
  <2>5. opst[o] \in Forward \cup {"cleanup_required"}
    BY <1>1 DEF TickFails
  <2>6. QED
    BY <1>1, <2>2, <2>3, <2>4, <2>5, SaleCleans
<1>2. CASE Retry(o) \/ (s \in Steps /\ ForceStep(o, s) /\ Unclean(o) = {s})
  <2>1. /\ wk' = Written(NoWorker, o, StepsOf(o), Idle) /\ opst[o] = "cleanup_required"
        /\ opst' = [opst EXCEPT ![o] = "compensating"] /\ UNCHANGED <<gate, remote>>
    BY <1>2 DEF Retry, ForceStep, Asks
  <2>2. ASSUME NEW t \in Steps
        PROVE  /\ t \notin StepsOf(o) => step'[t] = step[t]
               /\ t \in StepsOf(o) =>
                    \/ step[t].state # "cleanup_required" /\ step'[t] = Cleaned(t)
                    \/ /\ step[t].state = "cleanup_required" /\ step'[t].attempted = step[t].attempted
                       /\ \/ step'[t].state = "compensating" /\ step'[t].outcome = "none"
                          \/ step'[t].state = "removed" /\ step'[t].outcome = "abandoned"
    <3>1. step[t] \in StepRecord
      BY <1>0
    <3>2. CASE Retry(o)
      BY <3>1, <3>2 DEF Retry, Unclean, StepsOf, StepRecord
    <3>3. CASE s \in Steps /\ ForceStep(o, s) /\ Unclean(o) = {s}
      BY <3>1, <3>3 DEF ForceStep, Unclean, StepsOf, StepRecord
    <3>4. QED
      BY <1>2, <3>2, <3>3
  <2>3. NoWorker \notin Workers
    BY NoneAssumption
  <2>4. /\ \A t \in Steps \ StepsOf(o) : step'[t] = step[t]
        /\ \A t \in StepsOf(o) :
               \/ step[t].state # "cleanup_required" /\ step'[t] = Cleaned(t)
               \/ /\ step[t].state = "cleanup_required" /\ step'[t].attempted = step[t].attempted
                  /\ \/ step'[t].state = "compensating" /\ step'[t].outcome = "none"
                     \/ step'[t].state = "removed" /\ step'[t].outcome = "abandoned"
    BY <2>2 DEF StepsOf
  <2>5. QED
    BY <2>1, <2>3, <2>4, SaleCleans
<1>3. CASE s \in Steps /\ ForceStep(o, s) /\ Unclean(o) # {s}
  <2>1. /\ wk' = Written(NoWorker, o, StepsOf(o), Idle) /\ opst[o] = "cleanup_required"
        /\ opst' = opst /\ UNCHANGED <<gate, remote>>
        /\ s \in StepsOf(o) /\ step[s].state = "cleanup_required"
    BY <1>0, <1>3 DEF ForceStep, Asks, Unclean
  <2>2. /\ step'[s].state = "removed" /\ step'[s].outcome = "abandoned"
        /\ step'[s].attempted = step[s].attempted
        /\ \A t \in Steps \ {s} : step'[t] = step[t]
    <3>1. \A t \in Steps :
              step'[t] = IF t = s
                         THEN [step[s] EXCEPT !.state = "removed", !.outcome = "abandoned", !.due = TRUE]
                         ELSE step[t]
      BY <1>3 DEF ForceStep
    <3>2. step[s] \in StepRecord
      BY <1>3, <1>0
    <3>3. QED
      BY <1>3, <3>1, <3>2 DEF StepRecord
  <2>3. step[s].attempted /\ step[s].outcome = "unverified" /\ remote[s] = "foreign"
    BY <1>3, <2>1 DEF SaleInv, StepChecks, RowsHold
  <2>4. NoWorker \notin Workers
    BY NoneAssumption
  <2>5. \A v \in Workers : Keeps(v) \/ Stops(v)
    BY <2>1, <2>4, WrittenFacts DEF Keeps
  <2>6. \A v \in Workers : wk'[v].fresh => wk[v].op # o
    <3>1. ASSUME NEW v \in Workers, wk[v].fresh
          PROVE  wk[v].step \in StepsOf(wk[v].op)
      BY <3>1 DEF SaleInv, WorkersServe, StepsOf
    <3>2. QED
      BY <2>1, <2>4, <3>1, WrittenFacts
  <2>7. /\ WorkersServe' /\ CallsAreMarked' /\ GateIsHeld' /\ ResultsHold' /\ UnmarkedIsUntouched'
        /\ FreshIsCurrent' /\ AbsenceIsFinal'
    BY <2>1, <2>2, <2>3, <2>5, <2>6, OperationStep DEF StepsOf
  <2>8. StepsFollow' /\ RowsHold' /\ StepChecks' /\ PaidIsDelivered'
    BY <2>1, <2>2, <2>3 DEF SaleInv, StepsFollow, RowsHold, StepChecks, PaidIsDelivered, StepsOf, Forward
  <2>9. QED
    BY <2>7, <2>8 DEF SaleInv
<1>4. QED
  BY <1>1, <1>2, <1>3

\* T_final and T_comp.
LEMMA SaleSettles ==
    ASSUME TypeOK, SaleInv, NEW w \in Workers, NEW o \in Ops,
           TickCompletes(w, o) \/ TickCompensates(w, o)
    PROVE  SaleInv'
<1> USE ShapeAssumption DEF opvars, money, leasevars, world, control
<1>0. opst \in [Ops -> OpStates] /\ step \in [Steps -> StepRecord] /\ wk \in [Workers -> WorkerRecord]
  BY DEF TypeOK
<1>1. /\ wk[w].op = o /\ opst[o] \in Forward \cup {"compensating"} /\ UNCHANGED <<gate, remote>>
      /\ \/ opst[o] \in Forward /\ opst' = [opst EXCEPT ![o] = "completed"]
         \/ opst[o] = "compensating" /\ opst' = [opst EXCEPT ![o] = "compensated"]
  BY DEF TickCompletes, TickCompensates, Tick, Finishable, Compensable
<1>2. \E S : wk' = Written(w, o, S, Leave(w))
  BY DEF TickCompletes, TickCompensates
<1>3. \A v \in Workers : Keeps(v) \/ Stops(v)
  <2>1. Stops(w)
    BY <1>0, <1>1, <1>2, WrittenFacts, LeaveFacts DEF Stops, Busy, Called, ChildPcs, Forward
  <2>2. QED
    BY <1>1, <1>2, <2>1, WrittenFacts DEF Keeps
<1>4. \A v \in Workers : wk'[v].fresh => wk[v].op # o
  <2>1. ASSUME NEW v \in Workers, wk[v].fresh
        PROVE  /\ wk[v].step \in StepsOf(wk[v].op)
               /\ wk[v].pc \in Busy /\ step[wk[v].step].state # "removed"
    BY <2>1 DEF SaleInv, WorkersServe, FreshIsCurrent, StepsOf
  <2>2. CASE TickCompletes(w, o)
    BY <2>1, <2>2, WrittenFacts, LeaveFacts DEF TickCompletes
  <2>3. CASE TickCompensates(w, o)
    BY <2>1, <2>3, WrittenFacts, LeaveFacts DEF TickCompensates, Compensable
  <2>4. QED
    BY <2>2, <2>3
<1>5. /\ \A s \in Steps \ StepsOf(o) : step'[s] = step[s]
      /\ \A s \in StepsOf(o) : /\ step'[s].attempted = step[s].attempted
                               /\ step'[s].outcome = step[s].outcome
                               /\ step'[s].state = IF opst[o] = "compensating" THEN step[s].state ELSE "active"
  BY <1>0 DEF TickCompletes, TickCompensates, Finishable, Compensable, Forward, StepsOf, StepRecord
<1>6. /\ WorkersServe' /\ CallsAreMarked' /\ GateIsHeld' /\ ResultsHold' /\ UnmarkedIsUntouched'
      /\ FreshIsCurrent' /\ AbsenceIsFinal'
  BY <1>0, <1>1, <1>3, <1>4, <1>5, OperationStep DEF GivenUp, Selling, Forward
<1>7. /\ opst[o] = "compensating" => \A s \in StepsOf(o) : step[s].state = "removed"
      /\ opst[o] \in Forward => \A s \in StepsOf(o) \ PppSteps : step[s].state = "remote_created"
  BY DEF TickCompletes, TickCompensates, Finishable, Compensable, ToCreate, Remote, Forward
<1>8. StepsFollow'
  BY <1>0, <1>1, <1>5, <1>7 DEF SaleInv, StepsFollow, StepsOf, Forward
<1>9. RowsHold'
  BY <1>0, <1>1, <1>5 DEF SaleInv, RowsHold, StepsFollow, StepsOf, Forward
<1>10. StepChecks'
  BY <1>1, <1>5 DEF SaleInv, StepChecks, StepsFollow, StepsOf, Forward
<1>11. PaidIsDelivered'
  BY <1>0, <1>1, <1>5, <1>7 DEF SaleInv, PaidIsDelivered, RowsHold, StepsOf, Forward
<1>12. QED
  BY <1>6, <1>8, <1>9, <1>10, <1>11 DEF SaleInv

\* A dispatch marks the step and sends the child.
LEMMA SaleDispatches ==
    ASSUME TypeOK, SaleInv, NEW w \in Workers, NEW s \in Steps, Dispatch(w, s)
    PROVE  SaleInv'
<1> USE ShapeAssumption DEF opvars, money, leasevars, world, control
<1> DEFINE o == OpOf[s]
           Sent == [wk[w] EXCEPT !.pc = "spawned"]
<1>0. /\ opst \in [Ops -> OpStates] /\ step \in [Steps -> StepRecord] /\ wk \in [Workers -> WorkerRecord]
      /\ o \in Ops
  BY DEF TypeOK
<1>1. /\ wk[w].pc = "dispatching" /\ wk[w].step = s /\ wk[w].op = o /\ wk[w].fresh
      /\ wk[w].phase \in {"create", "read", "remove"}
      /\ wk[w].phase # "remove" => s \notin PppSteps
      /\ wk[w].phase = "create" => opst[o] \in Forward /\ step[s].state = "staged"
      /\ wk[w].phase = "read" => opst[o] \in Forward /\ step[s].state = "remote_calling"
      /\ wk[w].phase = "remove" => /\ opst[o] = "compensating" /\ step[s].state = "compensating"
                                   /\ step[s].attempted
      /\ UNCHANGED <<gate, remote>>
  BY DEF Dispatch, Dispatchable, At, SaleInv, WorkersServe, Busy
<1>2. /\ Sent.pc = "spawned" /\ Sent.op = o /\ Sent.step = s /\ Sent.phase = wk[w].phase
      /\ Sent.fresh
  BY <1>0, <1>1 DEF WorkerRecord
<1>3. CASE wk[w].phase # "create"
  <2>1. /\ wk' = [wk EXCEPT ![w] = Sent] /\ UNCHANGED <<opst, step>>
    BY <1>3 DEF Dispatch
  <2>2. wk'[w] = Sent /\ \A v \in Workers \ {w} : wk'[v] = wk[v]
    BY <1>0, <2>1
  <2> HIDE DEF Sent, o
  <2>3. step[s].attempted
    BY <1>1, <1>3 DEF SaleInv, StepChecks
  <2>4. WorkersServe'
    BY <1>0, <1>1, <1>2, <2>1, <2>2 DEF SaleInv, WorkersServe, At, Busy, Called, ChildPcs, o
  <2>5. FreshIsCurrent'
    BY <1>1, <1>2, <1>3, <2>1, <2>2 DEF SaleInv, FreshIsCurrent, At, Busy, Called, ChildPcs
  <2>6. CallsAreMarked'
    BY <1>1, <1>2, <2>1, <2>2, <2>3 DEF SaleInv, CallsAreMarked, Busy, Called, ChildPcs
  <2>7. GateIsHeld' /\ ResultsHold' /\ AbsenceIsFinal'
    BY <1>1, <1>2, <2>1, <2>2 DEF SaleInv, GateIsHeld, ResultsHold, AbsenceIsFinal, AtNode, At, Node
  <2>8. StepsFollow' /\ RowsHold' /\ StepChecks' /\ UnmarkedIsUntouched' /\ PaidIsDelivered'
    BY <1>1, <2>1 DEF SaleInv, StepsFollow, RowsHold, StepChecks, UnmarkedIsUntouched, PaidIsDelivered
  <2>9. QED
    BY <2>4, <2>5, <2>6, <2>7, <2>8 DEF SaleInv
<1>4. CASE wk[w].phase = "create"
  <2>1. /\ wk' = Written(w, o, {s}, Sent) /\ opst' = [opst EXCEPT ![o] = "provisioning"]
        /\ step' = [step EXCEPT ![s] = Marked(step[s])]
    BY <1>4 DEF Dispatch
  <2>2. /\ wk'[w] = Sent
        /\ \A v \in Workers \ {w} :
               /\ wk'[v].pc = wk[v].pc /\ wk'[v].op = wk[v].op /\ wk'[v].step = wk[v].step
               /\ wk'[v].phase = wk[v].phase /\ wk'[v].result = wk[v].result
               /\ wk'[v].fresh => wk[v].fresh /\ ~(wk[v].op = o /\ (wk[v].step \in {s} \/ wk[v].pc \in Called))
    <3> DEFINE S == {s}
    <3>1. wk' = Written(w, o, S, Sent)
      BY <2>1
    <3> HIDE DEF Sent, o, S
    <3>2. wk'[w] = Sent
      BY <3>1, WrittenFacts
    <3>3. \A v \in Workers \ {w} :
               /\ wk'[v].pc = wk[v].pc /\ wk'[v].op = wk[v].op /\ wk'[v].step = wk[v].step
               /\ wk'[v].phase = wk[v].phase /\ wk'[v].result = wk[v].result
               /\ wk'[v].fresh => wk[v].fresh /\ ~(wk[v].op = o /\ (wk[v].step \in S \/ wk[v].pc \in Called))
      BY <3>1, WrittenFacts
    <3>4. QED
      BY <3>2, <3>3 DEF S
  <2>3. /\ opst'[o] = "provisioning" /\ \A q \in Ops \ {o} : opst'[q] = opst[q]
        /\ step'[s].state = "remote_calling" /\ step'[s].attempted /\ step'[s].outcome = step[s].outcome
        /\ \A t \in Steps \ {s} : step'[t] = step[t]
    BY <1>0, <2>1 DEF Marked, StepRecord
  <2>4. step[s].outcome = "none"
    BY <1>1, <1>4 DEF SaleInv, StepChecks, RowsHold
  <2> HIDE DEF Sent
  <2>5. WorkersServe'
    BY <1>0, <1>1, <1>2, <2>2, <2>3 DEF SaleInv, WorkersServe, At, Busy, Called, ChildPcs
  <2>6. FreshIsCurrent'
    <3>1. ASSUME NEW v \in Workers \ {w}, wk'[v].pc \in Busy, wk'[v].fresh
          PROVE  /\ wk[v].fresh /\ wk[v].pc \in Busy /\ wk[v].op \in Ops
                 /\ wk[v].step \in Steps \ {s} /\ (wk[v].pc \in Called => wk[v].op # o)
      BY <1>1, <2>2, <3>1 DEF SaleInv, WorkersServe, At, Busy, Called, ChildPcs
    <3>2. QED
      BY <1>1, <1>2, <1>4, <2>2, <2>3, <3>1 DEF SaleInv, FreshIsCurrent, At, Busy, Called, ChildPcs, Forward
  <2>7. CallsAreMarked'
    BY <1>0, <1>1, <1>2, <1>4, <2>2, <2>3 DEF SaleInv, WorkersServe, CallsAreMarked, At, Busy, Called, ChildPcs, Forward
  <2>8. GateIsHeld'
    BY <1>1, <1>2, <2>2 DEF SaleInv, GateIsHeld, AtNode, Node
  <2>9. ResultsHold'
    <3>1. \A q \in Ops : opst'[q] \in Forward \cup {"completed"} => opst[q] \in Forward \cup {"completed"}
      BY <1>1, <1>4, <2>3
    <3>2. QED
      BY <1>1, <1>2, <2>2, <3>1 DEF SaleInv, WorkersServe, ResultsHold, At, Busy, Called, ChildPcs
  <2>10. AbsenceIsFinal'
    BY <1>2, <2>2, <2>3, <2>4, <1>1 DEF SaleInv, AbsenceIsFinal, At
  <2>11. StepsFollow'
    BY <1>0, <1>1, <1>4, <2>3 DEF SaleInv, StepsFollow, Forward
  <2>12. RowsHold'
    BY <1>0, <1>1, <1>4, <2>3, <2>4 DEF SaleInv, RowsHold, Forward
  <2>13. StepChecks'
    BY <1>1, <1>4, <2>3, <2>4 DEF SaleInv, StepChecks
  <2>14. UnmarkedIsUntouched' /\ PaidIsDelivered'
    BY <1>0, <1>1, <1>4, <2>3 DEF SaleInv, UnmarkedIsUntouched, PaidIsDelivered, Forward
  <2>15. QED
    BY <2>5, <2>6, <2>7, <2>8, <2>9, <2>10, <2>11, <2>12, <2>13, <2>14 DEF SaleInv
<1>5. QED
  BY <1>3, <1>4

\* The row written for what a fresh worker brings home.
LEMMA RecordedFacts ==
    ASSUME TypeOK, SaleInv, NEW w \in Workers, NEW s \in Steps, At(w, "done"), wk[w].step = s, wk[w].fresh
    PROVE  LET ph == wk[w].phase
               result == wk[w].result
               row == Recorded(s, ph, result) IN
           /\ row.attempted /\ s \notin PppSteps
           /\ step[s].state = IF ph = "remove" THEN "compensating" ELSE "remote_calling"
           /\ step[s].outcome = "none"
           /\ IF ph = "remove" THEN opst[OpOf[s]] = "compensating" ELSE opst[OpOf[s]] \in Forward
           /\ result = "conflict" => /\ row.state = "cleanup_required" /\ row.outcome = "unverified"
                                     /\ remote[s] = "foreign"
           /\ result # "conflict" /\ ph # "remove" =>
                  /\ row.state \in {"staged", "remote_calling", "remote_created"} /\ row.outcome = "none"
                  /\ row.state = "remote_created" => remote[s] = "present"
           /\ result # "conflict" /\ ph = "remove" =>
                  \/ row.state = "compensating" /\ row.outcome = "none"
                  \/ /\ row.state = "removed" /\ row.outcome = "verified_absent" /\ remote[s] = "absent"
                     /\ \A v \in Workers : ~(wk[v].step = s /\ At(v, "authorised") /\ wk[v].phase = "create")
<1> DEFINE ph == wk[w].phase
           result == wk[w].result
<1>1. /\ step[s] \in StepRecord /\ wk[w].op = OpOf[s]
      /\ ph \in {"create", "read", "remove"} /\ step[s].attempted
      /\ step[s].state = IF ph = "remove" THEN "compensating" ELSE "remote_calling"
      /\ IF ph = "remove" THEN opst[OpOf[s]] = "compensating" ELSE opst[OpOf[s]] \in Forward
  BY DEF TypeOK, SaleInv, WorkersServe, FreshIsCurrent, CallsAreMarked, At, Busy, Called
<1>2. step[s].outcome = "none" /\ s \notin PppSteps
  BY <1>1 DEF SaleInv, StepChecks
<1>3. /\ result \in {"absent", "present", "convergence", "conflict", "unknown"}
      /\ ph = "create" => result \in {"present", "conflict", "unknown"}
      /\ ph = "remove" => result \in {"absent", "conflict", "unknown"}
      /\ result = "conflict" => remote[s] = "foreign"
      /\ result = "present" /\ ph # "remove" => remote[s] = "present"
      /\ result = "absent" /\ ph = "remove" =>
            /\ remote[s] = "absent"
            /\ \A v \in Workers : ~(wk[v].step = s /\ At(v, "authorised") /\ wk[v].phase = "create")
  BY <1>1 DEF SaleInv, ResultsHold, At
<1> HIDE DEF ph, result
<1>4. /\ result = "present" => Recorded(s, ph, result) = [step[s] EXCEPT !.state = "remote_created"]
      /\ result = "convergence" => Recorded(s, ph, result) = [step[s] EXCEPT !.state = "staged"]
      /\ result = "absent" /\ ph = "remove" =>
            Recorded(s, ph, result) = [step[s] EXCEPT !.state = "removed", !.outcome = "verified_absent"]
      /\ result = "absent" /\ ph # "remove" => Recorded(s, ph, result) = [step[s] EXCEPT !.state = "staged"]
      /\ result = "conflict" =>
            Recorded(s, ph, result) = [step[s] EXCEPT !.state = "cleanup_required", !.outcome = "unverified"]
      /\ result = "unknown" => Recorded(s, ph, result) = [step[s] EXCEPT !.due = FALSE]
  BY DEF Recorded
<1> DEFINE row == Recorded(s, ph, result)
<1>5. /\ row.attempted
      /\ result = "present" => row.state = "remote_created" /\ row.outcome = "none"
      /\ result = "convergence" => row.state = "staged" /\ row.outcome = "none"
      /\ result = "absent" /\ ph = "remove" => row.state = "removed" /\ row.outcome = "verified_absent"
      /\ result = "absent" /\ ph # "remove" => row.state = "staged" /\ row.outcome = "none"
      /\ result = "conflict" => row.state = "cleanup_required" /\ row.outcome = "unverified"
      /\ result = "unknown" => row.state = step[s].state /\ row.outcome = "none"
  <2>1. CASE result \in {"present", "convergence", "unknown"}
    BY <1>1, <1>2, <1>4, <2>1 DEF StepRecord
  <2>2. CASE result = "absent"
    BY <1>1, <1>2, <1>4, <2>2 DEF StepRecord
  <2>3. CASE result = "conflict"
    BY <1>1, <1>2, <1>4, <2>3 DEF StepRecord
  <2>4. QED
    BY <1>3, <2>1, <2>2, <2>3
<1> HIDE DEF row
<1>6. /\ row.attempted /\ s \notin PppSteps
      /\ step[s].state = IF ph = "remove" THEN "compensating" ELSE "remote_calling"
      /\ step[s].outcome = "none"
      /\ IF ph = "remove" THEN opst[OpOf[s]] = "compensating" ELSE opst[OpOf[s]] \in Forward
      /\ result = "conflict" => /\ row.state = "cleanup_required" /\ row.outcome = "unverified"
                                /\ remote[s] = "foreign"
  BY <1>1, <1>2, <1>3, <1>5
<1>7. result # "conflict" /\ ph # "remove" =>
             /\ row.state \in {"staged", "remote_calling", "remote_created"} /\ row.outcome = "none"
             /\ row.state = "remote_created" => remote[s] = "present"
  BY <1>1, <1>3, <1>5
<1>8. result # "conflict" /\ ph = "remove" =>
             \/ row.state = "compensating" /\ row.outcome = "none"
             \/ /\ row.state = "removed" /\ row.outcome = "verified_absent" /\ remote[s] = "absent"
                /\ \A v \in Workers : ~(wk[v].step = s /\ At(v, "authorised") /\ wk[v].phase = "create")
  BY <1>1, <1>3, <1>5
<1>9. QED
  BY <1>6, <1>7, <1>8 DEF row, ph, result

\* A fresh result is recorded.
LEMMA SaleRecords ==
    ASSUME TypeOK, SaleInv, NEW w \in Workers, NEW s \in Steps, Record(w, s)
    PROVE  SaleInv'
<1> USE ShapeAssumption DEF opvars, money, leasevars, world, control
<1> DEFINE o == OpOf[s]
           ph == wk[w].phase
           result == wk[w].result
           row == Recorded(s, ph, result)
<1>0. /\ opst \in [Ops -> OpStates] /\ step \in [Steps -> StepRecord] /\ wk \in [Workers -> WorkerRecord]
      /\ o \in Ops
  BY DEF TypeOK
<1>1. /\ At(w, "done") /\ wk[w].step = s /\ wk[w].fresh /\ wk[w].op = o /\ opst[o] # "none"
      /\ UNCHANGED <<gate, remote>>
  BY DEF Record, At, SaleInv, WorkersServe, Busy, Called
<1>2. /\ row.attempted /\ s \notin PppSteps /\ step[s].outcome = "none"
      /\ step[s].state = IF ph = "remove" THEN "compensating" ELSE "remote_calling"
      /\ IF ph = "remove" THEN opst[o] = "compensating" ELSE opst[o] \in Forward
      /\ result = "conflict" => /\ row.state = "cleanup_required" /\ row.outcome = "unverified"
                                /\ remote[s] = "foreign"
      /\ result # "conflict" /\ ph # "remove" =>
             /\ row.state \in {"staged", "remote_calling", "remote_created"} /\ row.outcome = "none"
             /\ row.state = "remote_created" => remote[s] = "present"
      /\ result # "conflict" /\ ph = "remove" =>
             \/ row.state = "compensating" /\ row.outcome = "none"
             \/ /\ row.state = "removed" /\ row.outcome = "verified_absent" /\ remote[s] = "absent"
                /\ \A v \in Workers : ~(wk[v].step = s /\ At(v, "authorised") /\ wk[v].phase = "create")
  BY <1>1, RecordedFacts
<1>3. step' = [step EXCEPT ![s] = row]
  BY DEF Record
<1> HIDE DEF row, result, ph, o
<1>4. step'[s] = row /\ \A t \in Steps \ {s} : step'[t] = step[t]
  BY <1>0, <1>3
<1>5. /\ opst'[o] = IF result = "conflict" THEN "cleanup_required" ELSE opst[o]
      /\ \A q \in Ops \ {o} : opst'[q] = opst[q]
  BY <1>0 DEF Record, result, o
<1>6. /\ wk'[w] = Leave(w)
      /\ \A v \in Workers \ {w} :
             /\ wk'[v].pc = wk[v].pc /\ wk'[v].op = wk[v].op /\ wk'[v].step = wk[v].step
             /\ wk'[v].phase = wk[v].phase /\ wk'[v].result = wk[v].result
             /\ wk'[v].fresh => /\ wk[v].fresh /\ (wk[v].op = o => wk[v].step # s)
                                /\ result = "conflict" /\ wk[v].pc \in Called => wk[v].op # o
  <2>1. CASE result = "conflict"
    <3> DEFINE S == {s}
               rec == Leave(w)
    <3>1. wk' = Written(w, o, S, rec)
      BY <2>1 DEF Record, result, o
    <3> HIDE DEF S, rec
    <3>2. wk'[w] = rec
      BY <3>1, WrittenFacts
    <3>3. \A v \in Workers \ {w} :
             /\ wk'[v].pc = wk[v].pc /\ wk'[v].op = wk[v].op /\ wk'[v].step = wk[v].step
             /\ wk'[v].phase = wk[v].phase /\ wk'[v].result = wk[v].result
             /\ wk'[v].fresh => wk[v].fresh /\ ~(wk[v].op = o /\ (wk[v].step \in S \/ wk[v].pc \in Called))
      BY <3>1, WrittenFacts
    <3>4. QED
      BY <3>2, <3>3 DEF S, rec
  <2>2. CASE result # "conflict"
    <3> DEFINE rec == Leave(w)
    <3>1. wk' = StepWritten(w, s, rec)
      BY <2>2 DEF Record, result
    <3> HIDE DEF rec
    <3>2. wk'[w] = rec
      BY <3>1, StepWrittenFacts
    <3>3. QED
      BY <2>2, <3>1, <3>2, StepWrittenFacts DEF rec
  <2>3. QED
    BY <2>1, <2>2
<1>7. \A v \in Workers : Keeps(v) \/ Stops(v)
  <2>1. Stops(w)
    BY <1>0, <1>1, <1>5, <1>6, LeaveFacts DEF Stops, Busy, Called, ChildPcs
  <2>2. QED
    BY <1>1, <1>6, <2>1 DEF Keeps
<1>8. WorkersServe' /\ CallsAreMarked' /\ GateIsHeld' /\ ResultsHold' /\ UnmarkedIsUntouched'
  <2>1. ASSUME NEW q \in Ops
        PROVE  /\ opst[q] # "none" => opst'[q] # "none"
               /\ opst[q] \in GivenUp => opst'[q] \in GivenUp
               /\ opst'[q] \in Selling => opst[q] \in Selling \cup {"none"}
    BY <1>1, <1>5 DEF GivenUp, Selling, Forward
  <2>2. \A t \in Steps : step[t].attempted => step'[t].attempted
    BY <1>2, <1>4
  <2>3. QED
    BY <1>1, <1>7, <2>1, <2>2, TablesKeep
<1>9. FreshIsCurrent'
  <2>1. ASSUME NEW v \in Workers, wk'[v].pc \in Busy, wk'[v].fresh
        PROVE  /\ Keeps(v) /\ wk[v].fresh /\ wk[v].pc \in Busy /\ wk[v].op \in Ops
               /\ step'[wk[v].step] = step[wk[v].step]
               /\ wk[v].pc \in Called => opst'[wk[v].op] = opst[wk[v].op]
    <3>1. v # w /\ Keeps(v) /\ wk[v].pc \in Busy
      BY <1>6, <1>7, <2>1, LeaveFacts DEF Keeps, Stops, Busy, Called, ChildPcs
    <3>2. wk[v].step \in Steps /\ wk[v].op = OpOf[wk[v].step] /\ wk[v].op \in Ops
      BY <3>1 DEF SaleInv, WorkersServe
    <3>3. wk[v].step # s
      BY <1>6, <2>1, <3>1, <3>2 DEF o
    <3>4. wk[v].pc \in Called => opst'[wk[v].op] = opst[wk[v].op]
      BY <1>5, <1>6, <2>1, <3>1, <3>2
    <3>5. QED
      BY <1>4, <1>6, <2>1, <3>1, <3>2, <3>3, <3>4
  <2>2. QED
    BY <2>1 DEF SaleInv, FreshIsCurrent, Keeps, At
<1>10. AbsenceIsFinal'
  <2>1. \A v \in Workers : At(v, "authorised")' => At(v, "authorised") /\ Keeps(v)
    BY <1>7 DEF At, Keeps, Stops, Busy, Called, ChildPcs
  <2>2. QED
    BY <1>1, <1>2, <1>4, <2>1 DEF SaleInv, AbsenceIsFinal, Keeps
<1>11. StepsFollow'
  BY <1>0, <1>2, <1>4, <1>5 DEF SaleInv, StepsFollow, Forward, o
<1>12. RowsHold'
  BY <1>0, <1>1, <1>2, <1>4, <1>5 DEF SaleInv, RowsHold, Forward, o
<1>13. StepChecks'
  BY <1>2, <1>4 DEF SaleInv, StepChecks
<1>14. PaidIsDelivered'
  BY <1>0, <1>1, <1>2, <1>5 DEF SaleInv, PaidIsDelivered, Forward, o
<1>15. QED
  BY <1>8, <1>9, <1>10, <1>11, <1>12, <1>13, <1>14 DEF SaleInv

-----------------------------------------------------------------------------
(* Claims, reservations and the abstract sale *)

\* All steps but three leave the ledger alone and end no operation.
QuietLedger == /\ UNCHANGED <<claim, money>>
               /\ \A q \in Ops : opst'[q] = opst[q] \/ (InFlight(q) /\ InFlight(q)')

\* No step but an operator's ForceStep gives a part up or takes it back.
KeepsGivenUp == \A s \in Steps : step'[s].outcome = "abandoned" <=> step[s].outcome = "abandoned"

\* A part given up is a removed step, and beginning to compensate leaves it so.
LEMMA CleanedKeeps ==
    ASSUME TypeOK, SaleInv, NEW s \in Steps
    PROVE  /\ step[s].outcome = "abandoned" => step[s].state = "removed"
           /\ Cleaned(s).outcome = "abandoned" <=> step[s].outcome = "abandoned"
<1>1. step[s] \in StepRecord
  BY DEF TypeOK
<1>2. step[s].outcome = "abandoned" => step[s].state = "removed"
  BY DEF SaleInv, StepChecks
<1>3. QED
  BY <1>1, <1>2 DEF Cleaned, StepRecord

\* Nor does a result given home by a child touch a part given up.
LEMMA RecordedOutcome ==
    ASSUME TypeOK, SaleInv, NEW w \in Workers, NEW s \in Steps,
           wk[w].pc = "done", wk[w].step = s, wk[w].fresh
    PROVE  /\ Recorded(s, wk[w].phase, wk[w].result).outcome # "abandoned"
           /\ step[s].outcome = "none"
           /\ opst[OpOf[s]] \in Forward \cup {"compensating"}
<1> DEFINE ph == wk[w].phase
           result == wk[w].result
           row == Recorded(s, ph, result)
<1>1. /\ step[s].outcome = "none"
      /\ IF ph = "remove" THEN opst[OpOf[s]] = "compensating" ELSE opst[OpOf[s]] \in Forward
      /\ row.outcome \in {"none", "verified_absent", "unverified"}
  BY RecordedFacts DEF At
<1>2. QED
  BY <1>1

\* A step of a worker, on the tables, that is quiet.
LEMMA QuietTables ==
    ASSUME TypeOK, SaleInv, NEW w \in Workers, NEW o, NEW s,
           \/ /\ o \in Ops
              /\ Reacquire(w, o) \/ TickFails(w, o) \/ TickPicks(w, o) \/ TickLeaves(w, o)
           \/ s \in Steps /\ (Dispatch(w, s) \/ Record(w, s))
           \/ DispatchRefused(w) \/ Refused(w) \/ Release(w) \/ TransientConflict(w) \/ Crash(w)
    PROVE  QuietLedger /\ KeepsGivenUp /\ UNCHANGED remote
<1> USE ShapeAssumption DEF opvars, money, leasevars, world, control, Unmoved
<1>0. opst \in [Ops -> OpStates] /\ step \in [Steps -> StepRecord]
  BY DEF TypeOK
<1>1. CASE \/ o \in Ops /\ (Reacquire(w, o) \/ TickPicks(w, o) \/ TickLeaves(w, o))
           \/ DispatchRefused(w) \/ Refused(w) \/ Release(w) \/ TransientConflict(w) \/ Crash(w)
  <2>1. UNCHANGED <<opst, step, claim, res, balance, remote>>
    BY <1>1 DEF Reacquire, TickPicks, TickLeaves, DispatchRefused, Refused, Release, TransientConflict, Crash
  <2>2. QED
    BY <2>1 DEF QuietLedger, KeepsGivenUp
<1>2. CASE o \in Ops /\ TickFails(w, o)
  <2>1. /\ opst[o] \in Forward /\ opst' = [opst EXCEPT ![o] = "compensating"]
        /\ UNCHANGED <<claim, res, balance, remote>>
        /\ \A t \in Steps : step'[t] = IF OpOf[t] = o THEN Cleaned(t) ELSE step[t]
    BY <1>2 DEF TickFails, BeginCompensation
  <2>2. QuietLedger
    BY <1>0, <1>2, <2>1 DEF QuietLedger, InFlight, Terminal, Forward
  <2>3. KeepsGivenUp
    <3>1. ASSUME NEW t \in Steps, OpOf[t] = o
          PROVE  Cleaned(t).outcome = "abandoned" <=> step[t].outcome = "abandoned"
      BY <2>1, <3>1, CleanedKeeps
    <3>2. QED
      BY <2>1, <3>1 DEF KeepsGivenUp
  <2>4. QED
    BY <2>1, <2>2, <2>3
<1>3. CASE s \in Steps /\ Dispatch(w, s)
  <2>1. /\ UNCHANGED <<claim, res, balance, remote>>
        /\ \/ UNCHANGED <<opst, step>>
           \/ /\ opst[OpOf[s]] \in Forward /\ opst' = [opst EXCEPT ![OpOf[s]] = "provisioning"]
              /\ step' = [step EXCEPT ![s] = Marked(step[s])]
    BY <1>3 DEF Dispatch, Dispatchable
  <2>2. Marked(step[s]).outcome = step[s].outcome
    BY <1>0, <1>3 DEF Marked, StepRecord
  <2>3. QuietLedger
    BY <1>0, <1>3, <2>1 DEF QuietLedger, InFlight, Terminal, Forward
  <2>4. KeepsGivenUp
    BY <1>0, <2>1, <2>2 DEF KeepsGivenUp
  <2>5. QED
    BY <2>1, <2>3, <2>4
<1>4. CASE s \in Steps /\ Record(w, s)
  <2> DEFINE row == Recorded(s, wk[w].phase, wk[w].result)
  <2>1. /\ UNCHANGED <<claim, res, balance, remote>>
        /\ wk[w].pc = "done" /\ wk[w].step = s /\ wk[w].fresh
        /\ step' = [step EXCEPT ![s] = row]
        /\ opst' \in {opst, [opst EXCEPT ![OpOf[s]] = "cleanup_required"]}
    BY <1>4 DEF Record, At
  <2>2. /\ row.outcome # "abandoned" /\ step[s].outcome = "none"
        /\ opst[OpOf[s]] \in Forward \cup {"compensating"}
    BY <1>4, <2>1, RecordedOutcome
  <2> HIDE DEF row
  <2>3. QuietLedger
    BY <1>0, <1>4, <2>1, <2>2 DEF QuietLedger, InFlight, Terminal, Forward
  <2>4. KeepsGivenUp
    BY <1>0, <2>1, <2>2 DEF KeepsGivenUp
  <2>5. QED
    BY <2>1, <2>3, <2>4
<1>5. QED
  BY <1>1, <1>2, <1>3, <1>4

\* The operator's retry is quiet.
LEMMA QuietRetry ==
    ASSUME TypeOK, SaleInv, NEW o \in Ops, Retry(o)
    PROVE  QuietLedger /\ KeepsGivenUp /\ UNCHANGED remote
<1> USE DEF money, world
<1>0. opst \in [Ops -> OpStates] /\ step \in [Steps -> StepRecord]
  BY DEF TypeOK
<1>1. /\ opst[o] = "cleanup_required" /\ opst' = [opst EXCEPT ![o] = "compensating"]
      /\ UNCHANGED <<claim, res, balance, remote>>
  <2>1. opst[o] = "cleanup_required"
    BY Zenon DEF Retry, Asks
  <2>2. opst' = [opst EXCEPT ![o] = "compensating"]
    BY Zenon DEF Retry
  <2>3. UNCHANGED <<claim, money, world>>
    BY Zenon DEF Retry
  <2>4. QED
    BY <2>1, <2>2, <2>3
<1>2. QuietLedger
  BY <1>0, <1>1 DEF QuietLedger, InFlight, Terminal
<1>3. ASSUME NEW t \in Steps
      PROVE  step'[t].outcome = "abandoned" <=> step[t].outcome = "abandoned"
  <2>1. step[t] \in StepRecord
    BY <1>0
  <2>2. step' = [u \in Steps |->
                   IF u \in Unclean(o)
                   THEN [step[u] EXCEPT !.state = "compensating", !.outcome = "none", !.due = TRUE]
                   ELSE IF OpOf[u] = o THEN Cleaned(u) ELSE step[u]]
    BY Zenon DEF Retry
  <2>3. t \in Unclean(o) => step[t].state = "cleanup_required" /\ step'[t].outcome = "none"
    <3>1. [step[t] EXCEPT !.state = "compensating", !.outcome = "none", !.due = TRUE].outcome = "none"
      BY <2>1 DEF StepRecord
    <3>2. t \in Unclean(o) => step'[t] = [step[t] EXCEPT !.state = "compensating", !.outcome = "none", !.due = TRUE]
      BY Zenon, <2>2
    <3>3. t \in Unclean(o) => step[t].state = "cleanup_required"
      BY DEF Unclean
    <3>4. QED
      BY Zenon, <3>1, <3>2, <3>3
  <2>4. t \notin Unclean(o) => step'[t] = Cleaned(t) \/ step'[t] = step[t]
    BY Zenon, <2>2
  <2>5. QED
    BY <2>3, <2>4, CleanedKeeps
<1>4. QED
  BY <1>1, <1>2, <1>3 DEF KeepsGivenUp

\* Time, the nodes and the administrators are quiet.
LEMMA QuietOutside ==
    ASSUME TypeOK, SaleInv, NEW o, NEW s, NEW n, NEW e,
           \/ o \in Ops /\ (ExpireDead(o) \/ ExpireBusy(o) \/ PassDeadline(o))
           \/ s \in Steps /\ Due(s)
           \/ NodeDown(n) \/ NodeUp(n) \/ ToggleEnabled(n) \/ MoveEndpoint(n, e)
           \/ ToggleDrain \/ WalletCutover \/ WalletRollback
    PROVE  QuietLedger /\ KeepsGivenUp /\ UNCHANGED remote
<1> USE DEF opvars, money, leasevars, world, control, Unmoved
<1>0. opst \in [Ops -> OpStates] /\ step \in [Steps -> StepRecord]
  BY DEF TypeOK
<1>2. CASE s \in Steps /\ Due(s)
  <2>1. /\ UNCHANGED <<opst, claim, res, balance, remote>>
        /\ step' = [step EXCEPT ![s].due = TRUE]
    BY <1>2 DEF Due
  <2>2. KeepsGivenUp
    BY <1>0, <2>1 DEF KeepsGivenUp, StepRecord
  <2>3. QED
    BY <2>1, <2>2 DEF QuietLedger
<1>3. CASE \/ o \in Ops /\ (ExpireDead(o) \/ ExpireBusy(o) \/ PassDeadline(o))
           \/ NodeDown(n) \/ NodeUp(n) \/ ToggleEnabled(n) \/ MoveEndpoint(n, e)
           \/ ToggleDrain \/ WalletCutover \/ WalletRollback
  <2>1. UNCHANGED <<opst, step, claim, res, balance, remote>>
    BY <1>3 DEF ExpireDead, ExpireBusy, Expire, PassDeadline, NodeDown, NodeUp, ToggleEnabled,
                MoveEndpoint, ToggleDrain, WalletCutover, WalletRollback, SetPhase
  <2>2. QED
    BY <2>1 DEF QuietLedger, KeepsGivenUp
<1>4. QED
  BY <1>2, <1>3

\* A part is given up on the operator's word, which ends no operation.
LEMMA ForcedGivesUp ==
    ASSUME TypeOK, SaleInv, NEW o \in Ops, NEW s \in Steps, ForceStep(o, s)
    PROVE  /\ QuietLedger /\ UNCHANGED remote
           /\ opst[o] = "cleanup_required" /\ s \in StepsOf(o)
           /\ \A t \in Steps : step'[t].outcome = "abandoned" <=> (t = s \/ step[t].outcome = "abandoned")
<1> USE DEF opvars, money, leasevars, world, control
<1>0. opst \in [Ops -> OpStates] /\ step[s] \in StepRecord
  BY DEF TypeOK
<1>1. /\ opst[o] = "cleanup_required" /\ s \in StepsOf(o)
      /\ opst' = [opst EXCEPT ![o] = IF Unclean(o) = {s} THEN "compensating" ELSE @]
      /\ UNCHANGED <<claim, res, balance, remote>>
  BY DEF ForceStep, Asks, Unclean
<1>2. QuietLedger
  BY <1>0, <1>1 DEF QuietLedger, InFlight, Terminal
<1>3. /\ step'[s].outcome = "abandoned"
      /\ \A t \in Steps \ {s} : step'[t] \in {Cleaned(t), step[t]}
  BY <1>0 DEF ForceStep, StepRecord
<1>4. \A t \in Steps \ {s} : step'[t].outcome = "abandoned" <=> step[t].outcome = "abandoned"
  BY <1>3, CleanedKeeps
<1>5. QED
  BY <1>1, <1>2, <1>3, <1>4

\* A child is quiet but for its write.
LEMMA QuietChild ==
    ASSUME NEW w \in Workers,
           \/ TakeGate(w) \/ Enter(w) \/ ReadNode(w) \/ Authorise(w) \/ WriteNode(w)
           \/ Verify(w) \/ ChildRefused(w) \/ ChildDies(w)
    PROVE  QuietLedger /\ KeepsGivenUp /\ (WriteNode(w) \/ UNCHANGED remote)
<1> USE DEF Unmoved, opvars, money, world
<1>1. UNCHANGED <<opst, step, claim, res, balance>> /\ (WriteNode(w) \/ UNCHANGED remote)
  BY DEF TakeGate, Enter, ReadNode, Authorise, WriteNode, Verify, ChildRefused, ChildDies
<1>2. QED
  BY <1>1 DEF QuietLedger, KeepsGivenUp

\* So every step is quiet, or one of the five the abstract sale can see.
LEMMA StepsOfTheSale ==
    ASSUME TypeOK, SaleInv, [Next]_vars
    PROVE  \/ QuietLedger /\ KeepsGivenUp /\ UNCHANGED remote
           \/ \E w \in Workers : WriteNode(w) /\ QuietLedger /\ KeepsGivenUp
           \/ \E w \in Workers, o \in Ops : Prepare(w, o) \/ TickCompletes(w, o) \/ TickCompensates(w, o)
           \/ \E o \in Ops, s \in Steps : ForceStep(o, s)
<1>1. CASE UNCHANGED vars
  BY <1>1 DEF vars, opvars, money, world, QuietLedger, KeepsGivenUp
<1>2. ASSUME NEW w \in Workers, Work(w) \/ ChildDies(w) \/ TransientConflict(w) \/ Crash(w)
      PROVE  \/ QuietLedger /\ KeepsGivenUp /\ UNCHANGED remote
             \/ WriteNode(w) /\ QuietLedger /\ KeepsGivenUp
             \/ \E o \in Ops : TickCompletes(w, o) \/ TickCompensates(w, o)
  <2>1. CASE \E o \in Ops : Reacquire(w, o) \/ TickFails(w, o) \/ TickPicks(w, o) \/ TickLeaves(w, o)
    BY <2>1, QuietTables
  <2>2. CASE \E s \in Steps : Dispatch(w, s) \/ Record(w, s)
    BY <2>2, QuietTables
  <2>3. CASE DispatchRefused(w) \/ Refused(w) \/ Release(w) \/ TransientConflict(w) \/ Crash(w)
    BY <2>3, QuietTables
  <2>4. CASE \/ TakeGate(w) \/ Enter(w) \/ ReadNode(w) \/ Authorise(w) \/ WriteNode(w)
             \/ Verify(w) \/ ChildRefused(w) \/ ChildDies(w)
    BY <2>4, QuietChild
  <2>5. QED
    BY <1>2, <2>1, <2>2, <2>3, <2>4 DEF Work
<1>3. CASE \/ \E o \in Ops : Retry(o) \/ ExpireDead(o) \/ ExpireBusy(o) \/ PassDeadline(o)
           \/ \E s \in Steps : Due(s)
  BY <1>3, QuietOutside, QuietRetry
<1>4. CASE \/ \E n \in Nodes : \/ NodeUp(n) \/ NodeDown(n) \/ ToggleEnabled(n)
                             \/ \E e \in Endpoints : MoveEndpoint(n, e)
           \/ ToggleDrain \/ WalletCutover \/ WalletRollback
  BY <1>4, QuietOutside
<1>5. QED
  BY <1>1, <1>2, <1>3, <1>4 DEF Next, Disturb

\* T1 opens the ledger of an operation; T_final and T_comp close it.
LEMMA Settling ==
    ASSUME TypeOK, LedgerFollows, NEW w \in Workers, NEW o \in Ops,
           Prepare(w, o) \/ TickCompletes(w, o) \/ TickCompensates(w, o)
    PROVE  /\ \A q \in Ops \ {o} : opst'[q] = opst[q] /\ claim'[q] = claim[q] /\ res'[q] = res[q]
           /\ \/ Prepare(w, o) /\ opst[o] = "none" /\ opst'[o] = "prepared"
              \/ TickCompletes(w, o) /\ InFlight(o) /\ opst'[o] = "completed"
              \/ TickCompensates(w, o) /\ InFlight(o) /\ opst'[o] = "compensated"
           /\ claim'[o] = IF OneTimeKey[o] = NoKey THEN "none"
                          ELSE IF Prepare(w, o) THEN "held"
                          ELSE IF TickCompletes(w, o) THEN "bound" ELSE "released"
           /\ \A p \in Payers :
                  res'[o][p] = IF Price[o][p] = 0 THEN "none"
                               ELSE IF Prepare(w, o) THEN "reserved"
                               ELSE IF TickCompletes(w, o) THEN "captured" ELSE "released"
<1>0. /\ opst \in [Ops -> OpStates] /\ claim \in [Ops -> {"none", "held", "bound", "released"}]
      /\ res \in [Ops -> [Payers -> {"none", "reserved", "captured", "released"}]]
      /\ \A p \in Payers : Price[o][p] \in Nat
  BY MoneyAssumption DEF TypeOK
<1>1. CASE Prepare(w, o)
  <2>1. /\ opst[o] = "none" /\ opst' = [opst EXCEPT ![o] = "prepared"]
        /\ claim' = [claim EXCEPT ![o] = IF OneTimeKey[o] # NoKey THEN "held" ELSE "none"]
        /\ res' = [res EXCEPT ![o] = [p \in Payers |-> IF Price[o][p] > 0 THEN "reserved" ELSE "none"]]
    BY <1>1 DEF Prepare
  <2>2. \A p \in Payers : Price[o][p] > 0 <=> Price[o][p] # 0
    BY <1>0
  <2>3. QED
    BY <1>0, <1>1, <2>1, <2>2
<1>2. CASE ~Prepare(w, o)
  <2>1. /\ InFlight(o)
        /\ \/ TickCompletes(w, o) /\ opst' = [opst EXCEPT ![o] = "completed"]
           \/ TickCompensates(w, o) /\ opst' = [opst EXCEPT ![o] = "compensated"] /\ ~TickCompletes(w, o)
    <3>1. CASE TickCompletes(w, o)
      BY <3>1 DEF TickCompletes, Finishable, InFlight, Forward, Terminal
    <3>2. CASE ~TickCompletes(w, o)
      BY <1>2, <3>2 DEF TickCompensates, Compensable, InFlight, Terminal
    <3>3. QED
      BY <3>1, <3>2
  <2>2. /\ claim[o] = IF OneTimeKey[o] = NoKey THEN "none" ELSE "held"
        /\ \A p \in Payers : res[o][p] = IF Price[o][p] = 0 THEN "none" ELSE "reserved"
    BY <2>1 DEF LedgerFollows, SettledAs, InFlight, Terminal
  <2>3. CASE TickCompletes(w, o)
    <3>1. /\ claim' = [claim EXCEPT ![o] = IF claim[o] = "held" THEN "bound" ELSE claim[o]]
          /\ res' = [res EXCEPT ![o] = [p \in Payers |-> IF res[o][p] = "reserved" THEN "captured" ELSE res[o][p]]]
      BY <2>3 DEF TickCompletes, Captured
    <3>2. QED
      BY <1>0, <1>2, <2>1, <2>2, <2>3, <3>1
  <2>4. CASE TickCompensates(w, o) /\ ~TickCompletes(w, o)
    <3>1. /\ claim' = [claim EXCEPT ![o] = IF claim[o] = "held" THEN "released" ELSE claim[o]]
          /\ res' = [res EXCEPT ![o] = [p \in Payers |-> IF res[o][p] = "reserved" THEN "released" ELSE res[o][p]]]
      BY <2>4 DEF TickCompensates
    <3>2. QED
      BY <1>0, <1>2, <2>1, <2>2, <2>4, <3>1
  <2>5. QED
    BY <2>1, <2>3, <2>4
<1>3. QED
  BY <1>1, <1>2

\* The claims and reservations go on following their operations, and a key is
\* claimed again only by an operation that found it free.
LEMMA LedgerNext ==
    ASSUME TypeOK, SaleInv, LedgerFollows, OneTimeClaim, [Next]_vars
    PROVE  LedgerFollows' /\ OneTimeClaim'
<1>1. CASE QuietLedger
  <2>1. UNCHANGED <<claim, res>>
    BY <1>1 DEF QuietLedger, money
  <2>2. ASSUME NEW q \in Ops
        PROVE  /\ opst'[q] = "none" <=> opst[q] = "none"
               /\ opst'[q] = "completed" <=> opst[q] = "completed"
               /\ opst'[q] = "compensated" <=> opst[q] = "compensated"
    BY <1>1 DEF QuietLedger, InFlight, Terminal
  <2>3. LedgerFollows'
    BY <2>1, <2>2 DEF LedgerFollows, SettledAs
  <2>4. OneTimeClaim'
    BY <2>1, <2>2 DEF OneTimeClaim
  <2>5. QED
    BY <2>3, <2>4
<1>2. ASSUME NEW w \in Workers, NEW o \in Ops,
             Prepare(w, o) \/ TickCompletes(w, o) \/ TickCompensates(w, o)
      PROVE  LedgerFollows' /\ OneTimeClaim'
  <2> DEFINE begins == Prepare(w, o)
             ends == TickCompletes(w, o)
  <2>1. /\ \A q \in Ops \ {o} : opst'[q] = opst[q] /\ claim'[q] = claim[q] /\ res'[q] = res[q]
        /\ \/ begins /\ opst[o] = "none" /\ opst'[o] = "prepared"
           \/ ends /\ InFlight(o) /\ opst'[o] = "completed"
           \/ InFlight(o) /\ opst'[o] = "compensated"
        /\ claim'[o] = IF OneTimeKey[o] = NoKey THEN "none"
                       ELSE IF begins THEN "held" ELSE IF ends THEN "bound" ELSE "released"
        /\ \A p \in Payers :
               res'[o][p] = IF Price[o][p] = 0 THEN "none"
                            ELSE IF begins THEN "reserved" ELSE IF ends THEN "captured" ELSE "released"
    BY <1>2, Settling
  <2>2. /\ begins => opst[o] = "none" /\ (OneTimeKey[o] # NoKey => ~KeyTaken(o))
        /\ ends => opst[o] \in Forward /\ opst'[o] = "completed"
    <3>1. begins => opst[o] = "none" /\ (OneTimeKey[o] # NoKey => ~KeyTaken(o))
      BY DEF Prepare
    <3>2. ends => opst[o] \in Forward /\ opst'[o] = "completed"
      BY DEF TickCompletes, Finishable, TypeOK
    <3>3. QED
      BY <3>1, <3>2
  <2> HIDE DEF begins, ends
  <2>3. \/ begins /\ ~ends /\ opst'[o] = "prepared"
        \/ ~begins /\ ends /\ InFlight(o) /\ opst'[o] = "completed"
        \/ ~begins /\ ~ends /\ InFlight(o) /\ opst'[o] = "compensated"
    BY <2>1, <2>2 DEF InFlight, Forward
  <2>4. LedgerFollows'
    <3>1. ASSUME NEW q \in Ops
          PROVE  /\ claim'[q] = IF opst'[q] = "none" \/ OneTimeKey[q] = NoKey THEN "none"
                                ELSE SettledAs(q, "held", "bound", "released")'
                 /\ \A p \in Payers :
                        res'[q][p] = IF opst'[q] = "none" \/ Price[q][p] = 0 THEN "none"
                                     ELSE SettledAs(q, "reserved", "captured", "released")'
      <4>1. CASE q = o
        BY <2>1, <2>3, <4>1 DEF SettledAs
      <4>2. CASE q # o
        BY <2>1, <4>2 DEF LedgerFollows, SettledAs
      <4>3. QED
        BY <4>1, <4>2
    <3>2. QED
      BY <3>1 DEF LedgerFollows
  <2>5. OneTimeClaim'
    <3>1. ASSUME NEW q \in Ops \ {o}, OneTimeKey[q] = OneTimeKey[o], OneTimeKey[o] # NoKey,
                 claim'[o] \in {"held", "bound"}
          PROVE  claim'[q] \notin {"held", "bound"}
      <4>1. CASE begins
        BY <2>1, <2>2, <3>1, <4>1 DEF KeyTaken
      <4>2. CASE ~begins
        <5>1. claim[o] = "held"
          BY <2>3, <3>1, <4>2 DEF LedgerFollows, SettledAs, InFlight, Terminal
        <5>2. QED
          BY <2>1, <3>1, <5>1 DEF OneTimeClaim
      <4>3. QED
        BY <4>1, <4>2
    <3>2. \A p, q \in Ops : p # q /\ OneTimeKey[p] = OneTimeKey[q] /\ OneTimeKey[p] # NoKey
             => ~(claim'[p] \in {"held", "bound"} /\ claim'[q] \in {"held", "bound"})
      BY <2>1, <3>1 DEF OneTimeClaim
    <3>3. \A q \in Ops : OneTimeKey[q] # NoKey => (claim'[q] = "bound" <=> opst'[q] = "completed")
      BY <2>1, <2>3 DEF OneTimeClaim
    <3>4. QED
      BY <3>2, <3>3 DEF OneTimeClaim
  <2>6. QED
    BY <2>4, <2>5
<1>3. QED
  BY <1>1, <1>2, StepsOfTheSale, ForcedGivesUp

LEMMA LedgerInit == Init => LedgerFollows /\ OneTimeClaim
BY DEF Init, LedgerFollows, OneTimeClaim

\* T1 begins a sale, whose steps were never given up.
LEMMA SaleBegins ==
    ASSUME TypeOK, SaleInv, NEW w \in Workers, NEW o \in Ops, Prepare(w, o)
    PROVE  Sale!Begin(o)
<1> USE DEF opvars, money, world
<1>0. opst \in [Ops -> OpStates] /\ remote' = remote
  BY DEF TypeOK, Prepare
<1>1. SaleState[o] = "none" /\ SaleState' = [SaleState EXCEPT ![o] = "pending"]
  <2>1. opst[o] = "none" /\ opst' = [opst EXCEPT ![o] = "prepared"]
    BY DEF Prepare
  <2>2. QED
    BY <1>0, <2>1 DEF SaleState
<1>2. balance' = [p \in Payers |-> balance[p] - Price[o][p]] /\ \A p \in Payers : balance'[p] >= 0
  <2>1. /\ balance' = [p \in Payers |-> balance[p] - Price[o][p]]
        /\ \A p \in Payers : Price[o][p] <= balance[p]
    BY DEF Prepare, Affordable
  <2>2. \A p \in Payers : balance[p] \in Nat /\ Price[o][p] \in Nat
    BY MoneyAssumption DEF TypeOK
  <2>3. QED
    BY <2>1, <2>2
<1>3. Traced' = Traced /\ Complete' = Complete
  BY <1>0 DEF Traced, Complete
<1>4. Abandoned' = Abandoned
  <2>1. \A s \in Steps : step'[s] = IF OpOf[s] = o THEN [Blank EXCEPT !.state = "staged"] ELSE step[s]
    BY DEF Prepare
  <2>2. ASSUME NEW s \in Steps, OpOf[s] = o
        PROVE  step[s].outcome # "abandoned"
    <3>1. step[s].state = "none"
      BY <2>2 DEF Prepare, SaleInv, StepsFollow
    <3>2. QED
      BY <3>1 DEF SaleInv, StepChecks
  <2>3. [Blank EXCEPT !.state = "staged"].outcome # "abandoned"
    BY DEF Blank
  <2>4. QED
    BY <2>1, <2>2, <2>3 DEF Abandoned
<1>5. QED
  BY <1>1, <1>2, <1>3, <1>4 DEF Sale!Begin

\* T_final delivers: its steps are all active, and what is active is on the node.
LEMMA SaleDelivers ==
    ASSUME TypeOK, SaleInv, NEW w \in Workers, NEW o \in Ops, TickCompletes(w, o)
    PROVE  Sale!Deliver(o)
<1> USE DEF opvars, money, world
<1>0. opst \in [Ops -> OpStates] /\ step \in [Steps -> StepRecord] /\ UNCHANGED <<remote, balance>>
  BY DEF TypeOK, TickCompletes
<1>1. opst[o] \in Forward /\ opst' = [opst EXCEPT ![o] = "completed"]
  BY DEF TickCompletes, Finishable
<1>2. SaleState[o] = "pending" /\ SaleState' = [SaleState EXCEPT ![o] = "delivered"]
  BY <1>0, <1>1 DEF SaleState, Forward
<1>3. Sale!PartsOf(o) \ PppSteps \subseteq Complete
  <2>1. \A s \in Steps \ PppSteps : OpOf[s] = o => step[s].state = "remote_created"
    BY DEF TickCompletes, Finishable, ToCreate, Remote, StepsOf
  <2>2. QED
    BY <1>1, <2>1 DEF Sale!PartsOf, Complete, SaleInv, RowsHold
<1>4. Traced' = Traced /\ Complete' = Complete
  BY <1>0 DEF Traced, Complete
<1>5. Abandoned' = Abandoned
  <2>1. \A s \in Steps : step'[s].outcome = step[s].outcome
    BY <1>0 DEF TickCompletes, StepRecord
  <2>2. QED
    BY <2>1 DEF Abandoned
<1>6. QED
  BY <1>0, <1>2, <1>3, <1>4, <1>5 DEF Sale!Deliver

\* T_comp refunds the whole price of an operation that left no trace.
LEMMA SaleRefunds ==
    ASSUME TypeOK, SaleInv, LedgerFollows, NEW w \in Workers, NEW o \in Ops, TickCompensates(w, o)
    PROVE  Sale!Refund(o)
<1> USE DEF opvars, money, world
<1>0. opst \in [Ops -> OpStates] /\ UNCHANGED <<remote, step>>
  BY DEF TypeOK, TickCompensates
<1>1. opst[o] = "compensating" /\ opst' = [opst EXCEPT ![o] = "compensated"]
  BY DEF TickCompensates, Compensable
<1>2. SaleState[o] = "pending" /\ SaleState' = [SaleState EXCEPT ![o] = "refunded"]
  BY <1>0, <1>1 DEF SaleState
<1>3. Sale!PartsOf(o) \cap Traced \subseteq Abandoned
  <2>1. \A s \in Steps : OpOf[s] = o /\ step[s].attempted => step[s].outcome \in {"verified_absent", "abandoned"}
    BY DEF TickCompensates, Compensable, StepsOf
  <2>2. \A s \in Steps : OpOf[s] = o /\ step[s].outcome # "abandoned" => remote[s] \in {"absent", "foreign"}
    BY <2>1 DEF SaleInv, UnmarkedIsUntouched, AbsenceIsFinal
  <2>3. QED
    BY <2>2 DEF Sale!PartsOf, Traced, Abandoned
<1>4. balance' = [p \in Payers |-> balance[p] + Price[o][p]]
  <2>1. \A p \in Payers : res[o][p] = IF Price[o][p] = 0 THEN "none" ELSE "reserved"
    BY <1>1 DEF LedgerFollows, SettledAs
  <2>2. balance' = [p \in Payers |-> balance[p] + (IF res[o][p] = "reserved" THEN Price[o][p] ELSE 0)]
    BY DEF TickCompensates
  <2>3. \A p \in Payers : (IF res[o][p] = "reserved" THEN Price[o][p] ELSE 0) = Price[o][p]
    BY <2>1
  <2>4. QED
    BY <2>2, <2>3
<1>5. Traced' = Traced /\ Complete' = Complete /\ Abandoned' = Abandoned
  BY <1>0 DEF Traced, Complete, Abandoned
<1>6. QED
  BY <1>2, <1>3, <1>4, <1>5 DEF Sale!Refund

\* A request changes one part of a pending sale, or nothing: whoever is still
\* authorised when its sale has ended finds the part as it would leave it.
LEMMA SaleWorks ==
    ASSUME TypeOK, SaleInv, NEW w \in Workers, WriteNode(w), QuietLedger, KeepsGivenUp
    PROVE  (\E o \in Ops : Sale!Work(o)) \/ UNCHANGED remote
<1> USE ShapeAssumption DEF opvars, money, world
<1> DEFINE s == wk[w].step
           o == wk[w].op
           now == AfterWrite(wk[w].phase, s)
<1>1. /\ s \in Steps /\ o = OpOf[s] /\ o \in Ops /\ opst[o] # "none" /\ At(w, "authorised")
      /\ wk[w].phase \in {"create", "remove"} /\ remote[s] # "foreign" /\ step[s].attempted
      /\ wk[w].phase = "remove" => opst[o] \in {"compensating", "cleanup_required", "compensated"}
  BY DEF WriteNode, At, SaleInv, WorkersServe, GateIsHeld, CallsAreMarked, AtNode, Busy, Called, ChildPcs
<1>2. remote' = [remote EXCEPT ![s] = now] /\ UNCHANGED <<balance, opst>>
  BY DEF WriteNode, Unmoved
<1>3. remote \in [Steps -> {"absent", "partial", "present", "foreign"}]
  BY DEF TypeOK
<1>4. now \in {"absent", "partial", "present"}
  BY DEF AfterWrite
<1>5. CASE opst[o] \notin Terminal
  <2>1. SaleState[o] = "pending" /\ SaleState' = SaleState
    BY <1>1, <1>2, <1>5 DEF SaleState, Terminal
  <2>2. s \in Sale!PartsOf(o)
    BY <1>1 DEF Sale!PartsOf
  <2> HIDE DEF now, s, o
  <2>3. Traced' \in {Traced \cup {s}, Traced \ {s}} /\ Complete' \in {Complete \cup {s}, Complete \ {s}}
    BY <1>1, <1>2, <1>3, <1>4 DEF Traced, Complete
  <2>4. Complete' \subseteq Traced'
    BY DEF Traced, Complete
  <2>5. Abandoned' = Abandoned
    BY DEF KeepsGivenUp, Abandoned
  <2>6. Sale!Work(o)
    BY <1>2, <2>1, <2>2, <2>3, <2>4, <2>5 DEF Sale!Work
  <2>7. QED
    BY <1>1, <2>6
<1>6. CASE opst[o] = "completed"
  <2>1. wk[w].phase = "create" /\ s \notin PppSteps
    BY <1>1, <1>6 DEF SaleInv, StepChecks
  <2>2. remote[s] = "present"
    BY <1>1, <1>6, <2>1 DEF SaleInv, PaidIsDelivered
  <2>3. now = "present"
    BY <2>1, <2>2 DEF AfterWrite
  <2>4. QED
    BY <1>1, <1>2, <1>3, <2>2, <2>3
<1>7. CASE opst[o] = "compensated"
  <2>1. step[s].state = "removed"
    BY <1>1, <1>7 DEF SaleInv, StepsFollow
  <2>2. step[s].outcome = "verified_absent"
    BY <1>1, <2>1 DEF SaleInv, StepChecks, RowsHold
  <2>3. remote[s] = "absent" /\ wk[w].phase # "create"
    BY <1>1, <2>2 DEF SaleInv, AbsenceIsFinal
  <2>4. now = "absent"
    BY <1>1, <2>3 DEF AfterWrite
  <2>5. QED
    BY <1>1, <1>2, <1>3, <2>3, <2>4
<1>8. QED
  BY <1>5, <1>6, <1>7 DEF Terminal

\* A quiet step is none of the abstract sale's.
LEMMA SaleStutters ==
    ASSUME QuietLedger, KeepsGivenUp, UNCHANGED remote
    PROVE  UNCHANGED Sale!salevars
<1>1. SaleState' = SaleState
  <2>1. ASSUME NEW o \in Ops
        PROVE  /\ opst'[o] = "none" <=> opst[o] = "none"
               /\ opst'[o] = "completed" <=> opst[o] = "completed"
               /\ opst'[o] = "compensated" <=> opst[o] = "compensated"
    BY DEF QuietLedger, InFlight, Terminal
  <2>2. QED
    BY <2>1 DEF SaleState
<1>2. Traced' = Traced /\ Complete' = Complete /\ Abandoned' = Abandoned
  BY DEF Traced, Complete, Abandoned, KeepsGivenUp
<1>3. QED
  BY <1>1, <1>2 DEF Sale!salevars, QuietLedger, money

\* Every step of the saga is a step of the abstract sale, or none of its.
LEMMA SaleSimulates ==
    ASSUME TypeOK, SaleInv, LedgerFollows, [Next]_vars
    PROVE  [Sale!Next]_(Sale!salevars)
<1>1. CASE QuietLedger /\ KeepsGivenUp /\ UNCHANGED remote
  BY <1>1, SaleStutters
<1>2. ASSUME NEW w \in Workers, WriteNode(w), QuietLedger, KeepsGivenUp
      PROVE  [Sale!Next]_(Sale!salevars)
  BY <1>2, SaleWorks, SaleStutters DEF Sale!Next
<1>3. ASSUME NEW w \in Workers, NEW o \in Ops,
             Prepare(w, o) \/ TickCompletes(w, o) \/ TickCompensates(w, o)
      PROVE  Sale!Next
  BY <1>3, SaleBegins, SaleDelivers, SaleRefunds DEF Sale!Next
<1>4. ASSUME NEW o \in Ops, NEW s \in Steps, ForceStep(o, s)
      PROVE  Sale!Next
  <2>1. /\ QuietLedger /\ UNCHANGED remote
        /\ opst[o] = "cleanup_required" /\ s \in StepsOf(o)
        /\ \A t \in Steps : step'[t].outcome = "abandoned" <=> (t = s \/ step[t].outcome = "abandoned")
    BY <1>4, ForcedGivesUp
  <2>2. SaleState[o] = "pending" /\ s \in Sale!PartsOf(o)
    BY <2>1 DEF SaleState, StepsOf, Sale!PartsOf
  <2>3. SaleState' = SaleState
    <3>1. ASSUME NEW q \in Ops
          PROVE  /\ opst'[q] = "none" <=> opst[q] = "none"
                 /\ opst'[q] = "completed" <=> opst[q] = "completed"
                 /\ opst'[q] = "compensated" <=> opst[q] = "compensated"
      BY <2>1 DEF QuietLedger, InFlight, Terminal
    <3>2. QED
      BY <3>1 DEF SaleState
  <2>4. Abandoned' = Abandoned \cup {s}
    BY <2>1 DEF Abandoned
  <2>5. Traced' = Traced /\ Complete' = Complete /\ balance' = balance
    BY <2>1 DEF Traced, Complete, QuietLedger, money
  <2>6. Sale!GiveUp(o)
    BY <2>2, <2>3, <2>4, <2>5 DEF Sale!GiveUp
  <2>7. QED
    BY <2>6 DEF Sale!Next
<1>5. QED
  BY <1>1, <1>2, <1>3, <1>4, StepsOfTheSale

LEMMA SaleStarts == Init => Sale!Init
<1> SUFFICES ASSUME Init PROVE Sale!Init
  OBVIOUS
<1>1. SaleState = [o \in Ops |-> "none"] /\ balance = Credit
  BY DEF Init, SaleState
<1>2. /\ \A s \in Steps : remote[s] \in {"absent", "foreign"} /\ step[s] = Blank
  BY DEF Init
<1>3. Traced = {} /\ Complete = {} /\ Abandoned = {}
  BY <1>2 DEF Traced, Complete, Abandoned, Blank
<1>4. QED
  BY <1>1, <1>3 DEF Sale!Init

-----------------------------------------------------------------------------
(* The theorems *)

LEMMA SaleInit == Init => SaleInv
<1> SUFFICES ASSUME Init PROVE SaleInv
  OBVIOUS
<1>1. /\ \A o \in Ops : opst[o] = "none"
      /\ \A w \in Workers : wk[w] = Idle
      /\ \A s \in Steps : step[s] = Blank /\ remote[s] \in {"absent", "foreign"}
  BY DEF Init
<1>2. WorkersServe /\ FreshIsCurrent /\ CallsAreMarked /\ GateIsHeld /\ ResultsHold
  BY <1>1 DEF WorkersServe, FreshIsCurrent, CallsAreMarked, GateIsHeld, ResultsHold, Idle, At, AtNode,
              Busy, Called, ChildPcs
<1>3. StepsFollow /\ RowsHold /\ StepChecks /\ UnmarkedIsUntouched /\ PaidIsDelivered /\ AbsenceIsFinal
  BY <1>1, ShapeAssumption DEF StepsFollow, RowsHold, StepChecks, UnmarkedIsUntouched, PaidIsDelivered,
              AbsenceIsFinal, Blank, Forward
<1>4. QED
  BY <1>2, <1>3 DEF SaleInv

LEMMA SaleNext ==
    ASSUME TypeOK, SaleInv, [Next]_vars
    PROVE  TypeOK' /\ SaleInv'
<1>0. WorkersServe /\ ResultsHold
  BY DEF SaleInv
<1>1. CASE UNCHANGED vars
  <2>1. TypeOK'
    BY <1>1 DEF vars, opvars, money, leasevars, world, control, TypeOK
  <2>2. \A v \in Workers : Keeps(v)
    BY <1>1 DEF vars, Keeps
  <2>3. UNCHANGED <<opst, step, remote>>
    BY <1>1 DEF vars, opvars, world
  <2>4. QED
    BY <2>1, <2>2, <2>3, QuietStep
<1>2. ASSUME NEW w \in Workers, Work(w)
      PROVE  TypeOK' /\ SaleInv'
  <2>1. ASSUME NEW o \in Ops,
               \/ Reacquire(w, o) \/ TickFails(w, o) \/ TickPicks(w, o)
               \/ TickCompletes(w, o) \/ TickCompensates(w, o) \/ TickLeaves(w, o)
        PROVE  TypeOK' /\ SaleInv'
    <3>1. TypeOK'
      BY <1>0, <2>1, TypeTables
    <3>2. SaleInv'
      BY <2>1, <3>1, SaleQuiet, SaleGivesUp, SalePicks, SaleSettles
    <3>3. QED
      BY <3>1, <3>2
  <2>2. ASSUME NEW s \in Steps, Dispatch(w, s) \/ Record(w, s)
        PROVE  TypeOK' /\ SaleInv'
    BY <1>0, <2>2, TypeTables, SaleDispatches, SaleRecords
  <2>3. CASE DispatchRefused(w) \/ Refused(w) \/ Release(w)
    BY <1>0, <2>3, TypeTables, SaleQuiet
  <2>4. CASE \/ TakeGate(w) \/ Enter(w) \/ ReadNode(w) \/ Authorise(w) \/ WriteNode(w)
             \/ Verify(w) \/ ChildRefused(w)
    BY <1>0, <2>4, TypeChild, SaleChild
  <2>5. QED
    BY <1>2, <2>1, <2>2, <2>3, <2>4 DEF Work
<1>3. ASSUME NEW w \in Workers, NEW o \in Ops, Prepare(w, o)
      PROVE  TypeOK' /\ SaleInv'
  BY <1>0, <1>3, TypeTables, SalePrepares
<1>4. ASSUME NEW o \in Ops,
             \/ Retry(o) \/ (\E s \in Steps : ForceStep(o, s)) \/ ExpireDead(o) \/ PassDeadline(o)
      PROVE  TypeOK' /\ SaleInv'
  <2>1. CASE Retry(o) \/ ExpireDead(o) \/ PassDeadline(o)
    BY <2>1, TypeOutside, SaleQuiet, SaleGivesUp
  <2>2. CASE \E s \in Steps : ForceStep(o, s)
    BY <2>2, TypeOutside, SaleGivesUp
  <2>3. QED
    BY <1>4, <2>1, <2>2
<1>5. CASE (\E s \in Steps : Due(s)) \/ (\E n \in Nodes : NodeUp(n))
  BY <1>5, TypeOutside, SaleQuiet
<1>6. CASE Disturb
  <2>1. ASSUME NEW w \in Workers, ChildDies(w) \/ TransientConflict(w) \/ Crash(w)
        PROVE  TypeOK' /\ SaleInv'
    BY <1>0, <2>1, TypeChild, SaleChild, TypeTables, SaleQuiet
  <2>2. CASE \/ \E o \in Ops : ExpireBusy(o)
             \/ \E n \in Nodes : NodeDown(n) \/ ToggleEnabled(n) \/ \E e \in Endpoints : MoveEndpoint(n, e)
             \/ ToggleDrain \/ WalletCutover \/ WalletRollback
    BY <2>2, TypeOutside, SaleQuiet
  <2>3. QED
    BY <1>6, <2>1, <2>2 DEF Disturb
<1>7. QED
  BY <1>1, <1>2, <1>3, <1>4, <1>5, <1>6 DEF Next

\* Every reachable state has the types the tables and processes give it, and
\* satisfies the invariant the other theorems rest on.
THEOREM SaleInvariant == Spec => [](TypeOK /\ SaleInv)
<1>1. Init => TypeOK /\ SaleInv
  BY TypeInit, SaleInit
<1>2. TypeOK /\ SaleInv /\ [Next]_vars => (TypeOK /\ SaleInv)'
  BY SaleNext
<1>3. QED
  BY <1>1, <1>2, PTL DEF Spec

\* Types.
THEOREM TypesHold == Spec => []TypeOK
BY SaleInvariant, PTL

\* The CHECK constraints of provisioning_steps are never violated.
THEOREM ChecksHold == Spec => []StepChecks
<1>1. SaleInv => StepChecks
  BY DEF SaleInv
<1>2. QED
  BY <1>1, SaleInvariant, PTL

\* A step never marked attempted left no trace on its node.
THEOREM UnmarkedUntouched == Spec => []UnmarkedIsUntouched
<1>1. SaleInv => UnmarkedIsUntouched
  BY DEF SaleInv
<1>2. QED
  BY <1>1, SaleInvariant, PTL

\* No late child can undo a verified absence.
THEOREM AbsenceStays == Spec => []AbsenceIsFinal
<1>1. SaleInv => AbsenceIsFinal
  BY DEF SaleInv
<1>2. QED
  BY <1>1, SaleInvariant, PTL

\* A completed sale has every resource on its node.
THEOREM PaidDelivered == Spec => []PaidIsDelivered
<1>1. SaleInv => PaidIsDelivered
  BY DEF SaleInv
<1>2. QED
  BY <1>1, SaleInvariant, PTL

\* A refunded sale left nothing on a node: its steps are all removed, those
\* attempted verified absent, and the others were never called.
THEOREM RefundedGone == Spec => []RefundedIsGone
<1>1. TypeOK /\ SaleInv => RefundedIsGone
  <2> SUFFICES ASSUME TypeOK, SaleInv, NEW s \in Steps, opst[OpOf[s]] = "compensated",
                      step[s].outcome # "abandoned"
               PROVE  remote[s] \in {"absent", "foreign"}
    BY DEF RefundedIsGone
  <2>1. step[s].state = "removed"
    BY DEF SaleInv, StepsFollow
  <2>2. CASE step[s].attempted
    BY <2>1, <2>2 DEF SaleInv, StepChecks, AbsenceIsFinal
  <2>3. CASE ~step[s].attempted
    BY <2>3 DEF SaleInv, UnmarkedIsUntouched
  <2>4. QED
    BY <2>2, <2>3
<1>2. QED
  BY <1>1, SaleInvariant, PTL

\* A package sold once per customer is held or bound by one operation at most,
\* and bound exactly when that operation completed; claims and reservations
\* follow their operation whatever its workers do.
THEOREM ClaimsHold == Spec => [](OneTimeClaim /\ LedgerFollows)
<1>1. Init => LedgerFollows /\ OneTimeClaim
  BY LedgerInit
<1>2. TypeOK /\ SaleInv /\ LedgerFollows /\ OneTimeClaim /\ [Next]_vars => LedgerFollows' /\ OneTimeClaim'
  BY LedgerNext
<1>3. QED
  BY <1>1, <1>2, SaleInvariant, PTL DEF Spec

\* The saga implements the atomic sale: through crashes, takeovers, late
\* children and the operator's repairs, what a customer and a node can see of an
\* operation is one sale, delivered whole or refunded whole.
THEOREM SaleIsAtomic == Spec => SaleSpec
<1>1. Init => Sale!Init
  BY SaleStarts
<1>2. /\ TypeOK /\ SaleInv /\ LedgerFollows /\ [Next]_vars
      => [Sale!Next]_(Sale!salevars)
  BY SaleSimulates
<1>3. QED
  BY <1>1, <1>2, SaleInvariant, ClaimsHold, PTL DEF Spec, SaleSpec, Sale!Spec

-----------------------------------------------------------------------------
(* Money *)

\* The operations whose price a payer has parted with, and what they are worth.
Holding(p) == {o \in Ops : res[o][p] \in {"reserved", "captured"}}
PriceOf(p) == [o \in Ops |-> Price[o][p]]
Accounts   == \A p \in Payers : Credit[p] = balance[p] + SumFunctionOnSet(PriceOf(p), Holding(p))

LEMMA PricesAreNumbers ==
    ASSUME NEW p \in Payers, NEW S \in SUBSET Ops
    PROVE  /\ IsFiniteSet(S)
           /\ \A o \in S : PriceOf(p)[o] \in Int /\ PriceOf(p)[o] = Price[o][p]
           /\ SumFunctionOnSet(PriceOf(p), S) \in Int
<1>1. IsFiniteSet(S)
  BY MoneyAssumption, FS_Subset
<1>2. \A o \in S : PriceOf(p)[o] \in Int /\ PriceOf(p)[o] = Price[o][p]
  BY MoneyAssumption DEF PriceOf
<1> QED
  BY <1>1, <1>2, SumOfNumbers

\* One operation more in the sum, or one less.
LEMMA OneOperationMore ==
    ASSUME NEW p \in Payers, NEW S \in SUBSET Ops, NEW o \in Ops \ S
    PROVE  SumFunctionOnSet(PriceOf(p), S \cup {o}) = Price[o][p] + SumFunctionOnSet(PriceOf(p), S)
<1> DEFINE T == S \cup {o}
<1>1. T \in SUBSET Ops /\ o \in T /\ T \ {o} = S
  OBVIOUS
<1>2. /\ IsFiniteSet(T)
      /\ \A q \in T : PriceOf(p)[q] \in Int /\ PriceOf(p)[q] = Price[q][p]
  BY <1>1, PricesAreNumbers
<1> HIDE DEF T
<1>3. SumFunctionOnSet(PriceOf(p), T) = PriceOf(p)[o] + SumFunctionOnSet(PriceOf(p), T \ {o})
  BY <1>1, <1>2, SumOfAny
<1> USE DEF T
<1> QED
  BY <1>1, <1>2, <1>3

\* T1 takes the price, T_final keeps it, T_comp gives it back.
LEMMA AccountsSettle ==
    ASSUME TypeOK, LedgerFollows, Accounts, NEW w \in Workers, NEW o \in Ops,
           Prepare(w, o) \/ TickCompletes(w, o) \/ TickCompensates(w, o)
    PROVE  Accounts'
<1> SUFFICES ASSUME NEW p \in Payers
             PROVE  Credit[p] = balance'[p] + SumFunctionOnSet(PriceOf(p), Holding(p)')
  BY DEF Accounts, PriceOf
<1> DEFINE H == Holding(p)
           rest == H \ {o}
<1>0. /\ Price[o][p] \in Nat /\ Credit[p] \in Nat /\ balance[p] \in Nat
      /\ Credit[p] = balance[p] + SumFunctionOnSet(PriceOf(p), H)
      /\ H \in SUBSET Ops /\ rest \in SUBSET Ops /\ o \in Ops \ rest
  BY MoneyAssumption DEF TypeOK, Accounts, Holding
<1>1. /\ \A q \in Ops \ {o} : res'[q] = res[q]
      /\ res'[o][p] = IF Price[o][p] = 0 THEN "none"
                      ELSE IF Prepare(w, o) THEN "reserved"
                      ELSE IF TickCompletes(w, o) THEN "captured" ELSE "released"
      /\ \/ Prepare(w, o) /\ opst[o] = "none"
         \/ TickCompletes(w, o) /\ ~Prepare(w, o) /\ InFlight(o)
         \/ TickCompensates(w, o) /\ ~Prepare(w, o) /\ ~TickCompletes(w, o) /\ InFlight(o)
  <2>1. /\ Prepare(w, o) => opst[o] = "none"
        /\ TickCompletes(w, o) => InFlight(o)
    BY DEF Prepare, TickCompletes, Finishable, InFlight, Forward, Terminal
  <2>2. /\ \A q \in Ops \ {o} : res'[q] = res[q]
        /\ \/ Prepare(w, o) /\ opst[o] = "none"
           \/ TickCompletes(w, o) /\ InFlight(o)
           \/ TickCompensates(w, o) /\ InFlight(o)
        /\ res'[o][p] = IF Price[o][p] = 0 THEN "none"
                        ELSE IF Prepare(w, o) THEN "reserved"
                        ELSE IF TickCompletes(w, o) THEN "captured" ELSE "released"
    BY Settling
  <2> QED
    BY <2>1, <2>2
<1>2. res[o][p] = IF opst[o] = "none" \/ Price[o][p] = 0 THEN "none"
                  ELSE SettledAs(o, "reserved", "captured", "released")
  BY DEF LedgerFollows
<1>3. Holding(p)' \ {o} = rest /\ Holding(p)' \in SUBSET Ops
  BY <1>1 DEF Holding
<1>4. SumFunctionOnSet(PriceOf(p), rest \cup {o}) = Price[o][p] + SumFunctionOnSet(PriceOf(p), rest)
  BY <1>0, OneOperationMore
<1>5. SumFunctionOnSet(PriceOf(p), rest) \in Int
  BY <1>0, PricesAreNumbers
<1>6. CASE Price[o][p] = 0
  <2>1. Holding(p)' = rest /\ H = rest
    BY <1>1, <1>2, <1>3, <1>6 DEF Holding
  <2>2. balance'[p] = balance[p]
    <3>1. balance'[p] = balance[p] - Price[o][p] \/ balance'[p] = balance[p] \/ balance'[p] = balance[p] + 0
                \/ balance'[p] = balance[p] + Price[o][p]
      BY <1>1 DEF Prepare, TickCompletes, TickCompensates
    <3> QED
      BY <1>0, <1>6, <3>1
  <2> QED
    BY <1>0, <2>1, <2>2
<1>7. CASE Price[o][p] # 0 /\ Prepare(w, o)
  <2>0. opst[o] = "none" /\ res'[o][p] = "reserved"
    BY <1>1, <1>7 DEF Prepare
  <2>1. H = rest /\ Holding(p)' = rest \cup {o}
    BY <1>2, <1>3, <2>0 DEF Holding
  <2>2. balance'[p] = balance[p] - Price[o][p]
    BY <1>7 DEF Prepare
  <2> QED
    BY <1>0, <1>4, <1>5, <2>1, <2>2
<1>8. CASE Price[o][p] # 0 /\ TickCompletes(w, o) /\ ~Prepare(w, o)
  <2>1. H = rest \cup {o} /\ Holding(p)' = rest \cup {o}
    BY <1>1, <1>2, <1>3, <1>8 DEF Holding, InFlight, SettledAs, Terminal
  <2>2. balance'[p] = balance[p]
    BY <1>8 DEF TickCompletes
  <2> QED
    BY <1>0, <2>1, <2>2
<1>9. CASE Price[o][p] # 0 /\ TickCompensates(w, o) /\ ~Prepare(w, o) /\ ~TickCompletes(w, o)
  <2>1. res[o][p] = "reserved" /\ res'[o][p] = "released"
    BY <1>1, <1>2, <1>9 DEF InFlight, SettledAs, Terminal
  <2>2. H = rest \cup {o} /\ Holding(p)' = rest
    BY <1>3, <2>1 DEF Holding
  <2>3. balance'[p] = balance[p] + Price[o][p]
    BY <1>9, <2>1 DEF TickCompensates
  <2>4. SumFunctionOnSet(PriceOf(p), H) = Price[o][p] + SumFunctionOnSet(PriceOf(p), Holding(p)')
    BY <1>4, <2>2
  <2>5. SumFunctionOnSet(PriceOf(p), Holding(p)') \in Int
    BY <1>5, <2>2
  <2> HIDE DEF H, rest
  <2> QED
    BY <1>0, <2>3, <2>4, <2>5
<1> QED
  BY <1>1, <1>6, <1>7, <1>8, <1>9

LEMMA AccountsNext ==
    ASSUME TypeOK, SaleInv, LedgerFollows, Accounts, [Next]_vars
    PROVE  Accounts'
<1>1. CASE QuietLedger
  BY <1>1 DEF QuietLedger, money, Accounts, Holding, PriceOf
<1>2. CASE \E w \in Workers, o \in Ops : Prepare(w, o) \/ TickCompletes(w, o) \/ TickCompensates(w, o)
  BY <1>2, AccountsSettle
<1>3. CASE \E o \in Ops, s \in Steps : ForceStep(o, s)
  BY <1>1, <1>3, ForcedGivesUp
<1> QED
  BY <1>1, <1>2, <1>3, StepsOfTheSale

\* Whatever workers crash, race or repeat, an operation's payers are settled
\* together and as it ended, and a payer's balance and what it parted with add
\* up to its initial credit.
THEOREM MoneyAddsUp == Spec => []MoneySettles
<1>1. Init => Accounts
  <2> SUFFICES ASSUME Init, NEW p \in Payers
               PROVE  Credit[p] = balance[p] + SumFunctionOnSet(PriceOf(p), Holding(p))
    BY DEF Accounts
  <2>1. balance[p] = Credit[p] /\ Holding(p) = {}
    BY DEF Init, Holding
  <2>2. SumFunctionOnSet(PriceOf(p), {}) = 0
    BY SumOfNone
  <2> QED
    BY <2>1, <2>2, MoneyAssumption
<1>2. TypeOK /\ SaleInv /\ LedgerFollows /\ Accounts /\ [Next]_vars => Accounts'
  BY AccountsNext
<1>3. TypeOK /\ LedgerFollows /\ Accounts => MoneySettles
  <2> SUFFICES ASSUME TypeOK, LedgerFollows, Accounts PROVE MoneySettles
    OBVIOUS
  <2>1. ASSUME NEW o \in Ops, NEW p \in Payers, res[o][p] # "none"
        PROVE  res[o][p] = CASE opst[o] = "completed"   -> "captured"
                             [] opst[o] = "compensated" -> "released"
                             [] OTHER                   -> "reserved"
    BY <2>1 DEF LedgerFollows, SettledAs
  <2> QED
    BY <2>1 DEF MoneySettles, Accounts, PriceOf, Holding
<1> QED
  BY <1>1, <1>2, <1>3, SaleInvariant, ClaimsHold, PTL DEF Spec
=============================================================================
