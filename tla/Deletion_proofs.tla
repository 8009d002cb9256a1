-------------------------- MODULE Deletion_proofs --------------------------
(***************************************************************************)
(* Theorems about Deletion, for any number of deletions, connections,      *)
(* workers and nodes.                                                      *)
(***************************************************************************)
EXTENDS Deletion, WellFoundedInduction, TLAPS

USE DelAssumption

-----------------------------------------------------------------------------
(* The inductive invariant *)

Removal == [state : {"none", "staged", "remote_calling", "removed", "cleanup_required"},
            attempted : BOOLEAN, due : BOOLEAN,
            outcome : {"none", "unknown", "verified_absent", "unverified", "abandoned"}]
Worker == [pc : DelPcs, op : Dels \cup {NoDel}, conn : Conns \cup {NoConn},
           fresh : BOOLEAN, result : {"none", "absent", "conflict", "unknown"}]

DopType   == [Dels -> {"none", "prepared", "provisioning", "cleanup_required", "completed"}]
FrozenType == [Dels -> [print : [Conns -> 0..2], purchases : SUBSET Purchases]]
RemType   == [Dels -> [Conns -> Removal]]
ConnType  == [Conns -> [there : BOOLEAN, enabled : BOOLEAN, print : 0..1]]
CustType  == [there : BOOLEAN, blocked : BOOLEAN]
LeaseType == [Dels -> DelWorkers \cup {NoDelWorker}]
WorkerType == [DelWorkers -> Worker]
GateType  == [DelNodes -> DelWorkers \cup {NoDelWorker}]
WireType  == [Conns -> {"present", "absent", "foreign"}]
PollType  == [pc : {"idle", "pushing"}, todo : [Conns -> {"enable", "disable", "leave"}], applied : SUBSET Conns]

\* DelTypeOK, with the functions and records whose values it types.
DelTyped ==
    /\ plan \in Plans /\ dop \in DopType /\ frozen \in FrozenType /\ rem \in RemType
    /\ conn \in ConnType /\ sold \in SUBSET Purchases /\ cust \in CustType
    /\ dlease \in LeaseType /\ dlive \in [Dels -> BOOLEAN]
    /\ clease \in DelWorkers \cup {NoDelWorker} /\ clive \in BOOLEAN
    /\ dw \in WorkerType /\ ngate \in GateType /\ wire \in WireType /\ nup \in [DelNodes -> BOOLEAN]
    /\ poll \in PollType /\ want \in [Conns -> BOOLEAN] /\ ddrain \in BOOLEAN

\* The removals are those of the scope T1 froze, and a proved or abandoned one
\* is over; nothing is called before its marker is committed.
RemovalsOfScope(d) ==
    /\ dop[d] = "none" => Scope(d) = {}
    /\ \A c \in Conns : /\ c \in Scope(d) <=> rem[d][c].state # "none"
                        /\ rem[d][c].state = "none" => rem[d][c].outcome = "none"
                        /\ rem[d][c].outcome \in {"abandoned", "verified_absent"} => rem[d][c].state = "removed"
                        /\ rem[d][c].state = "remote_calling" => rem[d][c].attempted /\ dop[d] # "prepared"

CarryPcs == {"picked", "dispatching", "done"} \cup DelChildPcs
GatedPcs == {"gated", "writing", "authorised", "verify"}

\* A worker carries the first connection of its deletion that was not removed.
CarriesNext(w) ==
    LET d == dw[w].op  c == dw[w].conn IN
    /\ ~DelAt(w, "idle") => d \in Dels
    /\ DelAt(w, "done") => dw[w].result # "none"
    /\ dw[w].pc \in CarryPcs =>
         /\ c \in Scope(d) \ PppConns
         /\ \A e \in Scope(d) : ConnOrder[e] < ConnOrder[c] => rem[d][e].state = "removed"

\* A fresh worker saw the removal as it is.
FreshSees(w) ==
    LET d == dw[w].op  c == dw[w].conn IN
    dw[w].fresh =>
        /\ dw[w].pc \in CarryPcs
        /\ dw[w].pc \in CarryPcs => rem[d][c].state # "removed"
        /\ dw[w].pc \in DelChildPcs \cup {"done"} => Marked(d, c)

\* A child that passed the gate holds it.
HoldsGate(w) == dw[w].pc \in GatedPcs => ngate[ConnNode[dw[w].conn]] = w

\* A child about to write does so under the marker, fresh or not; who could
\* overwrite the marker has lost its lease.
WritesUnderMarker(w) ==
    DelAt(w, "authorised") =>
        /\ Marked(dw[w].op, dw[w].conn)
        /\ \A v \in DelWorkers \ {w} :
             DelAt(v, "done") /\ dw[v].op = dw[w].op /\ dw[v].conn = dw[w].conn /\ dw[v].result # "unknown" =>
                 dlease[dw[v].op] # v

DelOrder ==
    /\ \A d \in Dels : RemovalsOfScope(d)
    /\ \A w \in DelWorkers : CarriesNext(w) /\ FreshSees(w) /\ HoldsGate(w) /\ WritesUnderMarker(w)

DelIInv == DelTyped /\ AsksWhileDirty /\ DelOrder

\* The child found the client gone, and nothing has been recorded yet.
FoundAbsent(w) == DelAt(w, "verify") \/ (DelAt(w, "done") /\ dw[w].result = "absent")

\* What was found or made absent on its node is not there again.
StaysAway ==
    /\ poll.pc # "idle" => Allowed("poll")
    /\ \A c \in plan.has :
         /\ c \in PppConns => wire[c] # "present"
         /\ \A d \in Dels : rem[d][c].outcome = "verified_absent" => wire[c] # "present"
         /\ \A w \in DelWorkers : FoundAbsent(w) /\ dw[w].conn = c => wire[c] # "present"

GoneIInv == StaysAway /\ GoneFromTheNode
-----------------------------------------------------------------------------
(* The operators *)

\* A deletion with something to remove has a first connection to remove.
LEMMA NextIsFirst ==
    ASSUME NEW d \in Dels, Pending(d) # {}
    PROVE  NextOf(d) \in Pending(d) /\ \A e \in Pending(d) : ConnOrder[NextOf(d)] <= ConnOrder[e]
<1> DEFINE Ids == {ConnOrder[c] : c \in Pending(d)}
           Less == OpToRel(<, Nat)
<1>1. Pending(d) \subseteq Conns
  BY DEF Pending, Scope
<1>2. Ids \subseteq Nat /\ Ids # {}
  BY <1>1
<1>3. \A i, j \in Nat : i < j => <<i, j>> \in Less
  BY DEF OpToRel
<1>4. IsWellFoundedOn(Less, Nat)
  BY NatLessThanWellFounded
<1>5. PICK i \in Ids : \A j \in Ids : ~(<<j, i>> \in Less)
  <2> HIDE DEF Less, Ids
  <2> QED
    BY <1>2, <1>4, WFMin
<1>6. \A j \in Ids : i <= j
  <2> HIDE DEF Less, Ids
  <2>1. \A j \in Ids : ~(j < i)
    BY <1>2, <1>3, <1>5
  <2> QED
    BY <1>2, <1>5, <2>1
<1>7. PICK c \in Pending(d) : ConnOrder[c] = i
  OBVIOUS
<1>8. \A e \in Pending(d) : ConnOrder[c] <= ConnOrder[e]
  BY <1>6, <1>7
<1> QED
  BY <1>8 DEF NextOf

\* What becomes of another worker when an operation and its steps S are written.
Outdated(v, d, S) ==
    /\ dw'[v].pc = dw[v].pc /\ dw'[v].op = dw[v].op /\ dw'[v].conn = dw[v].conn /\ dw'[v].result = dw[v].result
    /\ dw'[v].fresh =>
         dw[v].fresh /\ ~(dw[v].op = d /\ (dw[v].conn \in S \/ dw[v].pc \in DelChildPcs \cup {"done"}))

\* What a write does to the workers: the writer goes on, the others that pinned

\* the operation or the step are stale.
LEMMA OthersStale ==
    ASSUME dw \in WorkerType, NEW x \in DelWorkers \cup {NoDelWorker}, NEW d, NEW S, NEW rec \in Worker,
           dw' = DelWritten(x, d, S, rec)
    PROVE  /\ dw' \in WorkerType
           /\ x \in DelWorkers => dw'[x] = rec
           /\ \A v \in DelWorkers \ {x} : Outdated(v, d, S)
<1> USE DEF WorkerType
<1>1. ASSUME NEW v \in DelWorkers \ {x}
      PROVE  dw'[v] = dw[v] \/ dw'[v] = [dw[v] EXCEPT !.fresh = FALSE]
  BY DEF DelWritten
<1>2. ASSUME NEW v \in DelWorkers PROVE [dw[v] EXCEPT !.fresh = FALSE] \in Worker
  BY DEF Worker
<1>3. dw' \in [DelWorkers -> Worker]
  BY <1>1, <1>2 DEF DelWritten
<1>4. x \in DelWorkers => dw'[x] = rec
  BY DEF DelWritten
<1>5. ASSUME NEW v \in DelWorkers \ {x} PROVE Outdated(v, d, S)
  BY DEF DelWritten, DelAt, Worker, Outdated
<1> QED
  BY <1>3, <1>4, <1>5

\* The records a worker moves on to.
Steps(w, pc) == [dw[w] EXCEPT !.pc = pc]
Picks(w, c) == [dw[w] EXCEPT !.pc = "picked", !.conn = c, !.fresh = TRUE]
Ends(w, result) == [dw[w] EXCEPT !.pc = "done", !.result = result]
Begins(pc, d) == [DelIdle EXCEPT !.pc = pc, !.op = d]

LEMMA IdleRecord == DelIdle \in Worker /\ DelIdle.pc = "idle" /\ ~DelIdle.fresh
  BY DEF DelIdle, Worker, DelPcs

LEMMA LeaveRecord ==
    ASSUME dw \in WorkerType, NEW w \in DelWorkers
    PROVE  DelLeave(w) \in Worker /\ DelLeave(w).pc = "releasing" /\ DelLeave(w).op = dw[w].op /\ ~DelLeave(w).fresh
<1>1. dw[w] \in Worker
  BY DEF WorkerType
<1>2. DelLeave(w) \in Worker
  BY <1>1 DEF DelLeave, Worker, DelPcs
<1> QED
  BY <1>1, <1>2 DEF DelLeave, Worker

LEMMA StepRecord ==
    ASSUME dw \in WorkerType, NEW w \in DelWorkers, NEW pc \in DelPcs
    PROVE  /\ Steps(w, pc) \in Worker /\ Steps(w, pc).pc = pc /\ Steps(w, pc).op = dw[w].op
           /\ Steps(w, pc).conn = dw[w].conn /\ Steps(w, pc).fresh = dw[w].fresh /\ Steps(w, pc).result = dw[w].result
  BY DEF WorkerType, Steps, Worker

LEMMA PickRecord ==
    ASSUME dw \in WorkerType, NEW w \in DelWorkers, NEW c \in Conns
    PROVE  Picks(w, c) \in Worker /\ Picks(w, c).pc = "picked" /\ Picks(w, c).op = dw[w].op /\ Picks(w, c).conn = c
<1>1. dw[w] \in Worker
  BY DEF WorkerType
<1>2. Picks(w, c) \in Worker
  BY <1>1 DEF Picks, Worker, DelPcs
<1> QED
  BY <1>1, <1>2 DEF Picks, Worker

LEMMA EndRecord ==
    ASSUME dw \in WorkerType, NEW w \in DelWorkers, NEW result \in {"absent", "conflict", "unknown"}
    PROVE  /\ Ends(w, result) \in Worker /\ Ends(w, result).pc = "done" /\ Ends(w, result).op = dw[w].op
           /\ Ends(w, result).conn = dw[w].conn /\ Ends(w, result).fresh = dw[w].fresh
           /\ Ends(w, result).result = result
<1>1. dw[w] \in Worker
  BY DEF WorkerType
<1>2. Ends(w, result) \in Worker
  BY <1>1 DEF Ends, Worker, DelPcs
<1> QED
  BY <1>1, <1>2 DEF Ends, Worker

LEMMA BeginRecord ==
    ASSUME NEW pc \in DelPcs, NEW d \in Dels
    PROVE  Begins(pc, d) \in Worker /\ Begins(pc, d).pc = pc /\ Begins(pc, d).op = d /\ ~Begins(pc, d).fresh
<1>1. Begins(pc, d) \in Worker /\ Begins(pc, d).pc = pc /\ Begins(pc, d).op = d /\ Begins(pc, d).fresh = DelIdle.fresh
  BY IdleRecord DEF Begins, Worker
<1> QED
  BY <1>1, IdleRecord

\* One worker moves on.
Moves(w, rec) == dw' \in WorkerType /\ dw'[w] = rec /\ \A v \in DelWorkers \ {w} : dw'[v] = dw[v]

LEMMA OneMoves ==
    ASSUME dw \in WorkerType, NEW w \in DelWorkers, NEW rec \in Worker, dw' = [dw EXCEPT ![w] = rec]
    PROVE  Moves(w, rec)
  BY DEF Moves, WorkerType

\* One removal is rewritten.
Rewrites(d, c, r) ==
    /\ rem' \in RemType /\ rem'[d][c] = r
    /\ \A e \in Dels, b \in Conns : e # d \/ b # c => rem'[e][b] = rem[e][b]

LEMMA OneRewrites ==
    ASSUME rem \in RemType, NEW d \in Dels, NEW c \in Conns, NEW r \in Removal, rem' = [rem EXCEPT ![d][c] = r]
    PROVE  Rewrites(d, c, r)
  BY DEF Rewrites, RemType

\* What the writes make of a removal.
LEMMA RemovalRecords ==
    ASSUME NEW r \in Removal
    PROVE  /\ MarkRemoval(r) \in Removal /\ MarkRemoval(r).state = "remote_calling" /\ MarkRemoval(r).attempted
           /\ MarkRemoval(r).outcome = "none"
           /\ GivenUp(r) \in Removal /\ GivenUp(r).state = "removed" /\ GivenUp(r).outcome = "abandoned"
           /\ RemovalRecorded(r, "absent") \in Removal /\ RemovalRecorded(r, "absent").state = "removed"
           /\ RemovalRecorded(r, "absent").outcome = "verified_absent"
           /\ RemovalRecorded(r, "conflict") \in Removal /\ RemovalRecorded(r, "conflict").state = "cleanup_required"
           /\ RemovalRecorded(r, "conflict").outcome = "unverified"
           /\ RemovalRecorded(r, "unknown") \in Removal /\ RemovalRecorded(r, "unknown").state = r.state
           /\ RemovalRecorded(r, "unknown").outcome = "unknown" /\ RemovalRecorded(r, "unknown").attempted = r.attempted
           /\ [r EXCEPT !.state = "removed"] \in Removal /\ [r EXCEPT !.state = "removed"].outcome = r.outcome
           /\ [r EXCEPT !.due = TRUE] \in Removal /\ [r EXCEPT !.due = TRUE].state = r.state
           /\ [r EXCEPT !.due = TRUE].outcome = r.outcome /\ [r EXCEPT !.due = TRUE].attempted = r.attempted
           /\ Staged \in Removal /\ Staged.state = "staged" /\ Staged.outcome = "none"
           /\ NoRemoval \in Removal /\ NoRemoval.state = "none" /\ NoRemoval.outcome = "none"
<1> USE DEF Removal
<1>1. /\ MarkRemoval(r) \in Removal /\ MarkRemoval(r).state = "remote_calling" /\ MarkRemoval(r).attempted
      /\ MarkRemoval(r).outcome = "none"
  BY DEF MarkRemoval
<1>2. GivenUp(r) \in Removal /\ GivenUp(r).state = "removed" /\ GivenUp(r).outcome = "abandoned"
  BY DEF GivenUp
<1>3. /\ RemovalRecorded(r, "absent") \in Removal /\ RemovalRecorded(r, "absent").state = "removed"
      /\ RemovalRecorded(r, "absent").outcome = "verified_absent"
  BY DEF RemovalRecorded
<1>4. /\ RemovalRecorded(r, "conflict") \in Removal /\ RemovalRecorded(r, "conflict").state = "cleanup_required"
      /\ RemovalRecorded(r, "conflict").outcome = "unverified"
  BY DEF RemovalRecorded
<1>5. /\ RemovalRecorded(r, "unknown") \in Removal /\ RemovalRecorded(r, "unknown").state = r.state
      /\ RemovalRecorded(r, "unknown").outcome = "unknown" /\ RemovalRecorded(r, "unknown").attempted = r.attempted
  BY DEF RemovalRecorded
<1>6. [r EXCEPT !.state = "removed"] \in Removal /\ [r EXCEPT !.state = "removed"].outcome = r.outcome
  OBVIOUS
<1>7. /\ [r EXCEPT !.due = TRUE] \in Removal /\ [r EXCEPT !.due = TRUE].state = r.state
      /\ [r EXCEPT !.due = TRUE].outcome = r.outcome /\ [r EXCEPT !.due = TRUE].attempted = r.attempted
  OBVIOUS
<1>8. /\ Staged \in Removal /\ Staged.state = "staged" /\ Staged.outcome = "none"
      /\ NoRemoval \in Removal /\ NoRemoval.state = "none" /\ NoRemoval.outcome = "none"
  BY DEF Staged, NoRemoval
<1> QED
  BY <1>1, <1>2, <1>3, <1>4, <1>5, <1>6, <1>7, <1>8
-----------------------------------------------------------------------------
(* A worker moves, and nothing is written *)

\* What the next record of a worker must fit: the scope, the removals, the gates
\* and the leases.
Fits(w, rec) ==
    /\ rec.pc # "idle" => rec.op \in Dels
    /\ rec.pc = "done" => rec.result # "none"
    /\ rec.pc \in CarryPcs =>
         /\ rec.conn \in Scope(rec.op) \ PppConns
         /\ \A e \in Scope(rec.op) : ConnOrder[e] < ConnOrder[rec.conn] => rem[rec.op][e].state = "removed"
    /\ rec.fresh => /\ rec.pc \in CarryPcs /\ rem[rec.op][rec.conn].state # "removed"
                    /\ rec.pc \in DelChildPcs \cup {"done"} => Marked(rec.op, rec.conn)
    /\ rec.pc \in GatedPcs => ngate'[ConnNode[rec.conn]] = w
    /\ rec.pc = "authorised" => Marked(rec.op, rec.conn) /\ dlease'[rec.op] = w
    /\ rec.pc = "done" /\ rec.result # "unknown" => dw[w].pc \in GatedPcs /\ rec.conn = dw[w].conn

\* A worker that moves to a record that fits keeps the invariant, if it touches

\* only its own gates and leases.
LEMMA MoveKeeps ==
    ASSUME DelIInv, NEW w \in DelWorkers, NEW rec \in Worker, Moves(w, rec), Fits(w, rec),
           UNCHANGED <<plan, dop, frozen, rem, delrows, nup, poll, want, ddrain>>,
           dlease' \in LeaseType, dlive' \in [Dels -> BOOLEAN], clease' \in DelWorkers \cup {NoDelWorker}, clive' \in BOOLEAN,
           ngate' \in GateType, wire' \in WireType,
           \A n \in DelNodes : ngate[n] \in DelWorkers \ {w} => ngate'[n] = ngate[n],
           \A d \in Dels, v \in DelWorkers \ {w} : dlease'[d] = v => dlease[d] = v
    PROVE  DelIInv'
<1>1. DelTyped'
  BY DEF DelIInv, DelTyped, Moves, delrows
<1>2. AsksWhileDirty' /\ \A d \in Dels : RemovalsOfScope(d)'
  BY DEF DelIInv, DelOrder, AsksWhileDirty, Dirty, RemovalsOfScope, Scope
<1>3. CarriesNext(w)' /\ FreshSees(w)' /\ HoldsGate(w)'
  BY DEF Fits, Moves, CarriesNext, FreshSees, HoldsGate, DelAt, Marked, Scope
<1>4. ASSUME NEW v \in DelWorkers \ {w} PROVE CarriesNext(v)' /\ FreshSees(v)'
  <2>1. CarriesNext(v) /\ FreshSees(v) /\ dw'[v] = dw[v]
    BY DEF DelIInv, DelOrder, Moves
  <2> QED
    BY <2>1 DEF CarriesNext, FreshSees, DelAt, Marked, Scope
<1>5. ASSUME NEW v \in DelWorkers, dw[v].pc \in GatedPcs
      PROVE  /\ dw[v].op \in Dels /\ dw[v].conn \in Conns /\ ConnNode[dw[v].conn] \in DelNodes
             /\ ngate[ConnNode[dw[v].conn]] = v
  BY <1>5 DEF DelIInv, DelOrder, CarriesNext, HoldsGate, GatedPcs, CarryPcs, DelChildPcs, Scope, DelAt
<1>6. ASSUME NEW v \in DelWorkers \ {w} PROVE HoldsGate(v)'
  <2>1. HoldsGate(v) /\ dw'[v] = dw[v]
    BY DEF DelIInv, DelOrder, Moves
  <2> QED
    BY <1>5, <2>1 DEF HoldsGate
<1>7. ASSUME NEW v \in DelWorkers, DelAt(v, "authorised")', NEW u \in DelWorkers \ {v},
             DelAt(u, "done")' /\ dw'[u].op = dw'[v].op /\ dw'[u].conn = dw'[v].conn /\ dw'[u].result # "unknown"
      PROVE  dlease'[dw'[u].op] # u
  <2>1. CASE v = w
    BY <1>7, <2>1 DEF Moves, Fits, DelAt
  <2>2. CASE v # w /\ u = w
    <3>1. dw[v].pc \in GatedPcs /\ dw[v].conn = dw[w].conn /\ dw[w].pc \in GatedPcs
      BY <1>7, <2>2 DEF Moves, Fits, DelAt, GatedPcs
    <3> QED
      BY <1>5, <2>2, <3>1
  <2>3. CASE v # w /\ u # w
    <3>1. WritesUnderMarker(v) /\ dw'[v] = dw[v] /\ dw'[u] = dw[u] /\ dw[v].op \in Dels
      BY <1>5, <1>7, <2>3 DEF DelIInv, DelOrder, Moves, DelAt, GatedPcs
    <3> QED
      BY <1>7, <2>3, <3>1 DEF WritesUnderMarker, DelAt
  <2> QED
    BY <2>1, <2>2, <2>3
<1>8. ASSUME NEW v \in DelWorkers, DelAt(v, "authorised")' PROVE Marked(dw[v].op, dw[v].conn)'
  <2>1. CASE v = w
    BY <1>8, <2>1 DEF Moves, Fits, DelAt, Marked
  <2>2. CASE v # w
    BY <1>8, <2>2 DEF DelIInv, DelOrder, WritesUnderMarker, Moves, DelAt, Marked
  <2> QED
    BY <2>1, <2>2
<1>9. ASSUME NEW v \in DelWorkers PROVE WritesUnderMarker(v)'
  BY <1>7, <1>8 DEF WritesUnderMarker
<1> QED
  BY <1>1, <1>2, <1>3, <1>4, <1>6, <1>9 DEF DelIInv, DelOrder

\* What a worker in flight is known to do.
LEMMA Carrying ==
    ASSUME DelIInv, NEW w \in DelWorkers, dw[w].pc \in CarryPcs
    PROVE  /\ dw[w].op \in Dels /\ dw[w].conn \in Conns /\ dw[w].conn \in Scope(dw[w].op) \ PppConns
           /\ \A e \in Scope(dw[w].op) : ConnOrder[e] < ConnOrder[dw[w].conn] => rem[dw[w].op][e].state = "removed"
           /\ ConnNode[dw[w].conn] \in DelNodes
           /\ dw[w].fresh => rem[dw[w].op][dw[w].conn].state # "removed"
           /\ dw[w].fresh /\ dw[w].pc \in DelChildPcs \cup {"done"} => Marked(dw[w].op, dw[w].conn)
           /\ dw[w].pc \in GatedPcs => ngate[ConnNode[dw[w].conn]] = w
  BY DEF DelIInv, DelOrder, CarriesNext, FreshSees, HoldsGate, Scope, DelAt, CarryPcs, DelChildPcs

\* A worker that holds the operation's lease asks for the next removal.
LEMMA PickKeeps ==
    ASSUME DelIInv, NEW w \in DelWorkers, NEW d \in Dels, TickPicksRemoval(w, d)
    PROVE  DelIInv'
<1> DEFINE rec == Picks(w, NextOf(d))
<1>1. dw \in WorkerType /\ dlease \in LeaseType /\ dlive \in [Dels -> BOOLEAN] /\ ngate \in GateType /\ wire \in WireType
      /\ clease \in DelWorkers \cup {NoDelWorker} /\ clive \in BOOLEAN
  BY DEF DelIInv, DelTyped
<1>2. NextOf(d) \in Pending(d) /\ \A e \in Pending(d) : ConnOrder[NextOf(d)] <= ConnOrder[e]
  BY NextIsFirst DEF TickPicksRemoval
<1>3. NextOf(d) \in Scope(d) \ PppConns /\ NextOf(d) \in Conns /\ rem[d][NextOf(d)].state # "removed"
  BY <1>2 DEF TickPicksRemoval, Pending, Scope
<1>4. rec \in Worker /\ rec.pc = "picked" /\ rec.op = d /\ rec.conn = NextOf(d)
  BY <1>1, <1>3, PickRecord DEF TickPicksRemoval, Ticking, DelPcs
<1>5. \A e \in Scope(d) : ConnOrder[e] < ConnOrder[NextOf(d)] => rem[d][e].state = "removed"
  <2>1. \A e \in Conns : ConnOrder[e] \in Nat
    OBVIOUS
  <2> QED
    BY <1>2, <1>3, <2>1 DEF Pending, Scope
<1>6. dw' = [dw EXCEPT ![w] = rec]
  BY DEF TickPicksRemoval, Picks
<1> HIDE DEF rec
<1>7. Moves(w, rec)
  BY <1>1, <1>4, <1>6, OneMoves
<1>8. Fits(w, rec)
  BY <1>3, <1>4, <1>5 DEF Fits, CarryPcs, DelChildPcs, GatedPcs
<1> QED
  BY <1>1, <1>4, <1>7, <1>8, MoveKeeps DEF TickPicksRemoval, delrows, dleases, dworld

\* A worker takes the leases, or leaves.
LEMMA IdleKeeps ==
    ASSUME DelIInv, NEW w \in DelWorkers,
           \/ \E d \in Dels : ReacquireDeletion(w, d) \/ TickRefuses(w, d)
           \/ LeaveRefused(w) \/ LockConflict(w) \/ ReleaseLeases(w) \/ WorkerCrash(w)
    PROVE  DelIInv'
<1>1. dw \in WorkerType /\ dlease \in LeaseType /\ dlive \in [Dels -> BOOLEAN] /\ ngate \in GateType /\ wire \in WireType
      /\ clease \in DelWorkers \cup {NoDelWorker} /\ clive \in BOOLEAN
  BY DEF DelIInv, DelTyped
<1>2. ASSUME NEW d \in Dels, ReacquireDeletion(w, d) PROVE DelIInv'
  <2> DEFINE rec == Begins("ticking", d)
  <2>1. rec \in Worker /\ rec.pc = "ticking" /\ rec.op = d /\ ~rec.fresh
    BY BeginRecord DEF DelPcs
  <2>2. dw' = [dw EXCEPT ![w] = rec]
    BY <1>2 DEF ReacquireDeletion, Begins
  <2> HIDE DEF rec
  <2>3. Moves(w, rec)
    BY <1>1, <2>1, <2>2, OneMoves
  <2>4. Fits(w, rec)
    BY <2>1 DEF Fits, CarryPcs, DelChildPcs, GatedPcs
  <2>5. dlease' \in LeaseType /\ dlive' \in [Dels -> BOOLEAN] /\ \A e \in Dels, v \in DelWorkers \ {w} : dlease'[e] = v => dlease[e] = v
    BY <1>1, <1>2 DEF ReacquireDeletion, LeaseType
  <2> QED
    BY <1>1, <1>2, <2>1, <2>3, <2>4, <2>5, MoveKeeps DEF ReacquireDeletion, delrows, dworld
<1>3. ASSUME (\E d \in Dels : TickRefuses(w, d)) \/ LeaveRefused(w) \/ LockConflict(w) PROVE DelIInv'
  <2>1. ~DelAt(w, "idle") /\ dw' = [dw EXCEPT ![w] = DelLeave(w)]
    BY <1>3 DEF TickRefuses, Ticking, LeaveRefused, LockConflict, DelAt
  <2>2. dw[w].op \in Dels
    BY <2>1 DEF DelIInv, DelOrder, CarriesNext
  <2>3. DelLeave(w) \in Worker /\ DelLeave(w).pc = "releasing" /\ DelLeave(w).op = dw[w].op /\ ~DelLeave(w).fresh
    BY <1>1, <2>2, LeaveRecord
  <2>4. Moves(w, DelLeave(w))
    BY <1>1, <2>1, <2>3, OneMoves
  <2>5. Fits(w, DelLeave(w))
    BY <2>2, <2>3 DEF Fits, CarryPcs, DelChildPcs, GatedPcs
  <2> QED
    BY <1>1, <1>3, <2>3, <2>4, <2>5, MoveKeeps
       DEF TickRefuses, LeaveRefused, LockConflict, DelUnmoved, delrows, dleases, dworld
<1>4. ASSUME ReleaseLeases(w) \/ WorkerCrash(w) PROVE DelIInv'
  <2>1. DelIdle \in Worker /\ DelIdle.pc = "idle" /\ ~DelIdle.fresh
    BY IdleRecord
  <2>2. Moves(w, DelIdle)
    BY <1>1, <1>4, <2>1, OneMoves DEF ReleaseLeases, WorkerCrash
  <2>3. Fits(w, DelIdle)
    BY <2>1 DEF Fits, CarryPcs, DelChildPcs, GatedPcs
  <2>4. /\ dlease' \in LeaseType /\ dlive' \in [Dels -> BOOLEAN]
        /\ \A e \in Dels, v \in DelWorkers \ {w} : dlease'[e] = v => dlease[e] = v
    <3>1. CASE ReleaseLeases(w)
      BY <1>1, <3>1 DEF ReleaseLeases, LeaseType
    <3>2. CASE WorkerCrash(w)
      BY <1>1, <3>2 DEF WorkerCrash, DelUnmoved, dleases
    <3> QED
      BY <1>4, <3>1, <3>2
  <2>5. clease' \in DelWorkers \cup {NoDelWorker} /\ clive' \in BOOLEAN
    BY <1>1, <1>4 DEF ReleaseLeases, WorkerCrash, DelUnmoved, dleases
  <2>6. ngate' \in GateType /\ \A n \in DelNodes : ngate[n] \in DelWorkers \ {w} => ngate'[n] = ngate[n]
    BY <1>1, <1>4 DEF ReleaseLeases, WorkerCrash, GateType
  <2> QED
    BY <1>1, <1>4, <2>1, <2>2, <2>3, <2>4, <2>5, <2>6, MoveKeeps DEF ReleaseLeases, WorkerCrash, DelUnmoved, delrows, dworld
<1> QED
  BY <1>2, <1>3, <1>4

\* A child goes through its gate, its reads and its write, and ends.
LEMMA ChildKeeps ==
    ASSUME DelIInv, NEW w \in DelWorkers,
           \/ ReleaseShared(w) \/ TakeNodeGate(w) \/ LookUp(w) \/ AuthoriseRemoval(w) \/ RemoveFromNode(w)
           \/ CertifyAbsent(w) \/ ChildGivesUp(w) \/ ChildKilled(w)
    PROVE  DelIInv'
<1>1. dw \in WorkerType /\ dlease \in LeaseType /\ dlive \in [Dels -> BOOLEAN] /\ ngate \in GateType /\ wire \in WireType
      /\ clease \in DelWorkers \cup {NoDelWorker} /\ clive \in BOOLEAN
  BY DEF DelIInv, DelTyped
<1>2. dw[w].pc \in CarryPcs
  BY DEF ReleaseShared, TakeNodeGate, LookUp, AuthoriseRemoval, RemoveFromNode, CertifyAbsent, ChildGivesUp, ChildKilled,
         DelAt, CarryPcs, DelChildPcs
<1>3. /\ dw[w].op \in Dels /\ dw[w].conn \in Conns /\ dw[w].conn \in Scope(dw[w].op) \ PppConns
      /\ \A e \in Scope(dw[w].op) : ConnOrder[e] < ConnOrder[dw[w].conn] => rem[dw[w].op][e].state = "removed"
      /\ ConnNode[dw[w].conn] \in DelNodes
      /\ dw[w].fresh => rem[dw[w].op][dw[w].conn].state # "removed"
      /\ dw[w].fresh /\ dw[w].pc \in DelChildPcs \cup {"done"} => Marked(dw[w].op, dw[w].conn)
      /\ dw[w].pc \in GatedPcs => ngate[ConnNode[dw[w].conn]] = w
  BY <1>2, Carrying
<1>4. ASSUME NEW pc \in DelPcs, Moves(w, Steps(w, pc)), pc \in CarryPcs \ {"done"},
             UNCHANGED <<plan, dop, frozen, rem, delrows, nup, poll, want, ddrain>>,
             UNCHANGED <<dlease, dlive>>, clease' \in DelWorkers \cup {NoDelWorker}, clive' \in BOOLEAN,
             ngate' \in GateType, wire' \in WireType,
             \A n \in DelNodes : ngate[n] \in DelWorkers \ {w} => ngate'[n] = ngate[n],
             pc \in DelChildPcs => dw[w].pc \in DelChildPcs,
             pc \in GatedPcs => ngate'[ConnNode[dw[w].conn]] = w,
             pc = "authorised" => dw[w].fresh /\ dlease[dw[w].op] = w
      PROVE  DelIInv'
  <2>1. /\ Steps(w, pc) \in Worker /\ Steps(w, pc).pc = pc /\ Steps(w, pc).op = dw[w].op
        /\ Steps(w, pc).conn = dw[w].conn /\ Steps(w, pc).fresh = dw[w].fresh
    BY <1>1, StepRecord
  <2>2. Fits(w, Steps(w, pc))
    BY <1>3, <1>4, <2>1 DEF Fits, GatedPcs, DelChildPcs
  <2> QED
    BY <1>1, <1>4, <2>1, <2>2, MoveKeeps
<1>5. ASSUME NEW result \in {"absent", "conflict", "unknown"}, ChildEnds(w, result), UNCHANGED <<DelUnmoved, dworld>>,
             dw[w].pc \in DelChildPcs, result # "unknown" => dw[w].pc \in GatedPcs
      PROVE  DelIInv'
  <2>1. /\ Ends(w, result) \in Worker /\ Ends(w, result).pc = "done" /\ Ends(w, result).op = dw[w].op
        /\ Ends(w, result).conn = dw[w].conn /\ Ends(w, result).fresh = dw[w].fresh
        /\ Ends(w, result).result = result
    BY <1>1, EndRecord
  <2>2. dw' = [dw EXCEPT ![w] = Ends(w, result)]
    BY <1>5 DEF ChildEnds, Ends
  <2>3. Moves(w, Ends(w, result))
    BY <1>1, <2>1, <2>2, OneMoves
  <2>4. Fits(w, Ends(w, result))
    BY <1>3, <1>5, <2>1 DEF Fits, GatedPcs, CarryPcs, DelChildPcs
  <2>5. ngate' \in GateType /\ \A n \in DelNodes : ngate[n] \in DelWorkers \ {w} => ngate'[n] = ngate[n]
    BY <1>1, <1>5 DEF ChildEnds, GateType
  <2> QED
    BY <1>1, <1>5, <2>1, <2>3, <2>4, <2>5, MoveKeeps DEF DelUnmoved, delrows, dleases, dworld
<1>6. ASSUME NEW pc \in DelPcs, dw' = [dw EXCEPT ![w].pc = pc] PROVE Moves(w, Steps(w, pc))
  BY <1>1, <1>6, StepRecord, OneMoves DEF Steps
<1>7. CASE ReleaseShared(w)
  <2>1. Moves(w, Steps(w, "dispatching"))
    BY <1>6, <1>7 DEF ReleaseShared, DelPcs
  <2> QED
    BY <1>1, <1>4, <1>7, <2>1 DEF ReleaseShared, DelPcs, CarryPcs, DelChildPcs, GatedPcs, dworld
<1>8. CASE TakeNodeGate(w)
  <2>1. Moves(w, Steps(w, "gated"))
    BY <1>6, <1>8 DEF TakeNodeGate, DelPcs
  <2>2. ngate' \in GateType /\ ngate'[ConnNode[dw[w].conn]] = w
        /\ \A n \in DelNodes : ngate[n] \in DelWorkers \ {w} => ngate'[n] = ngate[n]
    BY <1>1, <1>3, <1>8 DEF TakeNodeGate, GateType, ChildNode
  <2> QED
    BY <1>1, <1>4, <1>8, <2>1, <2>2 DEF TakeNodeGate, DelAt, DelPcs, CarryPcs, DelChildPcs, GatedPcs, DelUnmoved, dleases, dworld
<1>9. CASE LookUp(w) /\ dw' = [dw EXCEPT ![w].pc = "writing"] /\ UNCHANGED ngate
  <2>1. Moves(w, Steps(w, "writing"))
    BY <1>6, <1>9 DEF DelPcs
  <2> QED
    BY <1>1, <1>3, <1>4, <1>9, <2>1 DEF LookUp, DelAt, DelPcs, CarryPcs, DelChildPcs, GatedPcs, DelUnmoved, dleases, dworld
<1>10. CASE LookUp(w) /\ dw' = [dw EXCEPT ![w].pc = "verify"] /\ UNCHANGED ngate
  <2>1. Moves(w, Steps(w, "verify"))
    BY <1>6, <1>10 DEF DelPcs
  <2> QED
    BY <1>1, <1>3, <1>4, <1>10, <2>1 DEF LookUp, DelAt, DelPcs, CarryPcs, DelChildPcs, GatedPcs, DelUnmoved, dleases, dworld
<1>11. CASE LookUp(w) /\ ChildEnds(w, "conflict")
  BY <1>5, <1>11 DEF LookUp, DelAt, DelChildPcs, GatedPcs
<1>12. CASE AuthoriseRemoval(w)
  <2>1. Moves(w, Steps(w, "authorised"))
    BY <1>6, <1>12 DEF AuthoriseRemoval, DelPcs
  <2>2. dw[w].fresh /\ dlease[dw[w].op] = w
    BY <1>12 DEF AuthoriseRemoval, RemovalBound, HasOp
  <2> QED
    BY <1>1, <1>3, <1>4, <1>12, <2>1, <2>2
       DEF AuthoriseRemoval, DelAt, DelPcs, CarryPcs, DelChildPcs, GatedPcs, DelUnmoved, dleases, dworld
<1>13. CASE RemoveFromNode(w)
  <2>1. Moves(w, Steps(w, "verify"))
    BY <1>6, <1>13 DEF RemoveFromNode, DelPcs
  <2>2. wire' \in WireType
    BY <1>1, <1>13 DEF RemoveFromNode, WireType
  <2> QED
    BY <1>1, <1>3, <1>4, <1>13, <2>1, <2>2
       DEF RemoveFromNode, DelAt, DelPcs, CarryPcs, DelChildPcs, GatedPcs, DelUnmoved, dleases
<1>14. CASE CertifyAbsent(w)
  BY <1>5, <1>14 DEF CertifyAbsent, DelAt, DelChildPcs, GatedPcs
<1>15. CASE ChildGivesUp(w) \/ ChildKilled(w)
  BY <1>5, <1>15 DEF ChildGivesUp, ChildKilled, DelAt, DelChildPcs
<1>16. LookUp(w) => \/ dw' = [dw EXCEPT ![w].pc = "writing"] /\ UNCHANGED ngate
                    \/ dw' = [dw EXCEPT ![w].pc = "verify"] /\ UNCHANGED ngate
                    \/ ChildEnds(w, "conflict")
  <2> SUFFICES ASSUME LookUp(w)
               PROVE  \/ dw' = [dw EXCEPT ![w].pc = "writing"] /\ UNCHANGED ngate
                      \/ dw' = [dw EXCEPT ![w].pc = "verify"] /\ UNCHANGED ngate
                      \/ ChildEnds(w, "conflict")
    OBVIOUS
  <2>1. wire[dw[w].conn] \in {"present", "absent", "foreign"}
    BY <1>1, <1>3 DEF WireType
  <2> QED
    BY <2>1 DEF LookUp
<1> QED
  BY <1>7, <1>8, <1>9, <1>10, <1>11, <1>12, <1>13, <1>14, <1>15, <1>16
-----------------------------------------------------------------------------
(* A deletion and its removals are written *)

\* A write of x to deletion d and its steps S fits the scope, takes no proof back
\* and spares the markers of the children about to write.
SparesMarkers(x, d, S) ==
    /\ \A v \in DelWorkers \ {x} : Outdated(v, d, S)
    /\ x \in DelWorkers =>
         /\ dw'[x].op = d
         /\ \/ dw'[x].pc = "releasing" /\ ~dw'[x].fresh
            \/ /\ dw'[x].pc = "spawned" /\ dw[x].pc \in CarryPcs
               /\ dw[x].op = d /\ dw'[x].conn = dw[x].conn /\ Marked(d, dw[x].conn)'
    /\ UNCHANGED <<frozen, ngate>>
    /\ \A e \in Dels : dlease'[e] = dlease[e] \/ dlease'[e] = NoDelWorker
    /\ \A e \in Dels \ {d} : dop'[e] = dop[e] /\ rem'[e] = rem[e]
    /\ \A c \in Conns \ S : rem'[d][c] = rem[d][c]
    /\ \A c \in Conns : rem[d][c].state = "removed" => rem'[d][c].state = "removed"
    /\ dop'[d] = "cleanup_required" <=> \E c \in Conns : rem'[d][c].state = "cleanup_required"
    /\ \A v \in DelWorkers \ {x} : DelAt(v, "authorised") /\ dw[v].op = d => Marked(d, dw[v].conn)'

LEMMA WriteKeeps ==
    ASSUME DelIInv, DelTyped', NEW x \in DelWorkers \cup {NoDelWorker}, NEW d \in Dels, NEW S \in SUBSET Conns,
           RemovalsOfScope(d)', SparesMarkers(x, d, S)
    PROVE  DelIInv'
<1> SUFFICES
      ASSUME \A v \in DelWorkers \ {x} : Outdated(v, d, S),
             x \in DelWorkers =>
               /\ dw'[x].op = d
               /\ \/ dw'[x].pc = "releasing" /\ ~dw'[x].fresh
                  \/ /\ dw'[x].pc = "spawned" /\ dw[x].pc \in CarryPcs
                     /\ dw[x].op = d /\ dw'[x].conn = dw[x].conn /\ Marked(d, dw[x].conn)',
             UNCHANGED <<frozen, ngate>>,
             \A e \in Dels : dlease'[e] = dlease[e] \/ dlease'[e] = NoDelWorker,
             \A e \in Dels \ {d} : dop'[e] = dop[e] /\ rem'[e] = rem[e],
             \A c \in Conns \ S : rem'[d][c] = rem[d][c],
             \A c \in Conns : rem[d][c].state = "removed" => rem'[d][c].state = "removed",
             dop'[d] = "cleanup_required" <=> \E c \in Conns : rem'[d][c].state = "cleanup_required",
             \A v \in DelWorkers \ {x} : DelAt(v, "authorised") /\ dw[v].op = d => Marked(d, dw[v].conn)'
      PROVE  DelIInv'
  BY DEF SparesMarkers
<1>1. ASSUME NEW e \in Dels PROVE RemovalsOfScope(e)' /\ (dop'[e] = "cleanup_required" <=> Dirty(e)' # {})
  <2>1. CASE e = d
    BY <2>1 DEF Dirty
  <2>2. CASE e # d
    BY <2>2 DEF DelIInv, DelOrder, AsksWhileDirty, Dirty, RemovalsOfScope, Scope
  <2> QED
    BY <2>1, <2>2
<1>2. ASSUME NEW e \in Dels, NEW c \in Conns, rem[e][c].state = "removed" PROVE rem'[e][c].state = "removed"
  BY <1>2
<1>3. ASSUME NEW v \in DelWorkers \ {x} PROVE CarriesNext(v)' /\ HoldsGate(v)'
  <2>1. CarriesNext(v) /\ HoldsGate(v) /\ Outdated(v, d, S)
    BY DEF DelIInv, DelOrder
  <2>2. HoldsGate(v)'
    BY <2>1 DEF HoldsGate, Outdated
  <2>3. CarriesNext(v)'
    BY <1>2, <2>1 DEF CarriesNext, Outdated, DelAt, Scope, CarryPcs, DelChildPcs
  <2> QED
    BY <2>2, <2>3
<1>4. ASSUME NEW v \in DelWorkers \ {x} PROVE FreshSees(v)'
  <2>1. FreshSees(v) /\ CarriesNext(v) /\ Outdated(v, d, S)
    BY DEF DelIInv, DelOrder
  <2>2. SUFFICES ASSUME dw'[v].fresh PROVE FreshSees(v)'
    BY DEF FreshSees
  <2>3. dw[v].fresh /\ dw[v].pc \in CarryPcs /\ dw[v].op \in Dels /\ dw[v].conn \in Conns
    BY <2>1, <2>2 DEF FreshSees, CarriesNext, Outdated, DelAt, CarryPcs, DelChildPcs, Scope
  <2>4. CASE dw[v].op = d
    <3>1. dw[v].conn \notin S /\ dw[v].pc \notin DelChildPcs \cup {"done"}
      BY <2>1, <2>2, <2>4 DEF Outdated
    <3>2. rem'[d][dw[v].conn] = rem[d][dw[v].conn]
      BY <2>3, <3>1
    <3> QED
      BY <2>1, <2>3, <2>4, <3>1, <3>2 DEF FreshSees, Outdated
  <2>5. CASE dw[v].op # d
    BY <2>1, <2>3, <2>5 DEF FreshSees, Outdated, Marked
  <2> QED
    BY <2>4, <2>5
<1>5. ASSUME NEW v \in DelWorkers \ {x} PROVE WritesUnderMarker(v)'
  <2>1. WritesUnderMarker(v) /\ CarriesNext(v) /\ Outdated(v, d, S)
    BY DEF DelIInv, DelOrder
  <2>2. SUFFICES ASSUME DelAt(v, "authorised") PROVE WritesUnderMarker(v)'
    BY <2>1 DEF WritesUnderMarker, Outdated, DelAt
  <2>3. dw[v].op \in Dels
    BY <2>1, <2>2 DEF CarriesNext, DelAt
  <2>4. Marked(dw[v].op, dw[v].conn)'
    BY <2>1, <2>2, <2>3 DEF WritesUnderMarker, Marked, Outdated
  <2>5. ASSUME NEW u \in DelWorkers \ {v},
               DelAt(u, "done")', dw'[u].op = dw'[v].op, dw'[u].conn = dw'[v].conn, dw'[u].result # "unknown"
        PROVE  dlease'[dw'[u].op] # u
    <3>1. u # x
      BY <2>5 DEF DelAt
    <3>2. Outdated(u, d, S)
      BY <3>1
    <3>3. dlease[dw[u].op] # u
      BY <2>1, <2>2, <2>5, <3>2 DEF WritesUnderMarker, Outdated, DelAt
    <3> QED
      BY <2>1, <2>3, <2>5, <3>2, <3>3 DEF Outdated
  <2> QED
    BY <2>4, <2>5 DEF WritesUnderMarker
<1>6. ASSUME x \in DelWorkers PROVE CarriesNext(x)' /\ FreshSees(x)' /\ HoldsGate(x)' /\ WritesUnderMarker(x)'
  <2>1. CASE dw'[x].pc = "releasing" /\ ~dw'[x].fresh
    BY <1>6, <2>1 DEF CarriesNext, FreshSees, HoldsGate, WritesUnderMarker, DelAt, CarryPcs, GatedPcs, DelChildPcs
  <2>2. CASE /\ dw'[x].pc = "spawned" /\ dw[x].pc \in CarryPcs
             /\ dw[x].op = d /\ dw'[x].conn = dw[x].conn /\ Marked(d, dw[x].conn)'
    <3>1. CarriesNext(x)
      BY <1>6 DEF DelIInv, DelOrder
    <3>2. CarriesNext(x)'
      BY <1>2, <1>6, <2>2, <3>1 DEF CarriesNext, DelAt, Scope
    <3>3. FreshSees(x)' /\ HoldsGate(x)' /\ WritesUnderMarker(x)'
      BY <1>6, <2>2 DEF FreshSees, HoldsGate, WritesUnderMarker, DelAt, CarryPcs, GatedPcs, DelChildPcs, Marked
    <3> QED
      BY <3>2, <3>3
  <2> QED
    BY <1>6, <2>1, <2>2
<1>7. AsksWhileDirty' /\ \A e \in Dels : RemovalsOfScope(e)'
  BY <1>1 DEF AsksWhileDirty
<1>8. ASSUME NEW v \in DelWorkers PROVE (CarriesNext(v) /\ FreshSees(v) /\ HoldsGate(v) /\ WritesUnderMarker(v))'
  BY <1>3, <1>4, <1>5, <1>6
<1> QED
  BY <1>7, <1>8 DEF DelIInv, DelOrder

\* What the lemmas about a tick that writes need of it.
LEMMA TickWrites ==
    ASSUME DelIInv, NEW w \in DelWorkers, NEW d \in Dels, Ticking(w, d), Working(d), NEW S \in SUBSET Conns,
           dw' = DelWritten(w, d, S, DelLeave(w))
    PROVE  /\ dw' \in WorkerType /\ dw'[w].pc = "releasing" /\ dw'[w].op = d /\ ~dw'[w].fresh
           /\ \A v \in DelWorkers \ {w} : Outdated(v, d, S)
           /\ dop[d] # "none" /\ Dirty(d) = {}
<1>1. dw \in WorkerType
  BY DEF DelIInv, DelTyped
<1>2. DelLeave(w) \in Worker /\ DelLeave(w).pc = "releasing" /\ DelLeave(w).op = d /\ ~DelLeave(w).fresh
  BY <1>1, LeaveRecord DEF Ticking
<1> QED
  BY <1>1, <1>2, OthersStale DEF DelIInv, AsksWhileDirty, Working

\* A connection without a remote resource is removed by the record alone.
LEMMA PppKeeps ==
    ASSUME DelIInv, NEW w \in DelWorkers, NEW d \in Dels, TickPpp(w, d)
    PROVE  DelIInv'
<1> DEFINE c == NextOf(d)
           gone == [rem[d][c] EXCEPT !.state = "removed"]
<1>1. rem \in RemType /\ dop \in DopType
  BY DEF DelIInv, DelTyped
<1>2. c \in Scope(d) \cap PppConns /\ c \in Conns
  BY NextIsFirst DEF TickPpp, Pending, Scope
<1>3. /\ dw' \in WorkerType /\ dw'[w].pc = "releasing" /\ dw'[w].op = d /\ ~dw'[w].fresh
      /\ \A v \in DelWorkers \ {w} : Outdated(v, d, {c})
      /\ dop[d] # "none" /\ Dirty(d) = {}
  <2>1. dw' = DelWritten(w, d, {c}, DelLeave(w)) /\ Ticking(w, d) /\ Working(d)
    BY DEF TickPpp
  <2>2. {c} \in SUBSET Conns
    BY <1>2
  <2> HIDE DEF c
  <2> QED
    BY <2>1, <2>2, TickWrites
<1>4. rem[d][c] \in Removal
  BY <1>1, <1>2 DEF RemType
<1>5. gone \in Removal /\ gone.state = "removed" /\ gone.outcome = rem[d][c].outcome
  BY <1>4, RemovalRecords DEF Removal
<1>6. rem' = [rem EXCEPT ![d][c] = gone]
  BY DEF TickPpp
<1>7. Rewrites(d, c, gone)
  <2> HIDE DEF gone, c
  <2> QED
    BY <1>1, <1>2, <1>5, <1>6, OneRewrites
<1> HIDE DEF c, gone
<1>8. dop' \in DopType /\ dop'[d] = "provisioning" /\ \A e \in Dels \ {d} : dop'[e] = dop[e]
  BY <1>1 DEF TickPpp, DopType
<1>9. DelTyped'
  BY <1>3, <1>7, <1>8 DEF DelIInv, DelTyped, TickPpp, Rewrites, delrows, dleases, dworld
<1>10. RemovalsOfScope(d) /\ \A v \in DelWorkers : CarriesNext(v) /\ WritesUnderMarker(v)
  BY DEF DelIInv, DelOrder
<1>11. RemovalsOfScope(d)'
  <2>1. Scope(d)' = Scope(d) /\ dop'[d] = "provisioning"
    BY <1>8 DEF Scope, TickPpp
  <2>2. ASSUME NEW b \in Conns
        PROVE  /\ b \in Scope(d) <=> rem'[d][b].state # "none"
               /\ rem'[d][b].state = "none" => rem'[d][b].outcome = "none"
               /\ rem'[d][b].outcome \in {"abandoned", "verified_absent"} => rem'[d][b].state = "removed"
               /\ rem'[d][b].state = "remote_calling" => rem'[d][b].attempted
    <3>1. CASE b = c
      BY <1>2, <1>5, <1>7, <3>1 DEF Rewrites
    <3>2. CASE b # c
      BY <1>7, <1>10, <3>2 DEF RemovalsOfScope, Rewrites
    <3> QED
      BY <3>1, <3>2
  <2> QED
    BY <2>1, <2>2 DEF RemovalsOfScope
<1>12. \A e \in Dels \ {d} : rem'[e] = rem[e]
  BY <1>1, <1>6 DEF RemType
<1>13. \A b \in Conns : rem'[d][b].state # "cleanup_required"
  BY <1>3, <1>5, <1>7 DEF Dirty, Rewrites
<1>14. ASSUME NEW v \in DelWorkers \ {w}, DelAt(v, "authorised"), dw[v].op = d PROVE Marked(d, dw[v].conn)'
  <2>1. dw[v].conn \in Conns /\ dw[v].conn # c /\ Marked(d, dw[v].conn)
    BY <1>2, <1>10, <1>14 DEF CarriesNext, WritesUnderMarker, DelAt, CarryPcs, DelChildPcs, Scope
  <2> QED
    BY <1>3, <1>7, <1>8, <2>1 DEF Marked, Rewrites, Outdated
<1>15. UNCHANGED <<frozen, ngate, dlease>>
  BY DEF TickPpp, dleases
<1>16. /\ \A b \in Conns \ {c} : rem'[d][b] = rem[d][b]
       /\ \A b \in Conns : rem[d][b].state = "removed" => rem'[d][b].state = "removed"
  BY <1>5, <1>7 DEF Rewrites
<1>17. {c} \in SUBSET Conns /\ w \in DelWorkers \cup {NoDelWorker}
  BY <1>2
<1>18. dop'[d] = "cleanup_required" <=> \E b \in Conns : rem'[d][b].state = "cleanup_required"
  BY <1>8, <1>13
<1>19. \A e \in Dels : dlease'[e] = dlease[e] \/ dlease'[e] = NoDelWorker
  BY <1>15
<1>20. \A e \in Dels \ {d} : dop'[e] = dop[e] /\ rem'[e] = rem[e]
  BY <1>8, <1>12
<1>21. \A v \in DelWorkers \ {w} : DelAt(v, "authorised") /\ dw[v].op = d => Marked(d, dw[v].conn)'
  BY <1>14
<1>22. SparesMarkers(w, d, {c})
  BY <1>3, <1>15, <1>16, <1>18, <1>19, <1>20, <1>21 DEF SparesMarkers
<1> QED
  BY <1>9, <1>11, <1>17, <1>22, WriteKeeps

\* The rows go once nothing is left to remove, so no marker is left either.
LEMMA FinishKeeps ==
    ASSUME DelIInv, NEW w \in DelWorkers, NEW d \in Dels, TickFinishes(w, d) \/ TickDuplicate(w, d)
    PROVE  DelIInv'
<1>1. dop \in DopType /\ conn \in ConnType /\ sold \in SUBSET Purchases /\ cust \in CustType
  BY DEF DelIInv, DelTyped
<1>2. /\ dw' \in WorkerType /\ dw'[w].pc = "releasing" /\ dw'[w].op = d /\ ~dw'[w].fresh
      /\ \A v \in DelWorkers \ {w} : Outdated(v, d, {})
      /\ dop[d] # "none" /\ Dirty(d) = {}
  BY TickWrites DEF TickFinishes, TickDuplicate
<1>3. dop' \in DopType /\ dop'[d] = "completed" /\ \A e \in Dels \ {d} : dop'[e] = dop[e]
  BY <1>1 DEF TickFinishes, TickDuplicate, DopType
<1>4. conn' \in ConnType
  <2>1. ASSUME NEW c \in Conns
        PROVE  [conn[c] EXCEPT !.there = FALSE] \in [there : BOOLEAN, enabled : BOOLEAN, print : 0..1]
    <3> DEFINE r == conn[c]
    <3>1. r \in [there : BOOLEAN, enabled : BOOLEAN, print : 0..1]
      BY <1>1 DEF ConnType
    <3> HIDE DEF r
    <3>2. [r EXCEPT !.there = FALSE] \in [there : BOOLEAN, enabled : BOOLEAN, print : 0..1]
      BY <3>1
    <3> QED
      BY <3>2 DEF r
  <2>2. CASE TickFinishes(w, d)
    BY <1>1, <2>1, <2>2 DEF TickFinishes, ConnType
  <2>3. CASE TickDuplicate(w, d)
    BY <1>1, <2>3 DEF TickDuplicate, delrows
  <2> QED
    BY <2>2, <2>3
<1>5. sold' \in SUBSET Purchases
  BY <1>1 DEF TickFinishes, TickDuplicate, delrows
<1>6. cust' \in CustType
  BY <1>1 DEF TickFinishes, TickDuplicate, CustType, delrows
<1>7. DelTyped'
  BY <1>2, <1>3, <1>4, <1>5, <1>6 DEF DelIInv, DelTyped, TickFinishes, TickDuplicate, dleases, dworld
<1>8. RemovalsOfScope(d) /\ \A v \in DelWorkers : CarriesNext(v) /\ WritesUnderMarker(v)
  BY DEF DelIInv, DelOrder
<1>9. Pending(d) = {} /\ UNCHANGED <<frozen, rem, ngate, dlease>>
  BY DEF TickFinishes, TickDuplicate, dleases
<1>10. RemovalsOfScope(d)' /\ \A b \in Conns : rem'[d][b].state # "cleanup_required"
  BY <1>2, <1>3, <1>8, <1>9 DEF RemovalsOfScope, Scope, Dirty
<1>11. ASSUME NEW v \in DelWorkers \ {w}, DelAt(v, "authorised"), dw[v].op = d PROVE FALSE
  BY <1>8, <1>9, <1>11 DEF CarriesNext, WritesUnderMarker, DelAt, CarryPcs, DelChildPcs, Pending, Marked
<1>12. SparesMarkers(w, d, {})
  BY <1>2, <1>3, <1>9, <1>10, <1>11 DEF SparesMarkers
<1> QED
  BY <1>7, <1>10, <1>12, WriteKeeps

\* The first dispatch of a removal commits its marker; a later one finds it.
LEMMA DispatchKeeps ==
    ASSUME DelIInv, NEW w \in DelWorkers, NEW d \in Dels, NEW c \in Conns, dw[w].op = d, dw[w].conn = c,
           DispatchRemoval(w)
    PROVE  DelIInv'
<1> DEFINE mark == MarkRemoval(rem[d][c])
<1>1. /\ dw \in WorkerType /\ dlease \in LeaseType /\ dlive \in [Dels -> BOOLEAN] /\ ngate \in GateType /\ wire \in WireType
      /\ clease \in DelWorkers \cup {NoDelWorker} /\ clive \in BOOLEAN /\ rem \in RemType /\ dop \in DopType
  BY DEF DelIInv, DelTyped
<1>2. dw[w].pc = "dispatching" /\ dw[w].fresh /\ dop[d] \in {"prepared", "provisioning"}
  BY DEF DispatchRemoval, CanDispatch, DelAt, Working
<1>3. /\ d \in Dels /\ c \in Conns /\ c \in Scope(d) \ PppConns
      /\ \A e \in Scope(d) : ConnOrder[e] < ConnOrder[c] => rem[d][e].state = "removed"
      /\ rem[d][c].state # "removed"
  BY <1>2, Carrying DEF CarryPcs
<1>4. rem[d][c] \in Removal /\ Dirty(d) = {} /\ RemovalsOfScope(d) /\ \A v \in DelWorkers : WritesUnderMarker(v)
  BY <1>1, <1>2, <1>3 DEF RemType, DelIInv, DelOrder, AsksWhileDirty
<1>5. /\ Steps(w, "spawned") \in Worker /\ Steps(w, "spawned").pc = "spawned" /\ Steps(w, "spawned").op = d
      /\ Steps(w, "spawned").conn = c /\ Steps(w, "spawned").fresh = dw[w].fresh
  BY <1>1, StepRecord DEF DelPcs
<1>6. /\ mark \in Removal /\ mark.state = "remote_calling" /\ mark.attempted /\ mark.outcome = "none"
  <2> DEFINE old == rem[d][c]
  <2>1. old \in Removal
    BY <1>4
  <2> HIDE DEF old
  <2>2. /\ MarkRemoval(old) \in Removal /\ MarkRemoval(old).state = "remote_calling" /\ MarkRemoval(old).attempted
        /\ MarkRemoval(old).outcome = "none"
    BY <2>1, RemovalRecords
  <2> QED
    BY <2>2 DEF old
<1>7. CASE rem[d][c].state = "staged"
  <2>1. /\ dop' = [dop EXCEPT ![d] = "provisioning"] /\ rem' = [rem EXCEPT ![d][c] = mark]
        /\ dw' = DelWritten(w, d, {c}, Steps(w, "spawned"))
        /\ UNCHANGED <<plan, frozen, delrows, dleases, ngate, dworld, poll, want, ddrain>>
    BY <1>7 DEF DispatchRemoval, Steps
  <2> HIDE DEF mark
  <2>2. Rewrites(d, c, mark) /\ \A e \in Dels \ {d} : rem'[e] = rem[e]
    BY <1>1, <1>3, <1>6, <2>1, OneRewrites DEF RemType
  <2>3. dop' \in DopType /\ dop'[d] = "provisioning" /\ \A e \in Dels \ {d} : dop'[e] = dop[e]
    BY <1>1, <1>3, <2>1 DEF DopType
  <2>4. dw' \in WorkerType /\ dw'[w] = Steps(w, "spawned") /\ \A v \in DelWorkers \ {w} : Outdated(v, d, {c})
    <3> DEFINE rec == Steps(w, "spawned")
    <3>1. rec \in Worker /\ dw' = DelWritten(w, d, {c}, rec) /\ w \in DelWorkers \cup {NoDelWorker}
      BY <1>5, <2>1
    <3> HIDE DEF rec
    <3>2. dw' \in WorkerType /\ dw'[w] = rec /\ \A v \in DelWorkers \ {w} : Outdated(v, d, {c})
      BY <1>1, <3>1, OthersStale
    <3> QED
      BY <3>2 DEF rec
  <2>5. DelTyped'
    BY <2>1, <2>2, <2>3, <2>4 DEF DelIInv, DelTyped, Rewrites, delrows, dleases, dworld
  <2>6. RemovalsOfScope(d)'
    BY <1>3, <1>4, <1>6, <1>7, <2>1, <2>2, <2>3 DEF RemovalsOfScope, Rewrites, Scope
  <2>7. ~(dop'[d] = "cleanup_required") /\ \A b \in Conns : rem'[d][b].state # "cleanup_required"
    BY <1>3, <1>4, <1>6, <2>2, <2>3 DEF Dirty, Rewrites
  <2>8. ASSUME NEW v \in DelWorkers \ {w}, DelAt(v, "authorised"), dw[v].op = d PROVE Marked(d, dw[v].conn)'
    <3>1. Marked(d, dw[v].conn) /\ dw[v].conn # c /\ dw[v].conn \in Conns
      BY <1>4, <1>7, <2>8, Carrying DEF WritesUnderMarker, Marked, DelAt, CarryPcs, DelChildPcs
    <3> QED
      BY <1>3, <2>2, <2>3, <2>4, <3>1 DEF Marked, Rewrites, Outdated
  <2>9. Marked(d, c)'
    BY <1>3, <1>6, <2>2, <2>3 DEF Marked, Rewrites
  <2>10. /\ \A b \in Conns \ {c} : rem'[d][b] = rem[d][b]
         /\ \A b \in Conns : rem[d][b].state = "removed" => rem'[d][b].state = "removed"
    BY <1>3, <2>2 DEF Rewrites
  <2>11. dw[w].op = d /\ dw[w].conn = c /\ dw[w].pc \in CarryPcs
    BY <1>2 DEF CarryPcs
  <2>12. UNCHANGED <<frozen, ngate, dlease>>
    BY <2>1 DEF dleases
  <2>13. /\ dw'[w].op = d /\ dw'[w].pc = "spawned" /\ dw'[w].conn = dw[w].conn
         /\ Marked(d, dw[w].conn)'
    BY <1>5, <2>4, <2>9 DEF Marked
  <2>14. SparesMarkers(w, d, {c})
    BY <1>5, <2>2, <2>3, <2>4, <2>7, <2>8, <2>9, <2>10, <2>11, <2>12, <2>13 DEF SparesMarkers
  <2> QED
    BY <1>3, <2>5, <2>6, <2>14, WriteKeeps
<1>8. CASE rem[d][c].state # "staged"
  <2>1. dw' = [dw EXCEPT ![w] = Steps(w, "spawned")]
        /\ UNCHANGED <<plan, dop, frozen, rem, delrows, dleases, ngate, dworld, poll, want, ddrain>>
    BY <1>8 DEF DispatchRemoval, Steps
  <2>2. Moves(w, Steps(w, "spawned"))
    BY <1>1, <1>5, <2>1, OneMoves
  <2>3. Marked(d, c)
    BY <1>2, <1>3, <1>4, <1>8 DEF Marked, RemovalsOfScope, Dirty, Removal
  <2> HIDE DEF mark
  <2>4. Fits(w, Steps(w, "spawned"))
    BY <1>3, <1>5, <2>3 DEF Fits, CarryPcs, DelChildPcs, GatedPcs
  <2> QED
    BY <1>1, <1>5, <2>1, <2>2, <2>4, MoveKeeps DEF dleases, dworld
<1> QED
  BY <1>7, <1>8

\* Two workers with the same deletion, and neither removal proved, are at the

\* same removal.
LEMMA SameRemoval ==
    ASSUME DelIInv, NEW w \in DelWorkers, NEW v \in DelWorkers, dw[w].pc \in CarryPcs, dw[v].pc \in CarryPcs,
           dw[v].op = dw[w].op, rem[dw[w].op][dw[w].conn].state # "removed", rem[dw[w].op][dw[v].conn].state # "removed"
    PROVE  dw[v].conn = dw[w].conn
<1>1. /\ dw[w].conn \in Scope(dw[w].op) /\ dw[v].conn \in Scope(dw[w].op) /\ dw[w].conn \in Conns /\ dw[v].conn \in Conns
      /\ \A e \in Scope(dw[w].op) : ConnOrder[e] < ConnOrder[dw[w].conn] => rem[dw[w].op][e].state = "removed"
      /\ \A e \in Scope(dw[w].op) : ConnOrder[e] < ConnOrder[dw[v].conn] => rem[dw[w].op][e].state = "removed"
  <2>1. /\ dw[w].conn \in Scope(dw[w].op) /\ dw[w].conn \in Conns
        /\ \A e \in Scope(dw[w].op) : ConnOrder[e] < ConnOrder[dw[w].conn] => rem[dw[w].op][e].state = "removed"
    BY Carrying
  <2>2. /\ dw[v].conn \in Scope(dw[v].op) /\ dw[v].conn \in Conns
        /\ \A e \in Scope(dw[v].op) : ConnOrder[e] < ConnOrder[dw[v].conn] => rem[dw[v].op][e].state = "removed"
    BY Carrying
  <2> QED
    BY <2>1, <2>2
<1>2. ~(ConnOrder[dw[v].conn] < ConnOrder[dw[w].conn]) /\ ~(ConnOrder[dw[w].conn] < ConnOrder[dw[v].conn])
  BY <1>1
<1>3. ConnOrder[dw[v].conn] \in Nat /\ ConnOrder[dw[w].conn] \in Nat
  BY <1>1
<1>4. ConnOrder[dw[v].conn] = ConnOrder[dw[w].conn]
  BY <1>2, <1>3
<1> QED
  BY <1>1, <1>4

\* A result is recorded by the worker that holds the lease, so no child that is

\* about to write is behind it, unless the result says that nothing is known.
LEMMA RecordKeeps ==
    ASSUME DelIInv, NEW w \in DelWorkers, NEW d \in Dels, NEW c \in Conns, dw[w].op = d, dw[w].conn = c,
           RecordRemoval(w)
    PROVE  DelIInv'
<1> DEFINE result == dw[w].result
           r == RemovalRecorded(rem[d][c], result)
<1>1. dw \in WorkerType /\ rem \in RemType /\ dop \in DopType
  BY DEF DelIInv, DelTyped
<1>2. dw[w].pc = "done" /\ dw[w].pc \in CarryPcs /\ dw[w].fresh /\ dlease[d] = w
  BY DEF RecordRemoval, DelAt, HasOp, CarryPcs
<1>3. c \in Scope(d) /\ Marked(d, c)
  BY <1>2, Carrying
<1>4. result \in {"absent", "conflict", "unknown"}
  <2>1. CarriesNext(w) /\ dw[w] \in Worker
    BY <1>1 DEF DelIInv, DelOrder, WorkerType
  <2> QED
    BY <1>2, <2>1 DEF CarriesNext, DelAt, Worker
<1>5. rem[d][c] \in Removal /\ Dirty(d) = {} /\ RemovalsOfScope(d) /\ \A v \in DelWorkers : WritesUnderMarker(v)
  BY <1>1, <1>3 DEF RemType, DelIInv, DelOrder, AsksWhileDirty, Marked
<1>6. /\ r \in Removal
      /\ result = "absent" => r.state = "removed" /\ r.outcome = "verified_absent"
      /\ result = "conflict" => r.state = "cleanup_required" /\ r.outcome = "unverified"
      /\ result = "unknown" => r.state = "remote_calling" /\ r.outcome = "unknown" /\ r.attempted
  <2> DEFINE old == rem[d][c]
  <2>1. old \in Removal /\ old.state = "remote_calling" /\ old.attempted
    BY <1>3, <1>5 DEF Marked
  <2>2. r = RemovalRecorded(old, result)
    OBVIOUS
  <2> HIDE DEF old, result, r
  <2>3. CASE result = "absent"
    BY <2>1, <2>2, <2>3, RemovalRecords
  <2>4. CASE result = "conflict"
    BY <2>1, <2>2, <2>4, RemovalRecords
  <2>5. CASE result = "unknown"
    BY <2>1, <2>2, <2>5, RemovalRecords
  <2> QED
    BY <1>4, <2>3, <2>4, <2>5
<1>7. /\ rem' = [rem EXCEPT ![d][c] = r] /\ dop' = [dop EXCEPT ![d] = ConflictAsks(dop[d], result)]
      /\ dw' = DelWritten(w, d, {c}, DelLeave(w))
      /\ UNCHANGED <<plan, frozen, delrows, dleases, ngate, dworld, poll, want, ddrain>>
  BY DEF RecordRemoval
<1>8. DelLeave(w) \in Worker /\ DelLeave(w).pc = "releasing" /\ DelLeave(w).op = d /\ ~DelLeave(w).fresh
  BY <1>1, LeaveRecord
<1>9. ASSUME NEW v \in DelWorkers \ {w}, DelAt(v, "authorised"), dw[v].op = d
      PROVE  dw[v].conn = c /\ result = "unknown"
  <2>1. dw[v].pc \in CarryPcs /\ Marked(d, dw[v].conn)
    BY <1>5, <1>9 DEF WritesUnderMarker, DelAt, CarryPcs, DelChildPcs
  <2>2. dw[v].conn = c
    BY <1>2, <1>3, <1>9, <2>1, SameRemoval DEF Marked
  <2> QED
    BY <1>2, <1>5, <1>9, <2>2 DEF WritesUnderMarker, DelAt
<1> HIDE DEF result, r
<1>11. Rewrites(d, c, r) /\ \A e \in Dels \ {d} : rem'[e] = rem[e]
  BY <1>1, <1>3, <1>6, <1>7, OneRewrites DEF RemType
<1>12. /\ dop' \in DopType /\ \A e \in Dels \ {d} : dop'[e] = dop[e]
       /\ dop'[d] = IF result = "conflict" THEN "cleanup_required" ELSE "provisioning"
  BY <1>1, <1>3, <1>7 DEF DopType, ConflictAsks, Marked
<1>13. dw' \in WorkerType /\ dw'[w] = DelLeave(w) /\ \A v \in DelWorkers \ {w} : Outdated(v, d, {c})
  BY <1>1, <1>7, <1>8, OthersStale
<1>14. DelTyped'
  BY <1>7, <1>11, <1>12, <1>13 DEF DelIInv, DelTyped, Rewrites, delrows, dleases, dworld
<1>15. RemovalsOfScope(d)'
  BY <1>3, <1>4, <1>5, <1>6, <1>7, <1>11, <1>12 DEF RemovalsOfScope, Rewrites, Scope, Marked
<1>16. dop'[d] = "cleanup_required" <=> \E b \in Conns : rem'[d][b].state = "cleanup_required"
  BY <1>3, <1>4, <1>5, <1>6, <1>11, <1>12 DEF Dirty, Rewrites
<1>17. ASSUME NEW v \in DelWorkers \ {w}, DelAt(v, "authorised"), dw[v].op = d PROVE Marked(d, dw[v].conn)'
  BY <1>3, <1>6, <1>9, <1>11, <1>12, <1>13, <1>17 DEF Marked, Rewrites, Outdated
<1>18. /\ \A b \in Conns \ {c} : rem'[d][b] = rem[d][b]
       /\ \A b \in Conns : rem[d][b].state = "removed" => rem'[d][b].state = "removed"
  BY <1>3, <1>11 DEF Rewrites, Marked
<1>19. UNCHANGED <<frozen, ngate, dlease>>
  BY <1>7 DEF dleases
<1>20. SparesMarkers(w, d, {c})
  BY <1>8, <1>11, <1>12, <1>13, <1>16, <1>17, <1>18, <1>19 DEF SparesMarkers
<1> QED
  BY <1>3, <1>14, <1>15, <1>20, WriteKeeps
-----------------------------------------------------------------------------
(* The operator *)

\* What the operator's decisions write is nobody's step.
LEMMA DecisionWrites ==
    ASSUME dw \in WorkerType, NEW d, NEW S, dw' = DelWritten(NoDelWorker, d, S, DelIdle)
    PROVE  dw' \in WorkerType /\ \A v \in DelWorkers \ {NoDelWorker} : Outdated(v, d, S)
  BY OthersStale, IdleRecord

Retried(r) == [r EXCEPT !.state = "staged", !.outcome = "none", !.due = TRUE]

\* A retry takes every refused removal back to its first dispatch.
LEMMA RetryKeeps ==
    ASSUME DelIInv, NEW d \in Dels, RetryRemoval(d)
    PROVE  DelIInv'
<1>1. dw \in WorkerType /\ rem \in RemType /\ dop \in DopType
  BY DEF DelIInv, DelTyped
<1>2. dop[d] = "cleanup_required" /\ RemovalsOfScope(d) /\ \A v \in DelWorkers : WritesUnderMarker(v)
  BY DEF RetryRemoval, Asked, DelIInv, DelOrder
<1>3. ASSUME NEW r \in Removal PROVE Retried(r) \in Removal /\ Retried(r).state = "staged" /\ Retried(r).outcome = "none"
  BY DEF Retried, Removal
<1>4. \A c \in Conns : rem[d][c] \in Removal
  BY <1>1 DEF RemType
<1>5. /\ rem' = [rem EXCEPT ![d] = [c \in Conns |-> IF c \in Dirty(d) THEN Retried(rem[d][c]) ELSE rem[d][c]]]
      /\ dop' = [dop EXCEPT ![d] = "provisioning"] /\ dw' = DelWritten(NoDelWorker, d, Conns, DelIdle)
      /\ UNCHANGED <<plan, frozen, delrows, dleases, ngate, dworld, poll, want, ddrain>>
  BY <1>1 DEF RetryRemoval, Retried, RemType
<1>6. /\ \A c \in Conns : rem'[d][c] = IF c \in Dirty(d) THEN Retried(rem[d][c]) ELSE rem[d][c]
      /\ \A e \in Dels \ {d} : rem'[e] = rem[e]
  BY <1>1, <1>5 DEF RemType
<1>7. rem' \in RemType
  <2>1. [c \in Conns |-> IF c \in Dirty(d) THEN Retried(rem[d][c]) ELSE rem[d][c]] \in [Conns -> Removal]
    BY <1>3, <1>4
  <2> QED
    BY <1>1, <1>5, <2>1 DEF RemType
<1>8. dop' \in DopType /\ dop'[d] = "provisioning" /\ \A e \in Dels \ {d} : dop'[e] = dop[e]
  BY <1>1, <1>5 DEF DopType
<1>9. dw' \in WorkerType /\ \A v \in DelWorkers \ {NoDelWorker} : Outdated(v, d, Conns)
  BY <1>1, <1>5, DecisionWrites
<1>10. DelTyped'
  BY <1>5, <1>7, <1>8, <1>9 DEF DelIInv, DelTyped, delrows, dleases, dworld
<1>11. ASSUME NEW c \in Conns
       PROVE  /\ c \in Dirty(d) => rem[d][c].state = "cleanup_required" /\ rem'[d][c].state = "staged"
                                    /\ rem'[d][c].outcome = "none"
              /\ c \notin Dirty(d) => rem[d][c].state # "cleanup_required" /\ rem'[d][c] = rem[d][c]
  BY <1>3, <1>4, <1>6 DEF Dirty
<1>12. RemovalsOfScope(d)'
  BY <1>2, <1>5, <1>8, <1>11 DEF RemovalsOfScope, Scope
<1>13. ASSUME NEW v \in DelWorkers, DelAt(v, "authorised"), dw[v].op = d PROVE FALSE
  BY <1>2, <1>13 DEF WritesUnderMarker, Marked
<1>14. UNCHANGED <<frozen, ngate, dlease>>
  BY <1>5 DEF dleases
<1>15. /\ \A b \in Conns : rem'[d][b].state # "cleanup_required"
       /\ \A b \in Conns : rem[d][b].state = "removed" => rem'[d][b].state = "removed"
  BY <1>11
<1>16. SparesMarkers(NoDelWorker, d, Conns)
  BY <1>6, <1>8, <1>9, <1>13, <1>14, <1>15 DEF SparesMarkers
<1> QED
  BY <1>10, <1>12, <1>16, WriteKeeps

\* A removal given up has no child about to write: it met a foreign object, or

\* the operator waited for the children.
LEMMA GiveUpKeeps ==
    ASSUME DelIInv, NEW d \in Dels, NEW c \in Conns, ForceRemoval(d, c) \/ AbandonUnknown(d, c)
    PROVE  DelIInv'
<1> DEFINE r == GivenUp(rem[d][c])
<1>1. dw \in WorkerType /\ rem \in RemType /\ dop \in DopType /\ dlease \in LeaseType /\ dlive \in [Dels -> BOOLEAN]
  BY DEF DelIInv, DelTyped
<1>2. rem[d][c] \in Removal /\ RemovalsOfScope(d) /\ \A v \in DelWorkers : WritesUnderMarker(v)
  BY <1>1 DEF RemType, DelIInv, DelOrder
<1>3. r \in Removal /\ r.state = "removed" /\ r.outcome = "abandoned"
  BY <1>2, RemovalRecords
<1>4. /\ rem' = [rem EXCEPT ![d][c] = r] /\ dw' = DelWritten(NoDelWorker, d, {c}, DelIdle)
      /\ UNCHANGED <<plan, frozen, delrows, clease, clive, ngate, dworld, poll, want, ddrain>>
  BY DEF ForceRemoval, AbandonUnknown, dleases
<1> HIDE DEF r
<1>5. Rewrites(d, c, r) /\ \A e \in Dels \ {d} : rem'[e] = rem[e]
  BY <1>1, <1>3, <1>4, OneRewrites DEF RemType
<1>6. c \in Scope(d)
  BY <1>2 DEF ForceRemoval, AbandonUnknown, RemovalsOfScope, Dirty
<1>7. /\ dop' \in DopType /\ \A e \in Dels \ {d} : dop'[e] = dop[e]
      /\ dop[d] # "none" /\ dop'[d] \in {"provisioning", "cleanup_required"}
      /\ dop'[d] = "cleanup_required" <=> Dirty(d) \ {c} # {}
  <2>1. CASE ForceRemoval(d, c)
    BY <1>1, <2>1 DEF ForceRemoval, Asked, DopType
  <2>2. CASE AbandonUnknown(d, c)
    <3>1. Dirty(d) = {} /\ UNCHANGED dop /\ dop[d] = "provisioning"
      BY <2>2 DEF AbandonUnknown, DelIInv, AsksWhileDirty
    <3> QED
      BY <1>1, <3>1
  <2> QED
    BY <2>1, <2>2
<1>8. /\ dlease' \in LeaseType /\ dlive' \in [Dels -> BOOLEAN]
      /\ \A e \in Dels : dlease'[e] = dlease[e] \/ dlease'[e] = NoDelWorker
  BY <1>1 DEF ForceRemoval, AbandonUnknown, dleases, LeaseType
<1>9. dw' \in WorkerType /\ \A v \in DelWorkers \ {NoDelWorker} : Outdated(v, d, {c})
  BY <1>1, <1>4, DecisionWrites
<1>10. DelTyped'
  BY <1>4, <1>5, <1>7, <1>8, <1>9 DEF DelIInv, DelTyped, Rewrites, delrows, dworld
<1>11. RemovalsOfScope(d)'
  BY <1>2, <1>3, <1>4, <1>5, <1>6, <1>7 DEF RemovalsOfScope, Rewrites, Scope
<1>12. dop'[d] = "cleanup_required" <=> \E b \in Conns : rem'[d][b].state = "cleanup_required"
  BY <1>3, <1>5, <1>7 DEF Dirty, Rewrites
<1>13. ASSUME NEW v \in DelWorkers, DelAt(v, "authorised"), dw[v].op = d PROVE FALSE
  BY <1>2, <1>13 DEF WritesUnderMarker, Marked, ForceRemoval, Asked, AbandonUnknown, NoChildAlive, DelAt, DelChildPcs
<1>14. UNCHANGED <<frozen, ngate>>
  BY <1>4
<1>15. /\ \A b \in Conns \ {c} : rem'[d][b] = rem[d][b]
       /\ \A b \in Conns : rem[d][b].state = "removed" => rem'[d][b].state = "removed"
  BY <1>3, <1>5 DEF Rewrites
<1>16. SparesMarkers(NoDelWorker, d, {c})
  BY <1>5, <1>7, <1>8, <1>9, <1>12, <1>13, <1>14, <1>15 DEF SparesMarkers
<1> QED
  BY <1>10, <1>11, <1>16, WriteKeeps
-----------------------------------------------------------------------------
(* T1 *)

ConnRecord == [there : BOOLEAN, enabled : BOOLEAN, print : 0..1]

LEMMA ConnRecords ==
    ASSUME NEW r \in ConnRecord
    PROVE  /\ [r EXCEPT !.there = FALSE] \in ConnRecord /\ [r EXCEPT !.there = TRUE] \in ConnRecord
           /\ [r EXCEPT !.print = 1] \in ConnRecord
           /\ \A b \in BOOLEAN : [r EXCEPT !.enabled = b] \in ConnRecord
<1> USE DEF ConnRecord
<1>1. [r EXCEPT !.there = FALSE] \in ConnRecord /\ [r EXCEPT !.there = TRUE] \in ConnRecord
  OBVIOUS
<1>2. [r EXCEPT !.print = 1] \in ConnRecord
  OBVIOUS
<1>3. ASSUME NEW b \in BOOLEAN PROVE [r EXCEPT !.enabled = b] \in ConnRecord
  OBVIOUS
<1> QED
  BY <1>1, <1>2, <1>3

\* A deletion that was not requested has no scope, no removals and no worker.
LEMMA PrepareKeeps ==
    ASSUME DelIInv, NEW w \in DelWorkers, NEW d \in Dels, PrepareDeletion(w, d)
    PROVE  DelIInv'
<1> DEFINE rec == Begins("releasing", d)
           new == [c \in Conns |-> IF c \in InScope(d) THEN Staged ELSE NoRemoval]
           snap == Snapshot(d)
<1>1. DelTyped /\ DelOrder /\ AsksWhileDirty
  BY DEF DelIInv
<1>2. rec \in Worker /\ rec.pc = "releasing" /\ rec.op = d /\ ~rec.fresh
  BY BeginRecord DEF DelPcs
<1>3. /\ dw[w].pc = "idle" /\ dop[d] = "none"
      /\ dop' = [dop EXCEPT ![d] = "prepared"] /\ frozen' = [frozen EXCEPT ![d] = snap] /\ rem' = [rem EXCEPT ![d] = new]
      /\ dlease' = [dlease EXCEPT ![d] = w] /\ dlive' = [dlive EXCEPT ![d] = TRUE] /\ clease' = w /\ clive' = TRUE
      /\ dw' = [dw EXCEPT ![w] = rec]
      /\ UNCHANGED <<plan, sold, ngate, wire, nup, poll, want, ddrain>>
  BY DEF PrepareDeletion, Begins, DelAt, dworld
<1>4. /\ new \in [Conns -> Removal]
      /\ \A c \in Conns : /\ c \in InScope(d) => new[c].state = "staged"
                          /\ c \notin InScope(d) => new[c].state = "none"
                          /\ new[c].outcome = "none"
  <2>1. Staged \in Removal /\ NoRemoval \in Removal
    BY DEF Staged, NoRemoval, Removal
  <2>2. Staged.state = "staged" /\ Staged.outcome = "none" /\ NoRemoval.state = "none" /\ NoRemoval.outcome = "none"
    BY DEF Staged, NoRemoval
  <2> QED
    BY <2>1, <2>2
<1>5. /\ snap \in [print : [Conns -> 0..2], purchases : SUBSET Purchases]
      /\ \A c \in Conns : snap.print[c] # NotInScope <=> c \in InScope(d)
  <2>1. \A c \in Conns : conn[c].print \in 0..1
    BY <1>1 DEF DelTyped, ConnType
  <2>2. sold \in SUBSET Purchases
    BY <1>1 DEF DelTyped
  <2> QED
    BY <2>1, <2>2 DEF Snapshot, NotInScope
<1>6. conn' \in ConnType
  <2>1. \A c \in Conns : conn[c] \in ConnRecord
    BY <1>1 DEF DelTyped, ConnType, ConnRecord
  <2>2. \A c \in Conns : [conn[c] EXCEPT !.enabled = FALSE] \in ConnRecord
    BY <2>1, ConnRecords
  <2>3. conn' = [c \in Conns |-> IF c \in InScope(d) THEN [conn[c] EXCEPT !.enabled = FALSE] ELSE conn[c]]
    BY DEF PrepareDeletion
  <2>4. conn' \in [Conns -> ConnRecord]
    BY <2>1, <2>2, <2>3
  <2> QED
    BY <2>4 DEF ConnType, ConnRecord
<1>7. cust' \in CustType
  BY <1>1 DEF DelTyped, CustType, PrepareDeletion
<1> HIDE DEF rec, new, snap
<1>8. Moves(w, rec)
  BY <1>1, <1>2, <1>3, OneMoves DEF DelTyped
<1>9. /\ dop' \in DopType /\ dop'[d] = "prepared" /\ \A e \in Dels \ {d} : dop'[e] = dop[e]
      /\ frozen' \in FrozenType /\ frozen'[d] = snap /\ \A e \in Dels \ {d} : frozen'[e] = frozen[e]
      /\ rem' \in RemType /\ rem'[d] = new /\ \A e \in Dels \ {d} : rem'[e] = rem[e]
      /\ dlease' \in LeaseType /\ \A e \in Dels \ {d} : dlease'[e] = dlease[e]
      /\ dlive' \in [Dels -> BOOLEAN]
  BY <1>1, <1>3, <1>4, <1>5 DEF DelTyped, DopType, FrozenType, RemType, LeaseType
<1>10. DelTyped'
  BY <1>1, <1>3, <1>6, <1>7, <1>8, <1>9 DEF DelTyped, Moves
<1>11. RemovalsOfScope(d)' /\ Dirty(d)' = {}
  BY <1>4, <1>5, <1>9 DEF RemovalsOfScope, Scope, Dirty
<1>12. ASSUME NEW e \in Dels \ {d} PROVE RemovalsOfScope(e)' /\ (dop'[e] = "cleanup_required" <=> Dirty(e)' # {})
  BY <1>1, <1>9 DEF DelOrder, RemovalsOfScope, Scope, AsksWhileDirty, Dirty
<1>13. AsksWhileDirty'
  BY <1>9, <1>11, <1>12 DEF AsksWhileDirty
<1>14. ASSUME NEW v \in DelWorkers \ {w}, dw[v].pc \in CarryPcs PROVE dw[v].op \in Dels \ {d} /\ dw[v].conn \in Conns
  <2>1. Scope(d) = {}
    BY <1>1, <1>3 DEF DelOrder, RemovalsOfScope
  <2> QED
    BY <1>14, <2>1, Carrying
<1>15. ASSUME NEW v \in DelWorkers \ {w} PROVE CarriesNext(v)' /\ FreshSees(v)' /\ HoldsGate(v)'
  <2>1. CarriesNext(v) /\ FreshSees(v) /\ HoldsGate(v) /\ dw'[v] = dw[v]
    BY <1>1, <1>8 DEF DelOrder, Moves
  <2>2. CASE dw[v].pc \in CarryPcs
    <3>1. dop'[dw[v].op] = dop[dw[v].op] /\ frozen'[dw[v].op] = frozen[dw[v].op] /\ rem'[dw[v].op] = rem[dw[v].op]
      BY <1>9, <1>14, <2>2
    <3> QED
      <4>1. HoldsGate(v)'
        BY <1>3, <2>1 DEF HoldsGate
      <4>2. FreshSees(v)'
        BY <2>1, <3>1 DEF FreshSees, Marked
      <4>3. CarriesNext(v)'
        BY <2>1, <3>1 DEF CarriesNext, DelAt, Scope
      <4> QED
        BY <4>1, <4>2, <4>3
  <2>3. CASE dw[v].pc \notin CarryPcs
    BY <2>1, <2>3 DEF CarriesNext, FreshSees, HoldsGate, DelAt, CarryPcs, DelChildPcs, GatedPcs
  <2> QED
    BY <2>2, <2>3
<1>16. ASSUME NEW v \in DelWorkers \ {w} PROVE WritesUnderMarker(v)'
  <2>1. SUFFICES ASSUME dw[v].pc = "authorised" PROVE WritesUnderMarker(v)'
    BY <1>8 DEF WritesUnderMarker, Moves, DelAt
  <2>2. dw[v].op \in Dels \ {d} /\ WritesUnderMarker(v)
    BY <1>1, <1>14, <2>1 DEF DelOrder, CarryPcs, DelChildPcs
  <2>3. Marked(dw[v].op, dw[v].conn)'
    BY <1>8, <1>9, <2>1, <2>2 DEF WritesUnderMarker, Marked, DelAt, Moves
  <2>4. ASSUME NEW u \in DelWorkers \ {v},
               DelAt(u, "done")' /\ dw'[u].op = dw'[v].op /\ dw'[u].conn = dw'[v].conn /\ dw'[u].result # "unknown"
        PROVE  dlease'[dw'[u].op] # u
    BY <1>2, <1>8, <1>9, <2>1, <2>2, <2>4 DEF WritesUnderMarker, DelAt, Moves
  <2> QED
    BY <2>3, <2>4 DEF WritesUnderMarker
<1>17. CarriesNext(w)' /\ FreshSees(w)' /\ HoldsGate(w)' /\ WritesUnderMarker(w)'
  BY <1>2, <1>8 DEF CarriesNext, FreshSees, HoldsGate, WritesUnderMarker, Moves, DelAt, CarryPcs, DelChildPcs, GatedPcs
<1>18. DelOrder'
  BY <1>11, <1>12, <1>15, <1>16, <1>17 DEF DelOrder
<1> QED
  BY <1>10, <1>13, <1>18 DEF DelIInv
-----------------------------------------------------------------------------
(* Everybody else *)

\* What else happens is no concern of the removals, but for their backoff.
LEMMA OthersKeep ==
    ASSUME DelIInv, DelTyped', UNCHANGED <<dop, frozen, dw, ngate, dlease>>,
           \A d \in Dels, c \in Conns : /\ rem'[d][c].state = rem[d][c].state /\ rem'[d][c].outcome = rem[d][c].outcome
                                      /\ rem'[d][c].attempted = rem[d][c].attempted
    PROVE  DelIInv'
<1>1. ASSUME NEW d \in Dels PROVE RemovalsOfScope(d)' /\ (dop'[d] = "cleanup_required" <=> Dirty(d)' # {})
  <2>1. RemovalsOfScope(d) /\ Scope(d)' = Scope(d) /\ Dirty(d)' = Dirty(d)
    BY DEF DelIInv, DelOrder, Scope, Dirty
  <2> QED
    BY <2>1 DEF RemovalsOfScope, DelIInv, AsksWhileDirty
<1>2. ASSUME NEW v \in DelWorkers, dw[v].pc \in CarryPcs
      PROVE  CarriesNext(v)' /\ FreshSees(v)' /\ HoldsGate(v)' /\ WritesUnderMarker(v)'
  <2>1. dw[v].op \in Dels /\ dw[v].conn \in Conns
    BY <1>2, Carrying
  <2>2. CarriesNext(v) /\ FreshSees(v) /\ HoldsGate(v) /\ WritesUnderMarker(v)
    BY DEF DelIInv, DelOrder
  <2>3. Scope(dw[v].op)' = Scope(dw[v].op) /\ (Marked(dw[v].op, dw[v].conn)' <=> Marked(dw[v].op, dw[v].conn))
    BY <2>1 DEF Scope, Marked
  <2>4. CarriesNext(v)'
    BY <2>1, <2>2, <2>3 DEF CarriesNext, DelAt, Scope
  <2>5. FreshSees(v)'
    BY <2>1, <2>2, <2>3 DEF FreshSees
  <2> QED
    BY <2>2, <2>3, <2>4, <2>5 DEF HoldsGate, WritesUnderMarker, DelAt
<1>3. ASSUME NEW v \in DelWorkers, dw[v].pc \notin CarryPcs
      PROVE  CarriesNext(v)' /\ FreshSees(v)' /\ HoldsGate(v)' /\ WritesUnderMarker(v)'
  <2>1. CarriesNext(v) /\ FreshSees(v)
    BY DEF DelIInv, DelOrder
  <2> QED
    BY <1>3, <2>1 DEF CarriesNext, FreshSees, HoldsGate, WritesUnderMarker, DelAt, CarryPcs, DelChildPcs, GatedPcs
<1> QED
  BY <1>1, <1>2, <1>3 DEF DelIInv, DelOrder, AsksWhileDirty

\* The poller, the clock, the nodes and the administrators.
LEMMA EnvironmentTyped ==
    ASSUME DelTyped,
           DelPoll \/ DelTime \/ TurnDraining \/ ExpireBusy
           \/ (\E n \in DelNodes : NodeStops(n))
           \/ (\E c \in Conns : NodeEdited(c) \/ NodeRepaired(c) \/ EditConnection(c) \/ AddConnection(c) \/ QuotaTurns(c))
    PROVE  /\ DelTyped' /\ UNCHANGED <<dop, frozen, dw, ngate, dlease>>
           /\ \A d \in Dels, c \in Conns : /\ rem'[d][c].state = rem[d][c].state /\ rem'[d][c].outcome = rem[d][c].outcome
                                         /\ rem'[d][c].attempted = rem[d][c].attempted
<1> DEFINE Goal == /\ DelTyped' /\ UNCHANGED <<dop, frozen, dw, ngate, dlease>>
                   /\ \A d \in Dels, c \in Conns : /\ rem'[d][c].state = rem[d][c].state
                                                 /\ rem'[d][c].outcome = rem[d][c].outcome
                                                 /\ rem'[d][c].attempted = rem[d][c].attempted
<1>1. /\ conn \in [Conns -> ConnRecord] /\ wire \in WireType /\ poll \in PollType /\ rem \in RemType
      /\ nup \in [DelNodes -> BOOLEAN] /\ want \in [Conns -> BOOLEAN] /\ dlive \in [Dels -> BOOLEAN]
      /\ clive \in BOOLEAN /\ ddrain \in BOOLEAN
  BY DEF DelTyped, ConnType, ConnRecord
<1>2. CASE PollReads
  <2>1. poll' \in PollType
    BY <1>2 DEF PollReads, PollType
  <2> QED
    BY <1>2, <2>1 DEF PollReads, DelTyped, delrows, dleases, dworld
<1>3. ASSUME NEW c \in Conns, PollPushes(c) PROVE Goal
  <2>1. wire' \in WireType
    BY <1>1, <1>3 DEF PollPushes, WireType
  <2>2. poll' = [poll EXCEPT !.applied = @ \cup {c}] \/ poll' = [poll EXCEPT !.todo[c] = "leave"]
    BY <1>3 DEF PollPushes
  <2>3. [poll EXCEPT !.applied = @ \cup {c}] \in PollType
    BY <1>1 DEF PollType
  <2>4. [poll EXCEPT !.todo[c] = "leave"] \in PollType
    <3>1. [poll.todo EXCEPT ![c] = "leave"] \in [Conns -> {"enable", "disable", "leave"}]
      BY <1>1 DEF PollType
    <3> QED
      BY <1>1, <3>1 DEF PollType
  <2> QED
    BY <1>3, <2>1, <2>2, <2>3, <2>4 DEF PollPushes, DelTyped, delrows, dleases
<1>4. CASE PollCommits
  <2>1. \A c \in Conns : [conn[c] EXCEPT !.enabled = (poll.todo[c] = "enable")] \in ConnRecord
    BY <1>1, ConnRecords
  <2>2. conn' \in ConnType
    BY <1>1, <1>4, <2>1 DEF PollCommits, ConnType, ConnRecord
  <2>3. poll' \in PollType
    BY <1>4 DEF PollCommits, PollIdle, PollType
  <2> QED
    BY <1>4, <2>2, <2>3 DEF PollCommits, DelTyped, dleases, dworld
<1>5. CASE ExpireDead \/ ExpireBusy
  <2>1. dlive' \in [Dels -> BOOLEAN] /\ clive' \in BOOLEAN
        /\ UNCHANGED <<plan, dop, frozen, rem, delrows, dlease, clease, dw, ngate, dworld, poll, want, ddrain>>
    BY <1>1, <1>5 DEF ExpireDead, ExpireBusy, ExpireDelLease, ExpireCustLease
  <2> QED
    BY <2>1 DEF DelTyped, delrows, dworld
<1>6. ASSUME NEW d \in Dels, NEW c \in Conns, RemovalDue(d, c) PROVE Goal
  <2> DEFINE r == [rem[d][c] EXCEPT !.due = TRUE]
  <2>1. rem[d][c] \in Removal
    BY <1>1 DEF RemType
  <2>2. r \in Removal /\ r.state = rem[d][c].state /\ r.outcome = rem[d][c].outcome /\ r.attempted = rem[d][c].attempted
    <3> DEFINE old == rem[d][c]
    <3>1. old \in Removal
      BY <2>1
    <3> HIDE DEF old
    <3>2. /\ [old EXCEPT !.due = TRUE] \in Removal /\ [old EXCEPT !.due = TRUE].state = old.state
          /\ [old EXCEPT !.due = TRUE].outcome = old.outcome /\ [old EXCEPT !.due = TRUE].attempted = old.attempted
      BY <3>1, RemovalRecords
    <3> QED
      BY <3>2 DEF old
  <2>3. rem' = [rem EXCEPT ![d][c] = r]
    BY <1>6 DEF RemovalDue
  <2> HIDE DEF r
  <2>4. Rewrites(d, c, r)
    BY <1>1, <2>2, <2>3, OneRewrites
  <2> QED
    BY <1>6, <2>2, <2>4 DEF RemovalDue, Rewrites, DelTyped, delrows, dleases, dworld
<1>7. ASSUME NEW n \in DelNodes, NodeStops(n) \/ NodeReturns(n) PROVE Goal
  <2>1. nup' \in [DelNodes -> BOOLEAN]
    BY <1>1, <1>7 DEF NodeStops, NodeReturns
  <2> QED
    BY <1>7, <2>1 DEF NodeStops, NodeReturns, DelQuiet, DelTyped, dleases
<1>8. ASSUME NEW c \in Conns, NodeEdited(c) \/ NodeRepaired(c) PROVE Goal
  <2>1. wire' \in WireType
    BY <1>1, <1>8 DEF NodeEdited, NodeRepaired, WireType
  <2> QED
    BY <1>8, <2>1 DEF NodeEdited, NodeRepaired, DelQuiet, DelTyped, dleases
<1>9. ASSUME NEW c \in Conns, EditConnection(c) \/ AddConnection(c) PROVE Goal
  <2> DEFINE old == conn[c]
             edited == [old EXCEPT !.print = 1]
             added == [old EXCEPT !.there = TRUE]
  <2>1. old \in ConnRecord
    BY <1>1
  <2>2. EditConnection(c) => conn' = [conn EXCEPT ![c] = edited]
    BY DEF EditConnection
  <2>3. AddConnection(c) => conn' = [conn EXCEPT ![c] = added]
    BY DEF AddConnection
  <2> HIDE DEF old
  <2>4. edited \in ConnRecord /\ added \in ConnRecord
    BY <2>1, ConnRecords
  <2> HIDE DEF edited, added
  <2>5. conn' \in ConnType
    BY <1>1, <1>9, <2>2, <2>3, <2>4 DEF ConnType, ConnRecord
  <2>6. wire' \in WireType
    BY <1>1, <1>9 DEF EditConnection, AddConnection, WireType, dworld
  <2> QED
    BY <1>9, <2>5, <2>6 DEF EditConnection, AddConnection, DelQuiet, DelTyped, dleases, dworld
<1>10. ASSUME NEW c \in Conns, QuotaTurns(c) PROVE Goal
  <2>1. want' \in [Conns -> BOOLEAN]
    BY <1>1, <1>10 DEF QuotaTurns
  <2> QED
    BY <1>10, <2>1 DEF QuotaTurns, DelQuiet, DelTyped, dleases, dworld
<1>11. CASE TurnDraining
  BY <1>1, <1>11 DEF TurnDraining, DelQuiet, DelTyped, dleases, dworld
<1> QED
  BY <1>2, <1>3, <1>4, <1>5, <1>6, <1>7, <1>8, <1>9, <1>10, <1>11 DEF DelPoll, DelTime
-----------------------------------------------------------------------------
(* The theorems *)

LEMMA DelStart == DelInit => DelIInv
<1> SUFFICES ASSUME DelInit PROVE DelIInv
  OBVIOUS
<1>1. NoRemoval \in Removal /\ NoRemoval.state = "none" /\ NoRemoval.outcome = "none"
  BY DEF NoRemoval, Removal
<1>2. DelIdle \in Worker /\ DelIdle.pc = "idle" /\ ~DelIdle.fresh
  BY IdleRecord
<1>3. rem \in RemType /\ dw \in WorkerType
  BY <1>1, <1>2 DEF DelInit, RemType, WorkerType
<1>4. poll \in PollType
  BY DEF DelInit, PollIdle, PollType
<1>5. frozen \in FrozenType /\ conn \in ConnType /\ cust \in CustType /\ wire \in WireType
  BY DEF DelInit, FrozenType, ConnType, CustType, WireType, NotInScope
<1>6. DelTyped
  BY <1>3, <1>4, <1>5 DEF DelInit, DelTyped, DopType, LeaseType, GateType
<1>7. \A d \in Dels : RemovalsOfScope(d) /\ Dirty(d) = {}
  BY <1>1 DEF DelInit, RemovalsOfScope, Scope, Dirty
<1>8. \A w \in DelWorkers : CarriesNext(w) /\ FreshSees(w) /\ HoldsGate(w) /\ WritesUnderMarker(w)
  BY <1>2 DEF DelInit, CarriesNext, FreshSees, HoldsGate, WritesUnderMarker, DelAt, CarryPcs, DelChildPcs, GatedPcs
<1>9. AsksWhileDirty
  BY <1>7 DEF DelInit, AsksWhileDirty
<1> QED
  BY <1>6, <1>7, <1>8, <1>9 DEF DelIInv, DelOrder

LEMMA StutterKeeps ==
    ASSUME DelIInv, UNCHANGED delvars
    PROVE  DelIInv'
<1>1. DelTyped'
  BY DEF DelIInv, DelTyped, delvars, delrows, dleases, dworld
<1> QED
  BY <1>1, OthersKeep DEF delvars, dleases

LEMMA DelStep ==
    ASSUME DelIInv, DelNext \/ UNCHANGED delvars
    PROVE  DelIInv'
<1>1. ASSUME NEW w \in DelWorkers, NEW d \in Dels, PrepareDeletion(w, d) PROVE DelIInv'
  BY <1>1, PrepareKeeps
<1>2. ASSUME NEW w \in DelWorkers, DelWork(w) PROVE DelIInv'
  <2>1. ASSUME NEW d \in Dels, ReacquireDeletion(w, d) \/ TickRefuses(w, d) PROVE DelIInv'
    BY <2>1, IdleKeeps
  <2>2. ASSUME NEW d \in Dels, TickPpp(w, d) PROVE DelIInv'
    BY <2>2, PppKeeps
  <2>3. ASSUME NEW d \in Dels, TickPicksRemoval(w, d) PROVE DelIInv'
    BY <2>3, PickKeeps
  <2>4. ASSUME NEW d \in Dels, TickFinishes(w, d) \/ TickDuplicate(w, d) PROVE DelIInv'
    BY <2>4, FinishKeeps
  <2>5. ASSUME DispatchRemoval(w) PROVE DelIInv'
    <3>1. dw[w].op \in Dels /\ dw[w].conn \in Conns
      BY <2>5, Carrying DEF DispatchRemoval, DelAt, CarryPcs
    <3> QED
      BY <2>5, <3>1, DispatchKeeps
  <2>6. ASSUME RecordRemoval(w) PROVE DelIInv'
    <3>1. dw[w].op \in Dels /\ dw[w].conn \in Conns
      BY <2>6, Carrying DEF RecordRemoval, DelAt, CarryPcs
    <3> QED
      BY <2>6, <3>1, RecordKeeps
  <2>7. ASSUME \/ ReleaseShared(w) \/ TakeNodeGate(w) \/ LookUp(w) \/ AuthoriseRemoval(w) \/ RemoveFromNode(w)
               \/ CertifyAbsent(w) \/ ChildGivesUp(w)
        PROVE  DelIInv'
    BY <2>7, ChildKeeps
  <2>8. ASSUME LeaveRefused(w) \/ ReleaseLeases(w) PROVE DelIInv'
    BY <2>8, IdleKeeps
  <2> QED
    BY <1>2, <2>1, <2>2, <2>3, <2>4, <2>5, <2>6, <2>7, <2>8 DEF DelWork
<1>3. ASSUME NEW w \in DelWorkers, ChildKilled(w) \/ LockConflict(w) \/ WorkerCrash(w) PROVE DelIInv'
  BY <1>3, ChildKeeps, IdleKeeps
<1>4. ASSUME NEW d \in Dels, RetryRemoval(d) \/ \E c \in Conns : ForceRemoval(d, c) \/ AbandonUnknown(d, c) PROVE DelIInv'
  BY <1>4, RetryKeeps, GiveUpKeeps
<1>5. ASSUME DelPoll \/ DelTime \/ TurnDraining \/ ExpireBusy
             \/ (\E n \in DelNodes : NodeStops(n))
             \/ (\E c \in Conns : NodeEdited(c) \/ NodeRepaired(c) \/ EditConnection(c) \/ AddConnection(c) \/ QuotaTurns(c))
      PROVE  DelIInv'
  <2>1. DelTyped
    BY DEF DelIInv
  <2> QED
    BY <1>5, <2>1, EnvironmentTyped, OthersKeep
<1>6. CASE UNCHANGED delvars
  BY <1>6, StutterKeeps
<1> QED
  BY <1>1, <1>2, <1>3, <1>4, <1>5, <1>6 DEF DelNext, DelDisturb, DelOperator

\* Every deletion works through the scope T1 froze in the order of the ids, and

\* a child that is about to write does so under a marker that nobody who could
\* record a result can take away.
THEOREM DelInductive == DelSpec => []DelIInv
<1>1. DelIInv /\ [DelNext]_delvars => DelIInv'
  BY DelStep
<1> QED
  BY DelStart, <1>1, PTL DEF DelSpec

\* A client leaves its node only under the committed marker of its deletion.
THEOREM MarkerFirst == DelSpec => RemovedUnderMarker
<1>1. DelIInv => \A w \in DelWorkers : RemoveFromNode(w) => Marked(dw[w].op, dw[w].conn)
  BY DEF DelIInv, DelOrder, WritesUnderMarker, RemoveFromNode
<1>2. DelIInv /\ [DelNext]_delvars
        => [\A w \in DelWorkers : RemoveFromNode(w) => Marked(dw[w].op, dw[w].conn)]_delvars
  BY <1>1
<1> QED
  BY <1>2, DelInductive, PTL DEF DelSpec, RemovedUnderMarker

\* The record of a connection goes with the whole scope of a deletion in flight,
\* whose every removal is proved or was given up.
RowsGoTogether ==
    \A c \in Conns : conn[c].there /\ ~conn'[c].there =>
      \E d \in Dels : /\ InFlightDel(d) /\ dop'[d] = "completed" /\ c \in Scope(d)
                      /\ \A e \in Scope(d) : ~conn'[e].there /\ Proved(rem[d][e], e)

LEMMA RecordsGoAtTheEnd ==
    ASSUME DelIInv, DelNext, NEW c \in Conns, conn[c].there, ~conn'[c].there
    PROVE  \E w \in DelWorkers, d \in Dels : TickFinishes(w, d)
<1>1. conn \in [Conns -> ConnRecord]
  BY DEF DelIInv, DelTyped, ConnType, ConnRecord
<1>2. conn[c] \in ConnRecord
  BY <1>1
<1>3. ASSUME NEW b \in BOOLEAN, conn'[c] = [conn[c] EXCEPT !.enabled = b] PROVE FALSE
  BY <1>2, <1>3 DEF ConnRecord
<1>4. UNCHANGED conn => FALSE
  OBVIOUS
<1>5. ASSUME NEW w \in DelWorkers, NEW d \in Dels, PrepareDeletion(w, d) PROVE FALSE
  BY <1>3, <1>5 DEF PrepareDeletion
<1>6. CASE PollCommits
  BY <1>1, <1>3, <1>6 DEF PollCommits
<1>7. ASSUME NEW e \in Conns, EditConnection(e) \/ AddConnection(e) PROVE FALSE
  <2>1. conn' = [conn EXCEPT ![e].print = 1] \/ conn' = [conn EXCEPT ![e].there = TRUE]
    BY <1>7 DEF EditConnection, AddConnection
  <2> QED
    BY <1>1, <2>1 DEF ConnRecord
<1>8. ASSUME NEW w \in DelWorkers, DelWork(w) PROVE UNCHANGED conn \/ \E d \in Dels : TickFinishes(w, d)
  BY <1>8
     DEF DelWork, ReacquireDeletion, TickPpp, TickPicksRemoval, TickDuplicate, TickRefuses, ReleaseShared, DispatchRemoval,
         TakeNodeGate, LookUp, AuthoriseRemoval, RemoveFromNode, CertifyAbsent, ChildGivesUp, RecordRemoval, LeaveRefused,
         ReleaseLeases, DelUnmoved, delrows
<1>9. DelPoll => PollCommits \/ UNCHANGED conn
  BY DEF DelPoll, PollReads, PollPushes, delrows
<1>10. DelTime => UNCHANGED conn
  BY DEF DelTime, ExpireDead, ExpireDelLease, ExpireCustLease, RemovalDue, NodeReturns, delrows
<1>11. DelDisturb => UNCHANGED conn \/ \E e \in Conns : EditConnection(e) \/ AddConnection(e)
  BY DEF DelDisturb, ChildKilled, LockConflict, WorkerCrash, NodeStops, NodeEdited, NodeRepaired, QuotaTurns, TurnDraining,
         ExpireBusy, ExpireDelLease, ExpireCustLease, DelUnmoved, delrows
<1>12. DelOperator => UNCHANGED conn
  BY DEF DelOperator, RetryRemoval, ForceRemoval, AbandonUnknown, delrows
<1> QED
  BY <1>4, <1>5, <1>6, <1>7, <1>8, <1>9, <1>10, <1>11, <1>12 DEF DelNext

THEOREM ScopeGoesWhole == DelSpec => WholeScopeOrNothing
<1>1. ASSUME DelIInv, DelNext PROVE RowsGoTogether
  <2> SUFFICES ASSUME NEW c \in Conns, conn[c].there, ~conn'[c].there
               PROVE  \E d \in Dels : /\ InFlightDel(d) /\ dop'[d] = "completed" /\ c \in Scope(d)
                                      /\ \A e \in Scope(d) : ~conn'[e].there /\ Proved(rem[d][e], e)
    BY DEF RowsGoTogether
  <2>1. PICK w \in DelWorkers, d \in Dels : TickFinishes(w, d)
    BY <1>1, RecordsGoAtTheEnd
  <2>2. conn \in [Conns -> ConnRecord] /\ dop \in DopType
    BY <1>1 DEF DelIInv, DelTyped, ConnType, ConnRecord
  <2>3. InScope(d) = Scope(d) /\ (\A e \in Scope(d) : Proved(rem[d][e], e)) /\ InFlightDel(d) /\ dop'[d] = "completed"
    BY <2>1, <2>2 DEF TickFinishes, Deletable, Unchanged, Working, InFlightDel, DopType
  <2>4. \A e \in Conns : conn'[e] = IF e \in InScope(d) THEN [conn[e] EXCEPT !.there = FALSE] ELSE conn[e]
    BY <2>1 DEF TickFinishes
  <2>5. \A e \in Scope(d) : ~conn'[e].there
    <3> TAKE e \in Scope(d)
    <3> DEFINE old == conn[e]
    <3>1. e \in Conns /\ old \in ConnRecord /\ conn'[e] = [old EXCEPT !.there = FALSE]
      BY <2>2, <2>3, <2>4 DEF Scope
    <3> HIDE DEF old
    <3> QED
      BY <3>1 DEF ConnRecord
  <2>6. c \in Scope(d)
    BY <2>3, <2>4
  <2> QED
    BY <2>3, <2>5, <2>6
<1>2. DelIInv /\ [DelNext]_delvars => [RowsGoTogether]_delvars
  BY <1>1
<1>3. DelSpec => [][RowsGoTogether]_delvars
  BY <1>2, DelInductive, PTL DEF DelSpec
<1> QED
  BY <1>3 DEF WholeScopeOrNothing, RowsGoTogether
-----------------------------------------------------------------------------
(* What is gone stays gone *)

\* A step brings nothing back to a node, takes no proof back, and lets no record
\* go before its client.
NothingComesBack ==
    /\ plan' = plan /\ (poll'.pc # "idle" => poll.pc # "idle" \/ Allowed("poll"))
    /\ \A c \in plan.has :
         /\ wire'[c] = "present" => wire[c] = "present"
         /\ ~conn'[c].there => ~conn[c].there \/ wire[c] # "present" \/ Abandoned(c)
         /\ \A d \in Dels :
              /\ rem'[d][c].outcome = "verified_absent" => rem[d][c].outcome = "verified_absent" \/ wire[c] # "present"
              /\ rem[d][c].outcome = "abandoned" => rem'[d][c].outcome = "abandoned"
         /\ \A w \in DelWorkers :
              FoundAbsent(w)' /\ dw'[w].conn = c => (FoundAbsent(w) /\ dw[w].conn = c) \/ wire'[c] # "present"

LEMMA GoneKeeps ==
    ASSUME GoneIInv, NothingComesBack
    PROVE  GoneIInv'
<1>1. StaysAway'
  BY DEF GoneIInv, StaysAway, NothingComesBack, Allowed
<1>2. GoneFromTheNode'
  BY DEF GoneIInv, GoneFromTheNode, NothingComesBack, Abandoned
<1> QED
  BY <1>1, <1>2 DEF GoneIInv

\* The workers that do not write, and the children.
LEMMA GoneMoves ==
    ASSUME DelIInv, GoneIInv, NEW w \in DelWorkers, NEW rec \in Worker, Moves(w, rec),
           UNCHANGED <<plan, rem, conn, poll>>,
           \A c \in plan.has : wire'[c] = "present" => wire[c] = "present",
           rec.pc = "verify" \/ (rec.pc = "done" /\ rec.result = "absent") =>
             wire'[rec.conn] # "present" \/ (FoundAbsent(w) /\ rec.conn = dw[w].conn)
    PROVE  GoneIInv'
<1>1. ASSUME NEW v \in DelWorkers, NEW c \in plan.has, FoundAbsent(v)', dw'[v].conn = c
      PROVE  (FoundAbsent(v) /\ dw[v].conn = c) \/ wire'[c] # "present"
  BY <1>1 DEF FoundAbsent, Moves, DelAt
<1>2. NothingComesBack
  BY <1>1 DEF NothingComesBack
<1> QED
  BY <1>2, GoneKeeps

LEMMA WorkerGone ==
    ASSUME DelIInv, GoneIInv, NEW w \in DelWorkers,
           \/ \E d \in Dels : ReacquireDeletion(w, d) \/ TickRefuses(w, d) \/ TickPicksRemoval(w, d)
           \/ LeaveRefused(w) \/ LockConflict(w) \/ ReleaseLeases(w) \/ WorkerCrash(w)
           \/ ReleaseShared(w) \/ TakeNodeGate(w) \/ LookUp(w) \/ AuthoriseRemoval(w) \/ RemoveFromNode(w)
           \/ CertifyAbsent(w) \/ ChildGivesUp(w) \/ ChildKilled(w)
    PROVE  GoneIInv'
<1>1. dw \in WorkerType /\ wire \in WireType /\ plan.has \subseteq Conns
  BY DEF DelIInv, DelTyped
<1>2. ASSUME NEW rec \in Worker, dw' = [dw EXCEPT ![w] = rec], UNCHANGED <<plan, rem, conn, poll, wire>>,
             rec.pc # "verify", rec.pc # "done"
      PROVE  GoneIInv'
  BY <1>1, <1>2, OneMoves, GoneMoves
<1>3. ASSUME NEW pc \in DelPcs, dw' = [dw EXCEPT ![w].pc = pc], UNCHANGED <<plan, rem, conn, poll>>,
             \A c \in plan.has : wire'[c] = "present" => wire[c] = "present",
             pc # "done", pc = "verify" => wire'[dw[w].conn] # "present"
      PROVE  GoneIInv'
  <2>1. /\ Steps(w, pc) \in Worker /\ Steps(w, pc).pc = pc /\ Steps(w, pc).conn = dw[w].conn
    BY <1>1, StepRecord
  <2>2. dw' = [dw EXCEPT ![w] = Steps(w, pc)]
    BY <1>3 DEF Steps
  <2>3. Moves(w, Steps(w, pc))
    BY <1>1, <2>1, <2>2, OneMoves
  <2> QED
    BY <1>3, <2>1, <2>3, GoneMoves
<1>4. ASSUME NEW result \in {"absent", "conflict", "unknown"}, ChildEnds(w, result), UNCHANGED <<plan, rem, conn, poll, wire>>,
             result = "absent" => DelAt(w, "verify")
      PROVE  GoneIInv'
  <2>1. /\ Ends(w, result) \in Worker /\ Ends(w, result).pc = "done" /\ Ends(w, result).conn = dw[w].conn
        /\ Ends(w, result).result = result
    BY <1>1, EndRecord
  <2>2. dw' = [dw EXCEPT ![w] = Ends(w, result)]
    BY <1>4 DEF ChildEnds, Ends
  <2>3. Moves(w, Ends(w, result))
    BY <1>1, <2>1, <2>2, OneMoves
  <2> QED
    BY <1>4, <2>1, <2>3, GoneMoves DEF FoundAbsent
<1>5. ASSUME NEW d \in Dels, ReacquireDeletion(w, d) PROVE GoneIInv'
  <2>1. Begins("ticking", d) \in Worker /\ Begins("ticking", d).pc = "ticking"
    BY BeginRecord DEF DelPcs
  <2>2. dw' = [dw EXCEPT ![w] = Begins("ticking", d)] /\ UNCHANGED <<plan, rem, conn, poll, wire>>
    BY <1>5 DEF ReacquireDeletion, Begins, delrows, dworld
  <2> QED
    BY <1>2, <2>1, <2>2
<1>6. ASSUME NEW d \in Dels, TickPicksRemoval(w, d) PROVE GoneIInv'
  <2>1. NextOf(d) \in Conns
    BY <1>6, NextIsFirst DEF TickPicksRemoval, Pending, Scope
  <2>2. Picks(w, NextOf(d)) \in Worker /\ Picks(w, NextOf(d)).pc = "picked"
    BY <1>1, <2>1, PickRecord
  <2>3. dw' = [dw EXCEPT ![w] = Picks(w, NextOf(d))] /\ UNCHANGED <<plan, rem, conn, poll, wire>>
    BY <1>6 DEF TickPicksRemoval, Picks, delrows, dworld
  <2> QED
    BY <1>2, <2>2, <2>3
<1>7. CASE (\E d \in Dels : TickRefuses(w, d)) \/ LeaveRefused(w) \/ LockConflict(w)
  <2>1. DelLeave(w) \in Worker /\ DelLeave(w).pc = "releasing"
    BY <1>1, LeaveRecord
  <2>2. dw' = [dw EXCEPT ![w] = DelLeave(w)] /\ UNCHANGED <<plan, rem, conn, poll, wire>>
    BY <1>7 DEF TickRefuses, LeaveRefused, LockConflict, DelUnmoved, delrows, dworld
  <2> QED
    BY <1>2, <2>1, <2>2
<1>8. CASE ReleaseLeases(w) \/ WorkerCrash(w)
  <2>1. dw' = [dw EXCEPT ![w] = DelIdle] /\ UNCHANGED <<plan, rem, conn, poll, wire>>
    BY <1>8 DEF ReleaseLeases, WorkerCrash, DelUnmoved, delrows, dworld
  <2> QED
    BY <1>2, <2>1, IdleRecord
<1>9. CASE ReleaseShared(w) \/ TakeNodeGate(w) \/ AuthoriseRemoval(w)
  <2>1. UNCHANGED <<plan, rem, conn, poll, wire>>
    BY <1>9 DEF ReleaseShared, TakeNodeGate, AuthoriseRemoval, DelUnmoved, delrows, dworld
  <2> QED
    BY <1>3, <1>9, <2>1 DEF ReleaseShared, TakeNodeGate, AuthoriseRemoval, DelPcs
<1>10. CASE RemoveFromNode(w)
  <2>1. dw[w].conn \in Conns
    BY <1>10, Carrying DEF RemoveFromNode, DelAt, CarryPcs, DelChildPcs
  <2>2. UNCHANGED <<plan, rem, conn, poll>> /\ wire' = [wire EXCEPT ![dw[w].conn] = "absent"]
        /\ dw' = [dw EXCEPT ![w].pc = "verify"]
    BY <1>10 DEF RemoveFromNode, DelUnmoved, delrows
  <2>3. /\ \A c \in plan.has : wire'[c] = "present" => wire[c] = "present"
        /\ wire'[dw[w].conn] # "present"
    BY <1>1, <2>1, <2>2 DEF WireType
  <2> QED
    BY <1>3, <2>2, <2>3 DEF DelPcs
<1>11. CASE CertifyAbsent(w) \/ ChildGivesUp(w) \/ ChildKilled(w)
  <2>1. UNCHANGED <<plan, rem, conn, poll, wire>>
    BY <1>11 DEF CertifyAbsent, ChildGivesUp, ChildKilled, DelUnmoved, delrows, dworld
  <2> QED
    BY <1>4, <1>11, <2>1 DEF CertifyAbsent, ChildGivesUp, ChildKilled
<1>12. CASE LookUp(w)
  <2>1. dw[w].conn \in Conns
    BY <1>12, Carrying DEF LookUp, DelAt, CarryPcs, DelChildPcs
  <2>2. UNCHANGED <<plan, rem, conn, poll, wire>>
    BY <1>12 DEF LookUp, DelUnmoved, delrows, dworld
  <2>3. \/ dw' = [dw EXCEPT ![w].pc = "writing"]
        \/ dw' = [dw EXCEPT ![w].pc = "verify"] /\ wire[dw[w].conn] = "absent"
        \/ ChildEnds(w, "conflict")
    BY <1>1, <1>12, <2>1 DEF LookUp, WireType
  <2> QED
    BY <1>3, <1>4, <2>2, <2>3 DEF DelPcs
<1> QED
  BY <1>5, <1>6, <1>7, <1>8, <1>9, <1>10, <1>11, <1>12
\* The outcomes that say that nothing is on the node are taken back by nobody,
\* and only what a child found absent is recorded as verified.
OutcomesStand ==
    \A c \in plan.has, d \in Dels :
      /\ rem'[d][c].outcome = "verified_absent" => rem[d][c].outcome = "verified_absent" \/ wire[c] # "present"
      /\ rem[d][c].outcome = "abandoned" => rem'[d][c].outcome = "abandoned"

\* The steps that write a deletion, and those that touch no worker.
LEMMA GoneWrites ==
    ASSUME DelIInv, GoneIInv, OutcomesStand,
           \A v \in DelWorkers : FoundAbsent(v)' => FoundAbsent(v) /\ dw'[v].conn = dw[v].conn,
           UNCHANGED plan, \A c \in plan.has : wire'[c] = "present" => wire[c] = "present",
           poll'.pc # "idle" => poll.pc # "idle" \/ Allowed("poll"),
           \A c \in plan.has : ~conn'[c].there => ~conn[c].there \/ wire[c] # "present" \/ Abandoned(c)
    PROVE  GoneIInv'
<1>1. NothingComesBack
  BY DEF NothingComesBack, OutcomesStand
<1> QED
  BY <1>1, GoneKeeps

\* The write of x outdates what the others know, not what they found.
LEMMA FoundByOthers ==
    ASSUME NEW x, NEW d, NEW S, \A v \in DelWorkers \ {x} : Outdated(v, d, S),
           x \in DelWorkers => dw'[x].pc \notin {"verify", "done"}
    PROVE  \A v \in DelWorkers : FoundAbsent(v)' => FoundAbsent(v) /\ dw'[v].conn = dw[v].conn
  BY DEF Outdated, FoundAbsent, DelAt

\* One removal of the deletion is rewritten.
LEMMA RewriteStands ==
    ASSUME NEW d \in Dels, NEW c \in Conns, NEW r, Rewrites(d, c, r), plan.has \subseteq Conns,
           r.outcome = "verified_absent" /\ c \in plan.has => rem[d][c].outcome = "verified_absent" \/ wire[c] # "present",
           rem[d][c].outcome = "abandoned" => r.outcome = "abandoned"
    PROVE  OutcomesStand
<1>1. ASSUME NEW e \in Dels, NEW b \in plan.has, e # d \/ b # c PROVE rem'[e][b] = rem[e][b]
  BY <1>1 DEF Rewrites
<1>2. rem'[d][c] = r
  BY DEF Rewrites
<1>3. ASSUME NEW e \in Dels, NEW b \in plan.has
      PROVE  /\ rem'[e][b].outcome = "verified_absent" => rem[e][b].outcome = "verified_absent" \/ wire[b] # "present"
             /\ rem[e][b].outcome = "abandoned" => rem'[e][b].outcome = "abandoned"
  <2>1. CASE e # d \/ b # c
    BY <1>1, <2>1
  <2>2. CASE e = d /\ b = c
    BY <1>2, <2>2
  <2> QED
    BY <2>1, <2>2
<1> QED
  BY <1>3 DEF OutcomesStand

LEMMA WriterGone ==
    ASSUME DelIInv, GoneIInv, NEW w \in DelWorkers, NEW d \in Dels, NEW c \in Conns,
           \/ TickPpp(w, d) /\ c = NextOf(d)
           \/ DispatchRemoval(w) /\ dw[w].op = d /\ dw[w].conn = c
           \/ RecordRemoval(w) /\ dw[w].op = d /\ dw[w].conn = c
    PROVE  GoneIInv'
<1>1. /\ dw \in WorkerType /\ rem \in RemType /\ rem[d][c] \in Removal /\ RemovalsOfScope(d) /\ plan.has \subseteq Conns
      /\ FreshSees(w) /\ CarriesNext(w)
  BY DEF DelIInv, DelTyped, DelOrder, RemType
<1>2. DelLeave(w) \in Worker /\ DelLeave(w).pc = "releasing"
  BY <1>1, LeaveRecord
<1>3. Steps(w, "spawned") \in Worker /\ Steps(w, "spawned").pc = "spawned"
  BY <1>1, StepRecord DEF DelPcs
<1>4. /\ UNCHANGED <<plan, wire, poll, conn>>
      /\ \A b \in plan.has : wire'[b] = "present" => wire[b] = "present"
  BY DEF TickPpp, DispatchRemoval, RecordRemoval, dworld, delrows
<1>5. ASSUME NEW rec \in Worker, dw' = DelWritten(w, d, {c}, rec), rec.pc \notin {"verify", "done"}, OutcomesStand
      PROVE  GoneIInv'
  <2>1. dw'[w] = rec /\ \A v \in DelWorkers \ {w} : Outdated(v, d, {c})
    BY <1>1, <1>5, OthersStale
  <2>2. \A v \in DelWorkers : FoundAbsent(v)' => FoundAbsent(v) /\ dw'[v].conn = dw[v].conn
    BY <1>5, <2>1, FoundByOthers
  <2> QED
    BY <1>4, <1>5, <2>2, GoneWrites
<1>6. CASE TickPpp(w, d) /\ c = NextOf(d)
  <2> DEFINE old == rem[d][c]
             r == [old EXCEPT !.state = "removed"]
  <2>1. rem' = [rem EXCEPT ![d][c] = r] /\ dw' = DelWritten(w, d, {c}, DelLeave(w))
    BY <1>6 DEF TickPpp
  <2>2. r \in Removal /\ r.outcome = old.outcome
    <3>1. old \in Removal
      BY <1>1
    <3> HIDE DEF old
    <3> QED
      BY <3>1, RemovalRecords
  <2>3. old.outcome = rem[d][c].outcome
    OBVIOUS
  <2> HIDE DEF r, old
  <2>4. Rewrites(d, c, r)
    BY <1>1, <2>1, <2>2, OneRewrites
  <2>5. OutcomesStand
    BY <1>1, <2>2, <2>3, <2>4, RewriteStands
  <2> QED
    BY <1>2, <1>5, <2>1, <2>5
<1>7. CASE DispatchRemoval(w) /\ dw[w].op = d /\ dw[w].conn = c /\ rem[d][c].state = "staged"
  <2> DEFINE r == MarkRemoval(rem[d][c])
  <2>1. rem' = [rem EXCEPT ![d][c] = r] /\ dw' = DelWritten(w, d, {c}, Steps(w, "spawned"))
    BY <1>7 DEF DispatchRemoval, Steps
  <2>2. r \in Removal /\ r.outcome = "none"
    BY <1>1, RemovalRecords
  <2> HIDE DEF r
  <2>3. Rewrites(d, c, r)
    BY <1>1, <2>1, <2>2, OneRewrites
  <2>4. OutcomesStand
    BY <1>1, <1>7, <2>2, <2>3, RewriteStands DEF RemovalsOfScope
  <2> QED
    BY <1>3, <1>5, <2>1, <2>4
<1>8. CASE DispatchRemoval(w) /\ dw[w].op = d /\ dw[w].conn = c /\ rem[d][c].state # "staged"
  <2>1. dw' = [dw EXCEPT ![w] = Steps(w, "spawned")] /\ UNCHANGED rem
    BY <1>8 DEF DispatchRemoval, Steps
  <2>2. Moves(w, Steps(w, "spawned"))
    BY <1>1, <1>3, <2>1, OneMoves
  <2> QED
    BY <1>3, <1>4, <2>1, <2>2, GoneMoves
<1>9. CASE RecordRemoval(w) /\ dw[w].op = d /\ dw[w].conn = c
  <2> DEFINE old == rem[d][c]
             result == dw[w].result
             r == RemovalRecorded(old, result)
  <2>1. rem' = [rem EXCEPT ![d][c] = r] /\ dw' = DelWritten(w, d, {c}, DelLeave(w))
    BY <1>9 DEF RecordRemoval
  <2>2. Marked(d, c) /\ DelAt(w, "done") /\ result \in {"absent", "conflict", "unknown"}
    BY <1>1, <1>9 DEF RecordRemoval, FreshSees, CarriesNext, DelAt, WorkerType, Worker
  <2>3. result = "absent" /\ c \in plan.has => wire[c] # "present"
    BY <1>9, <2>2 DEF GoneIInv, StaysAway, FoundAbsent
  <2>4. old.outcome = rem[d][c].outcome /\ old \in Removal
    BY <1>1
  <2> HIDE DEF old, result
  <2>5. r \in Removal /\ (result # "absent" => r.outcome # "verified_absent")
    <3>1. CASE result = "absent"
      BY <2>4, <3>1, RemovalRecords
    <3>2. CASE result = "conflict"
      BY <2>4, <3>2, RemovalRecords
    <3>3. CASE result = "unknown"
      BY <2>4, <3>3, RemovalRecords
    <3> QED
      BY <2>2, <3>1, <3>2, <3>3
  <2> HIDE DEF r
  <2>6. Rewrites(d, c, r)
    BY <1>1, <2>1, <2>5, OneRewrites
  <2>7. rem[d][c].outcome # "abandoned"
    BY <1>1, <2>2 DEF RemovalsOfScope, Marked
  <2>8. OutcomesStand
    BY <1>1, <2>3, <2>5, <2>6, <2>7, RewriteStands
  <2> QED
    BY <1>2, <1>5, <2>1, <2>8
<1> QED
  BY <1>6, <1>7, <1>8, <1>9

\* The operator's retry is for refused removals, which are neither proved nor
\* given up.
LEMMA OperatorGone ==
    ASSUME DelIInv, GoneIInv, NEW d \in Dels,
           RetryRemoval(d) \/ \E c \in Conns : ForceRemoval(d, c) \/ AbandonUnknown(d, c)
    PROVE  GoneIInv'
<1>1. /\ dw \in WorkerType /\ rem \in RemType /\ RemovalsOfScope(d) /\ plan.has \subseteq Conns
  BY DEF DelIInv, DelTyped, DelOrder
<1>2. UNCHANGED <<plan, wire, poll, conn>>
  BY DEF RetryRemoval, ForceRemoval, AbandonUnknown, dworld, delrows
<1>3. ASSUME NEW S, dw' = DelWritten(NoDelWorker, d, S, DelIdle), OutcomesStand PROVE GoneIInv'
  <2>1. \A v \in DelWorkers \ {NoDelWorker} : Outdated(v, d, S)
    BY <1>1, <1>3, DecisionWrites
  <2>2. \A v \in DelWorkers : FoundAbsent(v)' => FoundAbsent(v) /\ dw'[v].conn = dw[v].conn
    BY <2>1, FoundByOthers
  <2> QED
    BY <1>2, <1>3, <2>2, GoneWrites
<1>4. CASE RetryRemoval(d)
  <2>1. /\ rem' = [rem EXCEPT ![d] = [c \in Conns |-> IF c \in Dirty(d) THEN Retried(rem[d][c]) ELSE rem[d][c]]]
        /\ dw' = DelWritten(NoDelWorker, d, Conns, DelIdle)
    BY <1>1, <1>4 DEF RetryRemoval, Retried, RemType
  <2>2. ASSUME NEW r \in Removal PROVE Retried(r).outcome = "none"
    BY DEF Retried, Removal
  <2>3. ASSUME NEW c \in plan.has
        PROVE  /\ rem'[d][c].outcome = "verified_absent" => rem[d][c].outcome = "verified_absent"
               /\ rem[d][c].outcome = "abandoned" => rem'[d][c].outcome = "abandoned"
    <3>1. c \in Conns /\ rem[d][c] \in Removal /\ rem'[d][c] = IF c \in Dirty(d) THEN Retried(rem[d][c]) ELSE rem[d][c]
      BY <1>1, <2>1, <2>3 DEF RemType
    <3>2. c \in Dirty(d) => rem[d][c].outcome # "abandoned" /\ rem'[d][c].outcome = "none"
      BY <1>1, <2>2, <3>1 DEF Dirty, RemovalsOfScope
    <3> QED
      BY <3>1, <3>2
  <2>4. \A e \in Dels \ {d} : rem'[e] = rem[e]
    BY <1>1, <2>1 DEF RemType
  <2>5. OutcomesStand
    BY <2>3, <2>4 DEF OutcomesStand
  <2> QED
    BY <1>3, <2>1, <2>5
<1>5. ASSUME NEW c \in Conns, ForceRemoval(d, c) \/ AbandonUnknown(d, c) PROVE GoneIInv'
  <2> DEFINE r == GivenUp(rem[d][c])
  <2>1. rem' = [rem EXCEPT ![d][c] = r] /\ dw' = DelWritten(NoDelWorker, d, {c}, DelIdle)
    BY <1>5 DEF ForceRemoval, AbandonUnknown
  <2>2. rem[d][c] \in Removal
    BY <1>1 DEF RemType
  <2>3. r \in Removal /\ r.outcome = "abandoned"
    BY <2>2, RemovalRecords
  <2> HIDE DEF r
  <2>4. Rewrites(d, c, r)
    BY <1>1, <2>1, <2>3, OneRewrites
  <2>5. OutcomesStand
    BY <1>1, <2>3, <2>4, RewriteStands
  <2> QED
    BY <1>3, <2>1, <2>5
<1> QED
  BY <1>4, <1>5

\* T1 touches no removal that was there, and hides no connection.
LEMMA PrepareGone ==
    ASSUME DelIInv, GoneIInv, NEW w \in DelWorkers, NEW d \in Dels, PrepareDeletion(w, d)
    PROVE  GoneIInv'
<1> DEFINE new == [c \in Conns |-> IF c \in InScope(d) THEN Staged ELSE NoRemoval]
<1>1. /\ dw \in WorkerType /\ rem \in RemType /\ conn \in [Conns -> ConnRecord] /\ RemovalsOfScope(d)
      /\ plan.has \subseteq Conns /\ dop[d] = "none"
  BY DEF DelIInv, DelTyped, DelOrder, ConnType, ConnRecord, PrepareDeletion
<1>2. /\ Begins("releasing", d) \in Worker /\ Begins("releasing", d).pc = "releasing"
  BY BeginRecord DEF DelPcs
<1>3. dw' = [dw EXCEPT ![w] = Begins("releasing", d)] /\ rem' = [rem EXCEPT ![d] = new]
      /\ UNCHANGED <<plan, wire, poll>>
  BY DEF PrepareDeletion, Begins, dworld
<1>4. Moves(w, Begins("releasing", d))
  BY <1>1, <1>2, <1>3, OneMoves
<1>5. \A v \in DelWorkers : FoundAbsent(v)' => FoundAbsent(v) /\ dw'[v].conn = dw[v].conn
  BY <1>2, <1>4 DEF Moves, FoundAbsent, DelAt
<1>6. ASSUME NEW c \in plan.has PROVE rem[d][c].outcome = "none" /\ rem'[d][c].outcome = "none"
  <2>1. c \in Conns /\ rem[d][c].outcome = "none"
    BY <1>1, <1>6 DEF RemovalsOfScope
  <2>2. Staged.outcome = "none" /\ NoRemoval.outcome = "none"
    BY DEF Staged, NoRemoval
  <2>3. rem'[d][c] = IF c \in InScope(d) THEN Staged ELSE NoRemoval
    BY <1>1, <1>3, <2>1 DEF RemType
  <2> QED
    BY <2>1, <2>2, <2>3
<1>7. \A e \in Dels \ {d} : rem'[e] = rem[e]
  BY <1>1, <1>3 DEF RemType
<1>8. OutcomesStand
  BY <1>6, <1>7 DEF OutcomesStand
<1>9. ASSUME NEW c \in Conns, ~conn'[c].there PROVE ~conn[c].there
  <2> DEFINE old == conn[c]
  <2>1. old \in ConnRecord /\ (conn'[c] = [old EXCEPT !.enabled = FALSE] \/ conn'[c] = old)
    BY <1>1 DEF PrepareDeletion
  <2> HIDE DEF old
  <2>2. [old EXCEPT !.enabled = FALSE].there = old.there
    BY <2>1 DEF ConnRecord
  <2> QED
    BY <1>9, <2>1, <2>2 DEF old
<1> QED
  BY <1>1, <1>3, <1>5, <1>8, <1>9, GoneWrites

\* T_final takes the rows of a scope whose removals are all proved: by a child

\* that found the client absent, or by the operator, or nothing was there.
LEMMA FinishGone ==
    ASSUME DelIInv, GoneIInv, NEW w \in DelWorkers, NEW d \in Dels, TickFinishes(w, d) \/ TickDuplicate(w, d)
    PROVE  GoneIInv'
<1>1. dw \in WorkerType /\ plan.has \subseteq Conns
  BY DEF DelIInv, DelTyped
<1>2. DelLeave(w) \in Worker /\ DelLeave(w).pc = "releasing"
  BY <1>1, LeaveRecord
<1>3. dw' = DelWritten(w, d, {}, DelLeave(w)) /\ UNCHANGED <<plan, rem, wire, poll>>
  BY DEF TickFinishes, TickDuplicate, dworld
<1>4. dw'[w] = DelLeave(w) /\ \A v \in DelWorkers \ {w} : Outdated(v, d, {})
  BY <1>1, <1>2, <1>3, OthersStale
<1>5. \A v \in DelWorkers : FoundAbsent(v)' => FoundAbsent(v) /\ dw'[v].conn = dw[v].conn
  BY <1>2, <1>4, FoundByOthers
<1>6. OutcomesStand
  BY <1>3 DEF OutcomesStand
<1>7. ASSUME NEW c \in plan.has, ~conn'[c].there PROVE ~conn[c].there \/ wire[c] # "present" \/ Abandoned(c)
  <2>1. c \in Conns
    BY <1>1, <1>7
  <2>2. conn'[c] = conn[c] \/ (TickFinishes(w, d) /\ c \in InScope(d))
    BY <2>1 DEF TickFinishes, TickDuplicate, delrows
  <2>3. CASE conn'[c] = conn[c]
    BY <1>7, <2>3
  <2>4. CASE TickFinishes(w, d) /\ c \in InScope(d)
    <3>1. Proved(rem[d][c], c)
      BY <2>4 DEF TickFinishes, Deletable, Unchanged
    <3> QED
      BY <1>7, <3>1 DEF Proved, GoneIInv, StaysAway, Abandoned
  <2> QED
    BY <2>2, <2>3, <2>4
<1> QED
  BY <1>3, <1>5, <1>6, <1>7, GoneWrites

\* A sale adds a connection that no deletion knows, so nothing was proved of it.
LEMMA AddGone ==
    ASSUME DelIInv, GoneIInv, NEW c \in Conns, AddConnection(c)
    PROVE  GoneIInv'
<1>1. /\ conn \in [Conns -> ConnRecord] /\ wire \in WireType /\ plan.has \subseteq Conns
  BY DEF DelIInv, DelTyped, ConnType, ConnRecord
<1>2. /\ UNCHANGED <<plan, poll, rem, dw>> /\ conn' = [conn EXCEPT ![c].there = TRUE]
      /\ wire' = [wire EXCEPT ![c] = IF c \in PppConns THEN wire[c] ELSE "present"]
  BY DEF AddConnection, DelQuiet
<1>3. ASSUME NEW e \in Conns \ {c} PROVE wire'[e] = wire[e] /\ conn'[e].there = conn[e].there
  BY <1>1, <1>2
<1>4. conn'[c].there /\ (c \in PppConns => wire'[c] = wire[c])
  <2>1. conn[c] \in ConnRecord
    BY <1>1
  <2> QED
    BY <1>1, <1>2, <2>1 DEF ConnRecord, WireType
<1>5. ASSUME NEW d \in Dels PROVE rem[d][c].outcome = "none"
  BY DEF AddConnection, DelIInv, DelOrder, RemovalsOfScope
<1>6. ASSUME NEW v \in DelWorkers, FoundAbsent(v) PROVE dw[v].conn # c
  BY <1>6, Carrying DEF FoundAbsent, AddConnection, DelAt, CarryPcs, DelChildPcs
<1>7. ASSUME NEW v \in DelWorkers PROVE FoundAbsent(v)' <=> FoundAbsent(v)
  BY <1>2 DEF FoundAbsent, DelAt
<1>8. ASSUME NEW e \in plan.has
      PROVE  /\ e \in PppConns => wire'[e] # "present"
             /\ \A d \in Dels : rem[d][e].outcome = "verified_absent" => wire'[e] # "present"
             /\ \A v \in DelWorkers : FoundAbsent(v) /\ dw[v].conn = e => wire'[e] # "present"
             /\ ~conn'[e].there /\ wire'[e] = "present" => Abandoned(e)
  <2>1. /\ e \in PppConns => wire[e] # "present"
        /\ \A d \in Dels : rem[d][e].outcome = "verified_absent" => wire[e] # "present"
        /\ \A v \in DelWorkers : FoundAbsent(v) /\ dw[v].conn = e => wire[e] # "present"
        /\ ~conn[e].there /\ wire[e] = "present" => Abandoned(e)
    BY DEF GoneIInv, StaysAway, GoneFromTheNode
  <2>2. CASE e = c
    BY <1>4, <1>5, <1>6, <2>1, <2>2
  <2>3. CASE e # c
    BY <1>1, <1>3, <2>1, <2>3
  <2> QED
    BY <2>2, <2>3
<1>9. StaysAway'
  BY <1>2, <1>7, <1>8 DEF StaysAway, GoneIInv, Allowed
<1>10. GoneFromTheNode'
  BY <1>2, <1>8 DEF GoneFromTheNode, Abandoned
<1> QED
  BY <1>9, <1>10 DEF GoneIInv

\* The push of the poller creates no client that somebody deletes.
PollerCreatesNothing == \A p \in Plans : "poll" \in p.events => SelfHealing \cap p.has = {}

LEMMA EnvironmentGone ==
    ASSUME DelIInv, GoneIInv, PollerCreatesNothing,
           DelPoll \/ DelTime \/ TurnDraining \/ ExpireBusy
           \/ (\E n \in DelNodes : NodeStops(n))
           \/ (\E c \in Conns : NodeEdited(c) \/ NodeRepaired(c) \/ EditConnection(c) \/ AddConnection(c) \/ QuotaTurns(c))
    PROVE  GoneIInv'
<1>1. /\ plan \in Plans /\ conn \in [Conns -> ConnRecord] /\ wire \in WireType /\ rem \in RemType /\ poll \in PollType
      /\ plan.has \subseteq Conns /\ DelTyped
  BY DEF DelIInv, DelTyped, ConnType, ConnRecord
<1>2. ASSUME NEW c \in Conns, AddConnection(c) PROVE GoneIInv'
  BY <1>2, AddGone
<1>3. CASE ~(\E c \in Conns : AddConnection(c))
  <2>1. /\ UNCHANGED dw
        /\ \A d \in Dels, c \in Conns : rem'[d][c].outcome = rem[d][c].outcome
    BY <1>1, EnvironmentTyped
  <2>2. OutcomesStand /\ \A v \in DelWorkers : FoundAbsent(v)' => FoundAbsent(v) /\ dw'[v].conn = dw[v].conn
    BY <1>1, <2>1 DEF OutcomesStand, FoundAbsent, DelAt
  <2>3. UNCHANGED plan
    BY DEF DelPoll, PollReads, PollPushes, PollCommits, DelTime, ExpireDead, ExpireBusy, ExpireDelLease, ExpireCustLease,
           RemovalDue, NodeReturns, NodeStops, NodeEdited, NodeRepaired, EditConnection, AddConnection, QuotaTurns,
           TurnDraining, DelQuiet
  <2>4. poll'.pc # "idle" => poll.pc # "idle" \/ Allowed("poll")
    <3>1. DelPoll => (poll'.pc # "idle" => poll.pc # "idle" \/ Allowed("poll"))
      BY DEF DelPoll, PollReads, PollPushes, PollCommits, PollIdle
    <3>2. ~DelPoll => UNCHANGED poll
      BY DEF DelTime, ExpireDead, ExpireBusy, ExpireDelLease, ExpireCustLease, RemovalDue, NodeReturns, NodeStops, NodeEdited,
             NodeRepaired, EditConnection, AddConnection, QuotaTurns, TurnDraining, DelQuiet
    <3> QED
      BY <3>1, <3>2
  <2>5. \A c \in plan.has : wire'[c] = "present" => wire[c] = "present"
    <3>1. ASSUME NEW e \in Conns, PollPushes(e) PROVE \A c \in plan.has : wire'[c] = "present" => wire[c] = "present"
      <4>1. Allowed("poll")
        BY <3>1 DEF PollPushes, GoneIInv, StaysAway
      <4>2. e \in plan.has => e \notin SelfHealing
        BY <1>1, <4>1 DEF PollerCreatesNothing, Allowed
      <4> QED
        BY <1>1, <3>1, <4>2 DEF PollPushes, WireType
    <3>2. ASSUME NEW e \in Conns, NodeEdited(e) \/ NodeRepaired(e)
          PROVE \A c \in plan.has : wire'[c] = "present" => wire[c] = "present"
      BY <1>1, <3>2 DEF NodeEdited, NodeRepaired, WireType
    <3>3. UNCHANGED wire \/ (\E e \in Conns : PollPushes(e) \/ NodeEdited(e) \/ NodeRepaired(e))
      BY <1>3 DEF DelPoll, PollReads, PollCommits, DelTime, ExpireDead, ExpireBusy, ExpireDelLease, ExpireCustLease, RemovalDue,
                  NodeReturns, NodeStops, EditConnection, QuotaTurns, TurnDraining, DelQuiet, dworld
    <3> QED
      BY <3>1, <3>2, <3>3
  <2>6. ASSUME NEW c \in plan.has, ~conn'[c].there PROVE ~conn[c].there
    <3>1. c \in Conns /\ DelNext
      BY <1>1 DEF DelNext, DelDisturb
    <3>2. ASSUME conn[c].there PROVE FALSE
      <4>1. PICK w \in DelWorkers, d \in Dels : TickFinishes(w, d)
        BY <2>6, <3>1, <3>2, RecordsGoAtTheEnd
      <4>2. dw'[w].pc = "releasing" /\ dw[w].pc = "ticking"
        BY <4>1, TickWrites DEF TickFinishes, Ticking, DelAt
      <4> QED
        BY <2>1, <4>2
    <3> QED
      BY <3>2
  <2> QED
    BY <2>2, <2>3, <2>4, <2>5, <2>6, GoneWrites
<1> QED
  BY <1>2, <1>3

LEMMA GoneStep ==
    ASSUME DelIInv, GoneIInv, PollerCreatesNothing, DelNext \/ UNCHANGED delvars
    PROVE  GoneIInv'
<1>1. ASSUME NEW w \in DelWorkers, DelWork(w) PROVE GoneIInv'
  <2>1. ASSUME NEW d \in Dels, TickPpp(w, d) PROVE GoneIInv'
    <3>1. NextOf(d) \in Conns
      BY <2>1, NextIsFirst DEF TickPpp, Pending, Scope
    <3> QED
      BY <2>1, <3>1, WriterGone
  <2>2. ASSUME DispatchRemoval(w) \/ RecordRemoval(w) PROVE GoneIInv'
    <3>1. dw[w].op \in Dels /\ dw[w].conn \in Conns
      BY <2>2, Carrying DEF DispatchRemoval, RecordRemoval, DelAt, CarryPcs
    <3> QED
      BY <2>2, <3>1, WriterGone
  <2>3. ASSUME NEW d \in Dels, TickFinishes(w, d) \/ TickDuplicate(w, d) PROVE GoneIInv'
    BY <2>3, FinishGone
  <2>4. ASSUME \/ \E d \in Dels : ReacquireDeletion(w, d) \/ TickRefuses(w, d) \/ TickPicksRemoval(w, d)
               \/ LeaveRefused(w) \/ ReleaseLeases(w)
               \/ ReleaseShared(w) \/ TakeNodeGate(w) \/ LookUp(w) \/ AuthoriseRemoval(w) \/ RemoveFromNode(w)
               \/ CertifyAbsent(w) \/ ChildGivesUp(w)
        PROVE  GoneIInv'
    BY <2>4, WorkerGone
  <2> QED
    BY <1>1, <2>1, <2>2, <2>3, <2>4 DEF DelWork
<1>2. ASSUME NEW w \in DelWorkers, NEW d \in Dels, PrepareDeletion(w, d) PROVE GoneIInv'
  BY <1>2, PrepareGone
<1>3. ASSUME NEW w \in DelWorkers, ChildKilled(w) \/ LockConflict(w) \/ WorkerCrash(w) PROVE GoneIInv'
  BY <1>3, WorkerGone
<1>4. DelOperator => GoneIInv'
  BY OperatorGone DEF DelOperator
<1>5. CASE DelPoll \/ DelTime \/ TurnDraining \/ ExpireBusy
           \/ (\E n \in DelNodes : NodeStops(n))
           \/ (\E c \in Conns : NodeEdited(c) \/ NodeRepaired(c) \/ EditConnection(c) \/ AddConnection(c) \/ QuotaTurns(c))
  BY <1>5, EnvironmentGone
<1>6. CASE UNCHANGED delvars
  <2>1. UNCHANGED <<plan, poll, wire, conn, rem, dw>>
    BY <1>6 DEF delvars, dworld, delrows
  <2> QED
    BY <2>1 DEF GoneIInv, StaysAway, GoneFromTheNode, FoundAbsent, DelAt, Abandoned, Allowed
<1> QED
  BY <1>1, <1>2, <1>3, <1>4, <1>5, <1>6 DEF DelNext, DelDisturb

LEMMA GoneStart == DelInit => GoneIInv
<1> SUFFICES ASSUME DelInit PROVE GoneIInv
  OBVIOUS
<1>1. plan.has \subseteq Conns /\ poll.pc = "idle"
  BY DEF DelInit, PollIdle
<1>2. \A d \in Dels, c \in Conns : rem[d][c].outcome = "none"
  BY DEF DelInit, NoRemoval
<1>3. \A w \in DelWorkers : ~FoundAbsent(w)
  BY IdleRecord DEF DelInit, FoundAbsent, DelAt
<1>4. \A c \in plan.has : conn[c].there /\ (c \in PppConns => wire[c] # "present")
  BY <1>1 DEF DelInit
<1> QED
  BY <1>1, <1>2, <1>3, <1>4 DEF GoneIInv, StaysAway, GoneFromTheNode

\* No record is deleted before its client is gone from the node or was given up,

\* and the operator is asked exactly while a removal met a foreign object.
THEOREM DeletionHolds ==
    ASSUME PollerCreatesNothing
    PROVE  DelSpec => []DeletionInv
<1>1. DelIInv /\ GoneIInv /\ [DelNext]_delvars => GoneIInv'
  BY GoneStep
<1>2. DelSpec => []GoneIInv
  BY <1>1, GoneStart, DelInductive, PTL DEF DelSpec
<1>3. DelIInv => DelTypeOK
  <2> SUFFICES ASSUME DelTyped PROVE DelTypeOK
    BY DEF DelIInv
  <2>1. \A d \in Dels : frozen[d].print \in [Conns -> 0..2] /\ frozen[d].purchases \subseteq Purchases
    BY DEF DelTyped, FrozenType
  <2>2. \A d \in Dels : rem[d] \in [Conns -> Removal]
    BY DEF DelTyped, RemType
  <2>3. poll.todo \in [Conns -> {"enable", "disable", "leave"}] /\ poll.applied \subseteq Conns
    BY DEF DelTyped, PollType
  <2> QED
    BY <2>1, <2>2, <2>3
       DEF DelTyped, DelTypeOK, DopType, Removal, ConnType, CustType, LeaseType, WorkerType, Worker, GateType, WireType
<1>4. DelIInv /\ GoneIInv => DeletionInv
  BY <1>3 DEF DelIInv, GoneIInv, DeletionInv
<1> QED
  BY <1>2, <1>4, DelInductive, PTL
=============================================================================
