--------------------------- MODULE Receipts_proofs ----------------------------
(*****************************************************************************)
(* Theorems about the modules MCReceipts checks together: the void of a      *)
(* receipt, and the approvals of a topup and of a sale.                      *)
(*****************************************************************************)
EXTENDS ReceiptVoid, SaleApproval, SequenceTheorems, FiniteSetTheorems, WellFoundedInduction,
        TLAPS

-----------------------------------------------------------------------------
(*****************************************************************************)
(* ReceiptVoid, for any number of workers, connections and events, and for   *)
(* every plan of a void.                                                     *)
(*****************************************************************************)

USE VoidAssumption

-----------------------------------------------------------------------------
(* The inductive invariant *)

Confirmed == [rev: Nat, conns: SUBSET Services, active: BOOLEAN] \cup {<<>>}
VoidOp == [state: {"none", "running", "failed", "cleanup_required", "completed"}, conns: SUBSET Services,
           print: Confirmed, forced: BOOLEAN, how: {"none", "claim", "retry"}]
VRow == [state: StepStates, attempts: Nat, due: BOOLEAN, quota: BOOLEAN]
VScope == [conns: SUBSET Services, rev: Nat, active: BOOLEAN]
Account == [blocked: BOOLEAN, gone: BOOLEAN, debitHeld: BOOLEAN, quotaMoved: BOOLEAN]
Outcomes == UNION {[D -> {"running", "absent", "unverified", "abandoned"}] : D \in SUBSET Services}
Removals == [state: {"none", "running", "cleanup_required", "completed"}, out: Outcomes]
VWorker == [pc: VoidPcs, step: AllKeys \cup {NoStep}, leased: BOOLEAN, blocked: BOOLEAN, quota: BOOLEAN]

\* Rows typed, of known steps.
VRows(rows) == DOMAIN rows \subseteq AllKeys /\ rows \in [DOMAIN rows -> VRow]

\* The records of VoidTypeOK, field by field.
VoidRecords ==
    /\ vplan \in VoidPlan
    /\ approval \in [state: {"completed", "voiding", "voided", "cleanup_required"}, version: Nat]
    /\ vop \in VoidOp
    /\ VRows(vsteps) /\ order \in Seq(AllKeys) /\ ToSet(order) \subseteq DOMAIN vsteps
    /\ vscope \in VScope /\ account \in Account
    /\ closed \subseteq Effects /\ prov \in Removals
    /\ vlease \in VoidWorkers \cup {NoVoidWorker, OtherOperation}
    /\ vflags \in [preview: BOOLEAN, execute: BOOLEAN, worker: BOOLEAN]
    /\ vw \in [VoidWorkers -> VWorker]

\* The steps that come after the deletion.
Paid == AllKeys \ (DeletionKeys \cup {Block})

\* The block is the first step, and what comes after the deletion comes after
\* its last step.
Planned(keys) ==
    /\ keys \in Seq(AllKeys) /\ Block \in ToSet(keys) /\ (Deletes => DbDelete \in ToSet(keys))
    /\ \A i \in 1..Len(keys) : keys[i] # Block => \E j \in 1..(i - 1) : keys[j] = Block
    /\ Deletes => \A i \in 1..Len(keys) : keys[i] \in Paid => \E j \in 1..(i - 1) : keys[j] = DbDelete

Ended(k) == k \in DOMAIN vsteps /\ Over(k)

\* A worker that is about to run a step has it in the table; of a void that
\* deletes, a step after the deletion is run only when the account is gone.
Fits(w) ==
    /\ vw[w].pc \in {"acquire", "run", "fail", "delstart", "force"} => vw[w].step \in DOMAIN vsteps
    /\ vw[w].pc \in {"acquire", "run"} => vw[w].step \notin DeletionKeys
    /\ Deletes /\ vw[w].pc \in {"acquire", "run"} /\ vw[w].step \in Paid => account.gone

\* The account is gone before anything after the deletion.
DeletedFirst ==
    /\ prov.state = "completed" => account.gone
    /\ Deletes /\ (closed # {} \/ Ended(DbDelete)) => account.gone
    /\ \A w \in VoidWorkers : Fits(w)

\* The reseller is paid back when the spend is closed; a voided approval has
\* every effect closed; a void that was claimed has a plan, one that was not
\* has no rows.
MoneyFollows ==
    /\ refunds = (IF "spend" \in closed THEN 1 ELSE 0)
    /\ approval.state = "voided" => closed = Effects
    /\ IF vop.state = "none" THEN DOMAIN vsteps = {} ELSE Planned(order)

Steady == "expire" \notin vplan.events

PastBlock(w) ==
    \/ vw[w].pc \in {"delcheck", "delstart", "delmirror"}
    \/ vw[w].pc \in {"acquire", "run", "fail"} /\ vw[w].step # Block

Advanced ==
    \/ closed # {} \/ prov.state # "none" \/ vop.state \in {"cleanup_required", "completed"}
    \/ \E w \in VoidWorkers : PastBlock(w)

\* A worker that has leased holds the newest lease set, so that a block that
\* raised is not run by another before the failure is recorded.
HoldsSet(w) ==
    /\ vw[w].leased => vlease = w /\ vw[w].pc \in {"pick", "run", "fail"}
    /\ vw[w].pc = "run" => vw[w].leased
    /\ vw[w].pc = "delstart" => vw[w].step # Block
    /\ vw[w].pc = "fail" /\ vw[w].step = Block => vw[w].leased /\ ~Over(Block)

Underway == Ended(Block) /\ vop.state \notin {"none", "failed"}

\* Nothing goes past a block that is not done, or past one that failed.
BlockFirst == (\A w \in VoidWorkers : HoldsSet(w)) /\ (Advanced => Underway)

VoidIInv ==
    /\ VoidRecords /\ ApprovalFollowsVoid /\ ClaimedVoidHasWorker /\ DeletedFirst /\ MoneyFollows
    /\ Steady => BlockFirst

-----------------------------------------------------------------------------
(* The steps of a plan *)

USE DEF Confirmed

\* The keys of the deletion are no others.
LEMMA KeysDiffer ==
    /\ \A c \in Services : Gone(c) \notin Paid \cup {Block, DbDelete} /\ Sure(c) \notin Paid \cup {Block, DbDelete}
    /\ DbDelete # Block /\ Block \notin Paid \cup DeletionKeys /\ DbDelete \notin Paid
    /\ Paid = {Loyalty, Wallet, Ledger, Renewal, Card, FinalStep}
    /\ \A k \in AllKeys : k \in Paid \/ k = Block \/ k \in DeletionKeys
    /\ DbDelete \in DeletionKeys
<1>1. Block # DbDelete /\ {Loyalty, Wallet, Ledger, Renewal, Card, FinalStep} \cap {Block, DbDelete} = {}
  BY DEF Block, DbDelete, Loyalty, Wallet, Ledger, Renewal, Card, FinalStep
<1>2. \A c \in Services : {Gone(c), Sure(c)} \cap {Block, DbDelete, Loyalty, Wallet, Ledger, Renewal, Card, FinalStep} = {}
  BY DEF Block, DbDelete, Loyalty, Wallet, Ledger, Renewal, Card, FinalStep, Gone, Sure
<1> QED
  BY <1>1, <1>2 DEF Paid, AllKeys, DeletionKeys

\* The connections of a plan, in some order, are a sequence of them.
LEMMA ListOf ==
    ASSUME NEW S, IsFiniteSet(S)
    PROVE  SetToSeq(S) \in Seq(S)
<1>1. Cardinality(S) \in Nat /\ ExistsBijection(1..Cardinality(S), S)
  BY FS_CardinalityType
<1>2. PICK f \in Bijection(1..Cardinality(S), S) : TRUE
  BY <1>1 DEF ExistsBijection
<1>3. f \in [1..Cardinality(S) -> S] /\ IsInjective(f)
  BY <1>2 DEF Bijection, Injection, IsInjective
<1>4. SetToSeq(S) \in [1..Cardinality(S) -> S]
  BY <1>3 DEF SetToSeq
<1> QED
  BY <1>1, <1>4, SeqDef

\* A plan of three parts: the block, the deletion and the rest.
LEMMA PlanOfParts ==
    ASSUME NEW del \in Seq(DeletionKeys), NEW rest \in Seq(Paid),
           Deletes => \E j \in 1..Len(del) : del[j] = DbDelete
    PROVE  Planned(<<Block>> \o del \o rest)
<1> DEFINE keys == <<Block>> \o del \o rest
           n == Len(del)
<1>1. n \in Nat /\ Len(rest) \in Nat /\ <<Block>> \o del \in Seq(AllKeys) /\ rest \in Seq(AllKeys)
  BY DEF AllKeys, Paid
<1>2. keys \in Seq(AllKeys) /\ Len(keys) = 1 + n + Len(rest)
  BY <1>1
<1>3. keys[1] = Block /\ \A i \in 1..n : keys[1 + i] = del[i]
  BY <1>1
<1>4. \A i \in 1..Len(keys) : keys[i] \in Paid => i > 1 + n
  <2> SUFFICES ASSUME NEW i \in 1..Len(keys), keys[i] \in Paid, i <= 1 + n PROVE FALSE
    BY <1>1
  <2>1. CASE i = 1
    BY <1>3, <2>1, KeysDiffer
  <2>2. CASE i # 1
    <3>1. i - 1 \in 1..n /\ keys[1 + (i - 1)] = del[i - 1] /\ 1 + (i - 1) = i
      BY <1>1, <1>3, <2>2
    <3>2. del[i - 1] \in DeletionKeys
      BY <3>1
    <3> QED BY <3>1, <3>2 DEF Paid
  <2> QED BY <2>1, <2>2
<1>5. ASSUME Deletes
      PROVE  \E j \in 1..(1 + n) : j \in 1..Len(keys) /\ keys[j] = DbDelete
  <2>1. PICK j \in 1..n : del[j] = DbDelete
    BY <1>5
  <2>2. 1 + j \in 1..(1 + n) /\ 1 + j \in 1..Len(keys) /\ keys[1 + j] = DbDelete
    BY <1>1, <1>2, <1>3, <2>1
  <2> QED BY <2>2
<1>6. \A i \in 1..Len(keys) : keys[i] # Block => \E j \in 1..(i - 1) : keys[j] = Block
  BY <1>1, <1>2, <1>3
<1>7. Deletes => \A i \in 1..Len(keys) : keys[i] \in Paid => \E j \in 1..(i - 1) : keys[j] = DbDelete
  BY <1>1, <1>4, <1>5
<1>8. DOMAIN keys = 1..Len(keys) /\ 1 \in 1..Len(keys)
  BY <1>1, <1>2
<1>9. Block \in ToSet(keys) /\ (Deletes => DbDelete \in ToSet(keys))
  BY <1>3, <1>5, <1>8 DEF ToSet
<1> HIDE DEF keys
<1> QED BY <1>2, <1>6, <1>7, <1>9 DEF Planned, keys

\* Every plan blocks first and pays after the deletion.
LEMMA StepKeysPlanned ==
    ASSUME vplan \in VoidPlan, NEW S \in SUBSET Services
    PROVE  Planned(StepKeys(S))
<1>1. /\ <<Loyalty, Wallet, Ledger, Renewal, Card, FinalStep>> \in Seq(Paid)
      /\ <<Wallet, Ledger, Card, FinalStep>> \in Seq(Paid) /\ <<Loyalty>> \in Seq(Paid)
      /\ <<>> \in Seq(Paid) /\ <<>> \in Seq(DeletionKeys) /\ Len(<<>>) = 0
  BY KeysDiffer
<1>2. CASE Shape = "renew_purchase"
  <2>1. StepKeys(S) = <<Block>> \o <<>> \o <<Loyalty, Wallet, Ledger, Renewal, Card, FinalStep>>
    BY <1>2 DEF StepKeys
  <2>2. ~Deletes
    BY <1>2 DEF Deletes
  <2> QED BY <1>1, <2>1, <2>2, PlanOfParts
<1>3. CASE Shape # "renew_purchase"
  <2> DEFINE gone == SetToSeq({Gone(c) : c \in S})
             sure == SetToSeq({Sure(c) : c \in S})
             del == IF Deletes THEN gone \o sure \o <<DbDelete>> ELSE <<>>
             loy == IF Shape # "topup" THEN <<Loyalty>> ELSE <<>>
             rest == loy \o <<Wallet, Ledger, Card, FinalStep>>
  <2>1. IsFiniteSet(S)
    BY FS_Subset
  <2>2. IsFiniteSet({Gone(c) : c \in S}) /\ IsFiniteSet({Sure(c) : c \in S})
    <3>1. [c \in S |-> Gone(c)] \in Surjection(S, {Gone(c) : c \in S})
      BY DEF Surjection
    <3>2. [c \in S |-> Sure(c)] \in Surjection(S, {Sure(c) : c \in S})
      BY DEF Surjection
    <3> QED BY <2>1, <3>1, <3>2, FS_Surjection
  <2>3. gone \in Seq(DeletionKeys) /\ sure \in Seq(DeletionKeys)
    <3>1. {Gone(c) : c \in S} \subseteq DeletionKeys /\ {Sure(c) : c \in S} \subseteq DeletionKeys
      BY DEF DeletionKeys
    <3>2. gone \in Seq({Gone(c) : c \in S}) /\ sure \in Seq({Sure(c) : c \in S})
      BY <2>2, ListOf
    <3> HIDE DEF gone, sure
    <3> QED BY <3>1, <3>2
  <2> HIDE DEF gone, sure
  <2>4. /\ gone \o sure \o <<DbDelete>> \in Seq(DeletionKeys)
        /\ \E j \in 1..Len(gone \o sure \o <<DbDelete>>) : (gone \o sure \o <<DbDelete>>)[j] = DbDelete
    <3>1. gone \o sure \in Seq(DeletionKeys) /\ DbDelete \in DeletionKeys
      BY <2>3, KeysDiffer
    <3> DEFINE s == gone \o sure
    <3>2. s \in Seq(DeletionKeys) /\ Len(s) \in Nat
      BY <3>1
    <3> HIDE DEF s
    <3>3. /\ s \o <<DbDelete>> \in Seq(DeletionKeys) /\ Len(s \o <<DbDelete>>) = Len(s) + 1
          /\ (s \o <<DbDelete>>)[Len(s) + 1] = DbDelete
      BY <3>1, <3>2
    <3>4. Len(s) + 1 \in 1..Len(s \o <<DbDelete>>)
      BY <3>2, <3>3
    <3> QED BY <3>3, <3>4 DEF s
  <2>5. del \in Seq(DeletionKeys) /\ (Deletes => \E j \in 1..Len(del) : del[j] = DbDelete)
    BY <1>1, <2>4
  <2>6. loy \in Seq(Paid) /\ rest \in Seq(Paid)
    BY <1>1
  <2>7. StepKeys(S) = <<Block>> \o del \o rest
    <3>1. StepKeys(S) = <<Block>> \o del \o loy \o <<Wallet, Ledger, Card, FinalStep>>
      BY <1>3 DEF StepKeys, gone, sure
    <3> HIDE DEF del, loy
    <3>2. <<Block>> \in Seq(AllKeys) /\ del \in Seq(AllKeys) /\ loy \in Seq(AllKeys)
      BY <2>5, <2>6 DEF AllKeys, Paid
    <3>3. <<Block>> \o del \in Seq(AllKeys) /\ <<Wallet, Ledger, Card, FinalStep>> \in Seq(AllKeys)
      BY <3>2 DEF AllKeys
    <3> DEFINE first == <<Block>> \o del
               after == <<Wallet, Ledger, Card, FinalStep>>
    <3>4. first \in Seq(AllKeys) /\ after \in Seq(AllKeys)
      BY <3>3
    <3>5. StepKeys(S) = first \o loy \o after
      BY <3>1
    <3> HIDE DEF first, after
    <3>6. (first \o loy) \o after = first \o (loy \o after)
      BY <3>2, <3>4, ConcatAssociative
    <3> QED BY <3>5, <3>6 DEF rest, first, after
  <2> HIDE DEF del, rest
  <2> QED BY <2>5, <2>6, <2>7, PlanOfParts
<1> QED BY <1>2, <1>3

\* The first open step is open, and those before it are over.
LEMMA FirstIsFirst ==
    ASSUME VoidRecords, ~AllOver
    PROVE  /\ FirstOpen \in DOMAIN vsteps /\ FirstOpen \in AllKeys /\ ~Over(FirstOpen)
           /\ \E i \in 1..Len(order) : /\ order[i] = FirstOpen
                                       /\ \A j \in 1..(i - 1) : Ended(order[j])
<1>1. order \in Seq(AllKeys) /\ DOMAIN order = 1..Len(order) /\ Len(order) \in Nat
  BY DEF VoidRecords
<1>2. \A i \in 1..Len(order) : order[i] \in AllKeys /\ order[i] \in DOMAIN vsteps
  BY <1>1 DEF VoidRecords, ToSet
<1> DEFINE O == Open(AllKeys)
<1>3. O = {i \in 1..Len(order) : ~Over(order[i])} /\ O # {}
  BY <1>1, <1>2 DEF Open, AllOver
<1>4. PICK i \in O : \A j \in O : i <= j
  <2>1. O \subseteq Nat
    BY <1>3
  <2>2. PICK i \in O : \A j \in O : ~(<<j, i>> \in OpToRel(<, Nat))
    BY <1>3, <2>1, NatLessThanWellFounded, WFMin
  <2>3. \A j \in O : ~(j < i)
    BY <2>1, <2>2 DEF OpToRel
  <2> QED BY <2>1, <2>3
<1>5. \E k \in O : (\A j \in O : k <= j) /\ FirstOpen = order[k]
  <2> DEFINE m == CHOOSE k \in O : \A j \in O : k <= j
  <2>1. m \in O /\ \A j \in O : m <= j
    BY <1>4
  <2>2. FirstOpen = order[m]
    BY DEF FirstOpen
  <2> QED BY <2>1, <2>2
<1>6. PICK k \in O : (\A j \in O : k <= j) /\ FirstOpen = order[k]
  BY <1>5
<1>7. \A j \in 1..(k - 1) : j \in 1..Len(order) /\ j \notin O
  BY <1>1, <1>3, <1>6
<1> QED BY <1>2, <1>3, <1>6, <1>7 DEF Ended

-----------------------------------------------------------------------------
(* How the records move *)

QuietPlan == vplan' \in VoidPlan /\ vplan'.shape = vplan.shape /\ vplan'.events = vplan.events
Unmoved(w) == \A v \in VoidWorkers \ {w} : vw'[v] = vw[v]
LeaseGiven(w) == vlease' = vlease \/ (vlease = w /\ vlease' = NoVoidWorker)
LeaseMoves(w) == LeaseGiven(w) \/ (vlease = NoVoidWorker /\ vlease' = w)
TypedWorkers == vw' \in [VoidWorkers -> VWorker]

\* An event used up leaves a plan of the same void.
LEMMA SpentPlan ==
    ASSUME vplan \in VoidPlan
    PROVE  /\ \A e : Happens(e) /\ vplan' = Spent => QuietPlan
           /\ UNCHANGED vplan => QuietPlan
  BY DEF Happens, Spent, QuietPlan, VoidPlan

LEMMA IdleWorker == Idle \in VWorker /\ Idle.pc = "idle" /\ Idle.leased = FALSE
  BY DEF Idle, VWorker, VoidPcs

WithPc(r, pc) == [r EXCEPT !.pc = pc]

LEMMA PcOfWorker ==
    ASSUME NEW r \in VWorker, NEW pc \in VoidPcs
    PROVE  /\ WithPc(r, pc) \in VWorker /\ WithPc(r, pc).pc = pc /\ WithPc(r, pc).step = r.step
           /\ WithPc(r, pc).leased = r.leased
  BY DEF VWorker, WithPc

\* A worker's record replaced.
LEMMA Replaced ==
    ASSUME vw \in [VoidWorkers -> VWorker], NEW w \in VoidWorkers, NEW r \in VWorker, vw' = [vw EXCEPT ![w] = r]
    PROVE  TypedWorkers /\ Unmoved(w) /\ vw'[w] = r
  BY DEF TypedWorkers, Unmoved

LEMMA GotoMoves ==
    ASSUME vw \in [VoidWorkers -> VWorker], NEW w \in VoidWorkers, NEW pc \in VoidPcs, Goto(w, pc)
    PROVE  /\ TypedWorkers /\ Unmoved(w)
           /\ vw'[w].pc = pc /\ vw'[w].step = vw[w].step /\ vw'[w].leased = vw[w].leased
<1>1. vw' = [vw EXCEPT ![w] = WithPc(vw[w], pc)]
  BY DEF Goto, WithPc
<1>2. vw[w] \in VWorker
  OBVIOUS
<1> QED BY <1>1, <1>2, PcOfWorker, Replaced

LEMMA ReturnMoves ==
    ASSUME vw \in [VoidWorkers -> VWorker], NEW w \in VoidWorkers, Return(w)
    PROVE  /\ TypedWorkers /\ Unmoved(w) /\ vw'[w] = Idle
           /\ LeaseGiven(w)
<1>1. vw' = [vw EXCEPT ![w] = Idle]
  BY DEF Return
<1>2. TypedWorkers /\ Unmoved(w) /\ vw'[w] = Idle
  BY <1>1, IdleWorker, Replaced
<1>3. LeaseGiven(w)
  BY DEF Return, LeaseGiven
<1> QED BY <1>2, <1>3

FailedAt(r, k, b, q) == [r EXCEPT !.pc = "fail", !.step = k, !.blocked = b, !.quota = q]

LEMMA FailMoves ==
    ASSUME vw \in [VoidWorkers -> VWorker], NEW w \in VoidWorkers, NEW k \in AllKeys, NEW b \in BOOLEAN, NEW q \in BOOLEAN,
           FailWith(w, k, b, q)
    PROVE  /\ TypedWorkers /\ Unmoved(w)
           /\ vw'[w].pc = "fail" /\ vw'[w].step = k /\ vw'[w].leased = vw[w].leased
<1>1. vw' = [vw EXCEPT ![w] = FailedAt(vw[w], k, b, q)]
  BY DEF FailWith, FailedAt
<1>2. vw[w] \in VWorker
  OBVIOUS
<1>3. /\ FailedAt(vw[w], k, b, q) \in VWorker /\ FailedAt(vw[w], k, b, q).pc = "fail"
      /\ FailedAt(vw[w], k, b, q).step = k /\ FailedAt(vw[w], k, b, q).leased = vw[w].leased
  BY <1>2 DEF FailedAt, VWorker, VoidPcs
<1> QED BY <1>1, <1>3, Replaced

\* What the workers and the tables say, once a worker has moved and nothing
\* else but its lease and the plan.
LEMMA WorkerStep ==
    ASSUME VoidIInv, NEW w \in VoidWorkers, QuietPlan, UNCHANGED <<vdb, vworld, vflags>>,
           TypedWorkers, Unmoved(w),
           LeaseMoves(w),
           Fits(w)', Steady => HoldsSet(w)' /\ (PastBlock(w)' => Underway)
    PROVE  VoidIInv'
<1>1. VoidRecords'
  BY DEF VoidIInv, VoidRecords, QuietPlan, TypedWorkers, LeaseMoves, LeaseGiven, vdb, vworld, Effects, Shape, VRows
<1>2. (ApprovalFollowsVoid /\ ClaimedVoidHasWorker)'
  BY DEF VoidIInv, ApprovalFollowsVoid, ClaimedVoidHasWorker, vdb
<1>3. DeletedFirst'
  <2>1. ASSUME NEW v \in VoidWorkers \ {w} PROVE Fits(v)'
    <3>1. Fits(v)
      BY DEF VoidIInv, DeletedFirst
    <3> QED BY <2>1, <3>1 DEF Fits, Unmoved, vdb, vworld, QuietPlan, Deletes, Shape
  <2> QED BY <2>1 DEF VoidIInv, DeletedFirst, vdb, vworld, QuietPlan, Deletes, Shape, Ended, Over
<1>4. MoneyFollows'
  BY DEF VoidIInv, MoneyFollows, Planned, vdb, QuietPlan, Deletes, Shape, Effects
<1>5. ASSUME Steady' PROVE BlockFirst'
  <2>1. Steady /\ BlockFirst
    BY <1>5 DEF Steady, QuietPlan, VoidIInv
  <2>2. ASSUME NEW v \in VoidWorkers \ {w} PROVE HoldsSet(v)'
    <3>1. HoldsSet(v) /\ v # NoVoidWorker
      BY <2>1 DEF BlockFirst
    <3> QED BY <2>2, <3>1 DEF HoldsSet, Unmoved, LeaseMoves, LeaseGiven, Over, vdb
  <2>3. Advanced' => Underway
    <3>1. ASSUME NEW v \in VoidWorkers, PastBlock(v)' PROVE Underway
      BY <2>1, <3>1 DEF PastBlock, Unmoved, Advanced, BlockFirst
    <3> QED BY <2>1, <3>1 DEF Advanced, BlockFirst, vdb, vworld
  <2> QED BY <2>1, <2>2, <2>3 DEF BlockFirst, Underway, Ended, Over, vdb
<1> QED BY <1>1, <1>2, <1>3, <1>4, <1>5 DEF VoidIInv

-----------------------------------------------------------------------------
(* Steps of a worker that leave the tables as they are *)

\* The conjuncts of the invariant a worker's step needs.
LEMMA WorkerFacts ==
    ASSUME VoidIInv, NEW w \in VoidWorkers
    PROVE  /\ vw \in [VoidWorkers -> VWorker] /\ vw[w] \in VWorker /\ vplan \in VoidPlan /\ Fits(w)
           /\ Steady => HoldsSet(w) /\ (PastBlock(w) => Underway) /\ (Advanced => Underway)
           /\ w # NoVoidWorker /\ w # OtherOperation
  BY DEF VoidIInv, VoidRecords, DeletedFirst, BlockFirst, Advanced

\* A worker that rests, with its lease given back or left behind.
LEMMA WorkerRests ==
    ASSUME VoidIInv, NEW w \in VoidWorkers, QuietPlan, UNCHANGED <<vdb, vworld, vflags>>,
           TypedWorkers, Unmoved(w), vw'[w].pc \in {"idle", "retry"}, vw'[w].leased = FALSE,
           LeaseGiven(w)
    PROVE  VoidIInv'
<1>1. Fits(w)' /\ HoldsSet(w)' /\ ~PastBlock(w)'
  BY DEF Fits, HoldsSet, PastBlock
<1>2. LeaseMoves(w)
  BY DEF LeaseMoves
<1> QED BY <1>1, <1>2, WorkerStep

LEMMA WorkerReturns ==
    ASSUME VoidIInv, NEW w \in VoidWorkers, QuietPlan, UNCHANGED <<vdb, vworld, vflags>>, Return(w)
    PROVE  VoidIInv'
  BY WorkerFacts, ReturnMoves, IdleWorker, WorkerRests

\* A worker that is in no state of its own any more is not leased.
LEMMA BeginsPass == ASSUME VoidIInv, NEW w \in VoidWorkers, BeginPass(w) PROVE VoidIInv'
<1>1. QuietPlan /\ UNCHANGED <<vdb, vworld, vflags, vlease>> /\ vw[w].pc = "idle"
  BY WorkerFacts, SpentPlan DEF BeginPass, At
<1>2. TypedWorkers /\ Unmoved(w) /\ vw'[w].pc = "pick" /\ vw'[w].leased = vw[w].leased
  BY WorkerFacts, GotoMoves DEF BeginPass, VoidPcs
<1>3. Fits(w)' /\ (Steady => HoldsSet(w)' /\ ~PastBlock(w)')
  BY <1>1, <1>2, WorkerFacts DEF Fits, HoldsSet, PastBlock
<1>4. LeaseMoves(w)
  BY <1>1 DEF LeaseMoves, LeaseGiven
<1> QED BY <1>1, <1>2, <1>3, <1>4, WorkerStep

\* The steps before the first open one are over: the block, and for a step
\* after the deletion the deletion.
LEMMA WhatIsOver ==
    ASSUME VoidIInv, ~AllOver
    PROVE  /\ FirstOpen \in DOMAIN vsteps /\ FirstOpen \in AllKeys /\ ~Over(FirstOpen)
           /\ vop.state # "none" => (FirstOpen # Block => Ended(Block))
           /\ vop.state # "none" /\ Deletes /\ FirstOpen \in Paid => account.gone
<1>1. /\ FirstOpen \in DOMAIN vsteps /\ FirstOpen \in AllKeys /\ ~Over(FirstOpen)
      /\ \E i \in 1..Len(order) : order[i] = FirstOpen /\ \A j \in 1..(i - 1) : Ended(order[j])
  BY FirstIsFirst DEF VoidIInv
<1>2. PICK i \in 1..Len(order) : order[i] = FirstOpen /\ \A j \in 1..(i - 1) : Ended(order[j])
  BY <1>1
<1>3. ASSUME vop.state # "none" PROVE Planned(order)
  BY <1>3 DEF VoidIInv, MoneyFollows
<1>4. ASSUME vop.state # "none", FirstOpen # Block PROVE Ended(Block)
  BY <1>2, <1>3, <1>4 DEF Planned
<1>5. ASSUME vop.state # "none", Deletes, FirstOpen \in Paid PROVE account.gone
  BY <1>2, <1>3, <1>5 DEF Planned, VoidIInv, DeletedFirst
<1> QED BY <1>1, <1>4, <1>5

LEMMA PicksStep == ASSUME VoidIInv, NEW w \in VoidWorkers, PickStep(w) PROVE VoidIInv'
<1>1. QuietPlan /\ UNCHANGED <<vdb, vworld, vflags>> /\ vw[w].pc = "pick"
  BY WorkerFacts, SpentPlan DEF PickStep, At
<1>2. CASE Return(w)
  BY <1>1, <1>2, WorkerReturns
<1>3. CASE /\ vop.state = "running" /\ ~AllOver /\ FirstOpen \in DeletionKeys
           /\ vw' = [vw EXCEPT ![w] = [Idle EXCEPT !.pc = "delcheck"]]
           /\ vlease' = IF vlease = w THEN NoVoidWorker ELSE vlease
  <2>1. WithPc(Idle, "delcheck") \in VWorker /\ WithPc(Idle, "delcheck").pc = "delcheck"
        /\ WithPc(Idle, "delcheck").leased = FALSE /\ vw' = [vw EXCEPT ![w] = WithPc(Idle, "delcheck")]
    BY <1>3, IdleWorker, PcOfWorker DEF WithPc, VoidPcs
  <2>2. TypedWorkers /\ Unmoved(w) /\ vw'[w].pc = "delcheck" /\ vw'[w].leased = FALSE
    BY <2>1, WorkerFacts, Replaced
  <2>3. Fits(w)' /\ HoldsSet(w)'
    BY <2>2 DEF Fits, HoldsSet
  <2>4. Underway
    BY <1>3, WhatIsOver, KeysDiffer DEF Underway
  <2>5. LeaseMoves(w)
    BY <1>3 DEF LeaseMoves, LeaseGiven
  <2> QED BY <1>1, <2>2, <2>3, <2>4, <2>5, WorkerStep
<1>4. CASE /\ vop.state = "running" /\ ~AllOver /\ FirstOpen \notin DeletionKeys
           /\ vw' = [vw EXCEPT ![w].pc = IF vw[w].leased THEN "run" ELSE "acquire", ![w].step = FirstOpen]
           /\ UNCHANGED vlease
  <2> DEFINE r == [vw[w] EXCEPT !.pc = IF vw[w].leased THEN "run" ELSE "acquire", !.step = FirstOpen]
  <2>1. FirstOpen \in AllKeys
    BY <1>4, WhatIsOver
  <2>2. r \in VWorker /\ r.pc = (IF vw[w].leased THEN "run" ELSE "acquire") /\ r.step = FirstOpen
        /\ r.leased = vw[w].leased
    BY <2>1, WorkerFacts DEF VWorker, VoidPcs
  <2>3. vw' = [vw EXCEPT ![w] = r]
    BY <1>4
  <2> HIDE DEF r
  <2>4. TypedWorkers /\ Unmoved(w) /\ vw'[w] = r
    BY <2>2, <2>3, WorkerFacts, Replaced
  <2>5. Fits(w)'
    BY <1>1, <1>4, <2>2, <2>4, WhatIsOver DEF Fits, vdb, vworld, QuietPlan, Deletes, Shape
  <2>6. Steady => HoldsSet(w)'
    BY <1>1, <1>4, <2>2, <2>4, WorkerFacts DEF HoldsSet
  <2>7. PastBlock(w)' => Underway
    BY <1>4, <2>2, <2>4, WhatIsOver DEF PastBlock, Underway
  <2>8. LeaseMoves(w)
    BY <1>4 DEF LeaseMoves, LeaseGiven
  <2> QED BY <1>1, <2>4, <2>5, <2>6, <2>7, <2>8, WorkerStep
<1> QED BY <1>2, <1>3, <1>4 DEF PickStep

\* A worker that goes on under the lease it has, with its step unchanged.
LEMMA WorkerGoes ==
    ASSUME VoidIInv, NEW w \in VoidWorkers, NEW pc \in VoidPcs, Goto(w, pc), UNCHANGED <<vplan, vdb, vworld, vlease, vflags>>,
           Fits(w)', Steady => HoldsSet(w)' /\ (PastBlock(w)' => Underway)
    PROVE  VoidIInv'
<1>1. QuietPlan
  BY WorkerFacts, SpentPlan
<1>2. TypedWorkers /\ Unmoved(w)
  BY WorkerFacts, GotoMoves
<1>3. LeaseMoves(w)
  BY DEF LeaseMoves, LeaseGiven
<1> QED BY <1>1, <1>2, <1>3, WorkerStep

LEMMA AcquiresSet == ASSUME VoidIInv, NEW w \in VoidWorkers, AcquireSet(w) PROVE VoidIInv'
<1>1. QuietPlan /\ UNCHANGED <<vdb, vworld, vflags>> /\ vw[w].pc = "acquire"
  BY WorkerFacts, SpentPlan DEF AcquireSet, At
<1>2. CASE Return(w)
  BY <1>1, <1>2, WorkerReturns
<1>3. CASE vlease = NoVoidWorker /\ vlease' = w /\ vw' = [vw EXCEPT ![w].pc = "run", ![w].leased = TRUE]
  <2> DEFINE r == [vw[w] EXCEPT !.pc = "run", !.leased = TRUE]
  <2>1. r \in VWorker /\ r.pc = "run" /\ r.step = vw[w].step /\ r.leased = TRUE
    BY WorkerFacts DEF VWorker, VoidPcs
  <2>2. vw' = [vw EXCEPT ![w] = r]
    BY <1>3
  <2> HIDE DEF r
  <2>3. TypedWorkers /\ Unmoved(w) /\ vw'[w] = r
    BY <2>1, <2>2, WorkerFacts, Replaced
  <2>4. Fits(w)'
    BY <1>1, <2>1, <2>3, WorkerFacts DEF Fits, vdb, vworld, QuietPlan, Deletes, Shape
  <2>5. HoldsSet(w)' /\ (PastBlock(w)' => PastBlock(w))
    BY <1>1, <1>3, <2>1, <2>3 DEF HoldsSet, PastBlock
  <2>6. LeaseMoves(w)
    BY <1>3 DEF LeaseMoves
  <2> QED BY <1>1, <2>3, <2>4, <2>5, <2>6, WorkerFacts, WorkerStep
<1> QED BY <1>2, <1>3 DEF AcquireSet

LEMMA FindsItOver == ASSUME VoidIInv, NEW w \in VoidWorkers, StepAlreadyOver(w) PROVE VoidIInv'
<1>1. Goto(w, "pick") /\ UNCHANGED <<vplan, vdb, vworld, vlease, vflags>> /\ vlease = w
  BY DEF StepAlreadyOver
<1>2. vw'[w].pc = "pick" /\ vw'[w].leased = vw[w].leased
  BY <1>1, WorkerFacts, GotoMoves DEF VoidPcs
<1>3. Fits(w)' /\ HoldsSet(w)' /\ ~PastBlock(w)'
  BY <1>1, <1>2 DEF Fits, HoldsSet, PastBlock
<1> QED BY <1>1, <1>3, WorkerGoes DEF VoidPcs

LEMMA LosesLease == ASSUME VoidIInv, NEW w \in VoidWorkers, LeaseLost(w) PROVE VoidIInv'
  BY WorkerFacts, SpentPlan, WorkerReturns DEF LeaseLost

\* A step that raised, with the lease under which it ran.
LEMMA WorkerFails ==
    ASSUME VoidIInv, NEW w \in VoidWorkers, NEW k \in AllKeys, NEW b \in BOOLEAN, NEW q \in BOOLEAN, QuietPlan,
           FailWith(w, k, b, q), UNCHANGED <<vdb, vworld, vlease, vflags>>, k \in DOMAIN vsteps,
           Steady => /\ vw[w].leased => vlease = w
                     /\ IF k = Block THEN vw[w].leased /\ ~Over(Block) ELSE Underway
    PROVE  VoidIInv'
<1>1. TypedWorkers /\ Unmoved(w) /\ vw'[w].pc = "fail" /\ vw'[w].step = k /\ vw'[w].leased = vw[w].leased
  BY WorkerFacts, FailMoves
<1>2. Fits(w)'
  BY <1>1 DEF Fits, vdb
<1>3. Steady => HoldsSet(w)' /\ (PastBlock(w)' => Underway)
  BY <1>1 DEF HoldsSet, PastBlock, Over, vdb
<1>4. LeaseMoves(w)
  BY DEF LeaseMoves, LeaseGiven
<1> QED BY <1>1, <1>2, <1>3, <1>4, WorkerStep

LEMMA RaisesStep == ASSUME VoidIInv, NEW w \in VoidWorkers, StepRaises(w) PROVE VoidIInv'
<1>1. /\ vw[w].pc = "run" /\ vlease = w /\ ~Over(vw[w].step) /\ UNCHANGED <<vdb, vworld, vlease, vflags>>
      /\ QuietPlan
  BY WorkerFacts, SpentPlan DEF StepRaises, At
<1>2. vw[w].step \in DOMAIN vsteps /\ vw[w].step \in AllKeys
  BY <1>1, WorkerFacts DEF Fits, VoidIInv, VoidRecords, VRows
<1>3. PICK b \in BOOLEAN, q \in BOOLEAN : FailWith(w, vw[w].step, b, q)
  <2>1. account.quotaMoved \in BOOLEAN /\ vop.forced \in BOOLEAN
    BY DEF VoidIInv, VoidRecords, Account, VoidOp
  <2> QED BY <2>1 DEF StepRaises
<1>4. Steady => /\ vw[w].leased => vlease = w
                /\ IF vw[w].step = Block THEN vw[w].leased /\ ~Over(Block) ELSE Underway
  BY <1>1, WorkerFacts DEF HoldsSet, PastBlock
<1> QED BY <1>1, <1>2, <1>3, <1>4, WorkerFails

LEMMA ChecksDeletion == ASSUME VoidIInv, NEW w \in VoidWorkers, CheckDeletion(w) PROVE VoidIInv'
<1>1. /\ vw[w].pc = "delcheck" /\ UNCHANGED <<vplan, vdb, vworld, vlease, vflags>> /\ QuietPlan
      /\ Steady => ~vw[w].leased /\ Underway
  BY WorkerFacts, SpentPlan DEF CheckDeletion, At, HoldsSet, PastBlock
<1>2. CASE Goto(w, "idle")
  <2>1. vw'[w].pc = "idle" /\ vw'[w].leased = vw[w].leased
    BY <1>2, WorkerFacts, GotoMoves DEF VoidPcs
  <2>2. Fits(w)' /\ (Steady => HoldsSet(w)' /\ ~PastBlock(w)')
    BY <1>1, <2>1 DEF Fits, HoldsSet, PastBlock
  <2> QED BY <1>1, <1>2, <2>2, WorkerGoes DEF VoidPcs
<1>3. CASE ~AllOver /\ FailWith(w, FirstOpen, TRUE, FALSE)
  <2>1. FirstOpen \in DOMAIN vsteps /\ FirstOpen \in AllKeys /\ ~Over(FirstOpen)
    BY <1>3, WhatIsOver
  <2>2. Steady => FirstOpen # Block
    BY <1>1, <2>1 DEF Underway, Ended
  <2> QED BY <1>1, <1>3, <2>1, <2>2, WorkerFails
<1>4. CASE ~AllOver /\ vw' = [vw EXCEPT ![w].pc = "delstart", ![w].step = FirstOpen]
  <2> DEFINE r == [vw[w] EXCEPT !.pc = "delstart", !.step = FirstOpen]
  <2>1. FirstOpen \in DOMAIN vsteps /\ FirstOpen \in AllKeys
    BY <1>4, WhatIsOver
  <2>2. r \in VWorker /\ r.pc = "delstart" /\ r.step = FirstOpen /\ r.leased = vw[w].leased
    BY <2>1, WorkerFacts DEF VWorker, VoidPcs
  <2>3. vw' = [vw EXCEPT ![w] = r]
    BY <1>4
  <2> HIDE DEF r
  <2>4. TypedWorkers /\ Unmoved(w) /\ vw'[w] = r
    BY <2>2, <2>3, WorkerFacts, Replaced
  <2>5. Fits(w)' /\ (Steady => HoldsSet(w)')
    BY <1>1, <1>4, <2>1, <2>2, <2>4, WhatIsOver DEF Fits, HoldsSet, vdb, Underway, Ended
  <2>6. LeaseMoves(w)
    BY <1>1 DEF LeaseMoves, LeaseGiven
  <2> QED BY <1>1, <2>4, <2>5, <2>6, WorkerStep
<1> QED BY <1>2, <1>3, <1>4 DEF CheckDeletion

LEMMA RaisesAtStart == ASSUME VoidIInv, NEW w \in VoidWorkers, StartRaises(w) PROVE VoidIInv'
<1>1. /\ vw[w].pc = "delstart" /\ UNCHANGED <<vdb, vworld, vlease, vflags>> /\ QuietPlan
      /\ FailWith(w, vw[w].step, FALSE, FALSE)
  BY WorkerFacts, SpentPlan DEF StartRaises, At
<1>2. vw[w].step \in DOMAIN vsteps /\ vw[w].step \in AllKeys
  BY <1>1, WorkerFacts DEF Fits, VoidIInv, VoidRecords, VRows
<1>3. Steady => /\ vw[w].leased => vlease = w
                /\ vw[w].step # Block /\ Underway
  BY <1>1, WorkerFacts DEF HoldsSet, PastBlock
<1> QED BY <1>1, <1>2, <1>3, WorkerFails

LEMMA RetryIsRefused == ASSUME VoidIInv, NEW w \in VoidWorkers, RetryRefused(w) PROVE VoidIInv'
<1>1. /\ vw[w].pc = "retry" /\ UNCHANGED <<vplan, vdb, vworld, vlease, vflags>> /\ Goto(w, "idle")
  BY DEF RetryRefused, At
<1>2. vw'[w].pc = "idle" /\ vw'[w].leased = vw[w].leased
  BY <1>1, WorkerFacts, GotoMoves DEF VoidPcs
<1>3. Fits(w)' /\ (Steady => HoldsSet(w)' /\ ~PastBlock(w)')
  BY <1>1, <1>2, WorkerFacts DEF Fits, HoldsSet, PastBlock
<1> QED BY <1>1, <1>3, WorkerGoes DEF VoidPcs

LEMMA Crashes == ASSUME VoidIInv, NEW w \in VoidWorkers, VoidCrash(w) PROVE VoidIInv'
<1>1. QuietPlan /\ UNCHANGED <<vdb, vworld, vlease, vflags>> /\ vw' = [vw EXCEPT ![w] = Idle]
  BY WorkerFacts, SpentPlan DEF VoidCrash
<1>2. TypedWorkers /\ Unmoved(w) /\ vw'[w] = Idle
  BY <1>1, WorkerFacts, IdleWorker, Replaced
<1>3. LeaseGiven(w)
  BY <1>1 DEF LeaseGiven
<1> QED BY <1>1, <1>2, <1>3, IdleWorker, WorkerRests


-----------------------------------------------------------------------------
(* Steps of the world around the void *)

\* The account, once gone, stays so; the deletion is asked for only behind a
\* block that is done, and ends with the account gone.
WorldMoves ==
    /\ vscope' \in VScope /\ account' \in Account /\ prov' \in Removals
    /\ account.gone => account'.gone
    /\ prov'.state = "completed" => account'.gone
    /\ Steady /\ prov'.state # "none" => prov.state # "none" \/ Underway

FlagsTyped == vflags' \in [preview: BOOLEAN, execute: BOOLEAN, worker: BOOLEAN]
LeaseTyped == vlease' \in VoidWorkers \cup {NoVoidWorker, OtherOperation}

\* A step that leaves the tables of the void alone.
LEMMA WorldStep ==
    ASSUME VoidIInv, QuietPlan, UNCHANGED vdb, WorldMoves, TypedWorkers, FlagsTyped, LeaseTyped,
           ClaimedVoidHasWorker',
           \A v \in VoidWorkers : Fits(v)',
           Steady => \A v \in VoidWorkers : HoldsSet(v)' /\ (PastBlock(v)' => Underway)
    PROVE  VoidIInv'
<1>1. VoidRecords'
  BY DEF VoidIInv, VoidRecords, QuietPlan, TypedWorkers, WorldMoves, FlagsTyped, LeaseTyped, vdb, Effects, Shape, VRows
<1>2. ApprovalFollowsVoid'
  BY DEF VoidIInv, ApprovalFollowsVoid, vdb
<1>3. DeletedFirst'
  BY DEF VoidIInv, DeletedFirst, WorldMoves, vdb, QuietPlan, Deletes, Shape, Ended, Over
<1>4. MoneyFollows'
  BY DEF VoidIInv, MoneyFollows, Planned, vdb, QuietPlan, Deletes, Shape, Effects
<1>5. ASSUME Steady' PROVE BlockFirst'
  <2>1. Steady /\ BlockFirst
    BY <1>5 DEF Steady, QuietPlan, VoidIInv
  <2>2. Advanced' => Underway
    BY <2>1 DEF Advanced, BlockFirst, vdb, WorldMoves
  <2> QED BY <2>1, <2>2 DEF BlockFirst, Underway, Ended, Over, vdb
<1> QED BY <1>1, <1>2, <1>3, <1>4, <1>5 DEF VoidIInv

\* The same, with every worker where it was.
LEMMA WorldAlone ==
    ASSUME VoidIInv, QuietPlan, UNCHANGED <<vdb, vw>>, WorldMoves, FlagsTyped, LeaseTyped, ClaimedVoidHasWorker',
           Steady => \A v \in VoidWorkers : vw[v].leased => vlease' = v
    PROVE  VoidIInv'
<1>1. TypedWorkers
  BY DEF VoidIInv, VoidRecords, TypedWorkers
<1>2. ASSUME NEW v \in VoidWorkers PROVE Fits(v)'
  <2>1. Fits(v)
    BY DEF VoidIInv, DeletedFirst
  <2> QED BY <2>1 DEF Fits, vdb, WorldMoves, QuietPlan, Deletes, Shape
<1>3. ASSUME Steady, NEW v \in VoidWorkers PROVE HoldsSet(v)' /\ (PastBlock(v)' => Underway)
  BY <1>3 DEF VoidIInv, BlockFirst, HoldsSet, Advanced, PastBlock, Over, vdb
<1> QED BY <1>1, <1>2, <1>3, WorldStep

\* Nothing of the leases, the flags or the workers is touched.
LEMMA WorldOnly ==
    ASSUME VoidIInv, QuietPlan, UNCHANGED <<vdb, vlease, vflags, vw>>, WorldMoves
    PROVE  VoidIInv'
<1>1. FlagsTyped /\ LeaseTyped
  BY DEF VoidIInv, VoidRecords, FlagsTyped, LeaseTyped
<1>2. ClaimedVoidHasWorker'
  BY DEF VoidIInv, ClaimedVoidHasWorker, vdb
<1>3. Steady => \A v \in VoidWorkers : vw[v].leased => vlease' = v
  BY DEF VoidIInv, BlockFirst, HoldsSet
<1> QED BY <1>1, <1>2, <1>3, WorldAlone

\* What is known of the world before such a step.
LEMMA WorldFacts ==
    ASSUME VoidIInv
    PROVE  /\ vplan \in VoidPlan /\ vscope \in VScope /\ account \in Account /\ prov \in Removals
           /\ prov.state = "completed" => account.gone
  BY DEF VoidIInv, VoidRecords, DeletedFirst

LEMMA ScopeMoves ==
    ASSUME NEW s \in VScope, NEW cs \in SUBSET Services
    PROVE  /\ [s EXCEPT !.conns = cs] \in VScope /\ [s EXCEPT !.rev = @ + 1] \in VScope
           /\ [s EXCEPT !.active = TRUE] \in VScope
<1>1. s.rev + 1 \in Nat
  BY DEF VScope
<1>2. [s EXCEPT !.rev = s.rev + 1] \in VScope
  BY <1>1 DEF VScope
<1>3. [s EXCEPT !.conns = cs] \in VScope /\ [s EXCEPT !.active = TRUE] \in VScope
  BY DEF VScope
<1> QED BY <1>2, <1>3

LEMMA AccountMoves ==
    ASSUME NEW a \in Account
    PROVE  /\ \A b \in BOOLEAN : [a EXCEPT !.debitHeld = b] \in Account /\ [a EXCEPT !.debitHeld = b].gone = a.gone
           /\ [a EXCEPT !.quotaMoved = TRUE] \in Account /\ [a EXCEPT !.quotaMoved = TRUE].gone = a.gone
           /\ [a EXCEPT !.gone = TRUE] \in Account /\ [a EXCEPT !.gone = TRUE].gone
           /\ [a EXCEPT !.blocked = TRUE] \in Account /\ [a EXCEPT !.blocked = TRUE].gone = a.gone
  BY DEF Account


\* The deletion moves on: what it recorded of a connection.
LEMMA RemovalMoves ==
    ASSUME NEW p \in Removals
    PROVE  /\ p.state \in {"none", "running", "cleanup_required", "completed"} /\ DOMAIN p.out \subseteq Services
           /\ p.out \in [DOMAIN p.out -> {"running", "absent", "unverified", "abandoned"}]
           /\ \A st \in {"none", "running", "cleanup_required", "completed"} : [p EXCEPT !.state = st] \in Removals
           /\ \A D \in SUBSET Services : \A out \in [D -> {"running", "absent", "unverified", "abandoned"}] :
                \A st \in {"none", "running", "cleanup_required", "completed"} : [state |-> st, out |-> out] \in Removals
<1>1. PICK D \in SUBSET Services : p.out \in [D -> {"running", "absent", "unverified", "abandoned"}]
  BY DEF Removals, Outcomes
<1>2. p.state \in {"none", "running", "cleanup_required", "completed"} /\ p.out \in Outcomes
  BY DEF Removals
<1>3. \A D2 \in SUBSET Services : \A out \in [D2 -> {"running", "absent", "unverified", "abandoned"}] : out \in Outcomes
  BY DEF Outcomes
<1>4. \A st \in {"none", "running", "cleanup_required", "completed"} : [p EXCEPT !.state = st] \in Removals
  BY DEF Removals
<1> QED BY <1>1, <1>2, <1>3, <1>4 DEF Removals

\* Other outcomes of the same connections.
LEMMA RemovalOf ==
    ASSUME NEW p \in Removals, NEW out \in [DOMAIN p.out -> {"running", "absent", "unverified", "abandoned"}],
           NEW st \in {"none", "running", "cleanup_required", "completed"}
    PROVE  [state |-> st, out |-> out] \in Removals
<1>1. DOMAIN p.out \in SUBSET Services
  BY RemovalMoves
<1>2. out \in Outcomes
  BY <1>1 DEF Outcomes
<1> QED BY <1>2 DEF Removals

\* An outcome written over another.
LEMMA OutcomeMoves ==
    ASSUME NEW p \in Removals, NEW c, NEW r \in {"running", "absent", "unverified", "abandoned"}
    PROVE  [p.out EXCEPT ![c] = r] \in [DOMAIN p.out -> {"running", "absent", "unverified", "abandoned"}]
<1>1. p.out \in [DOMAIN p.out -> {"running", "absent", "unverified", "abandoned"}]
  BY RemovalMoves
<1> DEFINE f == p.out
<1>2. f \in [DOMAIN f -> {"running", "absent", "unverified", "abandoned"}]
  BY <1>1
<1> HIDE DEF f
<1>3. [f EXCEPT ![c] = r] \in [DOMAIN f -> {"running", "absent", "unverified", "abandoned"}]
  BY <1>2
<1> QED BY <1>3 DEF f

LEMMA FindsAbsent == ASSUME VoidIInv, NEW c \in Services, ProvAbsent(c) PROVE VoidIInv'
<1>1. /\ UNCHANGED <<vdb, vlease, vflags, vw, vscope, account>> /\ QuietPlan /\ prov.state = "running"
      /\ prov' = [prov EXCEPT !.out[c] = "absent"]
  BY WorldFacts, SpentPlan DEF ProvAbsent
<1>2. prov' = [state |-> prov.state, out |-> [prov.out EXCEPT ![c] = "absent"]]
  BY <1>1, WorldFacts DEF Removals
<1> DEFINE out == [prov.out EXCEPT ![c] = "absent"]
<1>3. out \in [DOMAIN prov.out -> {"running", "absent", "unverified", "abandoned"}]
  BY WorldFacts, OutcomeMoves
<1> HIDE DEF out
<1>4. [state |-> prov.state, out |-> out] \in Removals
  BY <1>1, <1>3, WorldFacts, RemovalMoves
<1>5. prov' \in Removals /\ prov'.state = "running"
  BY <1>1, <1>2, <1>4 DEF out
<1>6. WorldMoves
  BY <1>1, <1>5, WorldFacts DEF WorldMoves
<1> QED BY <1>1, <1>6, WorldOnly

LEMMA FindsUnverified == ASSUME VoidIInv, NEW c \in Services, ProvUnverified(c) PROVE VoidIInv'
<1>1. /\ UNCHANGED <<vdb, vlease, vflags, vw, vscope, account>> /\ QuietPlan /\ prov.state = "running"
      /\ prov' = [state |-> "cleanup_required", out |-> [prov.out EXCEPT ![c] = "unverified"]]
  BY WorldFacts, SpentPlan DEF ProvUnverified
<1>2. prov' \in Removals /\ prov'.state = "cleanup_required"
  BY <1>1, WorldFacts, OutcomeMoves, RemovalMoves
<1>3. WorldMoves
  BY <1>1, <1>2, WorldFacts DEF WorldMoves
<1> QED BY <1>1, <1>3, WorldOnly

LEMMA DeletionEnds == ASSUME VoidIInv, ProvFinishes PROVE VoidIInv'
<1>1. /\ UNCHANGED <<vdb, vlease, vflags, vw>> /\ QuietPlan /\ prov.state = "running"
      /\ prov' = [prov EXCEPT !.state = "completed"]
      /\ account' = [account EXCEPT !.gone = TRUE] /\ vscope' = [vscope EXCEPT !.conns = {}]
  BY WorldFacts, SpentPlan DEF ProvFinishes
<1>2. prov' \in Removals /\ account' \in Account /\ account'.gone /\ vscope' \in VScope
  BY <1>1, WorldFacts, RemovalMoves, AccountMoves, ScopeMoves
<1>3. WorldMoves
  BY <1>1, <1>2, WorldFacts DEF WorldMoves
<1> QED BY <1>1, <1>3, WorldOnly

LEMMA CustomerMoves == ASSUME VoidIInv, CustomerActs PROVE VoidIInv'
<1>1. UNCHANGED <<vdb, vlease, vflags, vw, prov>> /\ QuietPlan
  BY WorldFacts, SpentPlan DEF CustomerActs
<1>2. vscope' \in VScope /\ account' \in Account /\ account'.gone = account.gone
  <2>1. CASE UNCHANGED account /\ vscope' = [vscope EXCEPT !.rev = @ + 1]
    BY <2>1, WorldFacts, ScopeMoves
  <2>2. CASE UNCHANGED vscope /\ account' = [account EXCEPT !.debitHeld = TRUE]
    BY <2>2, WorldFacts, AccountMoves
  <2> QED BY <2>1, <2>2 DEF CustomerActs
<1>3. WorldMoves
  BY <1>1, <1>2, WorldFacts DEF WorldMoves
<1> QED BY <1>1, <1>3, WorldOnly

LEMMA DebitSettles == ASSUME VoidIInv, HeldDebitSettles PROVE VoidIInv'
<1>1. UNCHANGED <<vdb, vlease, vflags, vw, prov>> /\ QuietPlan
  BY WorldFacts, SpentPlan DEF HeldDebitSettles
<1>2. vscope' \in VScope /\ account' \in Account /\ account'.gone = account.gone
  BY WorldFacts, AccountMoves, ScopeMoves DEF HeldDebitSettles
<1>3. WorldMoves
  BY <1>1, <1>2, WorldFacts DEF WorldMoves
<1> QED BY <1>1, <1>3, WorldOnly

LEMMA AdministratorMoves == ASSUME VoidIInv, AdministratorActs PROVE VoidIInv'
<1>1. UNCHANGED <<vdb, vlease, vflags, vw, prov>> /\ QuietPlan
  BY WorldFacts, SpentPlan DEF AdministratorActs
<1>2. vscope' \in VScope /\ account' \in Account /\ account'.gone = account.gone
  <2>1. CASE UNCHANGED account /\ \E cs \in SUBSET Services : vscope' = [vscope EXCEPT !.conns = cs]
    BY <2>1, WorldFacts, ScopeMoves
  <2>2. CASE UNCHANGED account /\ vscope' = [vscope EXCEPT !.active = TRUE]
    BY <2>2, WorldFacts, ScopeMoves
  <2>3. CASE UNCHANGED account /\ vscope' = [vscope EXCEPT !.rev = @ + 1]
    BY <2>3, WorldFacts, ScopeMoves
  <2>4. CASE UNCHANGED vscope /\ account' = [account EXCEPT !.quotaMoved = TRUE]
    BY <2>4, WorldFacts, AccountMoves
  <2>5. vscope.conns \subseteq Services
    BY WorldFacts DEF VScope
  <2>6. \A c \in Services : vscope.conns \cup {c} \in SUBSET Services /\ vscope.conns \ {c} \in SUBSET Services
    BY <2>5
  <2>7. \A c \in vscope.conns : c \in Services
    BY <2>5
  <2> QED BY <2>1, <2>2, <2>3, <2>4, <2>6, <2>7 DEF AdministratorActs
<1>3. WorldMoves
  BY <1>1, <1>2, WorldFacts DEF WorldMoves
<1> QED BY <1>1, <1>3, WorldOnly

\* Nothing of the world moves.
LEMMA WorldStill == ASSUME VoidIInv, UNCHANGED vworld PROVE WorldMoves
  BY WorldFacts DEF WorldMoves, vworld

LEMMA OperatorLooks == ASSUME VoidIInv, PreviewVoid PROVE VoidIInv'
  BY WorldFacts, SpentPlan, WorldStill, WorldOnly DEF PreviewVoid

LEMMA FlagMoves == ASSUME VoidIInv, NEW f \in DOMAIN vflags, NEW on \in BOOLEAN, SetFlag(f, on) PROVE VoidIInv'
<1>1. UNCHANGED <<vdb, vworld, vlease, vw>> /\ QuietPlan /\ vflags' = [vflags EXCEPT ![f] = on]
  BY WorldFacts, SpentPlan DEF SetFlag
<1>2. vflags \in [preview: BOOLEAN, execute: BOOLEAN, worker: BOOLEAN]
  BY DEF VoidIInv, VoidRecords
<1>3. DOMAIN vflags = {"preview", "execute", "worker"}
  BY <1>2
<1>4. FlagsTyped /\ (f # "worker" => vflags'.worker = vflags.worker) /\ (f = "worker" => vflags'.worker = on)
  BY <1>1, <1>2, <1>3 DEF FlagsTyped
<1>5. ClaimedVoidHasWorker'
  BY <1>1, <1>4 DEF SetFlag, WorkerNeeded, ClaimedVoidHasWorker, VoidIInv, vdb
<1>6. LeaseTyped /\ (Steady => \A v \in VoidWorkers : vw[v].leased => vlease' = v)
  BY <1>1 DEF VoidIInv, VoidRecords, LeaseTyped, BlockFirst, HoldsSet
<1> QED BY <1>1, <1>4, <1>5, <1>6, WorldStill, WorldAlone

\* The lease set changes hands where no worker that has leased holds it.
LEMMA LeasesMove ==
    ASSUME VoidIInv, QuietPlan, UNCHANGED <<vdb, vworld, vflags, vw>>, LeaseTyped,
           Steady => \A v \in VoidWorkers : vw[v].leased => vlease' = v
    PROVE  VoidIInv'
<1>1. FlagsTyped /\ ClaimedVoidHasWorker'
  BY DEF VoidIInv, VoidRecords, FlagsTyped, ClaimedVoidHasWorker, vdb
<1> QED BY <1>1, WorldStill, WorldAlone

LEMMA OtherLeases == ASSUME VoidIInv, OtherTakesLease PROVE VoidIInv'
<1>1. /\ UNCHANGED <<vdb, vworld, vflags, vw>> /\ QuietPlan /\ vlease = NoVoidWorker /\ LeaseTyped
  BY WorldFacts, SpentPlan DEF OtherTakesLease, LeaseTyped
<1>2. Steady => \A v \in VoidWorkers : ~vw[v].leased
  BY <1>1, WorkerFacts DEF HoldsSet
<1> QED BY <1>1, <1>2, WorkerFacts, LeasesMove DEF VoidRecords, VoidIInv, VWorker

LEMMA LeaseIsOver == ASSUME VoidIInv, LeaseEnds PROVE VoidIInv'
<1>1. /\ UNCHANGED <<vdb, vworld, vflags, vw>> /\ QuietPlan /\ LeaseTyped
      /\ vlease \in VoidWorkers => vw[vlease].pc = "idle"
  BY WorldFacts, SpentPlan DEF LeaseEnds, LeaseTyped
<1>2. ASSUME Steady, NEW v \in VoidWorkers, vw[v].leased PROVE FALSE
  <2>1. vlease = v /\ vw[v].pc # "idle"
    BY <1>2, WorkerFacts DEF HoldsSet
  <2> QED BY <1>1, <2>1
<1> QED BY <1>1, <1>2, LeasesMove

LEMMA LeaseIsLate == ASSUME VoidIInv, LeaseExpires PROVE VoidIInv'
<1>1. UNCHANGED <<vdb, vworld, vflags, vw>> /\ QuietPlan /\ LeaseTyped /\ ~Steady
  BY WorldFacts, SpentPlan DEF LeaseExpires, LeaseTyped, Happens, Steady
<1> QED BY <1>1, LeasesMove


-----------------------------------------------------------------------------
(* Steps of a worker that move the deletion *)

LEMMA DeletionStep ==
    ASSUME VoidIInv, NEW w \in VoidWorkers, QuietPlan, UNCHANGED <<vdb, vscope, account, vlease, vflags>>,
           prov' \in Removals, prov'.state = "completed" => prov.state = "completed",
           Steady /\ prov'.state # "none" => prov.state # "none" \/ Underway,
           TypedWorkers, Unmoved(w), Fits(w)', Steady => HoldsSet(w)' /\ (PastBlock(w)' => Underway)
    PROVE  VoidIInv'
<1>1. WorldMoves
  BY WorldFacts DEF WorldMoves
<1>2. FlagsTyped /\ LeaseTyped /\ ClaimedVoidHasWorker'
  BY DEF VoidIInv, VoidRecords, FlagsTyped, LeaseTyped, ClaimedVoidHasWorker, vdb
<1>3. ASSUME NEW v \in VoidWorkers \ {w} PROVE Fits(v)'
  <2>1. Fits(v)
    BY DEF VoidIInv, DeletedFirst
  <2> QED BY <1>3, <2>1 DEF Fits, Unmoved, vdb, QuietPlan, Deletes, Shape
<1>4. ASSUME Steady, NEW v \in VoidWorkers \ {w} PROVE HoldsSet(v)' /\ (PastBlock(v)' => Underway)
  BY <1>4 DEF VoidIInv, BlockFirst, HoldsSet, Advanced, PastBlock, Over, Unmoved, vdb
<1> QED BY <1>1, <1>2, <1>3, <1>4, WorldStep

LEMMA StartsDeletion == ASSUME VoidIInv, NEW w \in VoidWorkers, StartDeletion(w) PROVE VoidIInv'
<1>1. /\ UNCHANGED <<vdb, vscope, account, vlease, vflags>> /\ QuietPlan /\ Goto(w, "delmirror")
      /\ vw[w].pc = "delstart" /\ (Steady => Underway /\ ~vw[w].leased)
  BY WorkerFacts, SpentPlan DEF StartDeletion, At, HoldsSet, PastBlock
<1>2. TypedWorkers /\ Unmoved(w) /\ vw'[w].pc = "delmirror" /\ vw'[w].leased = vw[w].leased
  BY <1>1, WorkerFacts, GotoMoves DEF VoidPcs
<1>3. prov' \in Removals /\ (prov'.state = "completed" => prov.state = "completed")
  <2>1. CASE UNCHANGED prov
    BY <2>1, WorldFacts
  <2>2. CASE prov' = [state |-> "running", out |-> [c \in vscope.conns |-> "running"]]
    <3>1. vscope.conns \in SUBSET Services
      BY WorldFacts DEF VScope
    <3>2. [c \in vscope.conns |-> "running"] \in [vscope.conns -> {"running", "absent", "unverified", "abandoned"}]
      OBVIOUS
    <3> QED BY <2>2, <3>1, <3>2, WorldFacts, RemovalMoves
  <2> QED BY <2>1, <2>2 DEF StartDeletion
<1>4. Fits(w)' /\ (Steady => HoldsSet(w)')
  BY <1>1, <1>2 DEF Fits, HoldsSet
<1> QED BY <1>1, <1>2, <1>3, <1>4, DeletionStep

LEMMA AsksForRetry == ASSUME VoidIInv, NEW w \in VoidWorkers, RetryAsked(w) PROVE VoidIInv'
<1>1. /\ UNCHANGED <<vdb, vscope, account, vlease, vflags>> /\ QuietPlan /\ Goto(w, "retry")
      /\ vw[w].pc = "idle" /\ prov' = ProvRetried
  BY WorkerFacts, SpentPlan DEF RetryAsked, At
<1>2. TypedWorkers /\ Unmoved(w) /\ vw'[w].pc = "retry" /\ vw'[w].leased = vw[w].leased
  BY <1>1, WorkerFacts, GotoMoves DEF VoidPcs
<1>3. /\ prov' \in Removals /\ (prov'.state = "completed" => prov.state = "completed")
      /\ prov'.state # "none" => prov.state # "none"
  <2> DEFINE out == [c \in DOMAIN prov.out |-> IF prov.out[c] = "unverified" THEN "running" ELSE prov.out[c]]
  <2>1. /\ DOMAIN prov.out \in SUBSET Services
        /\ prov.out \in [DOMAIN prov.out -> {"running", "absent", "unverified", "abandoned"}]
    BY WorldFacts, RemovalMoves
  <2>2. out \in [DOMAIN prov.out -> {"running", "absent", "unverified", "abandoned"}]
    BY <2>1
  <2>3. prov.state = "cleanup_required" => prov' = [state |-> "running", out |-> out]
    BY <1>1 DEF ProvRetried
  <2>4. prov.state # "cleanup_required" => prov' = prov
    BY <1>1 DEF ProvRetried
  <2> HIDE DEF out
  <2>5. CASE prov.state = "cleanup_required"
    <3>1. [state |-> "running", out |-> out] \in Removals
      BY <2>2, WorldFacts, RemovalOf
    <3> QED BY <2>3, <2>5, <3>1
  <2> QED BY <2>4, <2>5, WorldFacts
<1>4. Fits(w)' /\ (Steady => HoldsSet(w)' /\ ~PastBlock(w)')
  BY <1>1, <1>2, WorkerFacts DEF Fits, HoldsSet, PastBlock
<1> QED BY <1>1, <1>2, <1>3, <1>4, DeletionStep

LEMMA AsksForForce ==
    ASSUME VoidIInv, NEW w \in VoidWorkers, NEW k \in DOMAIN vsteps, ForceAsked(w, k)
    PROVE  VoidIInv'
<1>1. /\ UNCHANGED <<vdb, vscope, account, vlease, vflags>> /\ QuietPlan
      /\ vw[w].pc = "idle" /\ vop.state = "cleanup_required"
      /\ vw' = [vw EXCEPT ![w].pc = "force", ![w].step = k]
  BY WorkerFacts, SpentPlan DEF ForceAsked, At
<1> DEFINE out == [c \in DOMAIN prov.out |-> IF k \in {Gone(c), Sure(c)} THEN "abandoned" ELSE prov.out[c]]
           last == k # Loyalty /\ Cardinality({c \in DOMAIN prov.out : prov.out[c] = "unverified"}) = 1
<1>2. prov' = [prov EXCEPT !.out = out, !.state = IF last THEN "running" ELSE prov.state]
  BY DEF ForceAsked
<1>3. prov' \in Removals /\ (prov'.state = "completed" => prov.state = "completed")
  <2>1. /\ DOMAIN prov.out \in SUBSET Services
        /\ prov.out \in [DOMAIN prov.out -> {"running", "absent", "unverified", "abandoned"}]
    BY WorldFacts, RemovalMoves
  <2>2. out \in [DOMAIN prov.out -> {"running", "absent", "unverified", "abandoned"}]
    BY <2>1
  <2> HIDE DEF out, last
  <2>3. prov' = [state |-> IF last THEN "running" ELSE prov.state, out |-> out]
    BY <1>2, WorldFacts DEF Removals
  <2>4. (IF last THEN "running" ELSE prov.state) \in {"none", "running", "cleanup_required", "completed"}
    BY WorldFacts, RemovalMoves
  <2>5. prov' \in Removals
    BY <2>2, <2>3, <2>4, WorldFacts, RemovalOf
  <2> QED BY <2>3, <2>5
<1> DEFINE r == [vw[w] EXCEPT !.pc = "force", !.step = k]
<1>4. k \in AllKeys
  BY DEF VoidIInv, VoidRecords, VRows
<1>5. r \in VWorker /\ r.pc = "force" /\ r.step = k /\ r.leased = vw[w].leased
  BY <1>4, WorkerFacts DEF VWorker, VoidPcs
<1>6. vw' = [vw EXCEPT ![w] = r]
  BY <1>1
<1> HIDE DEF r, out, last
<1>7. TypedWorkers /\ Unmoved(w) /\ vw'[w] = r
  BY <1>5, <1>6, WorkerFacts, Replaced
<1>8. Fits(w)' /\ (Steady => HoldsSet(w)' /\ ~PastBlock(w)')
  BY <1>1, <1>5, <1>7, WorkerFacts DEF Fits, HoldsSet, PastBlock, vdb
<1>9. Steady => Underway
  BY <1>1, WorkerFacts DEF Advanced
<1> QED BY <1>1, <1>3, <1>7, <1>8, <1>9, DeletionStep


-----------------------------------------------------------------------------
(* Steps that write the tables of the void *)

ApprovalTyped == approval' \in [state: {"completed", "voiding", "voided", "cleanup_required"}, version: Nat]

\* A step that writes the approval, the operation and its rows, and takes
\* nothing back.
LEMMA RowsStep ==
    ASSUME VoidIInv, QuietPlan, UNCHANGED <<order, closed, refunds, vworld, vflags>>, TypedWorkers, LeaseTyped,
           ApprovalTyped, vop' \in VoidOp, VRows(vsteps'), DOMAIN vsteps' = DOMAIN vsteps,
           ApprovalFollowsVoid', ClaimedVoidHasWorker', vop.state = "none" <=> vop'.state = "none",
           approval'.state = "voided" => approval.state = "voided",
           Deletes /\ Ended(DbDelete)' => Ended(DbDelete) \/ account.gone,
           \A v \in VoidWorkers : Fits(v)', Steady => BlockFirst'
    PROVE  VoidIInv'
<1>1. VoidRecords'
  BY DEF VoidIInv, VoidRecords, QuietPlan, TypedWorkers, LeaseTyped, ApprovalTyped, vworld, Effects, Shape
<1>2. DeletedFirst'
  BY DEF VoidIInv, DeletedFirst, vworld, QuietPlan, Deletes, Shape
<1>3. MoneyFollows'
  BY DEF VoidIInv, MoneyFollows, Planned, QuietPlan, Deletes, Shape, Effects
<1>4. Steady' => BlockFirst'
  BY DEF Steady, QuietPlan
<1> QED BY <1>1, <1>2, <1>3, <1>4 DEF VoidIInv

\* The same by a worker, which leaves its step and its lease.
LEMMA WorkerWrites ==
    ASSUME VoidIInv, NEW w \in VoidWorkers, QuietPlan, UNCHANGED <<order, closed, refunds, vworld, vflags>>,
           TypedWorkers, Unmoved(w), LeaseGiven(w), vw'[w].pc \in {"idle", "pick"}, Steady => ~vw'[w].leased,
           ApprovalTyped, vop' \in VoidOp, VRows(vsteps'), DOMAIN vsteps' = DOMAIN vsteps,
           ApprovalFollowsVoid', ClaimedVoidHasWorker', vop.state # "none", vop'.state # "none",
           approval'.state = "voided" => approval.state = "voided",
           Deletes /\ Ended(DbDelete)' => Ended(DbDelete) \/ account.gone,
           Steady => (Ended(Block)' <=> Ended(Block)),
           Steady /\ vop'.state = "failed" => ~Underway,
           Steady /\ vop'.state \in {"cleanup_required", "completed"} => Underway
    PROVE  VoidIInv'
<1>1. LeaseTyped
  BY DEF VoidIInv, VoidRecords, LeaseTyped, LeaseGiven
<1>2. ASSUME NEW v \in VoidWorkers PROVE Fits(v)'
  <2>1. Fits(v)
    BY DEF VoidIInv, DeletedFirst
  <2>2. CASE v = w
    BY <2>2 DEF Fits
  <2>3. CASE v # w
    BY <2>1, <2>3 DEF Fits, Unmoved, vworld, QuietPlan, Deletes, Shape
  <2> QED BY <2>2, <2>3
<1>3. ASSUME Steady PROVE BlockFirst'
  <2>1. BlockFirst
    BY <1>3 DEF VoidIInv
  <2>2. ASSUME NEW v \in VoidWorkers PROVE HoldsSet(v)'
    <3>1. HoldsSet(v) /\ v # NoVoidWorker
      BY <2>1 DEF BlockFirst
    <3>2. CASE v = w
      BY <1>3, <3>2 DEF HoldsSet
    <3>3. CASE v # w
      <4>1. vw'[v] = vw[v]
        BY <3>3 DEF Unmoved
      <4>2. ASSUME vw[v].pc = "fail", vw[v].step = Block PROVE ~Over(Block)'
        <5>1. Block \in DOMAIN vsteps /\ ~Over(Block)
          BY <3>1, <4>2, WorkerFacts DEF HoldsSet, Fits
        <5> QED BY <1>3, <5>1 DEF Ended, Over
      <4>3. vw[v].leased => vlease' = v
        BY <3>1, <3>3 DEF HoldsSet, LeaseGiven
      <4> QED BY <3>1, <4>1, <4>2, <4>3 DEF HoldsSet
    <3> QED BY <3>2, <3>3
  <2>3. ASSUME Advanced' PROVE Underway'
    <3>1. CASE vop'.state \in {"cleanup_required", "completed"}
      BY <1>3, <3>1 DEF Underway, Ended
    <3>2. CASE Advanced
      <4>1. Underway
        BY <2>1, <3>2 DEF BlockFirst
      <4> QED BY <1>3, <4>1 DEF Underway, Ended
    <3>3. ASSUME NEW v \in VoidWorkers, PastBlock(v)' PROVE Advanced
      <4>1. v # w
        BY <3>3 DEF PastBlock
      <4>2. PastBlock(v)
        BY <3>3, <4>1 DEF PastBlock, Unmoved
      <4> QED BY <4>2 DEF Advanced
    <3>4. (closed # {} \/ prov.state # "none") => Advanced
      BY DEF Advanced
    <3>5. Advanced' => \/ closed # {} \/ prov.state # "none" \/ vop'.state \in {"cleanup_required", "completed"}
                       \/ \E v \in VoidWorkers : PastBlock(v)'
      BY DEF Advanced, vworld
    <3> QED BY <2>3, <3>1, <3>2, <3>3, <3>4, <3>5
  <2> QED BY <2>2, <2>3 DEF BlockFirst
<1> QED BY <1>1, <1>2, <1>3, RowsStep

\* What is known of the tables before such a step.
LEMMA TableFacts ==
    ASSUME VoidIInv
    PROVE  /\ approval \in [state: {"completed", "voiding", "voided", "cleanup_required"}, version: Nat]
           /\ vop \in VoidOp /\ VRows(vsteps) /\ DOMAIN vsteps \subseteq AllKeys
           /\ \A k \in DOMAIN vsteps : vsteps[k] \in VRow
           /\ approval.state = CASE vop.state \in {"none", "failed"} -> "completed"
                                 [] vop.state = "running"           -> "voiding"
                                 [] vop.state = "completed"         -> "voided"
                                 [] OTHER                           -> vop.state
           /\ vop.state \in {"running", "cleanup_required"} /\ vop.how = "claim" => vflags.worker
           /\ Deletes /\ Ended(DbDelete) => account.gone
  BY DEF VoidIInv, VoidRecords, VRows, ApprovalFollowsVoid, ClaimedVoidHasWorker, DeletedFirst

\* The approval is moved.
LEMMA ApprovalMoves ==
    ASSUME VoidIInv, NEW from, NEW to \in {"completed", "voiding", "voided", "cleanup_required"}, Approval(from, to)
    PROVE  ApprovalTyped /\ approval.state = from /\ approval'.state = to
  BY TableFacts DEF Approval, ApprovalTyped

\* A row is written over.
LEMMA RowMoves ==
    ASSUME NEW r \in VRow
    PROVE  /\ \A st \in StepStates : [r EXCEPT !.state = st] \in VRow /\ [r EXCEPT !.state = st].state = st
           /\ \A d \in BOOLEAN : [r EXCEPT !.due = d] \in VRow /\ [r EXCEPT !.due = d].state = r.state
           /\ Pending \in VRow /\ Pending.state = "pending"
           /\ [Pending EXCEPT !.state = "done"] \in VRow /\ [Pending EXCEPT !.state = "done"].state = "done"
  BY DEF VRow, StepStates, Pending

\* One row written.
LEMMA RowWritten ==
    ASSUME VoidIInv, NEW k, NEW r \in VRow, vsteps' = [vsteps EXCEPT ![k] = r]
    PROVE  /\ DOMAIN vsteps' = DOMAIN vsteps /\ VRows(vsteps')
           /\ \A j : j # k => vsteps'[j] = vsteps[j] \/ j \notin DOMAIN vsteps
           /\ k \in DOMAIN vsteps => vsteps'[k] = r
<1>1. vsteps \in [DOMAIN vsteps -> VRow] /\ DOMAIN vsteps \subseteq AllKeys
  BY TableFacts DEF VRows
<1> DEFINE D == DOMAIN vsteps
<1>2. vsteps \in [D -> VRow]
  BY <1>1
<1> HIDE DEF D
<1>3. vsteps' \in [D -> VRow] /\ (k \in D => vsteps'[k] = r) /\ \A j \in D : j # k => vsteps'[j] = vsteps[j]
  BY <1>2
<1>4. DOMAIN vsteps' = D
  BY <1>3
<1> QED BY <1>1, <1>3, <1>4 DEF VRows, D

\* A backoff that ends.
LEMMA BackoffEnds == ASSUME VoidIInv, BackoffElapses PROVE VoidIInv'
<1>1. PICK k \in DOMAIN vsteps : vsteps' = [vsteps EXCEPT ![k].due = TRUE]
  BY DEF BackoffElapses
<1>2. UNCHANGED <<vplan, approval, vop, order, closed, refunds, vworld, vlease, vflags, vw>> /\ QuietPlan
  BY WorldFacts, SpentPlan DEF BackoffElapses
<1> DEFINE r == [vsteps[k] EXCEPT !.due = TRUE]
<1>3. r \in VRow /\ r.state = vsteps[k].state
  BY <1>1, TableFacts, RowMoves
<1>4. vsteps' = [vsteps EXCEPT ![k] = r]
  BY <1>1
<1> HIDE DEF r
<1>5. /\ DOMAIN vsteps' = DOMAIN vsteps /\ VRows(vsteps')
      /\ \A j \in DOMAIN vsteps : vsteps'[j].state = vsteps[j].state
  BY <1>3, <1>4, RowWritten
<1>6. \A j \in DOMAIN vsteps : Over(j)' <=> Over(j)
  BY <1>5 DEF Over
<1>7. (Ended(DbDelete)' <=> Ended(DbDelete)) /\ (Ended(Block)' <=> Ended(Block))
  BY <1>5, <1>6 DEF Ended
<1>8. TypedWorkers /\ LeaseTyped /\ ApprovalTyped /\ vop' \in VoidOp /\ ApprovalFollowsVoid' /\ ClaimedVoidHasWorker'
  BY <1>2 DEF VoidIInv, VoidRecords, TypedWorkers, LeaseTyped, ApprovalTyped, ApprovalFollowsVoid, ClaimedVoidHasWorker
<1>9. ASSUME NEW v \in VoidWorkers PROVE Fits(v)'
  BY <1>2, <1>5, WorkerFacts DEF Fits, vworld, QuietPlan, Deletes, Shape
<1>10. ASSUME Steady PROVE BlockFirst'
  <2>1. BlockFirst
    BY <1>10 DEF VoidIInv
  <2>2. ASSUME NEW v \in VoidWorkers PROVE HoldsSet(v)'
    BY <1>2, <1>6, <2>1, WorkerFacts DEF BlockFirst, HoldsSet, Fits
  <2>3. Advanced' => Advanced
    BY <1>2 DEF Advanced, PastBlock, vworld
  <2>4. Underway => Underway'
    BY <1>2, <1>7 DEF Underway
  <2> QED BY <2>1, <2>2, <2>3, <2>4 DEF BlockFirst
<1> QED BY <1>2, <1>5, <1>7, <1>8, <1>9, <1>10, RowsStep


\* The operation is moved.
LEMMA OpMoves ==
    ASSUME NEW o \in VoidOp, NEW st \in {"none", "running", "failed", "cleanup_required", "completed"}
    PROVE  /\ [o EXCEPT !.state = st] \in VoidOp /\ [o EXCEPT !.state = st].state = st
           /\ [o EXCEPT !.state = st].how = o.how
  BY DEF VoidOp

\* The operation retried, and forced.
LEMMA OpRetried ==
    ASSUME NEW o \in VoidOp, NEW h \in {"none", "claim", "retry"}
    PROVE  /\ [o EXCEPT !.state = "running", !.how = h] \in VoidOp
           /\ [o EXCEPT !.state = "running", !.how = h].state = "running"
           /\ [o EXCEPT !.state = "running", !.how = h].how = h
  BY DEF VoidOp

ForcedOp(o, k) == [o EXCEPT !.forced = o.forced \/ k = Loyalty]

LEMMA OpForced ==
    ASSUME NEW o \in VoidOp, NEW k
    PROVE  /\ ForcedOp(o, k) \in VoidOp /\ ForcedOp(o, k).state = o.state /\ ForcedOp(o, k).how = o.how
           /\ [ForcedOp(o, k) EXCEPT !.state = "running"] \in VoidOp
           /\ [ForcedOp(o, k) EXCEPT !.state = "running"].state = "running"
           /\ [ForcedOp(o, k) EXCEPT !.state = "running"].how = o.how
<1>1. (o.forced \/ k = Loyalty) \in BOOLEAN
  OBVIOUS
<1>2. ForcedOp(o, k) \in VoidOp /\ ForcedOp(o, k).state = o.state /\ ForcedOp(o, k).how = o.how
  BY <1>1 DEF VoidOp, ForcedOp
<1> QED BY <1>2, OpMoves

\* The operator is asked.
LEMMA OperatorAsked ==
    ASSUME VoidIInv, vop.state = "running", AskOperator
    PROVE  /\ ApprovalTyped /\ approval'.state = "cleanup_required" /\ vop' \in VoidOp
           /\ vop'.state = "cleanup_required" /\ vop'.how = vop.how
<1>1. Approval("voiding", "cleanup_required") /\ vop' = [vop EXCEPT !.state = "cleanup_required"]
  BY DEF AskOperator
<1>2. ApprovalTyped /\ approval'.state = "cleanup_required"
  BY <1>1, ApprovalMoves
<1>3. vop' \in VoidOp /\ vop'.state = "cleanup_required" /\ vop'.how = vop.how
  BY <1>1, TableFacts, OpMoves
<1> QED BY <1>2, <1>3

\* Where the operation and the approval move together, the two invariants
\* about them hold again.
LEMMA MovesTogether ==
    ASSUME VoidIInv, UNCHANGED vflags, vop.state # "none",
           \/ UNCHANGED <<approval, vop>>
           \/ vop'.state = "failed" /\ approval'.state = "completed"
           \/ vop'.state = "completed" /\ approval'.state = "voided"
           \/ /\ vop'.state = "running" /\ approval'.state = "voiding" /\ vop.state = "failed" /\ vop'.how = "retry"
           \/ /\ vop'.state = "running" /\ approval'.state = "voiding" /\ vop'.how = vop.how
              /\ vop.state \in {"running", "cleanup_required"}
           \/ /\ vop'.state = "cleanup_required" /\ approval'.state = "cleanup_required" /\ vop'.how = vop.how
              /\ vop.state \in {"running", "cleanup_required"}
    PROVE  ApprovalFollowsVoid' /\ ClaimedVoidHasWorker' /\ vop'.state # "none"
<1>1. ApprovalFollowsVoid /\ ClaimedVoidHasWorker
  BY DEF VoidIInv
<1>2. vop'.state # "none"
  OBVIOUS
<1>3. ApprovalFollowsVoid'
  BY <1>1 DEF ApprovalFollowsVoid
<1>4. ClaimedVoidHasWorker'
  BY <1>1 DEF ClaimedVoidHasWorker
<1> QED BY <1>2, <1>3, <1>4

FailedRow(r, n, q) == [r EXCEPT !.state = "failed", !.attempts = n, !.quota = q]

\* A row that failed, whenever it is due.
LEMMA RowFails ==
    ASSUME NEW r \in VRow, NEW n \in Nat, NEW q \in BOOLEAN
    PROVE  /\ FailedRow(r, n, q) \in VRow /\ FailedRow(r, n, q).state = "failed"
           /\ \A d \in BOOLEAN : /\ [FailedRow(r, n, q) EXCEPT !.due = d] \in VRow
                                 /\ [FailedRow(r, n, q) EXCEPT !.due = d].state = "failed"
<1>1. FailedRow(r, n, q) \in VRow /\ FailedRow(r, n, q).state = "failed"
  BY DEF VRow, StepStates, FailedRow
<1> QED BY <1>1, RowMoves

\* The failure of a step, recorded.
LEMMA RecordsFailure == ASSUME VoidIInv, NEW w \in VoidWorkers, RecordFailure(w) PROVE VoidIInv'
<1> DEFINE k == vw[w].step
           n == Tries(k)
           failed == [vsteps EXCEPT ![k] = [@ EXCEPT !.state = "failed", !.attempts = n, !.quota = vw[w].quota]]
<1>1. /\ vw[w].pc = "fail" /\ Return(w) /\ UNCHANGED <<order, closed, refunds, vworld, vflags>> /\ QuietPlan
      /\ UNCHANGED <<vplan, order, closed, refunds, vworld, vflags, token>>
  BY WorkerFacts, SpentPlan DEF RecordFailure, At
<1>2. CASE vop.state # "running"
  <2>1. UNCHANGED vdb
    BY <1>1, <1>2 DEF RecordFailure, vdb
  <2> QED BY <1>1, <2>1, WorkerReturns
<1>3. CASE vop.state = "running"
  <2>1. k \in DOMAIN vsteps /\ vsteps[k] \in VRow /\ vsteps[k].attempts \in Nat /\ n \in Nat
    BY <1>1, WorkerFacts, TableFacts DEF Fits, VRow, Tries
  <2>2. vw[w].quota \in BOOLEAN
    BY WorkerFacts DEF VWorker
  <2>3. TypedWorkers /\ Unmoved(w) /\ vw'[w] = Idle /\ LeaseGiven(w)
    BY <1>1, WorkerFacts, ReturnMoves
  <2>4. \E r \in VRow : r.state = "failed" /\ vsteps' = [vsteps EXCEPT ![k] = r]
    <3> DEFINE r == FailedRow(vsteps[k], n, vw[w].quota)
    <3>1. r \in VRow /\ r.state = "failed" /\ \A d \in BOOLEAN : [r EXCEPT !.due = d] \in VRow /\ [r EXCEPT !.due = d].state = "failed"
      <4> HIDE DEF k, n
      <4>1. PICK v \in VRow : v = vsteps[k]
        BY <2>1
      <4>2. PICK q \in BOOLEAN : q = vw[w].quota
        BY <2>2
      <4>3. n \in Nat /\ r = FailedRow(v, n, q)
        BY <2>1, <4>1, <4>2
      <4> HIDE DEF r
      <4> QED BY <4>3, RowFails
    <3>2. failed = [vsteps EXCEPT ![k] = r]
      BY DEF FailedRow
    <3>3. vsteps' \in {failed, [failed EXCEPT ![k].due = TRUE], [failed EXCEPT ![k].due = FALSE]}
      BY <1>3 DEF RecordFailure
    <3>4. \A d \in BOOLEAN : [failed EXCEPT ![k].due = d] = [vsteps EXCEPT ![k] = [r EXCEPT !.due = d]]
      <4> HIDE DEF r, failed
      <4>1. failed[k] = r
        BY <2>1, <3>2
      <4> QED BY <3>2, <4>1
    <3> HIDE DEF r, failed
    <3> QED BY <3>1, <3>2, <3>3, <3>4
  <2>5. PICK r \in VRow : r.state = "failed" /\ vsteps' = [vsteps EXCEPT ![k] = r]
    BY <2>4
  <2> HIDE DEF k
  <2>7. /\ DOMAIN vsteps' = DOMAIN vsteps /\ VRows(vsteps') /\ vsteps'[k].state = "failed"
        /\ \A j \in DOMAIN vsteps : j # k => vsteps'[j] = vsteps[j]
    BY <2>1, <2>5, RowWritten
  <2>8. Ended(DbDelete)' => Ended(DbDelete)
    BY <2>1, <2>7 DEF Ended, Over
  <2>9. \/ k # Block /\ UNCHANGED <<approval, vop>>
        \/ k = Block /\ vop' = [vop EXCEPT !.state = "failed"] /\ Approval("voiding", "completed")
        \/ k # Block /\ AskOperator
    BY <1>3 DEF RecordFailure, BlockFailed, k
  <2>10. Steady => (Ended(Block)' <=> Ended(Block)) /\ (k = Block => ~Underway) /\ (k # Block => Underway)
    <3>1. CASE k # Block
      BY <1>1, <2>7, <3>1, WorkerFacts DEF Ended, Over, PastBlock, k
    <3>2. CASE k = Block /\ Steady
      <4>1. ~Over(Block)
        BY <1>1, <3>2, WorkerFacts DEF HoldsSet, k
      <4> QED BY <2>7, <3>2, <4>1 DEF Ended, Over, Underway
    <3> QED BY <3>1, <3>2
  <2>11. CASE k # Block /\ UNCHANGED <<approval, vop>>
    <3>1. ApprovalTyped /\ vop' \in VoidOp /\ ApprovalFollowsVoid' /\ ClaimedVoidHasWorker' /\ vop'.state = "running"
      BY <1>1, <1>3, <2>11, TableFacts, MovesTogether DEF ApprovalTyped
    <3> QED BY <1>1, <1>3, <2>3, <2>7, <2>8, <2>10, <2>11, <3>1, IdleWorker, WorkerWrites
  <2>12. CASE k = Block /\ vop' = [vop EXCEPT !.state = "failed"] /\ Approval("voiding", "completed")
    <3>1. ApprovalTyped /\ vop' \in VoidOp /\ vop'.state = "failed" /\ approval'.state = "completed"
      <4>1. ApprovalTyped /\ approval'.state = "completed"
        BY <2>12, ApprovalMoves
      <4>2. vop' \in VoidOp /\ vop'.state = "failed"
        BY <2>12, TableFacts, OpMoves
      <4> QED BY <4>1, <4>2
    <3>2. ApprovalFollowsVoid' /\ ClaimedVoidHasWorker'
      BY <1>1, <1>3, <3>1, MovesTogether
    <3> QED BY <1>1, <1>3, <2>3, <2>7, <2>8, <2>10, <2>12, <3>1, <3>2, IdleWorker, WorkerWrites
  <2>13. CASE k # Block /\ AskOperator
    <3>1. /\ ApprovalTyped /\ vop' \in VoidOp /\ vop'.state = "cleanup_required" /\ vop'.how = vop.how
          /\ approval'.state = "cleanup_required"
      BY <1>3, <2>13, OperatorAsked
    <3>2. ApprovalFollowsVoid' /\ ClaimedVoidHasWorker'
      BY <1>1, <1>3, <3>1, MovesTogether
    <3> QED BY <1>1, <1>3, <2>3, <2>7, <2>8, <2>10, <2>13, <3>1, <3>2, IdleWorker, WorkerWrites
  <2> QED BY <2>9, <2>11, <2>12, <2>13
<1> QED BY <1>2, <1>3


\* The rows of a table, each replaced by a row.
LEMMA TableReplaced ==
    ASSUME VoidIInv, NEW f \in [DOMAIN vsteps -> VRow], vsteps' = f
    PROVE  /\ DOMAIN vsteps' = DOMAIN vsteps /\ VRows(vsteps')
           /\ \A k \in DOMAIN vsteps : vsteps'[k] = f[k]
  BY TableFacts DEF VRows

LEMMA ResetRows ==
    ASSUME NEW D, NEW f \in [D -> VRow]
    PROVE  /\ Reset(f) \in [D -> VRow]
           /\ \A k \in D : Reset(f)[k].state \in {"done", "abandoned"} <=> f[k].state \in {"done", "abandoned"}
<1>1. DOMAIN f = D /\ Pending \in VRow /\ Pending.state = "pending"
  BY DEF Pending, VRow, StepStates
<1>2. Reset(f) = [k \in D |-> IF f[k].state \in {"failed", "blocked"} THEN Pending ELSE f[k]]
  BY <1>1 DEF Reset
<1> QED BY <1>1, <1>2

LEMMA RetriesVoid == ASSUME VoidIInv, NEW w \in VoidWorkers, RetryVoid(w) PROVE VoidIInv'
<1>1. /\ vw[w].pc = "retry" /\ Goto(w, "pick") /\ UNCHANGED <<order, closed, refunds, vworld, vlease, vflags>> /\ QuietPlan
      /\ vsteps' = Reset(vsteps)
      /\ vop' = [vop EXCEPT !.state = "running", !.how = IF vop.state = "failed" THEN "retry" ELSE vop.how]
  BY WorkerFacts, SpentPlan DEF RetryVoid, At
<1>2. TypedWorkers /\ Unmoved(w) /\ vw'[w].pc = "pick" /\ vw'[w].leased = vw[w].leased
  BY <1>1, WorkerFacts, GotoMoves DEF VoidPcs
<1>3. LeaseGiven(w) /\ (Steady => ~vw'[w].leased)
  BY <1>1, <1>2, WorkerFacts DEF LeaseGiven, HoldsSet
<1>4. vsteps \in [DOMAIN vsteps -> VRow]
  BY TableFacts DEF VRows
<1>5. /\ Reset(vsteps) \in [DOMAIN vsteps -> VRow]
      /\ \A k \in DOMAIN vsteps : Reset(vsteps)[k].state \in {"done", "abandoned"} <=> Over(k)
  BY <1>4, ResetRows DEF Over
<1>6. /\ DOMAIN vsteps' = DOMAIN vsteps /\ VRows(vsteps')
      /\ \A k \in DOMAIN vsteps : Over(k)' <=> Over(k)
  BY <1>1, <1>5, TableReplaced DEF Over
<1>7. (Ended(DbDelete)' <=> Ended(DbDelete)) /\ (Ended(Block)' <=> Ended(Block))
  BY <1>6 DEF Ended
<1>8. vop.how \in {"none", "claim", "retry"}
  BY TableFacts DEF VoidOp
<1>9. /\ vop' \in VoidOp /\ vop'.state = "running"
      /\ vop'.how = IF vop.state = "failed" THEN "retry" ELSE vop.how
  <2>1. PICK h \in {"none", "claim", "retry"} : h = IF vop.state = "failed" THEN "retry" ELSE vop.how
    BY <1>8
  <2>2. vop' = [vop EXCEPT !.state = "running", !.how = h]
    BY <1>1, <2>1
  <2>3. /\ [vop EXCEPT !.state = "running", !.how = h] \in VoidOp
        /\ [vop EXCEPT !.state = "running", !.how = h].state = "running"
        /\ [vop EXCEPT !.state = "running", !.how = h].how = h
    <3>1. vop \in VoidOp
      BY TableFacts
    <3> QED BY <3>1, OpRetried
  <2> QED BY <2>1, <2>2, <2>3
<1>10. vop.state \in {"failed", "cleanup_required"} /\ \E from : Approval(from, "voiding")
  BY DEF RetryVoid
<1>11. ApprovalTyped /\ approval'.state = "voiding"
  BY <1>10, ApprovalMoves
<1>12. ApprovalFollowsVoid' /\ ClaimedVoidHasWorker'
  BY <1>1, <1>9, <1>10, <1>11, MovesTogether
<1> QED BY <1>1, <1>2, <1>3, <1>6, <1>7, <1>9, <1>10, <1>11, <1>12, WorkerWrites

\* The steps an operator gives up are the deletion's.
LEMMA GivenUp == \A c : Gone(c) \notin {Block, DbDelete} /\ Sure(c) \notin {Block, DbDelete}
  BY DEF Gone, Sure, Block, DbDelete

ForcedRows(k) ==
    [j \in DOMAIN vsteps |->
        IF k = Loyalty
        THEN IF j = k THEN Pending ELSE vsteps[j]
        ELSE IF j \in {Gone(k[2]), Sure(k[2])} THEN [vsteps[j] EXCEPT !.state = "abandoned"]
             ELSE vsteps[j]]

LEMMA ForcesRows ==
    ASSUME VoidIInv, NEW k
    PROVE  /\ ForcedRows(k) \in [DOMAIN vsteps -> VRow]
           /\ \A j \in DOMAIN vsteps \cap {Block, DbDelete} : ForcedRows(k)[j] = vsteps[j]
<1>1. ASSUME NEW j \in DOMAIN vsteps
      PROVE  vsteps[j] \in VRow /\ [vsteps[j] EXCEPT !.state = "abandoned"] \in VRow
  BY <1>1, TableFacts, RowMoves DEF StepStates
<1>2. Pending \in VRow
  BY DEF Pending, VRow, StepStates
<1>3. Loyalty \notin {Block, DbDelete}
  BY DEF Loyalty, Block, DbDelete
<1>4. ForcedRows(k) \in [DOMAIN vsteps -> VRow]
  BY <1>1, <1>2 DEF ForcedRows
<1>5. \A j \in DOMAIN vsteps \cap {Block, DbDelete} : ForcedRows(k)[j] = vsteps[j]
  BY <1>3, GivenUp DEF ForcedRows
<1> QED BY <1>4, <1>5

LEMMA ForcesVoid == ASSUME VoidIInv, NEW w \in VoidWorkers, ForceVoid(w) PROVE VoidIInv'
<1> DEFINE k == vw[w].step
           rows == ForcedRows(k)
<1>1. /\ vw[w].pc = "force" /\ UNCHANGED <<vplan, order, closed, refunds, vworld, vlease, vflags>> /\ QuietPlan
      /\ \/ vop.state # "cleanup_required" /\ UNCHANGED <<approval, vop, vsteps>> /\ Goto(w, "idle")
         \/ /\ vop.state = "cleanup_required" /\ vsteps' = Reset(rows) /\ Approval("cleanup_required", "voiding")
            /\ vop' = [ForcedOp(vop, k) EXCEPT !.state = "running"] /\ Goto(w, "pick")
         \/ /\ vop.state = "cleanup_required" /\ vsteps' = rows /\ UNCHANGED approval
            /\ vop' = ForcedOp(vop, k) /\ Goto(w, "idle")
  BY WorkerFacts, SpentPlan DEF ForceVoid, At, ForcedRows, ForcedOp
<1>2. PICK pc \in {"idle", "pick"} : Goto(w, pc)
  BY <1>1
<1>3. TypedWorkers /\ Unmoved(w) /\ vw'[w].pc = pc /\ vw'[w].leased = vw[w].leased
  BY <1>2, WorkerFacts, GotoMoves DEF VoidPcs
<1>4. LeaseGiven(w) /\ (Steady => ~vw'[w].leased)
  BY <1>1, <1>3, WorkerFacts DEF LeaseGiven, HoldsSet
<1>5. CASE vop.state # "cleanup_required" /\ UNCHANGED <<approval, vop, vsteps>> /\ Goto(w, "idle")
  <2>1. UNCHANGED vdb
    BY <1>1, <1>5 DEF vdb
  <2>2. vw'[w].pc = "idle"
    BY <1>5, WorkerFacts, GotoMoves DEF VoidPcs
  <2>3. Fits(w)' /\ (Steady => HoldsSet(w)' /\ ~PastBlock(w)')
    BY <1>4, <2>2 DEF Fits, HoldsSet, PastBlock
  <2> QED BY <1>1, <1>5, <2>1, <2>3, WorkerGoes DEF VoidPcs
<1>6. CASE vop.state = "cleanup_required" /\ vsteps' \in {rows, Reset(rows)}
  <2>1. /\ rows \in [DOMAIN vsteps -> VRow]
        /\ \A j \in DOMAIN vsteps \cap {Block, DbDelete} : rows[j] = vsteps[j]
    BY ForcesRows
  <2> HIDE DEF rows
  <2>2. /\ Reset(rows) \in [DOMAIN vsteps -> VRow]
        /\ \A j \in DOMAIN vsteps : Reset(rows)[j].state \in {"done", "abandoned"} <=> rows[j].state \in {"done", "abandoned"}
    BY <2>1, ResetRows
  <2>3. /\ DOMAIN vsteps' = DOMAIN vsteps /\ VRows(vsteps')
        /\ \A j \in DOMAIN vsteps \cap {Block, DbDelete} : Over(j)' <=> Over(j)
    <3>1. CASE vsteps' = rows
      BY <2>1, <3>1, TableReplaced DEF Over
    <3>2. CASE vsteps' = Reset(rows)
      BY <2>1, <2>2, <3>2, TableReplaced DEF Over
    <3> QED BY <1>6, <3>1, <3>2
  <2>4. (Ended(DbDelete)' <=> Ended(DbDelete)) /\ (Ended(Block)' <=> Ended(Block))
    BY <2>3 DEF Ended
  <2>6. vop' \in VoidOp /\ vop'.how = vop.how /\ vop'.state \in {"running", "cleanup_required"}
    <3>1. vop \in VoidOp
      BY TableFacts
    <3>2. CASE vop' = [ForcedOp(vop, k) EXCEPT !.state = "running"]
      BY <3>1, <3>2, OpForced
    <3>3. CASE vop' = ForcedOp(vop, k)
      BY <1>6, <3>1, <3>3, OpForced
    <3> QED BY <1>1, <1>6, <3>2, <3>3
  <2>7. /\ ApprovalTyped /\ ApprovalFollowsVoid' /\ ClaimedVoidHasWorker'
        /\ approval'.state = "voided" => approval.state = "voided"
    <3>1. CASE Approval("cleanup_required", "voiding") /\ vop' = [ForcedOp(vop, k) EXCEPT !.state = "running"]
      <4>1. ApprovalTyped /\ approval'.state = "voiding"
        BY <3>1, ApprovalMoves
      <4>2. vop'.state = "running"
        BY <3>1, TableFacts, OpForced
      <4> QED BY <1>1, <1>6, <2>6, <4>1, <4>2, MovesTogether
    <3>2. CASE UNCHANGED approval /\ vop' = ForcedOp(vop, k)
      <4>1. ApprovalTyped /\ approval'.state = "cleanup_required"
        BY <1>6, <3>2, TableFacts DEF ApprovalTyped
      <4>2. vop'.state = "cleanup_required"
        BY <1>6, <3>2, TableFacts, OpForced
      <4> QED BY <1>1, <1>6, <2>6, <3>2, <4>1, <4>2, MovesTogether
    <3> QED BY <1>1, <1>6, <3>1, <3>2
  <2>8. Steady => Underway
    BY <1>6, WorkerFacts DEF Advanced
  <2> QED BY <1>1, <1>3, <1>4, <1>6, <2>3, <2>4, <2>6, <2>7, <2>8, WorkerWrites
<1> QED BY <1>1, <1>5, <1>6


WithState(r, st) == [r EXCEPT !.state = st]

\* What the deletion recorded, written onto the rows: never onto the block's,
\* and onto the deletion's end only once it has ended.
LEMMA MirrorsRows ==
    ASSUME VoidIInv, NEW attempted \in SUBSET Unverified
    PROVE  /\ Mirrored(attempted) \in [DOMAIN vsteps -> VRow]
           /\ Block \in DOMAIN vsteps => Mirrored(attempted)[Block] = vsteps[Block]
           /\ DbDelete \in DOMAIN vsteps /\ Mirrored(attempted)[DbDelete].state \in {"done", "abandoned"}
              => prov.state = "completed" \/ Over(DbDelete)
<1> DEFINE m == Mirrored(attempted)
           is(k, S) == \E c \in S : k \in {Gone(c), Sure(c)}
           with(r) == {c \in vop.conns : Outcome(c) = r}
<1>1. DOMAIN m = DOMAIN vsteps
  BY DEF Mirrored
<1>2. ASSUME NEW k \in DOMAIN vsteps
      PROVE  m[k] = CASE is(k, with("absent"))    -> WithState(vsteps[k], "done")
                      [] is(k, with("abandoned")) -> WithState(vsteps[k], "abandoned")
                      [] \E c \in Unverified : k = Sure(c) -> WithState(vsteps[k], "blocked")
                      [] \E c \in attempted : k = Gone(c)  -> WithState(vsteps[k], "done")
                      [] k = DbDelete /\ prov.state = "completed" -> WithState(vsteps[k], "done")
                      [] k = DbDelete /\ prov.state = "cleanup_required" /\ Unverified = {} ->
                             WithState(vsteps[k], "failed")
                      [] OTHER -> vsteps[k]
  BY <1>2, Zenon DEF Mirrored, WithState
<1>3. ASSUME NEW k \in DOMAIN vsteps
      PROVE  m[k] \in {vsteps[k]} \cup {WithState(vsteps[k], st) : st \in StepStates}
  <2> HIDE DEF m, is, with
  <2> QED BY <1>2, <1>3 DEF StepStates
<1>4. ASSUME NEW k \in DOMAIN vsteps PROVE m[k] \in VRow
  <2>1. vsteps[k] \in VRow /\ \A st \in StepStates : WithState(vsteps[k], st) \in VRow
    BY <1>4, TableFacts, RowMoves DEF WithState
  <2> HIDE DEF m
  <2> QED BY <1>3, <1>4, <2>1
<1>5. \A k \in {Block, DbDelete} : /\ \A S : ~is(k, S)
                                   /\ \A c : k # Sure(c) /\ k # Gone(c)
  BY GivenUp
<1>6. Block \in DOMAIN vsteps => m[Block] = vsteps[Block]
  <2>1. Block # DbDelete
    BY KeysDiffer
  <2> HIDE DEF m, is, with
  <2> QED BY <1>2, <1>5, <2>1
<1>7. ASSUME DbDelete \in DOMAIN vsteps, prov.state # "completed" PROVE m[DbDelete] \in {vsteps[DbDelete], WithState(vsteps[DbDelete], "failed")}
  <2> HIDE DEF m, is, with
  <2> QED BY <1>2, <1>5, <1>7
<1>8. DbDelete \in DOMAIN vsteps => WithState(vsteps[DbDelete], "failed").state = "failed"
  BY TableFacts, RowMoves DEF WithState, StepStates
<1>9. DbDelete \in DOMAIN vsteps /\ m[DbDelete].state \in {"done", "abandoned"} => prov.state = "completed" \/ Over(DbDelete)
  BY <1>7, <1>8 DEF Over
<1>10. m \in [DOMAIN vsteps -> VRow]
  <2>1. m = [k \in DOMAIN vsteps |-> m[k]]
    BY DEF Mirrored
  <2> HIDE DEF m
  <2> QED BY <1>4, <2>1
<1> QED BY <1>6, <1>9, <1>10

LEMMA MirrorsDeletion == ASSUME VoidIInv, NEW w \in VoidWorkers, MirrorDeletion(w) PROVE VoidIInv'
<1>1. /\ vw[w].pc = "delmirror" /\ UNCHANGED <<order, closed, refunds, vworld, vflags>> /\ QuietPlan
      /\ UNCHANGED vplan
  BY WorkerFacts, SpentPlan DEF MirrorDeletion, At
<1>2. CASE vop.state # "running"
  <2>1. UNCHANGED vdb /\ Return(w)
    BY <1>1, <1>2 DEF MirrorDeletion, vdb
  <2> QED BY <1>1, <2>1, WorkerReturns
<1>3. CASE vop.state = "running"
  <2>1. PICK attempted \in SUBSET Unverified : vsteps' = Mirrored(attempted)
    BY <1>3 DEF MirrorDeletion
  <2>2. /\ \/ Goto(w, "pick") /\ UNCHANGED vlease
           \/ Return(w)
        /\ UNCHANGED <<approval, vop>> \/ AskOperator
    BY <1>3 DEF MirrorDeletion
  <2> DEFINE m == Mirrored(attempted)
  <2>3. /\ m \in [DOMAIN vsteps -> VRow]
        /\ Block \in DOMAIN vsteps => m[Block] = vsteps[Block]
        /\ DbDelete \in DOMAIN vsteps /\ m[DbDelete].state \in {"done", "abandoned"}
           => prov.state = "completed" \/ Over(DbDelete)
    BY MirrorsRows
  <2>4. vsteps' = m
    BY <2>1
  <2> HIDE DEF m
  <2>5. DOMAIN vsteps' = DOMAIN vsteps /\ VRows(vsteps') /\ \A k \in DOMAIN vsteps : vsteps'[k] = m[k]
    BY <2>3, <2>4, TableReplaced
  <2>6. Ended(Block)' <=> Ended(Block)
    BY <2>3, <2>5 DEF Ended, Over
  <2>7. Deletes /\ Ended(DbDelete)' => Ended(DbDelete) \/ account.gone
    BY <2>3, <2>5, WorldFacts DEF Ended, Over
  <2>8. TypedWorkers /\ Unmoved(w) /\ LeaseGiven(w) /\ vw'[w].pc \in {"idle", "pick"} /\ (Steady => ~vw'[w].leased)
    <3>1. CASE Return(w)
      BY <3>1, WorkerFacts, ReturnMoves, IdleWorker
    <3>2. CASE Goto(w, "pick") /\ UNCHANGED vlease
      <4>1. TypedWorkers /\ Unmoved(w) /\ vw'[w].pc = "pick" /\ vw'[w].leased = vw[w].leased
        BY <3>2, WorkerFacts, GotoMoves DEF VoidPcs
      <4> QED BY <1>1, <3>2, <4>1, WorkerFacts DEF LeaseGiven, HoldsSet
    <3> QED BY <2>2, <3>1, <3>2
  <2>9. Steady => Underway
    BY <1>1, WorkerFacts DEF PastBlock
  <2>10. CASE UNCHANGED <<approval, vop>>
    <3>1. ApprovalTyped /\ vop' \in VoidOp /\ ApprovalFollowsVoid' /\ ClaimedVoidHasWorker' /\ vop'.state = "running"
      BY <1>1, <1>3, <2>10, TableFacts, MovesTogether DEF ApprovalTyped
    <3> QED BY <1>1, <1>3, <2>5, <2>6, <2>7, <2>8, <2>10, <3>1, WorkerWrites
  <2>11. CASE AskOperator
    <3>1. /\ ApprovalTyped /\ vop' \in VoidOp /\ vop'.state = "cleanup_required" /\ vop'.how = vop.how
          /\ approval'.state = "cleanup_required"
      BY <1>3, <2>11, OperatorAsked
    <3>2. ApprovalFollowsVoid' /\ ClaimedVoidHasWorker'
      BY <1>1, <1>3, <3>1, MovesTogether
    <3> QED BY <1>1, <1>3, <2>5, <2>6, <2>7, <2>8, <2>9, <3>1, <3>2, WorkerWrites
  <2> QED BY <2>2, <2>10, <2>11
<1> QED BY <1>2, <1>3


\* The rows a claim writes: those of its plan are all to run.
LEMMA ClaimsRows ==
    ASSUME VoidIInv, NEW keys \in Seq(AllKeys),
           \/ vop.state = "none" /\ vsteps' = [k \in ToSet(keys) |-> Pending]
           \/ vsteps' = Rebuilt(keys)
    PROVE  /\ VRows(vsteps') /\ ToSet(keys) \subseteq DOMAIN vsteps' /\ DOMAIN vsteps \subseteq DOMAIN vsteps'
           /\ \A k \in ToSet(keys) : vsteps'[k].state = "pending"
<1>1. ToSet(keys) \subseteq AllKeys
  BY DEF ToSet
<1>2. Pending \in VRow /\ Pending.state = "pending"
  BY DEF Pending, VRow, StepStates
<1>3. /\ DOMAIN vsteps \subseteq AllKeys
      /\ \A k \in DOMAIN vsteps : [vsteps[k] EXCEPT !.state = "done"] \in VRow
  BY TableFacts, RowMoves DEF StepStates
<1>4. CASE vop.state = "none" /\ vsteps' = [k \in ToSet(keys) |-> Pending]
  <2>1. DOMAIN vsteps = {}
    BY <1>4 DEF VoidIInv, MoneyFollows
  <2>2. DOMAIN vsteps' = ToSet(keys) /\ \A k \in ToSet(keys) : vsteps'[k] = Pending
    BY <1>4
  <2> QED BY <1>1, <1>2, <1>4, <2>1, <2>2 DEF VRows
<1>5. CASE vsteps' = Rebuilt(keys)
  <2> DEFINE D == DOMAIN vsteps \cup ToSet(keys)
  <2>1. vsteps' = [k \in D |-> IF k \in ToSet(keys) THEN Pending ELSE [vsteps[k] EXCEPT !.state = "done"]]
    BY <1>5 DEF Rebuilt
  <2>2. D \subseteq AllKeys
    BY <1>1, <1>3
  <2>3. \A k \in D : k \notin ToSet(keys) => [vsteps[k] EXCEPT !.state = "done"] \in VRow
    BY <1>3
  <2>4. ToSet(keys) \subseteq D /\ DOMAIN vsteps \subseteq D
    OBVIOUS
  <2> HIDE DEF D
  <2>5. vsteps' \in [D -> VRow] /\ \A k \in ToSet(keys) : vsteps'[k] = Pending
    BY <1>2, <2>1, <2>3, <2>4
  <2>6. DOMAIN vsteps' = D
    BY <2>5
  <2> QED BY <1>2, <2>2, <2>4, <2>5, <2>6 DEF VRows
<1> QED BY <1>4, <1>5

LEMMA Claims == ASSUME VoidIInv, NEW w \in VoidWorkers, Claim(w) PROVE VoidIInv'
<1> DEFINE keys == StepKeys(vscope.conns)
<1>1. /\ vw[w].pc = "idle" /\ Goto(w, "pick") /\ UNCHANGED <<closed, refunds, vworld, vlease, vflags>>
      /\ vflags.worker /\ Approval("completed", "voiding") /\ vop.state \in {"none", "failed"} /\ order' = keys
      /\ vop' = [state |-> "running", conns |-> IF Deletes THEN vscope.conns ELSE {},
                 print |-> Fingerprint, forced |-> FALSE, how |-> "claim"]
      /\ \/ vop.state = "none" /\ vsteps' = [k \in ToSet(keys) |-> Pending]
         \/ vsteps' = Rebuilt(keys)
  BY DEF Claim, At
<1>2. QuietPlan
  BY WorldFacts, SpentPlan DEF Claim
<1>3. TypedWorkers /\ Unmoved(w) /\ vw'[w].pc = "pick" /\ vw'[w].leased = vw[w].leased
  BY <1>1, WorkerFacts, GotoMoves DEF VoidPcs
<1>4. vscope.conns \in SUBSET Services /\ vscope.rev \in Nat /\ vscope.active \in BOOLEAN
  BY WorldFacts DEF VScope
<1>5. Planned(keys)
  BY <1>4, WorldFacts, StepKeysPlanned
<1>6. keys \in Seq(AllKeys) /\ Block \in ToSet(keys) /\ (Deletes => DbDelete \in ToSet(keys))
  BY <1>5 DEF Planned
<1> HIDE DEF keys
<1>7. /\ VRows(vsteps') /\ ToSet(keys) \subseteq DOMAIN vsteps' /\ DOMAIN vsteps \subseteq DOMAIN vsteps'
      /\ \A k \in ToSet(keys) : vsteps'[k].state = "pending"
  BY <1>1, <1>6, ClaimsRows
<1>8. ApprovalTyped /\ approval'.state = "voiding"
  BY <1>1, ApprovalMoves
<1>9. vop' \in VoidOp /\ vop'.state = "running"
  <2>1. Fingerprint \in [rev: Nat, conns: SUBSET Services, active: BOOLEAN]
    BY <1>4 DEF Fingerprint
  <2> QED BY <1>1, <1>4, <2>1 DEF VoidOp
<1>10. VoidRecords'
  <2>1. VoidRecords
    BY DEF VoidIInv
  <2> QED BY <1>1, <1>2, <1>3, <1>6, <1>7, <1>8, <1>9, <2>1
      DEF VoidRecords, QuietPlan, TypedWorkers, ApprovalTyped, vworld, Effects, Shape
<1>11. ApprovalFollowsVoid' /\ ClaimedVoidHasWorker'
  BY <1>1, <1>8, <1>9 DEF ApprovalFollowsVoid, ClaimedVoidHasWorker
<1>12. DeletedFirst'
  <2>1. ASSUME NEW v \in VoidWorkers PROVE Fits(v)'
    <3>1. CASE v = w
      BY <1>3, <3>1 DEF Fits
    <3>2. CASE v # w
      <4>1. vw'[v] = vw[v]
        BY <1>3, <3>2 DEF Unmoved
      <4>2. account' = account /\ vplan'.shape = vplan.shape /\ DOMAIN vsteps \subseteq DOMAIN vsteps'
        BY <1>1, <1>2, <1>7 DEF vworld, QuietPlan
      <4> QED BY <4>1, <4>2, WorkerFacts DEF Fits, Deletes, Shape
    <3> QED BY <3>1, <3>2
  <2>2. Deletes => ~Ended(DbDelete)'
    BY <1>6, <1>7 DEF Ended, Over
  <2>3. DeletedFirst
    BY DEF VoidIInv
  <2> QED BY <1>1, <1>2, <2>1, <2>2, <2>3 DEF DeletedFirst, vworld, QuietPlan, Deletes, Shape
<1>13. MoneyFollows'
  <2>1. Planned(order')
    BY <1>1, <1>5
  <2>2. Planned(order)'
    BY <1>2, <2>1 DEF Planned, QuietPlan, Deletes, Shape
  <2>3. refunds' = (IF "spend" \in closed' THEN 1 ELSE 0)
    BY <1>1 DEF VoidIInv, MoneyFollows
  <2> QED BY <1>8, <1>9, <2>2, <2>3 DEF MoneyFollows
<1>14. ASSUME Steady PROVE BlockFirst'
  <2>1. BlockFirst
    BY <1>14 DEF VoidIInv
  <2>2. ASSUME NEW v \in VoidWorkers PROVE HoldsSet(v)'
    <3>1. HoldsSet(v)
      BY <2>1 DEF BlockFirst
    <3>2. ~Over(Block)'
      BY <1>6, <1>7 DEF Over
    <3>3. CASE v = w
      BY <1>1, <1>3, <3>1, <3>3 DEF HoldsSet
    <3>4. CASE v # w
      <4>1. vw'[v] = vw[v] /\ vlease' = vlease
        BY <1>1, <1>3, <3>4 DEF Unmoved
      <4> QED BY <3>1, <3>2, <4>1 DEF HoldsSet
    <3> QED BY <3>3, <3>4
  <2>3. Advanced' => Advanced
    <3>1. ASSUME NEW v \in VoidWorkers, PastBlock(v)' PROVE PastBlock(v)
      BY <1>3, <3>1 DEF PastBlock, Unmoved
    <3> QED BY <1>1, <1>9, <3>1 DEF Advanced, vworld
  <2>4. ~Advanced
    BY <1>1, <2>1 DEF BlockFirst, Underway
  <2> QED BY <2>2, <2>3, <2>4 DEF BlockFirst
<1> QED BY <1>2, <1>10, <1>11, <1>12, <1>13, <1>14 DEF VoidIInv, Steady, QuietPlan


-----------------------------------------------------------------------------
(* The transaction of a step *)

\* What a step closes is what comes after the deletion; a plan's effects are
\* closed by nothing else.
LEMMA ClosedLate ==
    /\ \A k \in AllKeys : ClosedBy(k) # {} => k \in Paid
    /\ ClosedBy(FinalStep) = {} /\ \A k : ClosedBy(k) \subseteq Effects
    /\ FinalStep # Block
<1>1. \A k : k \notin {Loyalty, Wallet, Ledger, Renewal, Card} => ClosedBy(k) = {}
  BY DEF ClosedBy
<1>2. FinalStep \notin {Loyalty, Wallet, Ledger, Renewal, Card, Block}
  BY DEF FinalStep, Loyalty, Wallet, Ledger, Renewal, Card, Block
<1>3. \A k : ClosedBy(k) \subseteq Effects
  BY DEF ClosedBy
<1> QED BY <1>1, <1>2, <1>3, KeysDiffer

LEMMA RunsStep == ASSUME VoidIInv, NEW w \in VoidWorkers, RunStep(w) PROVE VoidIInv'
<1> DEFINE k == vw[w].step
<1>1. /\ vw[w].pc = "run" /\ Goto(w, "pick") /\ UNCHANGED <<order, prov, vlease, vflags>> /\ QuietPlan
      /\ vlease = w /\ ~Over(k) /\ Passes(k) /\ vsteps' = StepDone(k)
      /\ closed' = closed \cup ClosedBy(k) /\ refunds' = Refunded(k)
      /\ (k = Block /\ BlockAccount) \/ (k # Block /\ UNCHANGED <<account, vscope>>)
      /\ \/ k = FinalStep /\ Approval("voiding", "voided") /\ vop' = [vop EXCEPT !.state = "completed"]
         \/ k # FinalStep /\ UNCHANGED <<approval, vop>>
  BY WorkerFacts, SpentPlan DEF RunStep, At
<1>2. TypedWorkers /\ Unmoved(w) /\ vw'[w].pc = "pick" /\ vw'[w].leased = vw[w].leased
  BY <1>1, WorkerFacts, GotoMoves DEF VoidPcs
<1>3. k \in DOMAIN vsteps /\ k \in AllKeys /\ k \notin DeletionKeys /\ (Deletes /\ k \in Paid => account.gone)
  BY <1>1, WorkerFacts, TableFacts DEF Fits
<1>4. Steady => (vw[w].leased /\ (k # Block => Underway))
  BY <1>1, WorkerFacts DEF HoldsSet, PastBlock
<1> HIDE DEF k
<1>5. /\ DOMAIN vsteps' = DOMAIN vsteps /\ VRows(vsteps') /\ vsteps'[k].state = "done"
      /\ \A j \in DOMAIN vsteps : j # k => vsteps'[j] = vsteps[j]
  <2> DEFINE r == [Pending EXCEPT !.state = "done"]
  <2>1. r \in VRow /\ r.state = "done" /\ vsteps' = [vsteps EXCEPT ![k] = r]
    BY <1>1 DEF StepDone, Pending, VRow, StepStates
  <2> HIDE DEF r
  <2> QED BY <1>3, <2>1, RowWritten
<1>6. vscope' \in VScope /\ account' \in Account /\ account'.gone = account.gone
  <2>1. CASE BlockAccount
    <3>1. (vscope.active /\ Shape # "new_user") \in BOOLEAN
      OBVIOUS
    <3>2. vscope' = [vscope EXCEPT !.active = vscope.active /\ Shape # "new_user"]
      BY <2>1 DEF BlockAccount
    <3>3. vscope' \in VScope
      BY <3>1, <3>2, WorldFacts DEF VScope
    <3>4. account' = [account EXCEPT !.blocked = TRUE]
      BY <2>1 DEF BlockAccount
    <3> QED BY <3>3, <3>4, WorldFacts, AccountMoves
  <2>2. CASE UNCHANGED <<account, vscope>>
    BY <2>2, WorldFacts
  <2> QED BY <1>1, <2>1, <2>2
<1>7. /\ ApprovalTyped /\ vop' \in VoidOp /\ ApprovalFollowsVoid' /\ ClaimedVoidHasWorker'
      /\ approval'.state = "voided" => closed' = Effects
      /\ vop.state # "none" /\ Underway => vop'.state \notin {"none", "failed"}
      /\ vop'.state = "none" => vop.state = "none"
      /\ vop.state = "none" => vop'.state = "none"
      /\ k = Block => UNCHANGED vop
  <2>1. CASE k = FinalStep
    <3>1. Approval("voiding", "voided") /\ vop' = [vop EXCEPT !.state = "completed"] /\ closed = Effects
      BY <1>1, <2>1 DEF Passes
    <3>2. ApprovalTyped /\ approval.state = "voiding" /\ approval'.state = "voided"
      BY <3>1, ApprovalMoves
    <3>3. vop' \in VoidOp /\ vop'.state = "completed"
      BY <3>1, TableFacts, OpMoves
    <3>4. vop.state = "running"
      BY <3>2, TableFacts DEF VoidOp
    <3>5. ApprovalFollowsVoid' /\ ClaimedVoidHasWorker'
      BY <1>1, <3>2, <3>3, <3>4, MovesTogether
    <3>6. closed' = Effects /\ k # Block
      BY <1>1, <2>1, <3>1, ClosedLate
    <3> QED BY <3>2, <3>3, <3>4, <3>5, <3>6
  <2>2. CASE k # FinalStep
    <3>1. UNCHANGED <<approval, vop>>
      BY <1>1, <2>2
    <3>2. ApprovalTyped /\ vop' \in VoidOp
      BY <3>1, TableFacts DEF ApprovalTyped
    <3>3. ApprovalFollowsVoid' /\ ClaimedVoidHasWorker'
      BY <1>1, <3>1 DEF VoidIInv, ApprovalFollowsVoid, ClaimedVoidHasWorker
    <3>4. approval'.state = "voided" => closed' = Effects
      <4>1. approval'.state = "voided" => closed = Effects
        BY <3>1 DEF VoidIInv, MoneyFollows
      <4> QED BY <1>1, <4>1, ClosedLate
    <3> QED BY <3>1, <3>2, <3>3, <3>4 DEF Underway
  <2> QED BY <2>1, <2>2
<1>8. VoidRecords'
  <2>1. VoidRecords
    BY DEF VoidIInv
  <2>2. closed' \subseteq Effects
    BY <1>1, <2>1, ClosedLate DEF VoidRecords
  <2> QED BY <1>1, <1>2, <1>5, <1>6, <1>7, <2>1, <2>2
      DEF VoidRecords, QuietPlan, TypedWorkers, ApprovalTyped, Effects, Shape
<1>9. DeletedFirst'
  <2>1. ASSUME NEW v \in VoidWorkers PROVE Fits(v)'
    <3>1. CASE v = w
      BY <1>2, <3>1 DEF Fits
    <3>2. CASE v # w
      <4>1. vw'[v] = vw[v]
        BY <1>2, <3>2 DEF Unmoved
      <4>2. account'.gone = account.gone /\ vplan'.shape = vplan.shape /\ DOMAIN vsteps = DOMAIN vsteps'
        BY <1>1, <1>5, <1>6 DEF QuietPlan
      <4> QED BY <4>1, <4>2, WorkerFacts DEF Fits, Deletes, Shape
    <3> QED BY <3>1, <3>2
  <2>2. Ended(DbDelete)' <=> Ended(DbDelete)
    BY <1>3, <1>5, KeysDiffer DEF Ended, Over
  <2>3. Deletes /\ closed' # {} => account.gone
    BY <1>1, <1>3, ClosedLate DEF VoidIInv, DeletedFirst
  <2>4. Deletes' <=> Deletes
    BY <1>1 DEF QuietPlan, Deletes, Shape
  <2> QED BY <1>1, <1>6, <2>1, <2>2, <2>3, <2>4 DEF VoidIInv, DeletedFirst
<1>10. MoneyFollows'
  <2>1. refunds' = (IF "spend" \in closed' THEN 1 ELSE 0)
    <3>1. refunds = (IF "spend" \in closed THEN 1 ELSE 0)
      BY DEF VoidIInv, MoneyFollows
    <3> QED BY <1>1, <3>1 DEF Refunded
  <2>2. Effects' = Effects
    BY <1>1 DEF QuietPlan, Effects, Shape
  <2>3. vop.state # "none" => Planned(order)'
    BY <1>1 DEF VoidIInv, MoneyFollows, Planned, QuietPlan, Deletes, Shape
  <2>4. vop.state = "none" => DOMAIN vsteps' = {}
    BY <1>5 DEF VoidIInv, MoneyFollows
  <2> QED BY <1>7, <2>1, <2>2, <2>3, <2>4 DEF MoneyFollows
<1>11. ASSUME Steady PROVE BlockFirst'
  <2>1. BlockFirst
    BY <1>11 DEF VoidIInv
  <2>2. ASSUME NEW v \in VoidWorkers PROVE HoldsSet(v)'
    <3>1. HoldsSet(v)
      BY <2>1 DEF BlockFirst
    <3>2. CASE v = w
      BY <1>1, <1>2, <3>1, <3>2 DEF HoldsSet
    <3>3. CASE v # w
      <4>1. vw'[v] = vw[v] /\ ~vw[v].leased
        BY <1>1, <1>2, <3>1, <3>3 DEF Unmoved, HoldsSet
      <4> QED BY <3>1, <4>1 DEF HoldsSet
    <3> QED BY <3>2, <3>3
  <2>3. ASSUME Advanced' PROVE Underway'
    <3>1. Underway => Ended(Block)'
      BY <1>5 DEF Underway, Ended, Over
    <3>2. ASSUME k = Block PROVE Advanced
      <4>1. closed' = closed /\ UNCHANGED <<vop, prov>>
        <5>1. ClosedBy(k) = {}
          BY <1>3, <3>2, ClosedLate, KeysDiffer
        <5> QED BY <1>1, <1>7, <3>2, <5>1
      <4>2. ASSUME NEW v \in VoidWorkers, PastBlock(v)' PROVE PastBlock(v)
        BY <1>2, <4>2 DEF PastBlock, Unmoved
      <4> QED BY <2>3, <4>1, <4>2 DEF Advanced
    <3>3. Underway
      BY <1>4, <1>11, <2>1, <3>2 DEF BlockFirst
    <3> QED BY <1>7, <3>1, <3>3 DEF Underway
  <2> QED BY <2>2, <2>3 DEF BlockFirst
<1> QED BY <1>1, <1>7, <1>8, <1>9, <1>10, <1>11 DEF VoidIInv, Steady, QuietPlan


-----------------------------------------------------------------------------
(* The theorems *)

LEMMA StartsWell == VoidInit => VoidIInv
<1> SUFFICES ASSUME VoidInit PROVE VoidIInv
  OBVIOUS
<1>1. vplan \in VoidPlan
  BY DEF VoidInit
<1>2. /\ approval.state = "completed" /\ vop.state = "none" /\ closed = {} /\ refunds = 0 /\ vlease = NoVoidWorker
      /\ DOMAIN vsteps = {} /\ order = <<>> /\ prov.state = "none"
  BY DEF VoidInit
<1>3. vw \in [VoidWorkers -> VWorker] /\ \A w \in VoidWorkers : vw[w].pc = "idle" /\ vw[w].leased = FALSE
  BY IdleWorker DEF VoidInit
<1>4. vop \in VoidOp /\ approval \in [state: {"completed", "voiding", "voided", "cleanup_required"}, version: Nat]
  BY DEF VoidInit, VoidOp
<1>5. vscope \in VScope /\ account \in Account
  BY <1>1 DEF VoidInit, VScope, Account, VoidPlan
<1>6. prov \in Removals
  <2>1. [c \in {} |-> "running"] \in Outcomes
    <3>1. {} \in SUBSET Services /\ [c \in {} |-> "running"] \in [{} -> {"running", "absent", "unverified", "abandoned"}]
      OBVIOUS
    <3> QED BY <3>1, Zenon DEF Outcomes
  <2> QED BY <2>1 DEF VoidInit, Removals
<1>7. VRows(vsteps)
  BY DEF VoidInit, VRows
<1>8. order \in Seq(AllKeys) /\ ToSet(order) \subseteq DOMAIN vsteps
  BY <1>2 DEF ToSet
<1>9. vflags \in [preview: BOOLEAN, execute: BOOLEAN, worker: BOOLEAN]
  BY DEF VoidInit
<1>10. VoidRecords
  BY <1>1, <1>2, <1>3, <1>4, <1>5, <1>6, <1>7, <1>8, <1>9 DEF VoidRecords
<1>11. ApprovalFollowsVoid /\ ClaimedVoidHasWorker
  BY <1>2 DEF ApprovalFollowsVoid, ClaimedVoidHasWorker
<1>12. DeletedFirst
  BY <1>2, <1>3 DEF DeletedFirst, Ended, Fits
<1>13. MoneyFollows
  BY <1>2 DEF MoneyFollows
<1>14. BlockFirst
  BY <1>2, <1>3 DEF BlockFirst, HoldsSet, Advanced, PastBlock
<1> QED BY <1>10, <1>11, <1>12, <1>13, <1>14 DEF VoidIInv

LEMMA StepsWell == VoidIInv /\ [VoidNext]_voidvars => VoidIInv'
<1> SUFFICES ASSUME VoidIInv, [VoidNext]_voidvars PROVE VoidIInv'
  OBVIOUS
<1>1. ASSUME NEW w \in VoidWorkers, VoidWork(w) PROVE VoidIInv'
  BY <1>1, BeginsPass, PicksStep, AcquiresSet, RunsStep, FindsItOver, LosesLease, RaisesStep, RecordsFailure,
     ChecksDeletion, StartsDeletion, RaisesAtStart, MirrorsDeletion, RetriesVoid, RetryIsRefused, ForcesVoid
     DEF VoidWork
<1>2. CASE VoidMachine
  BY <1>2, DeletionEnds, FindsAbsent DEF VoidMachine
<1>3. CASE VoidElse
  BY <1>3, OperatorLooks, CustomerMoves, AdministratorMoves, OtherLeases, LeaseIsLate, FindsUnverified, FlagMoves,
     Claims, AsksForRetry, Crashes, AsksForForce DEF VoidElse
<1>4. CASE UNCHANGED voidvars
  <2>1. QuietPlan /\ UNCHANGED <<vdb, vlease, vflags, vw, vworld>>
    BY <1>4, WorldFacts, SpentPlan DEF voidvars
  <2> QED BY <2>1, WorldStill, WorldOnly
<1> QED BY <1>1, <1>2, <1>3, <1>4, BackoffEnds, LeaseIsOver, DebitSettles DEF VoidNext

\* The invariant of the void follows.
LEMMA VoidIInvImplies == VoidIInv => VoidInv
<1> SUFFICES ASSUME VoidIInv PROVE VoidInv
  OBVIOUS
<1>1. VoidTypeOK
  <2>1. VoidRecords
    BY DEF VoidIInv
  <2>2. /\ approval.state \in {"completed", "voiding", "voided", "cleanup_required"} /\ approval.version \in Nat
        /\ vop.state \in {"none", "running", "failed", "cleanup_required", "completed"}
        /\ vop.conns \subseteq Services /\ vop.forced \in BOOLEAN /\ vop.how \in {"none", "claim", "retry"}
    BY <2>1 DEF VoidRecords, VoidOp
  <2>3. /\ DOMAIN vsteps \subseteq AllKeys /\ ToSet(order) \subseteq DOMAIN vsteps
        /\ \A k \in DOMAIN vsteps :
             /\ vsteps[k].state \in StepStates /\ vsteps[k].attempts \in Nat
             /\ vsteps[k].due \in BOOLEAN /\ vsteps[k].quota \in BOOLEAN
    BY <2>1, TableFacts DEF VoidRecords, VRow
  <2>4. vscope.conns \subseteq Services /\ vscope.rev \in Nat /\ vscope.active \in BOOLEAN
    BY <2>1 DEF VoidRecords, VScope
  <2>5. \A f \in DOMAIN account : account[f] \in BOOLEAN
    BY <2>1 DEF VoidRecords, Account
  <2>6. closed \subseteq Effects /\ refunds \in 0..1
    BY <2>1 DEF VoidRecords, VoidIInv, MoneyFollows
  <2>7. /\ prov.state \in {"none", "running", "cleanup_required", "completed"}
        /\ \A c \in DOMAIN prov.out : prov.out[c] \in {"running", "absent", "unverified", "abandoned"}
    BY <2>1, RemovalMoves DEF VoidRecords
  <2>8. vlease \in VoidWorkers \cup {NoVoidWorker, OtherOperation} /\ \A f \in DOMAIN vflags : vflags[f] \in BOOLEAN
    BY <2>1 DEF VoidRecords
  <2>9. \A w \in VoidWorkers : vw[w].pc \in VoidPcs /\ vw[w].step \in AllKeys \cup {NoStep}
    BY <2>1 DEF VoidRecords, VWorker
  <2> QED BY <2>2, <2>3, <2>4, <2>5, <2>6, <2>7, <2>8, <2>9 DEF VoidTypeOK
<1>2. ApprovalFollowsVoid /\ ClaimedVoidHasWorker
  BY DEF VoidIInv
<1>3. MoneyAfterResources
  BY DEF VoidIInv, DeletedFirst, MoneyAfterResources
<1>4. VoidedIsComplete
  <2>1. Effects # {}
    BY DEF Effects
  <2> QED BY <1>3, <2>1 DEF VoidIInv, MoneyFollows, VoidedIsComplete, MoneyAfterResources
<1>5. FailedVoidTookNothing
  BY DEF VoidIInv, BlockFirst, Steady, Advanced, Underway, MoneyFollows, FailedVoidTookNothing
<1> QED BY <1>1, <1>2, <1>3, <1>4, <1>5 DEF VoidInv

\* The plan of a void, the order its workers keep and the lease under which
\* they run hold in every state of every void.
THEOREM VoidInductive == VoidSpec => []VoidIInv
  BY StartsWell, StepsWell, PTL DEF VoidSpec

\* VoidInv, for any number of workers and connections: the approval says where
\* the void is, no money of a void that deletes comes back before the account
\* is gone, a void that failed took nothing, and one that ended left nothing of
\* the receipt (receipt_void_engine.py, receipt_void_runner.py).
THEOREM VoidHolds == VoidSpec => []VoidInv
  BY VoidInductive, VoidIInvImplies, PTL

\* Only the block holds the account, and it does under its own check.
LEMMA HoldsConfirmed ==
    ASSUME VoidIInv, [VoidNext]_voidvars, ~account.blocked, account'.blocked
    PROVE  Fingerprint = vop.print
<1>1. ASSUME NEW w \in VoidWorkers, RunStep(w) PROVE Fingerprint = vop.print
  <2>1. vw[w].step = Block
    BY <1>1 DEF RunStep
  <2> QED BY <1>1, <2>1 DEF RunStep, Passes, ScopeConfirmed
<1>2. account \in Account
  BY WorldFacts
<1>3. CASE account' = account \/ ProvFinishes \/ CustomerActs \/ HeldDebitSettles \/ AdministratorActs
  BY <1>2, <1>3 DEF ProvFinishes, CustomerActs, HeldDebitSettles, AdministratorActs, Account
<1>4. ASSUME NEW w \in VoidWorkers, VoidWork(w), ~RunStep(w) PROVE account' = account
  BY <1>4 DEF VoidWork, BeginPass, PickStep, AcquireSet, StepAlreadyOver, LeaseLost, StepRaises, RecordFailure,
      CheckDeletion, StartDeletion, StartRaises, MirrorDeletion, RetryVoid, RetryRefused, ForceVoid, vworld
<1>5. CASE BackoffElapses \/ LeaseEnds \/ UNCHANGED voidvars \/ \E c \in Services : ProvAbsent(c)
  BY <1>3, <1>5 DEF BackoffElapses, LeaseEnds, voidvars, ProvAbsent, vworld
<1>6. CASE VoidElse
  <2>1. VoidElse => account' = account \/ CustomerActs \/ AdministratorActs
    BY DEF VoidElse, PreviewVoid, OtherTakesLease, LeaseExpires, ProvUnverified, SetFlag, Claim, RetryAsked,
       VoidCrash, ForceAsked, vworld
  <2> QED BY <1>3, <1>6, <2>1
<1> QED BY <1>1, <1>3, <1>4, <1>5, <1>6 DEF VoidNext, VoidMachine

\* BlocksWhatWasConfirmed: whatever changed between the claim and the block, and
\* whichever of the workers runs it, the account is held only for the scope its
\* operator saw (receipt_void_engine.py, revalidate_scope).
THEOREM ConfirmedOnly == VoidSpec => BlocksWhatWasConfirmed
<1>1. VoidIInv /\ [VoidNext]_voidvars => [~account.blocked /\ account.blocked' => Fingerprint = vop.print]_voidvars
  BY HoldsConfirmed
<1> QED BY <1>1, VoidInductive, PTL DEF VoidSpec, BlocksWhatWasConfirmed

-----------------------------------------------------------------------------
(*****************************************************************************)
(* TopupApproval, for any number of attempts of any keys and approvers, and  *)
(* of events.                                                                *)
(*****************************************************************************)

USE ApAssumption

-----------------------------------------------------------------------------
(* The inductive invariant *)

Row == [state: {"none", "registered", "failed", "mutating", "completed", "cancelled"}, version: Nat, key: Nat, approver: Nat,
        strict: BOOLEAN, card: BOOLEAN]
Attempt == [pc: {"idle", "begin", "produce", "card", "finish", "fail", "over"}, tok: Nat \cup {NoExecToken}]

\* The types of the records, which TopTypeOK gives field by field.
TopRecords ==
    /\ aplan \in ApPlan
    /\ runtime \in [mode: {"off", "shadow", "required"}, ready: BOOLEAN]
    /\ row \in Row
    /\ money \in [matched: Nat, plain: Nat]
    /\ ap \in [Attempts -> Attempt]

\* The wallet stays enforced while the approvals are required.
RequiredEnforced == runtime.mode = "required" => wphase = "enforced"

\* Nothing is recorded of a credit that was not booked, and a state that tells
\* of money has it.
RecordsFollowMoney ==
    /\ evid # {} => money.matched > 0
    /\ "card" \in evid => cardPaid > 0
    /\ row.state \in {"mutating", "completed"} => money.matched > 0
    /\ row.state = "none" => money.matched = 0 /\ row = NoRow
    /\ row.state # "cancelled"

Told(a) == ap[a].tok # NoExecToken

\* A token was given out by the row.  Until the money moves, the token that
\* still holds is that of the registered key and approver.
TokenOfRow(a) ==
    Told(a) =>
        /\ row.state # "none" /\ ap[a].tok <= row.version
        /\ ap[a].tok = row.version /\ money.matched = 0 => row.key = KeyOf(a) /\ row.approver = ApproverOf(a)

\* The card is counted after the credit.
CardAfterCredit(a) ==
    /\ ap[a].pc \in {"idle", "begin", "produce"} => <<"card", a>> \notin calls
    /\ ap[a].pc \in {"idle", "begin"} => ~Told(a)
    /\ Told(a) /\ (ap[a].pc = "card" \/ <<"card", a>> \in calls) => money.matched > 0

TopIInv ==
    /\ TopTypeOK /\ TopRecords /\ CreditedOnce /\ StateTellsTheMoney /\ RequiredEnforced /\ RecordsFollowMoney
    /\ \A a \in Attempts : TokenOfRow(a) /\ CardAfterCredit(a)

-----------------------------------------------------------------------------
(* The records *)

\* An event used up leaves a plan, with the same keys and approvers.
LEMMA UsedPlan ==
    ASSUME aplan \in ApPlan, NEW e, May(e)
    PROVE  /\ Used \in ApPlan
           /\ Used.key = aplan.key /\ Used.approver = aplan.approver /\ Used.logged = aplan.logged
  BY DEF May, Used, ApPlan

InState(r, s) == [r EXCEPT !.state = s]

\* A state written over another changes nothing else of a row.
LEMMA RowState ==
    ASSUME NEW r \in Row, NEW s \in {"registered", "failed", "mutating", "completed", "cancelled"}
    PROVE  /\ InState(r, s) \in Row /\ InState(r, s).state = s
           /\ InState(r, s).version = r.version /\ InState(r, s).key = r.key
           /\ InState(r, s).approver = r.approver
           /\ InState(r, s).card = r.card /\ InState(r, s).strict = r.strict
  BY DEF Row, InState

\* What a new authority and a recovery change of the row.
LEMMA RowChanges ==
    ASSUME row \in Row, NEW k \in Nat, NEW v \in Nat
    PROVE  /\ ChangeAuthority(k, v) \in Row /\ Recovered \in Row
           /\ ChangeAuthority(k, v).state = "registered" /\ ChangeAuthority(k, v).version = row.version + 1
           /\ ChangeAuthority(k, v).key = k /\ ChangeAuthority(k, v).approver = v
           /\ Recovered.state = "mutating" /\ Recovered.version = row.version
           /\ Recovered.key = row.key /\ Recovered.approver = row.approver /\ Recovered.card = row.card
<1>1. ChangeAuthority(k, v) \in Row
  <2> DEFINE opened == [row EXCEPT !.state = "registered"]
             renewed == [opened EXCEPT !.version = @ + 1]
             keyed == [renewed EXCEPT !.key = k]
             approved == [keyed EXCEPT !.approver = v]
  <2>1. opened \in Row
    BY RowState DEF InState
  <2>2. renewed \in Row
    <3> HIDE DEF opened
    <3> QED BY <2>1 DEF Row
  <2>3. keyed \in Row
    <3> HIDE DEF renewed
    <3> QED BY <2>2 DEF Row
  <2>4. approved \in Row
    <3> HIDE DEF keyed
    <3> QED BY <2>3 DEF Row
  <2>5. ChangeAuthority(k, v) = approved
    BY DEF ChangeAuthority, Row
  <2> QED
    BY <2>4, <2>5
<1>2. /\ ChangeAuthority(k, v).state = "registered" /\ ChangeAuthority(k, v).version = row.version + 1
      /\ ChangeAuthority(k, v).key = k /\ ChangeAuthority(k, v).approver = v
  BY DEF ChangeAuthority, Row
<1> QED
  BY <1>1, <1>2, RowState DEF Recovered, InState

\* The keys and approvers of the attempts are numbers.
LEMMA Keyed ==
    ASSUME aplan \in ApPlan, NEW a \in Attempts
    PROVE  KeyOf(a) \in Nat /\ ApproverOf(a) \in Nat
  BY DEF KeyOf, ApproverOf, ApPlan

\* What may move: where the bot goes with an answer, and what that takes from the panel's mail.
Moves(a) ==
    /\ pend' \in {"pending", "processing", "approved", "rejected"}
    /\ ap' \in [Attempts -> Attempt]
    /\ calls' \subseteq {"begin", "produce", "card", "finish", "fail"} \X Attempts
    /\ \A b \in Attempts \ {a} : /\ ap'[b] = ap[b]
                                 /\ \A kind \in {"begin", "produce", "card", "finish", "fail"} :
                                       <<kind, b>> \in calls' <=> <<kind, b>> \in calls

BotTypes == TopTypeOK /\ TopRecords

\* An answer to begin moves one attempt, which may get the token it carries.
LEMMA AnswerMoves ==
    ASSUME BotTypes, NEW a \in Attempts, NEW tok \in Nat \cup {NoExecToken}, Answers(a, tok)
    PROVE  /\ Moves(a)
           /\ ap'[a].tok = IF ap[a].pc = "begin" THEN tok ELSE ap[a].tok
           /\ ap'[a].pc = IF ap[a].pc = "begin" THEN "produce" ELSE ap[a].pc
           /\ <<"card", a>> \in calls' <=> <<"card", a>> \in calls
  BY DEF BotTypes, TopTypeOK, TopRecords, Answers, Waits, ProduceNext, Unheard, Moves, Attempt

\* So does a refusal, without a token.
LEMMA RefusalMoves ==
    ASSUME BotTypes, NEW a \in Attempts, RefusedInMode(a)
    PROVE  /\ Moves(a)
           /\ ap'[a].tok = ap[a].tok \/ ap'[a].tok = NoExecToken
           /\ ap'[a].pc = ap[a].pc \/ (ap[a].pc = "begin" /\ ap'[a].pc \in {"produce", "over"})
           /\ <<"card", a>> \in calls' <=> <<"card", a>> \in calls
  BY DEF BotTypes, TopTypeOK, TopRecords, RefusedInMode, Waits, ProduceNext, Unheard, Blocked, Release, Moves, Attempt

\* An accepted credit sends an attempt that waits for it on to the card.
LEMMA AcceptMoves ==
    ASSUME BotTypes, NEW a \in Attempts, Accepted(a)
    PROVE  /\ Moves(a)
           /\ ap'[a].tok = ap[a].tok
           /\ ap'[a].pc = IF ap[a].pc = "produce" THEN "card" ELSE ap[a].pc
           /\ <<"card", a>> \in calls' <=> (<<"card", a>> \in calls \/ ap[a].pc = "produce")
           /\ calls \ calls' \subseteq {<<"produce", a>>}
  BY DEF BotTypes, TopTypeOK, TopRecords, Accepted, Waits, CardNext, Unheard, Moves, Attempt

\* A refused one ends it, or has it report the failure.
LEMMA RefuseMoves ==
    ASSUME BotTypes, NEW a \in Attempts, NotAccepted(a)
    PROVE  /\ Moves(a)
           /\ ap'[a].tok = ap[a].tok
           /\ ap'[a].pc = ap[a].pc \/ (ap[a].pc = "produce" /\ ap'[a].pc \in {"fail", "over"})
           /\ <<"card", a>> \in calls' <=> <<"card", a>> \in calls
  BY DEF BotTypes, TopTypeOK, TopRecords, NotAccepted, Waits, Failed, Unheard, Release, Moves, Attempt

\* A call not waited for any more moves its attempt, to no card it did not have.
LEMMA TimeoutMoves ==
    ASSUME BotTypes, NEW a \in Attempts, TimesOut(a)
    PROVE  /\ Moves(a) /\ ap'[a].tok = ap[a].tok
           /\ ap[a].pc # "idle" /\ ap'[a].pc \notin {"idle", "begin", "card"}
           /\ <<"card", a>> \in calls' => <<"card", a>> \in calls
           /\ ap'[a].pc = "produce" => ap[a].pc = "begin"
  BY DEF TimesOut, BotTypes, TopTypeOK, TopRecords, Moves, Attempt, Release
-----------------------------------------------------------------------------
(* The bot's steps, the superadmin's *)

Books == CreditedOnce /\ StateTellsTheMoney /\ RequiredEnforced /\ RecordsFollowMoney
Attempted == \A a \in Attempts : TokenOfRow(a) /\ CardAfterCredit(a)

\* A tap sends its attempt on its way.
LEMMA StartKeeps ==
    ASSUME TopIInv, NEW a \in Attempts, StartAttempt(a)
    PROVE  TopIInv'
<1>1. BotTypes'
  BY DEF TopIInv, BotTypes, TopTypeOK, TopRecords, StartAttempt, Waits, Calls, apdb, Attempt
<1>2. Books'
  BY DEF TopIInv, Books, StartAttempt, apdb, CreditedOnce, StateTellsTheMoney, RequiredEnforced, RecordsFollowMoney
<1>3. Attempted'
  BY DEF TopIInv, TopRecords, StartAttempt, Waits, Calls, apdb, Attempted, TokenOfRow, CardAfterCredit, Told, KeyOf,
         ApproverOf, Attempt
<1> QED
  BY <1>1, <1>2, <1>3 DEF TopIInv, BotTypes, Books, Attempted

\* A call not waited for any more books nothing.
LEMMA TimeoutKeeps ==
    ASSUME TopIInv, NEW a \in Attempts, TimesOut(a)
    PROVE  TopIInv'
<1>1. aplan' \in ApPlan /\ aplan'.key = aplan.key /\ aplan'.approver = aplan.approver
  BY UsedPlan DEF TopIInv, TopRecords, TimesOut
<1>2. /\ Moves(a) /\ ap'[a].tok = ap[a].tok
      /\ ap[a].pc # "idle" /\ ap'[a].pc \notin {"idle", "begin", "card"}
      /\ <<"card", a>> \in calls' => <<"card", a>> \in calls
      /\ ap'[a].pc = "produce" => ap[a].pc = "begin"
  BY TimeoutMoves DEF TopIInv, BotTypes
<1>3. BotTypes'
  BY <1>1, <1>2 DEF TopIInv, BotTypes, TopTypeOK, TopRecords, TimesOut, apdb, Moves, Attempt
<1>4. Books'
  BY DEF TopIInv, Books, TimesOut, apdb, CreditedOnce, StateTellsTheMoney, RequiredEnforced, RecordsFollowMoney
<1>5. ASSUME NEW b \in Attempts PROVE (TokenOfRow(b) /\ CardAfterCredit(b))'
  <2>1. UNCHANGED <<row, money>>
    BY DEF TimesOut, apdb
  <2>2. TokenOfRow(b) /\ CardAfterCredit(b)
    BY DEF TopIInv
  <2>3. ap'[b].tok = ap[b].tok
    BY <1>2 DEF Moves
  <2>4. TokenOfRow(b)'
    BY <1>1, <2>1, <2>2, <2>3 DEF TokenOfRow, Told, KeyOf, ApproverOf
  <2>5. CardAfterCredit(b)'
    BY <1>2, <2>1, <2>2, <2>3 DEF CardAfterCredit, Told, Moves
  <2> QED
    BY <2>4, <2>5
<1> QED
  BY <1>3, <1>4, <1>5 DEF TopIInv, BotTypes, Books

\* The operator's and the superadmin's steps touch no approval; only an
\* enforced wallet lets the approvals be required, and only approvals that are
\* not required let it go back.
LEMMA AdminKeeps ==
    ASSUME TopIInv,
           \/ RejectPending \/ Activate \/ Deactivate \/ EnforceWallet \/ RollbackWallet \/ KeysChange
           \/ \E mode \in {"off", "shadow"} : SetMode(mode)
    PROVE  TopIInv'
<1> USE DEF RejectPending, Activate, ActivationAllowed, Deactivate, EnforceWallet, RollbackWallet, RollbackAllowed,
            KeysChange, SetMode
<1>1. /\ \E e \in {"modes", "keys", "reject"} : May(e)
      /\ aplan' = Used /\ UNCHANGED <<apdb, calls, reading, ap>>
      /\ pend' = pend \/ pend' = "rejected"
  OBVIOUS
<1>2. aplan' \in ApPlan /\ aplan'.key = aplan.key /\ aplan'.approver = aplan.approver
  BY <1>1, UsedPlan DEF TopIInv, TopRecords
<1>3. /\ runtime' \in [mode: {"off", "shadow", "required"}, ready: BOOLEAN] /\ wphase' \in {"normal", "enforced"}
      /\ RequiredEnforced'
  BY DEF TopIInv, TopTypeOK, TopRecords, RequiredEnforced
<1> HIDE DEF RejectPending, Activate, ActivationAllowed, Deactivate, EnforceWallet, RollbackWallet, RollbackAllowed,
             KeysChange, SetMode
<1>4. BotTypes'
  BY <1>1, <1>2, <1>3 DEF TopIInv, BotTypes, TopTypeOK, TopRecords, apdb
<1>5. Books'
  BY <1>1, <1>3 DEF TopIInv, Books, apdb, CreditedOnce, StateTellsTheMoney, RecordsFollowMoney
<1>6. Attempted'
  BY <1>1, <1>2 DEF TopIInv, apdb, Attempted, TokenOfRow, CardAfterCredit, Told, KeyOf, ApproverOf
<1> QED
  BY <1>4, <1>5, <1>6 DEF TopIInv, BotTypes, Books, Attempted
-----------------------------------------------------------------------------
(* The panel's steps *)

\* An answer to begin keeps the invariant whatever the row becomes, as long as
\* the token it carries is the row's, under the attempt's authority until the
\* money has moved, and the other attempts' tokens are no newer.
LEMMA AnswerKeeps ==
    ASSUME TopIInv, NEW a \in Attempts, NEW tok \in Nat \cup {NoExecToken}, Answers(a, tok),
           UNCHANGED <<aplan, runtime, wphase, money, evid, cardPaid>>, reading' \subseteq Attempts,
           row' \in Row, Books',
           tok # NoExecToken =>
             /\ row'.state # "none" /\ tok <= row'.version
             /\ tok = row'.version /\ money.matched = 0 => row'.key = KeyOf(a) /\ row'.approver = ApproverOf(a),
           row.state # "none" =>
             /\ row'.state # "none"
             /\ row'.version > row.version \/ (row'.version = row.version /\ row'.key = row.key /\ row'.approver = row.approver)
    PROVE  TopIInv'
<1> DEFINE RowFits == row'.state # "none" /\ tok <= row'.version
           Ours == tok = row'.version /\ money.matched = 0 => row'.key = KeyOf(a) /\ row'.approver = ApproverOf(a)
           Newer == row'.version > row.version
           Same == row'.version = row.version /\ row'.key = row.key /\ row'.approver = row.approver
<1>1. /\ Moves(a)
      /\ ap'[a].tok = IF ap[a].pc = "begin" THEN tok ELSE ap[a].tok
      /\ ap'[a].pc = IF ap[a].pc = "begin" THEN "produce" ELSE ap[a].pc
      /\ <<"card", a>> \in calls' <=> <<"card", a>> \in calls
  BY AnswerMoves DEF TopIInv, BotTypes
<1>2. BotTypes'
  BY <1>1 DEF TopIInv, BotTypes, TopTypeOK, TopRecords, Moves, Row, Attempt
<1>3. ASSUME NEW b \in Attempts PROVE TokenOfRow(b)'
  <2>1. TokenOfRow(b)
    BY DEF TopIInv
  <2>2. row.version \in Nat /\ row'.version \in Nat /\ ap[b].tok \in Nat \cup {NoExecToken}
    BY DEF TopIInv, TopRecords, Row, Attempt
  <2>3. ap'[b].tok = ap[b].tok \/ (b = a /\ ap'[b].tok = tok)
    BY <1>1 DEF Moves
  <2>4. CASE ap'[b].tok = ap[b].tok
    BY <2>1, <2>2, <2>4 DEF TokenOfRow, Told, KeyOf, ApproverOf
  <2>5. CASE b = a /\ ap'[b].tok = tok
    BY <2>5 DEF TokenOfRow, Told, KeyOf, ApproverOf
  <2> QED
    BY <2>3, <2>4, <2>5
<1>4. ASSUME NEW b \in Attempts PROVE CardAfterCredit(b)'
  <2>1. CardAfterCredit(b)
    BY DEF TopIInv
  <2> QED
    BY <1>1, <2>1 DEF CardAfterCredit, Told, Moves
<1> QED
  BY <1>2, <1>3, <1>4 DEF TopIInv, BotTypes, Books

\* The answer of a begin that read the row.
LEMMA BeginKeeps ==
    ASSUME TopIInv, NEW a \in Attempts, BeginReads(a, FALSE)
    PROVE  TopIInv'
<1>1. /\ BotTypes /\ Books /\ UNCHANGED <<aplan, runtime, wphase, money, evid, cardPaid>>
      /\ NoExecToken \in Nat \cup {NoExecToken} /\ reading \subseteq Attempts /\ row \in Row
      /\ KeyOf(a) \in Nat /\ ApproverOf(a) \in Nat
  BY Keyed DEF TopIInv, BotTypes, Books, BeginReads, TopTypeOK, TopRecords
<1>2. CASE NoApprovals
  <2>1. Answers(a, NoExecToken) /\ UNCHANGED <<row, reading>>
    BY <1>2 DEF BeginReads
  <2>2. Books'
    BY <1>1, <2>1 DEF Books, CreditedOnce, StateTellsTheMoney, RequiredEnforced, RecordsFollowMoney
  <2> QED
    BY <1>1, <2>1, <2>2, AnswerKeeps
<1>3. CASE ~NoApprovals /\ RefusedInMode(a) /\ UNCHANGED <<row, reading>>
  <2>1. /\ Moves(a)
        /\ ap'[a].tok = ap[a].tok \/ ap'[a].tok = NoExecToken
        /\ ap'[a].pc = ap[a].pc \/ (ap[a].pc = "begin" /\ ap'[a].pc \in {"produce", "over"})
        /\ <<"card", a>> \in calls' <=> <<"card", a>> \in calls
    BY <1>1, <1>3, RefusalMoves
  <2>2. BotTypes'
    BY <1>1, <1>3, <2>1 DEF BotTypes, TopTypeOK, TopRecords, Moves, Attempt
  <2>3. Books'
    BY <1>1, <1>3 DEF Books, CreditedOnce, StateTellsTheMoney, RequiredEnforced, RecordsFollowMoney
  <2>4. ASSUME NEW b \in Attempts PROVE (TokenOfRow(b) /\ CardAfterCredit(b))'
    <3>1. TokenOfRow(b) /\ CardAfterCredit(b)
      BY DEF TopIInv
    <3>2. ap'[b].tok = ap[b].tok \/ ap'[b].tok = NoExecToken
      BY <2>1 DEF Moves
    <3>3. TokenOfRow(b)'
      BY <1>1, <1>3, <3>1, <3>2 DEF TokenOfRow, Told, KeyOf, ApproverOf
    <3>4. CardAfterCredit(b)'
      BY <1>1, <2>1, <3>1, <3>2 DEF CardAfterCredit, Told, Moves
    <3> QED
      BY <3>3, <3>4
  <2> QED
    BY <2>2, <2>3, <2>4 DEF TopIInv, BotTypes, Books
<1>4. CASE reading' = reading \cup {a} /\ UNCHANGED <<row, calls, pend, ap>>
  <2>1. BotTypes' /\ Books'
    BY <1>1, <1>4 DEF BotTypes, TopTypeOK, TopRecords, Books, CreditedOnce, StateTellsTheMoney, RequiredEnforced,
                      RecordsFollowMoney
  <2>2. Attempted'
    BY <1>1, <1>4 DEF TopIInv, Attempted, TokenOfRow, CardAfterCredit, Told, KeyOf, ApproverOf
  <2> QED
    BY <2>1, <2>2 DEF TopIInv, BotTypes, Books, Attempted
<1>5. CASE ~Absent /\ ~Refused(a) /\ row' = Registered(a) /\ Answers(a, Registered(a).version) /\ UNCHANGED reading
  <2>1. ~Evidence <=> money.matched = 0
    BY <1>1 DEF Evidence, BotTypes, TopTypeOK, Books, RecordsFollowMoney
  <2>2. row.state # "failed" \/ ~Evidence
    BY <1>1, <2>1 DEF Books, StateTellsTheMoney
  <2>3. CASE row' = row
    <3>1. /\ row.state # "none" /\ row.version \in Nat
          /\ money.matched = 0 => row.key = KeyOf(a) /\ row.approver = ApproverOf(a)
      <4>1. row.state # "none" /\ row.version \in Nat
        BY <1>1, <1>5 DEF Absent, Row
      <4>2. ASSUME money.matched = 0 PROVE row.key = KeyOf(a) /\ row.approver = ApproverOf(a)
        <5>1. OpenRow /\ ~Evidence
          BY <1>1, <1>5, <2>1, <4>1, <4>2 DEF OpenRow, Books, RecordsFollowMoney, Row
        <5>2. row' = ChangeAuthority(KeyOf(a), ApproverOf(a)) =>
                row'.version = row.version + 1
          BY <1>1, RowChanges
        <5> QED
          BY <1>5, <2>3, <4>1, <5>1, <5>2 DEF Registered
      <4> QED
        BY <4>1, <4>2
    <3>2. Books'
      BY <1>1, <2>3 DEF Books, CreditedOnce, StateTellsTheMoney, RequiredEnforced, RecordsFollowMoney
    <3> QED
      BY <1>1, <1>5, <2>3, <3>1, <3>2, AnswerKeeps
  <2>4. CASE row' # row
    <3>1. OpenRow /\ ~Evidence /\ row' = ChangeAuthority(KeyOf(a), ApproverOf(a))
      BY <1>5, <2>2, <2>4 DEF Registered
    <3>2. /\ row' \in Row /\ row'.state = "registered" /\ row'.version = row.version + 1
          /\ row'.key = KeyOf(a) /\ row'.approver = ApproverOf(a) /\ row.version \in Nat
      BY <1>1, <3>1, RowChanges DEF Row
    <3>3. Books'
      BY <1>1, <3>2 DEF Books, CreditedOnce, StateTellsTheMoney, RequiredEnforced, RecordsFollowMoney
    <3>4. Registered(a).version = row'.version
      BY <1>5
    <3> QED
      BY <1>1, <1>5, <3>2, <3>3, <3>4, AnswerKeeps
  <2> QED
    BY <2>3, <2>4
<1> QED
  BY <1>2, <1>3, <1>4, <1>5 DEF BeginReads
\* The insert of a new approval, or another look at the row that won.
LEMMA InsertKeeps ==
    ASSUME TopIInv, NEW a \in Attempts, BeginInserts(a)
    PROVE  TopIInv'
<1>1. /\ BotTypes /\ Books /\ UNCHANGED <<aplan, runtime, wphase, money, evid, cardPaid>>
      /\ reading' \subseteq Attempts /\ KeyOf(a) \in Nat /\ ApproverOf(a) \in Nat
  BY Keyed DEF TopIInv, BotTypes, Books, BeginInserts, TopTypeOK, TopRecords
<1>2. CASE Absent
  <2>1. row.state = "none" /\ row = NoRow /\ money.matched = 0
    BY <1>1, <1>2 DEF Absent, BotTypes, TopRecords, Row, Books, RecordsFollowMoney
  <2>2. /\ row' = [state |-> "registered", version |-> 0, key |-> KeyOf(a), approver |-> ApproverOf(a),
                   strict |-> runtime.mode = "required", card |-> aplan.logged]
        /\ Answers(a, 0)
    BY <1>2, <2>1 DEF BeginInserts
  <2>3. row' \in Row
    BY <1>1, <2>2 DEF Row, BotTypes, TopRecords, ApPlan
  <2>4. Books'
    BY <1>1, <2>1, <2>2 DEF Books, CreditedOnce, StateTellsTheMoney, RequiredEnforced, RecordsFollowMoney
  <2> QED
    BY <1>1, <2>1, <2>2, <2>3, <2>4, AnswerKeeps
<1>3. CASE ~Absent
  <2>1. UNCHANGED <<row, calls, pend, ap>>
    BY <1>3 DEF BeginInserts
  <2>2. BotTypes' /\ Books'
    BY <1>1, <2>1 DEF BotTypes, TopTypeOK, TopRecords, Books, CreditedOnce, StateTellsTheMoney, RequiredEnforced,
                      RecordsFollowMoney
  <2>3. Attempted'
    BY <1>1, <2>1 DEF TopIInv, Attempted, TokenOfRow, CardAfterCredit, Told, KeyOf, ApproverOf
  <2> QED
    BY <2>2, <2>3 DEF TopIInv, BotTypes, Books, Attempted
<1> QED
  BY <1>2, <1>3

\* A step of the panel that gives out no token keeps the invariant if it
\* rewrites the row under its authority or outdates its tokens, takes no money
\* back, and sends an attempt on to its card only with the money booked.
LEMMA SettleKeeps ==
    ASSUME TopIInv, NEW a \in Attempts, Moves(a), UNCHANGED <<runtime, wphase, reading>>,
           ap'[a].tok = ap[a].tok,
           ap'[a].pc \in {"idle", "begin", "produce"} => ap'[a].pc = ap[a].pc,
           <<"card", a>> \in calls' => <<"card", a>> \in calls \/ (ap[a].pc = "produce" /\ ap'[a].pc = "card"),
           ap'[a].pc = "card" => ap[a].pc = "card" \/ (Told(a) => money'.matched > 0),
           aplan' \in ApPlan, aplan'.key = aplan.key, aplan'.approver = aplan.approver,
           money' \in [matched: Nat, plain: Nat], money'.matched >= money.matched,
           evid' \subseteq {"main", "card"}, cardPaid' \in Nat, row' \in Row, Books',
           row.state # "none" =>
             /\ row'.state # "none"
             /\ row'.version > row.version \/ (row'.version = row.version /\ row'.key = row.key /\ row'.approver = row.approver)
    PROVE  TopIInv'
<1>1. BotTypes'
  BY DEF TopIInv, BotTypes, TopTypeOK, TopRecords, Moves, Row, Attempt
<1>2. row.version \in Nat /\ row'.version \in Nat /\ money.matched \in Nat /\ money'.matched \in Nat
  BY DEF TopIInv, TopRecords, Row
<1>3. ASSUME NEW b \in Attempts PROVE TokenOfRow(b)'
  <2>1. TokenOfRow(b) /\ ap[b].tok \in Nat \cup {NoExecToken} /\ ap'[b].tok = ap[b].tok
    BY DEF TopIInv, TopRecords, Attempt, Moves
  <2> QED
    BY <1>2, <2>1 DEF TokenOfRow, Told, KeyOf, ApproverOf
<1>4. ASSUME NEW b \in Attempts PROVE CardAfterCredit(b)'
  <2>1. CardAfterCredit(b)
    BY DEF TopIInv
  <2>2. CASE b = a
    BY <1>2, <2>1, <2>2 DEF CardAfterCredit, Told
  <2>3. CASE b # a
    <3>1. ap'[b] = ap[b] /\ (<<"card", b>> \in calls' <=> <<"card", b>> \in calls)
      BY <2>3 DEF Moves
    <3> QED
      BY <1>2, <2>1, <3>1 DEF CardAfterCredit, Told
  <2> QED
    BY <2>2, <2>3
<1> QED
  BY <1>1, <1>3, <1>4 DEF TopIInv, BotTypes, Books

\* A token that holds while no money has moved is the registered attempt's.
LEMMA HolderIsRegistered ==
    ASSUME TopIInv, NEW a \in Attempts, Told(a), TokenHolds(a), money.matched = 0
    PROVE  row.key = KeyOf(a) /\ row.approver = ApproverOf(a)
  BY DEF TopIInv, TokenOfRow, TokenHolds

\* What the credit of an approval does to its row.
LEMMA MatchedRow ==
    ASSUME TopIInv, row.state # "none", money.matched = 0,
           row' = [ExecutionRow EXCEPT !.state = IF @ = "registered" THEN "mutating" ELSE @]
    PROVE  /\ row' \in Row /\ row'.state = "mutating" /\ row'.key = row.key /\ row'.approver = row.approver
           /\ row'.version > row.version \/ row'.version = row.version
<1>1. row \in Row /\ row.state \in {"registered", "failed"}
  BY DEF TopIInv, TopRecords, Row, RecordsFollowMoney
<1>2. row.key \in Nat /\ row.approver \in Nat /\ row.version \in Nat
  BY <1>1 DEF Row
<1>3. /\ ExecutionRow \in Row /\ ExecutionRow.state = "registered"
      /\ ExecutionRow.key = row.key /\ ExecutionRow.approver = row.approver
      /\ ExecutionRow.version > row.version \/ ExecutionRow.version = row.version
  BY <1>1, <1>2, RowChanges DEF ExecutionRow
<1>4. row' = InState(ExecutionRow, "mutating")
  BY <1>3 DEF InState
<1> QED
  BY <1>3, <1>4, RowState

\* The credit books once, under the authority that asked for it.
LEMMA CreditKeeps ==
    ASSUME TopIInv, NEW a \in Attempts, Credit(a)
    PROVE  TopIInv'
<1>1. /\ BotTypes /\ Books /\ UNCHANGED <<runtime, wphase, cardPaid, reading>> /\ row \in Row
      /\ aplan \in ApPlan /\ money \in [matched: Nat, plain: Nat] /\ evid \subseteq {"main", "card"} /\ cardPaid \in Nat
      /\ money.matched \in Nat /\ money.matched >= money.matched
  BY DEF TopIInv, BotTypes, Books, Credit, TopTypeOK, TopRecords
<1>2. CASE NotAccepted(a) /\ UNCHANGED <<row, money, evid, aplan>>
  <2>1. Books'
    BY <1>1, <1>2 DEF Books, CreditedOnce, StateTellsTheMoney, RequiredEnforced, RecordsFollowMoney
  <2>2. /\ Moves(a) /\ ap'[a].tok = ap[a].tok
        /\ ap'[a].pc = ap[a].pc \/ (ap[a].pc = "produce" /\ ap'[a].pc \in {"fail", "over"})
        /\ <<"card", a>> \in calls' <=> <<"card", a>> \in calls
    BY <1>1, <1>2, RefuseMoves
  <2> QED
    BY <1>1, <1>2, <2>1, <2>2, SettleKeeps
<1>3. CASE PlainCredit(a) /\ ~Told(a) /\ UNCHANGED <<row, evid, aplan>>
  <2>1. money' \in [matched: Nat, plain: Nat] /\ money'.matched = money.matched
    BY <1>1, <1>3 DEF PlainCredit
  <2>2. Books'
    BY <1>1, <1>3, <2>1 DEF Books, CreditedOnce, StateTellsTheMoney, RequiredEnforced, RecordsFollowMoney
  <2>3. Accepted(a) \/ NotAccepted(a)
    BY <1>3 DEF PlainCredit
  <2>4. /\ Moves(a) /\ ap'[a].tok = ap[a].tok
        /\ ap'[a].pc = ap[a].pc \/ (ap[a].pc = "produce" /\ ap'[a].pc \in {"card", "fail", "over"})
        /\ <<"card", a>> \in calls' => <<"card", a>> \in calls \/ (ap[a].pc = "produce" /\ ap'[a].pc = "card")
    BY <1>1, <2>3, AcceptMoves, RefuseMoves
  <2> QED
    BY <1>1, <1>3, <2>1, <2>2, <2>4, SettleKeeps
<1>4. CASE Told(a) /\ Applied /\ Accepted(a) /\ UNCHANGED <<row, money, evid, aplan>>
  <2>1. Books' /\ money.matched > 0
    BY <1>1, <1>4 DEF Books, CreditedOnce, StateTellsTheMoney, RequiredEnforced, RecordsFollowMoney, Applied
  <2>2. /\ Moves(a) /\ ap'[a].tok = ap[a].tok
        /\ ap'[a].pc = ap[a].pc \/ (ap[a].pc = "produce" /\ ap'[a].pc = "card")
        /\ <<"card", a>> \in calls' => <<"card", a>> \in calls \/ (ap[a].pc = "produce" /\ ap'[a].pc = "card")
    BY <1>1, <1>4, AcceptMoves
  <2> QED
    BY <1>1, <1>4, <2>1, <2>2, SettleKeeps
<1>5. CASE Told(a) /\ TokenHolds(a) /\ ~Applied /\ MatchedCredit(a)
  <2>1. money.matched = 0 /\ row.state # "none" /\ evid = {}
    BY <1>1, <1>5 DEF Applied, TokenOfRow, TopIInv, RecordsFollowMoney
  <2>2. money' \in [matched: Nat, plain: Nat] /\ money'.matched = 1
    BY <1>1, <1>5, <2>1 DEF MatchedCredit
  <2>3. row' \in Row /\ row'.state = "mutating" /\ row'.key = row.key /\ row'.approver = row.approver
        /\ (row'.version > row.version \/ row'.version = row.version)
    BY <1>5, <2>1, MatchedRow DEF MatchedCredit
  <2>4. evid' \subseteq {"main"}
    BY <1>5, <2>1 DEF MatchedCredit
  <2>5. aplan' \in ApPlan /\ aplan'.key = aplan.key /\ aplan'.approver = aplan.approver
    BY <1>1, <1>5, UsedPlan DEF MatchedCredit
  <2>6. Books'
    BY <1>1, <2>1, <2>2, <2>3, <2>4 DEF Books, CreditedOnce, StateTellsTheMoney, RequiredEnforced, RecordsFollowMoney
  <2>7. Accepted(a)
    BY <1>5 DEF MatchedCredit
  <2>8. /\ Moves(a) /\ ap'[a].tok = ap[a].tok
        /\ ap'[a].pc = ap[a].pc \/ (ap[a].pc = "produce" /\ ap'[a].pc = "card")
        /\ <<"card", a>> \in calls' => <<"card", a>> \in calls \/ (ap[a].pc = "produce" /\ ap'[a].pc = "card")
    BY <1>1, <2>7, AcceptMoves
  <2> QED
    BY <1>1, <2>1, <2>2, <2>3, <2>4, <2>5, <2>6, <2>8, SettleKeeps
<1>6. Applied => row.state # "failed"
  BY <1>1 DEF Applied, Books, StateTellsTheMoney
<1>7. Told(a) /\ TokenHolds(a) /\ ~Applied => row.key = KeyOf(a)
  BY <1>1, HolderIsRegistered DEF Applied, BotTypes, TopTypeOK
<1> QED
  BY <1>2, <1>3, <1>4, <1>5, <1>6, <1>7 DEF Credit, Told

\* The card counts after the credit, and tells of no money that is not there.
LEMMA CardKeeps ==
    ASSUME TopIInv, NEW a \in Attempts, RecordCard(a)
    PROVE  TopIInv'
<1>1. /\ BotTypes /\ Books /\ UNCHANGED <<aplan, runtime, wphase, money, reading>> /\ row \in Row
      /\ aplan \in ApPlan /\ money \in [matched: Nat, plain: Nat] /\ evid \subseteq {"main", "card"} /\ cardPaid \in Nat
      /\ money.matched >= money.matched
  BY DEF TopIInv, BotTypes, Books, RecordCard, TopTypeOK, TopRecords
<1>2. /\ Moves(a) /\ ap'[a].tok = ap[a].tok
      /\ ap'[a].pc = ap[a].pc \/ (ap[a].pc = "card" /\ ap'[a].pc \in {"finish", "over"})
      /\ <<"card", a>> \notin calls'
  BY <1>1 DEF RecordCard, Waits, Approve, Unheard, Moves, BotTypes, TopTypeOK, TopRecords, Attempt, Arrived
<1>3. CASE UNCHANGED <<cardPaid, evid, row>>
  <2>1. Books'
    BY <1>1, <1>3 DEF Books, CreditedOnce, StateTellsTheMoney, RequiredEnforced, RecordsFollowMoney
  <2> QED
    BY <1>1, <1>2, <1>3, <2>1, SettleKeeps
<1>4. CASE cardPaid' = cardPaid + 1 /\ UNCHANGED <<evid, row>>
  <2>1. Books'
    BY <1>1, <1>4 DEF Books, CreditedOnce, StateTellsTheMoney, RequiredEnforced, RecordsFollowMoney
  <2> QED
    BY <1>1, <1>2, <1>4, <2>1, SettleKeeps
<1>5. CASE /\ Told(a) /\ TokenHolds(a) /\ cardPaid' = cardPaid + 1 /\ evid' = evid \cup {"card"}
           /\ row' = [row EXCEPT !.state = IF @ = "registered" THEN "mutating" ELSE @]
  <2>1. money.matched > 0 /\ row.state # "none" /\ row.state \in {"registered", "failed", "mutating", "completed"}
    BY <1>1, <1>5 DEF RecordCard, Arrived, TopIInv, CardAfterCredit, TokenOfRow, Row, RecordsFollowMoney
  <2>2. /\ row' \in Row /\ row'.state = (IF row.state = "registered" THEN "mutating" ELSE row.state)
        /\ row'.version = row.version /\ row'.key = row.key /\ row'.approver = row.approver /\ row'.card = row.card
    <3>1. CASE row.state = "registered"
      <4>1. row' = InState(row, "mutating")
        BY <1>5, <3>1 DEF InState
      <4> QED
        BY <1>1, <3>1, <4>1, RowState
    <3>2. CASE row.state # "registered"
      <4>1. row' = InState(row, row.state)
        BY <1>5, <3>2 DEF InState
      <4> QED
        BY <1>1, <2>1, <3>2, <4>1, RowState
    <3> QED
      BY <3>1, <3>2
  <2>3. Books'
    BY <1>1, <1>5, <2>1, <2>2 DEF Books, CreditedOnce, StateTellsTheMoney, RequiredEnforced, RecordsFollowMoney
  <2> QED
    BY <1>1, <1>2, <1>5, <2>1, <2>2, <2>3, SettleKeeps
<1> QED
  BY <1>3, <1>4, <1>5 DEF RecordCard, Told

\* The end of an approval writes the state that its records justify.
LEMMA FinalizeKeeps ==
    ASSUME TopIInv, NEW a \in Attempts, NEW kind \in {"finish", "fail"}, Finalize(a, kind)
    PROVE  TopIInv'
<1>1. /\ BotTypes /\ Books /\ row \in Row /\ UNCHANGED <<aplan, runtime, wphase, money, evid, cardPaid, reading>>
      /\ aplan \in ApPlan /\ money \in [matched: Nat, plain: Nat] /\ evid \subseteq {"main", "card"} /\ cardPaid \in Nat
      /\ money.matched >= money.matched
  BY DEF TopIInv, BotTypes, Books, Finalize, TopTypeOK, TopRecords
<1>2. /\ Moves(a) /\ ap'[a].tok = ap[a].tok
      /\ ap'[a].pc = ap[a].pc \/ (ap[a].pc = kind /\ ap'[a].pc = "over")
      /\ <<"card", a>> \in calls' => <<"card", a>> \in calls
  BY <1>1 DEF Finalize, Moves, BotTypes, TopTypeOK, TopRecords, Attempt
<1>3. Evidence => money.matched > 0
  BY <1>1 DEF Evidence, Books, RecordsFollowMoney
<1>4. Closing = row
  BY <1>1, <1>3 DEF Closing, Books, StateTellsTheMoney
<1>5. \/ row' = row
      \/ /\ row.state # "none" /\ row' \in Row /\ row'.version = row.version /\ row'.key = row.key
         /\ row'.approver = row.approver /\ row'.card = row.card
         /\ \/ row'.state = "completed" /\ AllRecorded
            \/ row'.state = "mutating" /\ Evidence
            \/ row'.state = "failed" /\ ~Evidence
  <2>1. \/ row' = row
        \/ row.state \in {"registered", "mutating"} /\ row' = InState(row, "completed") /\ AllRecorded
        \/ row.state \in {"registered", "mutating"} /\ row' = InState(row, "mutating") /\ Evidence
        \/ row.state \in {"registered", "mutating"} /\ row' = InState(row, "failed") /\ ~Evidence
    BY <1>4 DEF Finalize, Finalized, InState
  <2> QED
    BY <1>1, <2>1, RowState
<1>6. Books'
  BY <1>1, <1>3, <1>5 DEF Books, CreditedOnce, StateTellsTheMoney, RequiredEnforced, RecordsFollowMoney, AllRecorded,
                          Evidence, BotTypes, TopTypeOK
<1> QED
  BY <1>1, <1>2, <1>5, <1>6, SettleKeeps

-----------------------------------------------------------------------------
(* Theorems *)

\* The initial states satisfy the invariant.
LEMMA TopStart == TopInit => TopIInv
<1> SUFFICES ASSUME TopInit PROVE TopIInv
  OBVIOUS
<1>1. aplan \in ApPlan /\ (aplan.mode = "required" => aplan.wallet = "enforced")
  BY DEF TopInit, ApInit
<1>2. TopRecords
  BY <1>1 DEF TopInit, ApInit, TopRecords, ApPlan, NoRow, Row, Attempt
<1>3. TopTypeOK
  BY <1>1 DEF TopInit, ApInit, TopTypeOK, ApPlan, NoRow
<1>4. CreditedOnce /\ StateTellsTheMoney /\ RequiredEnforced /\ RecordsFollowMoney
  BY <1>1 DEF TopInit, ApInit, CreditedOnce, StateTellsTheMoney, RequiredEnforced, RecordsFollowMoney, NoRow
<1>5. ASSUME NEW a \in Attempts PROVE TokenOfRow(a) /\ CardAfterCredit(a)
  BY DEF TopInit, ApInit, TokenOfRow, CardAfterCredit, Told
<1> QED
  BY <1>2, <1>3, <1>4, <1>5 DEF TopIInv

\* Every step keeps it.
LEMMA TopStep == TopIInv /\ [TopNext]_topvars => TopIInv'
<1> SUFFICES ASSUME TopIInv, [TopNext]_topvars PROVE TopIInv'
  OBVIOUS
<1>1. CASE TopNext
  BY <1>1, StartKeeps, TimeoutKeeps, AdminKeeps, BeginKeeps, InsertKeeps, CreditKeeps, CardKeeps, FinalizeKeeps
     DEF TopNext, Panel
<1>2. CASE UNCHANGED topvars
  BY <1>2 DEF topvars, TopIInv, TopTypeOK, TopRecords, CreditedOnce, StateTellsTheMoney, RequiredEnforced,
              RecordsFollowMoney, TokenOfRow, CardAfterCredit, Told, KeyOf, ApproverOf
<1> QED
  BY <1>1, <1>2

\* Every reachable state satisfies the inductive invariant: the tokens are those
\* of the row, and everything recorded of the credit follows the money.
THEOREM TopInductive == TopSpec => []TopIInv
  BY TopStart, TopStep, PTL DEF TopSpec

\* One approval credits its receipt once, and its state tells of the money,
\* however many attempts, late calls, lost answers and takeovers there are.
THEOREM CreditsOnce == TopSpec => []TopupInv
<1>1. TopIInv => TopupInv
  BY DEF TopIInv, TopupInv
<1> QED
  BY <1>1, TopInductive, PTL

\* No plain credit is booked while the approvals are required.
LEMMA PlainOnlyUnrequired ==
    ASSUME TopIInv, TopNext, money'.plain > money.plain
    PROVE  runtime.mode # "required"
<1>1. money.plain \in Nat /\ money \in [matched: Nat, plain: Nat]
  BY DEF TopIInv, TopTypeOK, TopRecords
<1>2. PICK a \in Attempts : Credit(a)
  BY <1>1 DEF TopNext, Panel, StartAttempt, TimesOut, BeginReads, BeginInserts, RecordCard, Finalize, RejectPending,
              Activate, Deactivate, EnforceWallet, RollbackWallet, KeysChange, SetMode, apdb
<1>3. PlainAllowed
  BY <1>1, <1>2 DEF Credit, PlainCredit, MatchedCredit
<1> QED
  BY <1>3 DEF TopIInv, RequiredEnforced, PlainAllowed

\* A credit of the approval is booked under the authority of its attempt.
LEMMA CreditsItsApprover ==
    ASSUME TopIInv, TopNext, NEW a \in Attempts, money'.matched > money.matched, <<"produce", a>> \in calls \ calls'
    PROVE  row'.key = KeyOf(a) /\ row'.approver = ApproverOf(a)
<1>1. money.matched \in Nat /\ money \in [matched: Nat, plain: Nat]
  BY DEF TopIInv, TopTypeOK, TopRecords
<1>2. PICK b \in Attempts : Credit(b)
  BY <1>1 DEF TopNext, Panel, StartAttempt, TimesOut, BeginReads, BeginInserts, RecordCard, Finalize, RejectPending,
              Activate, Deactivate, EnforceWallet, RollbackWallet, KeysChange, SetMode, apdb
<1>3. Told(b) /\ TokenHolds(b) /\ ~Applied /\ MatchedCredit(b)
  BY <1>1, <1>2 DEF Credit, PlainCredit, Told
<1>4. Accepted(b)
  BY <1>3 DEF MatchedCredit
<1>5. a = b
  BY <1>4, AcceptMoves DEF TopIInv, BotTypes
<1>6. money.matched = 0 /\ row.state # "none"
  BY <1>1, <1>3 DEF Applied, TopIInv, TokenOfRow
<1>7. row'.key = row.key /\ row'.approver = row.approver
  BY <1>3, <1>6, MatchedRow DEF MatchedCredit
<1> QED
  BY <1>3, <1>5, <1>6, <1>7, HolderIsRegistered

\* Once 'required' is on, a receipt is credited through its approval or not at
\* all, and then under the key and the approver of the attempt that asked.
THEOREM CreditsByTheRules == TopSpec => CreditedByTheRules
<1>1. TopIInv /\ [TopNext]_topvars => [money.plain' > money.plain => runtime.mode # "required"]_topvars
  BY PlainOnlyUnrequired
<1>2. TopIInv /\ [TopNext]_topvars =>
        [\A a \in Attempts :
            money.matched' > money.matched /\ <<"produce", a>> \in calls \ calls' =>
                row'.key = KeyOf(a) /\ row'.approver = ApproverOf(a)]_topvars
  BY CreditsItsApprover
<1>3. TopSpec => RequiredNeverLegacy
  BY <1>1, TopInductive, PTL DEF TopSpec, RequiredNeverLegacy
<1>4. TopSpec => CreditedByItsApprover
  BY <1>2, TopInductive, PTL DEF TopSpec, CreditedByItsApprover
<1> QED
  BY <1>3, <1>4 DEF CreditedByTheRules

-----------------------------------------------------------------------------
(*****************************************************************************)
(* SaleApproval, for any number of attempts of any keys and approvers, and   *)
(* of events.                                                                *)
(*****************************************************************************)

USE SaleAssumption

-----------------------------------------------------------------------------
(* The inductive invariant *)

Shapes == {"none", "new", "existing", "renew"}
Customer == [exists: BOOLEAN, shape: Shapes, drift: BOOLEAN, from: Nat]
Operation == [state: {"none", "forward", "compensating", "cleanup", "completed", "compensated"},
              remote: {"none", "calling", "made"}, late: BOOLEAN]
Recovery == [state: {"none", "cleanup_required", "running", "completed"}, aged: BOOLEAN]

\* The types of the records, which SaleTypeOK gives field by field.
SaleRecords ==
    /\ live \in [Keys -> BOOLEAN] /\ cust \in Customer
    /\ look \in [Attempts -> [shape: Shapes, via: Shapes]]
    /\ op \in Operation /\ recovery \in Recovery
    /\ threads \in [Attempts -> {"none", "cancel", "wait"}]

\* What the operation has come to, the row tells, and the other way round.
OperationOfRow ==
    /\ op.state = "none" => row.state \in {"none", "registered", "failed", "cancelled"}
    /\ Running => row.state = "mutating"
    /\ op.state = "completed" => row.state \in {"mutating", "completed"}
    /\ op.state = "compensated" => row.state = "failed"

\* Money and effects are those of a completed operation, a strict one has all
\* of them, and nothing stays at a node without an operation.
EffectsOfOperation ==
    /\ money.matched = IF op.state = "completed" THEN 1 ELSE 0
    /\ op.state # "completed" => evid = {}
    /\ op.state = "completed" /\ row.strict => row.state = "completed" /\ AllRecorded
    /\ op.state \in {"none", "compensated"} => op.remote = "none"

\* A card is counted under a token only of a sale that was answered completed.
CardOfSale(a) ==
    /\ ap[a].pc \in {"idle", "begin"} => <<"card", a>> \notin calls
    /\ Told(a) /\ <<"card", a>> \in calls => op.state = "completed"

SaleIInv ==
    /\ BotTypes /\ SaleRecords /\ OperationOfRow /\ EffectsOfOperation /\ AsideWasAsked
    /\ \A a \in Attempts : CardOfSale(a)

SaleTypes == BotTypes /\ SaleRecords
SaleBooks == OperationOfRow /\ EffectsOfOperation /\ AsideWasAsked

-----------------------------------------------------------------------------
(* The parts a step changes *)

\* A step that changes neither the row nor the money, the effects, the
\* operation or the recovery keeps what they say of each other.
LEMMA BooksUnmoved ==
    ASSUME SaleBooks, UNCHANGED <<row, money, evid, op, recovery>>
    PROVE  SaleBooks'
  BY DEF SaleBooks, OperationOfRow, EffectsOfOperation, AsideWasAsked, Running, AllRecorded

\* One attempt moves, and its card with it; a completed operation stays so.
LEMMA CardsKept ==
    ASSUME SaleIInv, NEW a \in Attempts, Moves(a), CardOfSale(a)', op.state = "completed" => op'.state = "completed"
    PROVE  \A b \in Attempts : CardOfSale(b)'
<1>1. ASSUME NEW b \in Attempts, b # a PROVE CardOfSale(b)'
  <2>1. CardOfSale(b)
    BY DEF SaleIInv
  <2>2. ap'[b] = ap[b] /\ (<<"card", b>> \in calls' <=> <<"card", b>> \in calls)
    BY <1>1 DEF Moves
  <2> QED
    BY <2>1, <2>2 DEF CardOfSale, Told
<1> QED
  BY <1>1

\* None moves.
LEMMA CardsUnmoved ==
    ASSUME SaleIInv, UNCHANGED <<ap, calls>>, op.state = "completed" => op'.state = "completed"
    PROVE  \A b \in Attempts : CardOfSale(b)'
  BY DEF SaleIInv, CardOfSale, Told

\* The three parts of the invariant.
LEMMA SaleParts ==
    ASSUME SaleTypes', SaleBooks', \A b \in Attempts : CardOfSale(b)'
    PROVE  SaleIInv'
  BY DEF SaleIInv, SaleTypes, SaleBooks

\* What the invariant gives of the state a step starts in.
LEMMA SaleState ==
    ASSUME SaleIInv
    PROVE  /\ SaleTypes /\ SaleBooks /\ BotTypes
           /\ aplan \in ApPlan /\ row \in Row /\ money \in [matched: Nat, plain: Nat] /\ op \in Operation
           /\ recovery \in Recovery /\ cust \in Customer /\ row.version \in Nat
  BY DEF SaleIInv, SaleTypes, SaleBooks, BotTypes, TopRecords, SaleRecords, Row

\* What the intent is now is one of the shapes.
LEMMA ShapeTyped == ShapeNow \in Shapes
  BY DEF ShapeNow, Shapes

LEMMA LooksTyped ==
    ASSUME SaleRecords, NEW a \in Attempts, Looks(a)
    PROVE  look' \in [Attempts -> [shape: Shapes, via: Shapes]]
  BY ShapeTyped DEF SaleRecords, Looks

\* An approval that is not under way has no operation yet, whichever of its
\* versions the row is.
LEMMA NewVersion ==
    ASSUME SaleIInv, Versioned, row' \in Row,
           row'.state = "registered", row.state \in {"none", "registered", "failed", "cancelled"},
           row.state = "failed" => row'.version # row.version,
           UNCHANGED <<money, evid>>
    PROVE  SaleBooks' /\ op' \in Operation
  BY DEF SaleIInv, Versioned, NoOperation, SaleBooks, OperationOfRow, EffectsOfOperation, AsideWasAsked, Running,
         SaleRecords, Operation, AllRecorded

-----------------------------------------------------------------------------
(* The bot and the registration *)

\* A call not waited for any more moves its attempt only.
LEMMA SaleTimeoutKeeps ==
    ASSUME SaleIInv, NEW a \in Attempts, SaleTimesOut(a)
    PROVE  SaleIInv'
<1>1. TimesOut(a) /\ Looks(a) /\ UNCHANGED <<live, cust, op, recovery, threads, row, money, evid, cardPaid>>
  BY DEF SaleTimesOut, custdb, TimesOut, apdb
<1>2. /\ Moves(a) /\ ap'[a].tok = ap[a].tok /\ ap[a].pc # "idle" /\ ap'[a].pc \notin {"idle", "begin", "card"}
      /\ <<"card", a>> \in calls' => <<"card", a>> \in calls
  BY <1>1, SaleState, TimeoutMoves
<1>3. aplan' \in ApPlan /\ aplan'.key = aplan.key
  BY <1>1, SaleState, UsedPlan DEF TimesOut
<1>4. look' \in [Attempts -> [shape: Shapes, via: Shapes]]
  BY <1>1, LooksTyped DEF SaleIInv
<1>5. BotTypes'
  BY <1>1, <1>2, <1>3 DEF SaleIInv, BotTypes, TopTypeOK, TopRecords, TimesOut, Moves
<1>6. SaleRecords'
  BY <1>1, <1>3, <1>4 DEF SaleIInv, SaleRecords, Keys, KeyOf
<1>7. SaleBooks'
  BY <1>1, SaleState, BooksUnmoved
<1>8. CardOfSale(a)'
  <2>1. CardOfSale(a)
    BY DEF SaleIInv
  <2> QED
    BY <1>1, <1>2, <2>1 DEF CardOfSale, Told
<1> QED
  BY <1>1, <1>2, <1>5, <1>6, <1>7, <1>8, CardsKept, SaleParts DEF SaleTypes

\* An answer to begin that leaves what the books say of each other.
LEMMA RegistrationKeeps ==
    ASSUME SaleIInv, NEW a \in Attempts, NEW tok \in Nat \cup {NoExecToken},
           Answers(a, tok) \/ RefusedInMode(a) \/ UNCHANGED <<calls, pend, ap>>,
           UNCHANGED <<aplan, runtime, wphase, money, evid, cardPaid, live, threads>>,
           reading' \subseteq Attempts, row' \in Row, cust' \in Customer, op' \in Operation, recovery' \in Recovery,
           look' \in [Attempts -> [shape: Shapes, via: Shapes]],
           SaleBooks', op.state = "completed" => op'.state = "completed"
    PROVE  SaleIInv'
<1>1. /\ Moves(a)
      /\ ap'[a].pc = ap[a].pc \/ (ap[a].pc = "begin" /\ ap'[a].pc \in {"produce", "over"})
      /\ ap[a].pc # "begin" => ap'[a].tok = ap[a].tok
      /\ <<"card", a>> \in calls' <=> <<"card", a>> \in calls
  <2>1. CASE Answers(a, tok)
    BY <2>1, SaleState, AnswerMoves
  <2>2. CASE RefusedInMode(a)
    <3>1. ap[a].pc # "begin" => ap' = ap
      BY <2>2 DEF RefusedInMode, Unheard, Waits
    <3> QED
      BY <2>2, <3>1, SaleState, RefusalMoves
  <2>3. CASE UNCHANGED <<calls, pend, ap>>
    BY <2>3 DEF Moves, SaleIInv, BotTypes, TopTypeOK, TopRecords
  <2> QED
    BY <2>1, <2>2, <2>3
<1>2. BotTypes'
  <2>1. TopRecords'
    BY <1>1 DEF SaleIInv, BotTypes, TopRecords, Moves
  <2>2. TopTypeOK'
    BY <1>1 DEF SaleIInv, BotTypes, TopTypeOK, TopRecords, Moves, Row, Attempt
  <2> QED
    BY <2>1, <2>2 DEF BotTypes
<1>3. SaleRecords'
  BY DEF SaleIInv, SaleRecords, Keys, KeyOf
<1>4. CardOfSale(a)'
  <2>1. CardOfSale(a)
    BY DEF SaleIInv
  <2> QED
    BY <1>1, <2>1 DEF CardOfSale, Told
<1> QED
  BY <1>1, <1>2, <1>3, <1>4, CardsKept, SaleParts DEF SaleTypes

\* A begin reads the row, or gives it a new authority.
LEMMA SaleBeginKeeps ==
    ASSUME SaleIInv, NEW a \in Attempts, SaleBegin(a)
    PROVE  SaleIInv'
<1>1. /\ UNCHANGED <<aplan, runtime, wphase, money, evid, cardPaid, live, cust, recovery, threads>>
      /\ reading' \subseteq Attempts /\ Versioned
  BY DEF SaleBegin, custdb, BeginReads, SaleIInv, BotTypes, TopTypeOK
<1>2. look' \in [Attempts -> [shape: Shapes, via: Shapes]]
  BY ShapeTyped DEF SaleBegin, SaleIInv, SaleRecords
<1>3. KeyOf(a) \in Nat /\ ApproverOf(a) \in Nat
  BY Keyed, SaleState
<1>4. /\ NoExecToken \in Nat \cup {NoExecToken} /\ row \in Row /\ row.version \in Nat
      /\ cust \in Customer /\ recovery \in Recovery /\ op \in Operation
  BY SaleState
<1>5. CASE row' = row
  <2>1. op' = op /\ SaleBooks'
    BY <1>1, <1>5, SaleState, BooksUnmoved DEF Versioned
  <2>2. \E tok \in Nat \cup {NoExecToken} : Answers(a, tok) \/ RefusedInMode(a) \/ UNCHANGED <<calls, pend, ap>>
    <3>1. CASE row' = Registered(a) /\ Answers(a, Registered(a).version)
      BY <1>4, <1>5, <3>1
    <3>2. CASE Answers(a, NoExecToken) \/ RefusedInMode(a) \/ UNCHANGED <<calls, pend, ap>>
      BY <3>2
    <3> QED
      BY <3>1, <3>2 DEF SaleBegin, BeginReads
  <2> QED
    BY <1>1, <1>2, <1>4, <1>5, <2>1, <2>2, RegistrationKeeps
<1>6. CASE row' # row
  <2>1. row' = Registered(a) /\ Answers(a, Registered(a).version) /\ ~Absent
    BY <1>6 DEF SaleBegin, BeginReads
  <2>2. row.state = "failed" => ~Evidence
    BY DEF SaleIInv, OperationOfRow, EffectsOfOperation, Evidence, SaleRecords, Operation, Running
  <2>3. OpenRow /\ row' = ChangeAuthority(KeyOf(a), ApproverOf(a))
    BY <1>6, <2>1, <2>2 DEF Registered
  <2>4. row' \in Row /\ row'.state = "registered" /\ row'.version = row.version + 1
    BY <1>3, <1>4, <2>3, RowChanges
  <2>5. SaleBooks' /\ op' \in Operation
    BY <1>1, <1>4, <2>3, <2>4, NewVersion DEF OpenRow
  <2>6. op.state # "completed"
    BY <2>3 DEF OpenRow, SaleIInv, OperationOfRow
  <2>7. row'.version \in Nat /\ Answers(a, row'.version)
    BY <1>4, <2>1, <2>4
  <2> QED
    BY <1>1, <1>2, <1>4, <2>4, <2>5, <2>6, <2>7, RegistrationKeeps
<1> QED
  BY <1>5, <1>6

\* The insert of a new approval has no operation, and asks nobody.
LEMMA SaleInsertKeeps ==
    ASSUME SaleIInv, NEW a \in Attempts, SaleInsert(a)
    PROVE  SaleIInv'
<1>1. /\ UNCHANGED <<aplan, runtime, wphase, money, evid, cardPaid, live, threads>>
      /\ reading' \subseteq Attempts /\ Versioned /\ Looks(a)
  BY DEF SaleInsert, BeginInserts, SaleIInv, BotTypes, TopTypeOK
<1>2. look' \in [Attempts -> [shape: Shapes, via: Shapes]]
  BY <1>1, LooksTyped DEF SaleIInv
<1>3. /\ row \in Row /\ row.version \in Nat /\ KeyOf(a) \in Nat /\ ApproverOf(a) \in Nat
      /\ cust \in Customer /\ recovery \in Recovery /\ op \in Operation
  BY Keyed, SaleState
<1>4. CASE ~Absent
  <2>1. UNCHANGED <<row, calls, pend, ap>>
    BY <1>4 DEF SaleInsert, BeginInserts
  <2>2. UNCHANGED <<cust, recovery, op>>
    BY <1>1, <2>1 DEF SaleInsert, Versioned
  <2>3. SaleBooks'
    BY <1>1, <2>1, <2>2, SaleState, BooksUnmoved
  <2>4. NoExecToken \in Nat \cup {NoExecToken}
    OBVIOUS
  <2> QED
    BY <1>1, <1>2, <1>3, <2>1, <2>2, <2>3, <2>4, RegistrationKeeps
<1>5. CASE Absent
  <2> DEFINE version == IF row = NoRow THEN 0 ELSE row.version + 1
  <2>1. version \in Nat
    BY <1>3
  <2>2. row' = [state |-> "registered", version |-> version, key |-> KeyOf(a), approver |-> ApproverOf(a),
                strict |-> runtime.mode = "required", card |-> aplan.logged]
        /\ Answers(a, version)
    BY <1>5 DEF SaleInsert, BeginInserts
  <2> HIDE DEF version
  <2>3. row' \in Row
    BY <1>3, <2>1, <2>2, SaleState DEF Row, ApPlan
  <2>4. SaleBooks' /\ op' \in Operation
    BY <1>1, <1>5, <2>2, <2>3, NewVersion DEF Absent
  <2>5. op.state # "completed"
    BY <1>5 DEF Absent, SaleIInv, OperationOfRow
  <2>6. cust' \in Customer
    <3>1. look[a].shape \in Shapes
      BY DEF SaleIInv, SaleRecords
    <3> QED
      BY <1>3, <2>3, <3>1 DEF SaleInsert, Customer, Row
  <2>7. recovery' \in Recovery
    <3>1. recovery' = recovery \/ recovery' = NoRecovery
      BY DEF SaleInsert
    <3>2. NoRecovery \in Recovery
      BY DEF NoRecovery, Recovery
    <3> QED
      BY <1>3, <3>1, <3>2
  <2>8. version \in Nat \cup {NoExecToken}
    BY <2>1
  <2> QED
    BY <1>1, <1>2, <2>2, <2>3, <2>4, <2>5, <2>6, <2>7, <2>8, RegistrationKeeps
<1> QED
  BY <1>4, <1>5

-----------------------------------------------------------------------------
(* The calls of an attempt *)

\* A step of one attempt that keeps the books and the types keeps the invariant.
LEMMA AttemptKeeps ==
    ASSUME SaleIInv, NEW a \in Attempts, Moves(a), CardOfSale(a)', UNCHANGED <<runtime, wphase, reading, live>>,
           aplan' \in ApPlan, aplan'.key = aplan.key, row' \in Row, money' \in [matched: Nat, plain: Nat],
           evid' \subseteq {"main", "card"}, cardPaid' \in Nat, cust' \in Customer, op' \in Operation,
           recovery' \in Recovery, look' \in [Attempts -> [shape: Shapes, via: Shapes]],
           threads' \in [Attempts -> {"none", "cancel", "wait"}],
           SaleBooks', op.state = "completed" => op'.state = "completed"
    PROVE  SaleIInv'
<1>1. BotTypes'
  <2>1. TopRecords'
    BY DEF SaleIInv, BotTypes, TopRecords, Moves
  <2>2. TopTypeOK'
    BY DEF SaleIInv, BotTypes, TopTypeOK, TopRecords, Moves, Row, Attempt
  <2> QED
    BY <2>1, <2>2 DEF BotTypes
<1>2. SaleRecords'
  BY DEF SaleIInv, SaleRecords, Keys, KeyOf
<1> QED
  BY <1>1, <1>2, CardsKept, SaleParts DEF SaleTypes

\* What the invariant gives of the parts an attempt leaves alone.
LEMMA AttemptState ==
    ASSUME SaleIInv
    PROVE  /\ evid \subseteq {"main", "card"} /\ cardPaid \in Nat /\ aplan.key = aplan.key
           /\ look \in [Attempts -> [shape: Shapes, via: Shapes]]
           /\ threads \in [Attempts -> {"none", "cancel", "wait"}]
  BY DEF SaleIInv, BotTypes, TopTypeOK, SaleRecords

\* A card is sent for under a token when the sale has completed.
LEMMA CardStays ==
    ASSUME SaleIInv, NEW a \in Attempts, ap'[a].tok = ap[a].tok,
           ap'[a].pc \in {"idle", "begin"} => ap'[a].pc = ap[a].pc,
           <<"card", a>> \in calls' =>
               <<"card", a>> \in calls \/ (ap[a].pc = "produce" /\ (Told(a) => op'.state = "completed")),
           op.state = "completed" => op'.state = "completed"
    PROVE  CardOfSale(a)'
<1>1. CardOfSale(a)
  BY DEF SaleIInv
<1> QED
  BY <1>1 DEF CardOfSale, Told

\* A refused production call.
LEMMA RefusedCall ==
    ASSUME SaleIInv, NEW a \in Attempts, NotAccepted(a), op.state = "completed" => op'.state = "completed"
    PROVE  Moves(a) /\ CardOfSale(a)'
  BY SaleState, RefuseMoves, CardStays

\* An accepted one, of a completed sale or without a token.
LEMMA AcceptedCall ==
    ASSUME SaleIInv, NEW a \in Attempts, Accepted(a), op.state = "completed" => op'.state = "completed",
           Told(a) => op'.state = "completed"
    PROVE  Moves(a) /\ CardOfSale(a)'
<1>1. /\ Moves(a) /\ ap'[a].tok = ap[a].tok
      /\ ap'[a].pc = IF ap[a].pc = "produce" THEN "card" ELSE ap[a].pc
      /\ <<"card", a>> \in calls' <=> (<<"card", a>> \in calls \/ ap[a].pc = "produce")
  BY SaleState, AcceptMoves
<1> QED
  BY <1>1, CardStays

\* A call that moves nobody.
LEMMA SilentCall ==
    ASSUME SaleIInv, NEW a \in Attempts, UNCHANGED <<calls, pend, ap>>,
           op.state = "completed" => op'.state = "completed"
    PROVE  Moves(a) /\ CardOfSale(a)'
<1>1. Moves(a)
  BY DEF SaleIInv, BotTypes, TopTypeOK, TopRecords, Moves
<1> QED
  BY <1>1, CardStays

\* The answer of the card, which nothing hangs on.
LEMMA CardCall ==
    ASSUME SaleIInv, NEW a \in Attempts, op' = op,
           IF Waits(a, "card") THEN Approve(a) ELSE Unheard(a, "card")
    PROVE  Moves(a) /\ CardOfSale(a)'
<1>1. /\ Moves(a) /\ ap'[a].tok = ap[a].tok
      /\ ap'[a].pc = ap[a].pc \/ ap'[a].pc \in {"finish", "over"}
      /\ <<"card", a>> \in calls' => <<"card", a>> \in calls
  BY SaleState DEF Waits, Approve, Unheard, Moves, BotTypes, TopTypeOK, TopRecords, Attempt
<1> QED
  BY <1>1, CardStays

\* The end of an attempt's last call.
LEMMA LastCall ==
    ASSUME SaleIInv, NEW a \in Attempts, NEW kind \in {"finish", "fail"}, op' = op, pend' = pend,
           calls' = calls \ {<<kind, a>>}, ap' = [ap EXCEPT ![a].pc = IF @ = kind THEN "over" ELSE @]
    PROVE  Moves(a) /\ CardOfSale(a)'
<1>1. /\ Moves(a) /\ ap'[a].tok = ap[a].tok
      /\ ap'[a].pc = ap[a].pc \/ ap'[a].pc = "over"
      /\ <<"card", a>> \in calls' => <<"card", a>> \in calls
  BY SaleState DEF Moves, BotTypes, TopTypeOK, TopRecords, Attempt
<1> QED
  BY <1>1, CardStays

\* A call under a key that is off changes nothing at the panel.
LEMMA KeyRefusedKeeps ==
    ASSUME SaleIInv, NEW a \in Attempts, NEW kind \in {"begin", "produce", "card", "finish", "fail"},
           KeyRefused(a, kind)
    PROVE  SaleIInv'
<1>1. /\ UNCHANGED <<aplan, runtime, wphase, row, money, evid, cardPaid, reading, live, cust, op, recovery, threads>>
      /\ Looks(a)
  BY DEF KeyRefused, apdb, custdb
<1>2. SaleBooks'
  BY <1>1, SaleState, BooksUnmoved
<1>3. look' \in [Attempts -> [shape: Shapes, via: Shapes]]
  BY <1>1, LooksTyped DEF SaleIInv
<1>4. CASE kind = "begin"
  <2>1. Answers(a, NoExecToken) /\ NoExecToken \in Nat \cup {NoExecToken} /\ reading' \subseteq Attempts
    BY <1>1, <1>4 DEF KeyRefused, SaleIInv, BotTypes, TopTypeOK
  <2> QED
    BY <1>1, <1>2, <1>3, <2>1, SaleState, RegistrationKeeps
<1>5. CASE kind # "begin"
  <2>1. Moves(a) /\ CardOfSale(a)'
    <3>1. CASE kind = "produce"
      BY <1>1, <3>1, RefusedCall DEF KeyRefused
    <3>2. CASE kind = "card"
      <4>1. IF Waits(a, "card") THEN Approve(a) ELSE Unheard(a, "card")
        BY <3>2 DEF KeyRefused
      <4> QED
        BY <1>1, <4>1, CardCall
    <3>3. CASE kind \in {"finish", "fail"}
      <4>1. /\ calls' = calls \ {<<kind, a>>} /\ pend' = pend
            /\ ap' = [ap EXCEPT ![a].pc = IF @ = kind THEN "over" ELSE @]
        BY <3>3 DEF KeyRefused
      <4> QED
        BY <1>1, <3>3, <4>1, LastCall
    <3> QED
      BY <1>5, <3>1, <3>2, <3>3
  <2> QED
    BY <1>1, <1>2, <1>3, <2>1, SaleState, AttemptState, AttemptKeeps
<1> QED
  BY <1>4, <1>5

\* The registration is closed in a transaction of its own, if it may be.
LEMMA CancelKeeps ==
    ASSUME SaleIInv, NEW a \in Attempts, CancelApproval(a)
    PROVE  SaleIInv'
<1>1. /\ UNCHANGED <<aplan, runtime, wphase, money, evid, cardPaid, reading, live, cust, look, op, recovery>>
      /\ NotAccepted(a) /\ threads' = [threads EXCEPT ![a] = "none"]
  BY DEF CancelApproval, custdb
<1>2. Moves(a) /\ CardOfSale(a)'
  BY <1>1, RefusedCall
<1>3. row' \in Row /\ SaleBooks'
  <2>1. CASE ~Cancellable(a)
    <3>1. row' = row
      BY <2>1 DEF CancelApproval
    <3> QED
      BY <1>1, <3>1, SaleState, BooksUnmoved
  <2>2. CASE Cancellable(a)
    <3>1. row' = InState(row, "cancelled") /\ row.state = "registered"
      BY <2>2 DEF CancelApproval, Cancellable, InState
    <3>2. row' \in Row /\ row'.state = "cancelled"
      BY <3>1, SaleState, RowState
    <3>3. op.state = "none"
      BY <3>1, SaleState DEF SaleBooks, OperationOfRow, Running, Operation
    <3> QED
      BY <1>1, <3>2, <3>3, SaleState
         DEF SaleBooks, OperationOfRow, EffectsOfOperation, AsideWasAsked, Running
  <2> QED
    BY <2>1, <2>2
<1>4. threads' \in [Attempts -> {"none", "cancel", "wait"}]
  BY <1>1, AttemptState
<1> QED
  BY <1>1, <1>2, <1>3, <1>4, SaleState, AttemptState, AttemptKeeps

\* A thread answers what its operation has come to.
LEMMA AnswerOfSaleKeeps ==
    ASSUME SaleIInv, NEW a \in Attempts, Answer(a)
    PROVE  SaleIInv'
<1>1. /\ UNCHANGED <<aplan, runtime, wphase, row, money, evid, cardPaid, reading, live, cust, look, op, recovery>>
      /\ threads' = [threads EXCEPT ![a] = "none"]
  BY DEF Answer, apdb, custdb
<1>2. Moves(a) /\ CardOfSale(a)'
  BY <1>1, RefusedCall, AcceptedCall DEF Answer
<1>3. threads' \in [Attempts -> {"none", "cancel", "wait"}]
  BY <1>1, AttemptState
<1> QED
  BY <1>1, <1>2, <1>3, SaleState, AttemptState, BooksUnmoved, AttemptKeeps

\* The card: with no operation there is no token it could count under.
LEMMA SaleCardKeeps ==
    ASSUME SaleIInv, NEW a \in Attempts, SaleCard(a)
    PROVE  SaleIInv'
<1>1. /\ UNCHANGED <<aplan, runtime, wphase, money, reading, live, cust, look, op, recovery, threads>>
      /\ Arrived("card", a)
      /\ IF Waits(a, "card") THEN Approve(a) ELSE Unheard(a, "card")
  BY DEF SaleCard, RecordCard, salevars, apdb
<1>2. Moves(a) /\ CardOfSale(a)'
  BY <1>1, CardCall
<1>3. Told(a) => op.state # "none"
  BY <1>1 DEF SaleIInv, CardOfSale, Arrived
<1>4. UNCHANGED <<row, evid>> /\ cardPaid' \in {cardPaid, cardPaid + 1}
  BY <1>3 DEF SaleCard, RecordCard, Told, apdb
<1>5. cardPaid' \in Nat
  BY <1>4, AttemptState
<1> QED
  BY <1>1, <1>2, <1>4, <1>5, SaleState, AttemptState, BooksUnmoved, AttemptKeeps

\* The end of an approval without an operation can only fail it.
LEMMA SaleFinalizeKeeps ==
    ASSUME SaleIInv, NEW a \in Attempts, NEW kind \in {"finish", "fail"}, SaleFinalize(a, kind)
    PROVE  SaleIInv'
<1>1. /\ UNCHANGED <<aplan, runtime, wphase, pend, money, evid, cardPaid, reading, live, cust, look, op, recovery,
                     threads>>
      /\ calls' = calls \ {<<kind, a>>} /\ ap' = [ap EXCEPT ![a].pc = IF @ = kind THEN "over" ELSE @]
  BY DEF SaleFinalize, Finalize, salevars, apdb
<1>2. Moves(a) /\ CardOfSale(a)'
  BY <1>1, LastCall
<1>3. row' \in Row /\ SaleBooks'
  <2>1. CASE row' = row
    BY <1>1, <2>1, SaleState, BooksUnmoved
  <2>2. CASE row' # row
    <3>1. op.state = "none" /\ row' = Finalized(kind = "fail")
      BY <2>2 DEF SaleFinalize, Finalize, apdb
    <3>2. ~Evidence /\ ~AllRecorded /\ Closing = row
      BY <3>1, SaleState DEF SaleBooks, EffectsOfOperation, Evidence, AllRecorded, Closing
    <3>3. row' = InState(row, "failed")
      BY <2>2, <3>1, <3>2 DEF Finalized, InState
    <3>4. row' \in Row /\ row'.state = "failed"
      BY <3>3, SaleState, RowState
    <3> QED
      BY <1>1, <3>1, <3>4, SaleState
         DEF SaleBooks, OperationOfRow, EffectsOfOperation, AsideWasAsked, Running
  <2> QED
    BY <2>1, <2>2
<1> QED
  BY <1>1, <1>2, <1>3, SaleState, AttemptState, AttemptKeeps

-----------------------------------------------------------------------------
(* The sale *)

\* A recovery that is opened or closed is one of the recoveries.
LEMMA RecoveryChanges ==
    ASSUME recovery \in Recovery
    PROVE  /\ OpenRecovery \in Recovery /\ OpenRecovery.state # "none"
           /\ CloseRecovery(recovery) \in Recovery /\ CloseRecovery(OpenRecovery) \in Recovery
           /\ recovery.state # "none" => CloseRecovery(recovery).state # "none"
<1>1. OpenRecovery \in Recovery /\ OpenRecovery.state # "none"
  BY DEF OpenRecovery, NoRecovery, Recovery
<1>2. ASSUME NEW r \in Recovery
      PROVE  CloseRecovery(r) \in Recovery /\ (r.state # "none" => CloseRecovery(r).state # "none")
  BY DEF CloseRecovery, Recovery
<1> QED
  BY <1>1, <1>2

\* The commit of the sale and of its end: with every effect, or in shadow
\* with the effects left to a recovery.
LEMMA CompletesKeeps ==
    ASSUME SaleIInv, Completes, row.state \in {"registered", "mutating"}, op.state \in {"none", "forward"}
    PROVE  /\ aplan' \in ApPlan /\ aplan'.key = aplan.key /\ row' \in Row
           /\ money' \in [matched: Nat, plain: Nat] /\ evid' \subseteq {"main", "card"} /\ cardPaid' \in Nat
           /\ cust' \in Customer /\ op' \in Operation /\ op'.state = "completed" /\ recovery' \in Recovery
           /\ SaleBooks'
<1>1. money' \in [matched: Nat, plain: Nat] /\ money'.matched = 1 /\ cardPaid' \in Nat
  <2>1. money.matched = 0
    BY DEF SaleIInv, EffectsOfOperation
  <2> QED
    BY <2>1, SaleState, AttemptState DEF Completes
<1>2. cust' \in Customer
  BY SaleState DEF Completes, Customer
<1>3. op' \in Operation /\ op'.state = "completed"
  BY SaleState DEF Completes, Operation
<1>4. /\ row' \in Row /\ row'.strict = row.strict /\ row'.card = row.card
      /\ recovery' \in Recovery
      /\ \/ row'.state = "completed" /\ evid' = {"main"} \cup (IF row.card THEN {"card"} ELSE {}) /\ UNCHANGED aplan
         \/ row'.state = "mutating" /\ evid' = {} /\ ~row.strict /\ aplan' = Used /\ May("unrecorded")
  <2>1. CASE row' = [row EXCEPT !.state = "completed"] /\ Recorded /\ recovery' = CloseRecovery(recovery) /\ UNCHANGED aplan
    <3>1. row' = InState(row, "completed")
      BY <2>1 DEF InState
    <3> QED
      BY <2>1, <3>1, SaleState, RowState, RecoveryChanges DEF Recorded
  <2>2. CASE /\ row' = [row EXCEPT !.state = "mutating"] /\ evid' = {} /\ ~row.strict /\ aplan' = Used /\ May("unrecorded")
             /\ recovery' = CloseRecovery(OpenRecovery)
    <3>1. row' = InState(row, "mutating")
      BY <2>2 DEF InState
    <3> QED
      BY <2>2, <3>1, SaleState, RowState, RecoveryChanges
  <2> QED
    BY <2>1, <2>2 DEF Completes
<1>5. aplan' \in ApPlan /\ aplan'.key = aplan.key
  BY <1>4, SaleState, UsedPlan
<1>6. evid' \subseteq {"main", "card"}
  BY <1>4
<1>7. SaleBooks'
  BY <1>1, <1>3, <1>4
     DEF SaleBooks, OperationOfRow, EffectsOfOperation, AsideWasAsked, Running, AllRecorded
<1> QED
  BY <1>1, <1>2, <1>3, <1>4, <1>5, <1>6, <1>7

\* The production call of an approval that has no operation yet.
LEMMA FreshSaleKeeps ==
    ASSUME SaleIInv, NEW a \in Attempts, FreshSale(a), row.state = "registered", op.state = "none",
           UNCHANGED <<runtime, wphase, reading, live, look>>
    PROVE  SaleIInv'
<1>1. CASE Completes /\ Sells(a)
  <2>1. threads' \in [Attempts -> {"none", "cancel", "wait"}] /\ UNCHANGED <<calls, pend, ap>>
    BY <1>1, AttemptState DEF Sells
  <2>2. /\ aplan' \in ApPlan /\ aplan'.key = aplan.key /\ row' \in Row
        /\ money' \in [matched: Nat, plain: Nat] /\ evid' \subseteq {"main", "card"} /\ cardPaid' \in Nat
        /\ cust' \in Customer /\ op' \in Operation /\ op'.state = "completed" /\ recovery' \in Recovery
        /\ SaleBooks'
    BY <1>1, CompletesKeeps
  <2>3. Moves(a) /\ CardOfSale(a)'
    BY <2>1, <2>2, SilentCall
  <2> QED
    BY <2>1, <2>2, <2>3, AttemptState, AttemptKeeps
<1>2. CASE /\ CannotComplete /\ threads' = [threads EXCEPT ![a] = "cancel"]
           /\ UNCHANGED <<row, money, evid, cardPaid, cust, op, recovery, calls, pend, ap>>
  <2>1. threads' \in [Attempts -> {"none", "cancel", "wait"}]
    BY <1>2, AttemptState
  <2>2. aplan' \in ApPlan /\ aplan'.key = aplan.key
    BY <1>2, SaleState, UsedPlan DEF CannotComplete
  <2>3. Moves(a) /\ CardOfSale(a)' /\ SaleBooks'
    BY <1>2, SilentCall, SaleState, BooksUnmoved
  <2> QED
    BY <1>2, <2>1, <2>2, <2>3, SaleState, AttemptState, AttemptKeeps
<1>3. CASE /\ row' = [row EXCEPT !.state = "mutating"] /\ op' = [NoOperation EXCEPT !.state = "forward"] /\ Sells(a)
           /\ UNCHANGED <<aplan, money, evid, cardPaid, cust, recovery>>
  <2>1. threads' \in [Attempts -> {"none", "cancel", "wait"}] /\ UNCHANGED <<calls, pend, ap>>
    BY <1>3, AttemptState DEF Sells
  <2>2. row' \in Row /\ row'.state = "mutating"
    <3>1. row' = InState(row, "mutating")
      BY <1>3 DEF InState
    <3> QED
      BY <3>1, SaleState, RowState
  <2>3. op' \in Operation /\ op'.state = "forward"
    BY <1>3 DEF NoOperation, Operation
  <2>4. SaleBooks'
    BY <1>3, <2>2, <2>3, SaleState
       DEF SaleBooks, OperationOfRow, EffectsOfOperation, AsideWasAsked, Running
  <2>5. Moves(a) /\ CardOfSale(a)'
    BY <2>1, SilentCall
  <2> QED
    BY <1>3, <2>1, <2>2, <2>3, <2>4, <2>5, SaleState, AttemptState, AttemptKeeps
<1> QED
  BY <1>1, <1>2, <1>3 DEF FreshSale

\* The production call, with and without an approval.
LEMMA SellKeeps ==
    ASSUME SaleIInv, NEW a \in Attempts, Sell(a)
    PROVE  SaleIInv'
<1>1. UNCHANGED <<runtime, wphase, reading, live, look>>
  BY DEF Sell
<1>2. CASE ~Told(a)
  <2>1. PlainSale(a) /\ UNCHANGED <<aplan, row, evid, cardPaid, op, recovery, threads>>
    BY <1>2 DEF Sell, Told
  <2>2. Moves(a) /\ CardOfSale(a)'
    BY <1>2, <2>1, RefusedCall, AcceptedCall DEF PlainSale
  <2>3. money' \in [matched: Nat, plain: Nat] /\ money'.matched = money.matched /\ cust' \in Customer
    <3>1. CASE UNCHANGED <<money, cust>>
      BY <3>1, SaleState
    <3>2. CASE money' = [money EXCEPT !.plain = @ + 1] /\ cust' = [cust EXCEPT !.exists = TRUE]
      <4>1. money' \in [matched: Nat, plain: Nat] /\ money'.matched = money.matched
        BY <3>2, SaleState
      <4>2. cust' \in Customer
        BY <3>2, SaleState DEF Customer
      <4> QED
        BY <4>1, <4>2
    <3> QED
      BY <2>1, <3>1, <3>2 DEF PlainSale
  <2>4. SaleBooks'
    BY <2>1, <2>3, SaleState DEF SaleBooks, OperationOfRow, EffectsOfOperation, AsideWasAsked, Running, AllRecorded
  <2> QED
    BY <1>1, <2>1, <2>2, <2>3, <2>4, SaleState, AttemptState, AttemptKeeps
<1>3. CASE NotAccepted(a) /\ UNCHANGED <<aplan, apdb, cust, op, recovery, threads>>
  <2>1. UNCHANGED <<row, money, evid, cardPaid>>
    BY <1>3 DEF apdb
  <2> QED
    BY <1>1, <1>3, <2>1, RefusedCall, BooksUnmoved, SaleState, AttemptState, AttemptKeeps
<1>4. CASE /\ threads' = [threads EXCEPT ![a] = "wait"] \/ threads' = [threads EXCEPT ![a] = "cancel"]
           /\ UNCHANGED <<aplan, apdb, cust, op, recovery, calls, pend, ap>>
  <2>1. UNCHANGED <<row, money, evid, cardPaid>>
    BY <1>4 DEF apdb
  <2>2. threads' \in [Attempts -> {"none", "cancel", "wait"}]
    BY <1>4, AttemptState
  <2> QED
    BY <1>1, <1>4, <2>1, <2>2, SilentCall, BooksUnmoved, SaleState, AttemptState, AttemptKeeps
<1>5. CASE FreshSale(a) /\ Executable(a) /\ op.state = "none"
  <2>1. row.state = "registered"
    BY <1>5 DEF Executable
  <2> QED
    BY <1>1, <1>5, <2>1, FreshSaleKeeps
<1> QED
  BY <1>2, <1>3, <1>4, <1>5 DEF Sell, Told, Sells

-----------------------------------------------------------------------------
(* The operation, the superadmin and the world *)

\* A step that moves no attempt and keeps the books and the types keeps the invariant.
LEMMA OperationKeeps ==
    ASSUME SaleIInv, UNCHANGED <<runtime, wphase, pend, calls, reading, ap, look, threads>>,
           live' \in [Keys -> BOOLEAN],
           aplan' \in ApPlan, aplan'.key = aplan.key, row' \in Row, money' \in [matched: Nat, plain: Nat],
           evid' \subseteq {"main", "card"}, cardPaid' \in Nat, cust' \in Customer, op' \in Operation,
           recovery' \in Recovery, SaleBooks', op.state = "completed" => op'.state = "completed"
    PROVE  SaleIInv'
<1>1. BotTypes'
  BY DEF SaleIInv, BotTypes, TopTypeOK, TopRecords, Row
<1>2. SaleRecords'
  BY DEF SaleIInv, SaleRecords, Keys, KeyOf
<1> QED
  BY <1>1, <1>2, CardsUnmoved, SaleParts DEF SaleTypes

\* The invariant's parts that such a step may leave alone.
LEMMA OperationState ==
    ASSUME SaleIInv
    PROVE  /\ live \in [Keys -> BOOLEAN] /\ evid \subseteq {"main", "card"} /\ cardPaid \in Nat
           /\ aplan.key = aplan.key
  BY DEF SaleIInv, BotTypes, TopTypeOK, SaleRecords

\* Only an operation that runs is moved from state to state.
LEMMA TickKeeps ==
    ASSUME SaleIInv, Tick
    PROVE  SaleIInv'
<1> USE DEF opparts, opend, apdb, custdb
<1>1. /\ UNCHANGED <<runtime, wphase, pend, calls, reading, ap, look, threads, live>>
      /\ op.state \in {"forward", "compensating"}
  BY DEF Tick, LoseBinding, GiveUp, BeginCall, CallReturns, TFinal, TFinalFails, RemoveRemote, TComp, MayProceed, Forward
<1>2. row.state = "mutating" /\ money.matched = 0 /\ evid = {}
  BY <1>1 DEF SaleIInv, OperationOfRow, EffectsOfOperation, Running
<1>3. CASE TFinal
  <2>1. Completes /\ op.state = "forward"
    BY <1>3 DEF TFinal, MayProceed, Forward
  <2> QED
    BY <1>1, <1>2, <2>1, CompletesKeeps, OperationState, OperationKeeps
<1>4. CASE GiveUp \/ TFinalFails \/ BeginCall \/ CallReturns \/ RemoveRemote
  <2>1. UNCHANGED <<row, money, evid, cardPaid, cust, recovery>> /\ (aplan' = aplan \/ (aplan' = Used /\ \E e \in {"fail", "unrecorded"} : May(e)))
    BY <1>4 DEF GiveUp, TFinalFails, BeginCall, CallReturns, RemoveRemote, CannotComplete
  <2>2. aplan' \in ApPlan /\ aplan'.key = aplan.key
    BY <2>1, SaleState, UsedPlan
  <2>3. op' \in Operation /\ op'.state \in {"forward", "compensating"}
    <3>1. op' = [op EXCEPT !.state = "compensating"] \/ \E r \in {"none", "calling", "made"} : op' = [op EXCEPT !.remote = r]
      BY <1>4 DEF GiveUp, TFinalFails, BeginCall, CallReturns, RemoveRemote
    <3> QED
      BY <1>1, <3>1, SaleState DEF Operation
  <2>4. SaleBooks'
    BY <1>1, <1>2, <2>1, <2>3 DEF SaleBooks, OperationOfRow, EffectsOfOperation, AsideWasAsked, Running
  <2> QED
    BY <1>1, <2>1, <2>2, <2>3, <2>4, OperationState, SaleState, OperationKeeps
<1>5. CASE PutAside /\ UNCHANGED <<aplan, row, money, evid, cardPaid, cust>>
  <2>1. op' \in Operation /\ op'.state = "cleanup" /\ recovery' \in Recovery /\ recovery'.state # "none"
    BY <1>5, SaleState, RecoveryChanges DEF PutAside, Operation
  <2>2. SaleBooks'
    BY <1>2, <1>5, <2>1 DEF SaleBooks, OperationOfRow, EffectsOfOperation, AsideWasAsked, Running
  <2> QED
    BY <1>1, <1>5, <2>1, <2>2, OperationState, SaleState, OperationKeeps
<1>6. CASE /\ op' = [op EXCEPT !.state = "compensated"] /\ row' = [row EXCEPT !.state = "failed"]
           /\ recovery' = CloseRecovery(recovery) /\ op.remote = "none"
           /\ UNCHANGED <<aplan, money, evid, cardPaid, cust>>
  <2>1. op' \in Operation /\ op'.state = "compensated" /\ op'.remote = "none" /\ recovery' \in Recovery
    BY <1>6, SaleState, RecoveryChanges DEF Operation
  <2>2. row' = InState(row, "failed")
    BY <1>6 DEF InState
  <2>3. row' \in Row /\ row'.state = "failed"
    BY <2>2, SaleState, RowState
  <2>4. SaleBooks'
    BY <1>2, <1>6, <2>1, <2>3 DEF SaleBooks, OperationOfRow, EffectsOfOperation, AsideWasAsked, Running
  <2> QED
    BY <1>1, <1>6, <2>1, <2>3, <2>4, OperationState, SaleState, OperationKeeps
<1> QED
  BY <1>3, <1>4, <1>5, <1>6 DEF Tick, LoseBinding, TComp

\* The superadmin's answer to a recovery.
LEMMA DecisionKeeps ==
    ASSUME SaleIInv, AcceptRecorded \/ \E decision \in {"continue", "cancel"} : Decide(decision)
    PROVE  SaleIInv'
<1> USE DEF opparts, apdb, custdb
<1>1. /\ UNCHANGED <<runtime, wphase, pend, calls, reading, ap, look, threads, live, aplan, money, evid, cardPaid, cust>>
  BY DEF AcceptRecorded, Decide
<1>2. CASE AcceptRecorded
  <2>1. op' = op /\ op.state = "completed" /\ row.state \in {"mutating", "completed"}
    BY <1>2 DEF AcceptRecorded, SaleIInv, OperationOfRow
  <2>2. row' = InState(row, "completed")
    BY <1>2, <2>1, SaleState DEF AcceptRecorded, InState, Row
  <2>3. row' \in Row /\ row'.state = "completed" /\ row'.strict = row.strict /\ row'.card = row.card
    BY <2>2, SaleState, RowState
  <2>4. recovery' \in Recovery
    BY <1>2, SaleState DEF AcceptRecorded, Recovery
  <2>5. SaleBooks'
    BY <1>1, <2>1, <2>3, SaleState
       DEF SaleBooks, OperationOfRow, EffectsOfOperation, AsideWasAsked, Running, AllRecorded
  <2> QED
    BY <1>1, <2>1, <2>3, <2>4, <2>5, OperationState, SaleState, OperationKeeps
<1>3. CASE \E decision \in {"continue", "cancel"} : Decide(decision)
  <2>1. /\ UNCHANGED row /\ op.state = "cleanup" /\ recovery' = [recovery EXCEPT !.state = "running"]
        /\ op' = [op EXCEPT !.state = "forward"] \/ op' = [op EXCEPT !.state = "compensating"]
    BY <1>3 DEF Decide
  <2>2. op' \in Operation /\ op'.state \in {"forward", "compensating"} /\ recovery' \in Recovery
    BY <2>1, SaleState DEF Operation, Recovery
  <2>3. SaleBooks'
    BY <1>1, <2>1, <2>2, SaleState DEF SaleBooks, OperationOfRow, EffectsOfOperation, AsideWasAsked, Running
  <2> QED
    BY <1>1, <2>1, <2>2, <2>3, OperationState, SaleState, OperationKeeps
<1> QED
  BY <1>2, <1>3

\* Keys, the frozen manifest, the deadline and the month: none is in the books.
LEMMA WorldOfSaleKeeps ==
    ASSUME SaleIInv, (\E k \in Keys : ToggleKey(k)) \/ Drift \/ Deadline \/ MonthPasses
    PROVE  SaleIInv'
<1> USE DEF opparts, apdb, custdb
<1>1. /\ UNCHANGED <<runtime, wphase, pend, calls, reading, ap, look, threads, row, money, evid, cardPaid>>
      /\ aplan' = Used /\ \E e \in {"revoke", "drift", "late"} : May(e)
  BY DEF ToggleKey, Drift, Deadline, MonthPasses
<1>2. aplan' \in ApPlan /\ aplan'.key = aplan.key
  BY <1>1, SaleState, UsedPlan
<1>3. /\ live' = live \/ \E k \in Keys : live' = [live EXCEPT ![k] = ~@]
      /\ cust' = cust \/ cust' = [cust EXCEPT !.drift = TRUE]
      /\ op' = op \/ op' = [op EXCEPT !.late = TRUE]
      /\ recovery' = recovery \/ recovery' = [recovery EXCEPT !.aged = TRUE]
  BY DEF ToggleKey, Drift, Deadline, MonthPasses
<1>4. live' \in [Keys -> BOOLEAN]
  BY <1>3, OperationState
<1>5. cust' \in Customer
  BY <1>3, SaleState DEF Customer
<1>6. op' \in Operation /\ op'.state = op.state /\ op'.remote = op.remote
  BY <1>3, SaleState DEF Operation
<1>7. recovery' \in Recovery /\ recovery'.state = recovery.state
  BY <1>3, SaleState DEF Recovery
<1>8. SaleBooks'
  BY <1>1, <1>6, <1>7, SaleState DEF SaleBooks, OperationOfRow, EffectsOfOperation, AsideWasAsked, Running, AllRecorded
<1> QED
  BY <1>1, <1>2, <1>4, <1>5, <1>6, <1>7, <1>8, OperationState, SaleState, OperationKeeps

\* The modes, the wallet's phase, the operator's rejection and the first tap.
LEMMA SaleAdminKeeps ==
    ASSUME SaleIInv, SaleAdmin \/ SaleActivate
    PROVE  SaleIInv'
<1>1. UNCHANGED <<row, money, evid, cardPaid, live, cust, look, op, recovery, threads, reading>>
  BY DEF SaleAdmin, SaleActivate, salevars, RejectPending, Activate, Deactivate, EnforceWallet, RollbackWallet,
         KeysChange, SetMode, StartAttempt, apdb
<1>2. SaleBooks'
  BY <1>1, SaleState, BooksUnmoved
<1>3. CASE \E a \in Attempts : StartAttempt(a)
  <2>1. PICK a \in Attempts : StartAttempt(a)
    BY <1>3
  <2>2. /\ UNCHANGED <<aplan, runtime, wphase>> /\ pend' = "processing"
        /\ ap[a].pc = "idle" /\ ap' = [ap EXCEPT ![a].pc = "begin"] /\ calls' = calls \cup {<<"begin", a>>}
    BY <2>1 DEF StartAttempt, Waits, Calls
  <2>3. BotTypes'
    BY <1>1, <2>2, SaleState DEF BotTypes, TopTypeOK, TopRecords, Attempt
  <2>4. SaleRecords'
    BY <1>1, <2>2 DEF SaleIInv, SaleRecords, Keys, KeyOf
  <2>5. ASSUME NEW b \in Attempts PROVE CardOfSale(b)'
    <3>1. CardOfSale(b)
      BY DEF SaleIInv
    <3> QED
      BY <1>1, <2>2, <3>1, SaleState DEF CardOfSale, Told, BotTypes, TopRecords, Attempt
  <2> QED
    BY <1>2, <2>3, <2>4, <2>5, SaleParts DEF SaleTypes
<1>4. CASE \/ RejectPending \/ Activate \/ Deactivate \/ EnforceWallet \/ RollbackWallet \/ KeysChange
           \/ \E mode \in {"off", "shadow"} : SetMode(mode)
  <2>1. /\ \E e \in {"modes", "keys", "reject"} : May(e)
        /\ aplan' = Used /\ UNCHANGED <<calls, ap>>
        /\ pend' = pend \/ pend' = "rejected"
    BY <1>4 DEF RejectPending, Activate, Deactivate, EnforceWallet, RollbackWallet, KeysChange, SetMode
  <2>2. aplan' \in ApPlan /\ aplan'.key = aplan.key
    BY <2>1, SaleState, UsedPlan
  <2>3. runtime' \in [mode: {"off", "shadow", "required"}, ready: BOOLEAN] /\ wphase' \in {"normal", "enforced"}
    BY <1>4, SaleState DEF BotTypes, TopRecords, TopTypeOK, RejectPending, Activate, Deactivate, EnforceWallet,
                           RollbackWallet, KeysChange, SetMode
  <2>4. BotTypes'
    BY <1>1, <2>1, <2>2, <2>3, SaleState DEF BotTypes, TopTypeOK, TopRecords
  <2>5. SaleRecords'
    BY <1>1, <2>2 DEF SaleIInv, SaleRecords, Keys, KeyOf
  <2> QED
    BY <1>1, <1>2, <2>1, <2>4, <2>5, CardsUnmoved, SaleParts DEF SaleTypes
<1> QED
  BY <1>3, <1>4 DEF SaleAdmin, SaleActivate

-----------------------------------------------------------------------------
(* Theorems *)

\* The initial states satisfy the invariant.
LEMMA SaleStart == ApInit(SalePlans) /\ SaleInit => SaleIInv
<1> SUFFICES ASSUME ApInit(SalePlans), SaleInit PROVE SaleIInv
  OBVIOUS
<1>1. aplan \in ApPlan
  BY DEF ApInit
<1>2. TopRecords
  BY <1>1 DEF ApInit, TopRecords, ApPlan, NoRow, Row, Attempt
<1>3. TopTypeOK
  BY <1>1 DEF ApInit, TopTypeOK, ApPlan, NoRow
<1>4. SaleRecords
  BY <1>1 DEF SaleInit, SaleRecords, ApPlan, Customer, Shapes, NoOperation, Operation, NoRecovery, Recovery
<1>5. OperationOfRow /\ EffectsOfOperation /\ AsideWasAsked
  BY DEF ApInit, SaleInit, OperationOfRow, EffectsOfOperation, AsideWasAsked, NoOperation, NoRow, Running
<1>6. ASSUME NEW a \in Attempts PROVE CardOfSale(a)
  BY DEF ApInit, CardOfSale, Told
<1> QED
  BY <1>2, <1>3, <1>4, <1>5, <1>6 DEF SaleIInv, BotTypes

\* Every step keeps it.
LEMMA SaleStep == SaleIInv /\ [SaleNext]_<<topvars, salevars>> => SaleIInv'
<1> SUFFICES ASSUME SaleIInv, [SaleNext]_<<topvars, salevars>> PROVE SaleIInv'
  OBVIOUS
<1>1. CASE SaleNext
  <2>1. CASE \E a \in Attempts : SaleTimesOut(a) \/ SalePanel(a)
    BY <2>1, SaleTimeoutKeeps, SaleBeginKeeps, SaleInsertKeeps, SellKeeps, CancelKeeps, AnswerOfSaleKeeps,
       SaleCardKeeps, SaleFinalizeKeeps, KeyRefusedKeeps DEF SalePanel
  <2>2. CASE ~\E a \in Attempts : SaleTimesOut(a) \/ SalePanel(a)
    BY <1>1, <2>2, SaleAdminKeeps, TickKeeps, DecisionKeeps, WorldOfSaleKeeps DEF SaleNext
  <2> QED
    BY <2>1, <2>2
<1>2. CASE UNCHANGED <<topvars, salevars>>
  BY <1>2 DEF topvars, salevars, SaleIInv, BotTypes, TopTypeOK, TopRecords, SaleRecords, OperationOfRow,
              EffectsOfOperation, AsideWasAsked, CardOfSale, Told, Running, AllRecorded, Keys, KeyOf
<1> QED
  BY <1>1, <1>2

\* Every reachable state satisfies the inductive invariant: what the operation
\* of an approved sale has come to, and what its row tells, fit each other.
THEOREM SaleApprovalInductive == ApprovedSaleSpec => []SaleIInv
  BY SaleStart, SaleStep, PTL DEF ApprovedSaleSpec

\* However many attempts, takeovers, late calls and decided recoveries there
\* are: a receipt sells once, an approval that is open or closed without a sale
\* left nothing behind, and an operation put aside has its recovery opened.
THEOREM SellsOnceOrNotAtAll == ApprovedSaleSpec => []SaleApprovalInv
<1>1. SaleIInv => SaleApprovalInv
  <2> SUFFICES ASSUME SaleIInv PROVE SaleApprovalInv
    OBVIOUS
  <2>1. SaleTypeOK
    BY DEF SaleIInv, SaleRecords, SaleTypeOK, Customer, Shapes, Operation, Recovery
  <2>2. SoldOnce
    BY DEF SaleIInv, OperationOfRow, EffectsOfOperation, SoldOnce, SaleRecords, Operation, Running
  <2>3. OpenMeansUntouched
    BY DEF SaleIInv, OperationOfRow, EffectsOfOperation, OpenMeansUntouched, SaleRecords, Operation, Running
  <2> QED
    BY <2>1, <2>2, <2>3 DEF SaleApprovalInv, SaleIInv
<1> QED
  BY <1>1, SaleApprovalInductive, PTL

\* A commit of the sale or of its failure asks for the binding in the same step.
LEMMA CommitsAreBound ==
    ASSUME SaleIInv, SaleNext,
           money'.matched > money.matched \/ (row.state = "mutating" /\ row'.state = "failed")
    PROVE  live[row.key] \/ recovery.state = "running"
<1>1. row \in Row /\ money \in [matched: Nat, plain: Nat]
  BY SaleState
<1>2. CASE \E a \in Attempts : Sell(a)
  <2>1. PICK a \in Attempts : Sell(a)
    BY <1>2
  <2>2. live[KeyOf(a)]
    BY <2>1 DEF Sell, Admitted
  <2>3. Executable(a)
    BY <1>1, <2>1 DEF Sell, PlainSale, apdb
  <2> QED
    BY <2>2, <2>3 DEF Executable
<1>3. CASE Tick
  <2>1. TFinal \/ (TComp /\ Bound)
    BY <1>1, <1>3 DEF Tick, LoseBinding, GiveUp, BeginCall, CallReturns, TFinalFails, RemoveRemote, TComp, apdb
  <2> QED
    BY <2>1 DEF TFinal, MayProceed, Bound
<1>4. ASSUME ~\E a \in Attempts : Sell(a), ~Tick PROVE FALSE
  <2>1. money'.matched = money.matched
    BY <1>1, <1>4 DEF SaleNext, SalePanel, SaleTimesOut, TimesOut, SaleBegin, BeginReads, SaleInsert, BeginInserts,
           KeyRefused, CancelApproval, Answer, SaleCard, RecordCard, SaleFinalize, Finalize, SaleAdmin, SaleActivate,
           RejectPending, Activate, Deactivate, EnforceWallet, RollbackWallet, KeysChange, SetMode, StartAttempt,
           AcceptRecorded, Decide, ToggleKey, Drift, Deadline, MonthPasses, apdb
  <2>2. row.state = "mutating" /\ row'.state = "failed" /\ row' # row
    BY <1>1, <2>1
  <2>3. op.state # "none" /\ row.state # "failed"
    BY <2>2 DEF SaleIInv, OperationOfRow
  <2>4. CASE \E a \in Attempts : SaleBegin(a)
    <3>1. PICK a \in Attempts : SaleBegin(a)
      BY <2>4
    <3>2. row' = Registered(a)
      BY <2>2, <3>1 DEF SaleBegin, BeginReads
    <3> QED
      BY <2>2, <3>2 DEF Registered, OpenRow
  <2>5. CASE \E a \in Attempts : SaleInsert(a)
    BY <2>2, <2>5 DEF SaleInsert, BeginInserts, Absent
  <2>6. CASE \E a \in Attempts : CancelApproval(a)
    BY <2>2, <2>6 DEF CancelApproval, Cancellable
  <2>7. CASE \E a \in Attempts : SaleCard(a)
    <3>1. PICK a \in Attempts : SaleCard(a)
      BY <2>7
    <3>2. RecordCard(a)
      BY <2>2, <3>1 DEF SaleCard, apdb
    <3>3. row' = [row EXCEPT !.state = IF @ = "registered" THEN "mutating" ELSE @]
      BY <2>2, <3>2 DEF RecordCard
    <3> QED
      BY <1>1, <2>2, <3>3 DEF Row
  <2>8. CASE \E a \in Attempts, kind \in {"finish", "fail"} : SaleFinalize(a, kind)
    BY <2>2, <2>3, <2>8 DEF SaleFinalize, apdb
  <2>9. CASE AcceptRecorded
    BY <1>1, <2>2, <2>9 DEF AcceptRecorded, Row
  <2> QED
    BY <1>4, <2>2, <2>4, <2>5, <2>6, <2>7, <2>8, <2>9
       DEF SaleNext, SalePanel, SaleTimesOut, TimesOut, KeyRefused, Answer, SaleAdmin, SaleActivate,
           RejectPending, Activate, Deactivate, EnforceWallet, RollbackWallet, KeysChange, SetMode, StartAttempt,
           Decide, ToggleKey, Drift, Deadline, MonthPasses, apdb
<1> QED
  BY <1>2, <1>3, <1>4

\* The sale and its end commit only under the binding of its first transaction,
\* or under a recovery that a superadmin set running.
THEOREM CommitsUnderTheBinding == ApprovedSaleSpec => OnlyUnderTheBinding
<1>1. SaleIInv /\ [SaleNext]_<<topvars, salevars>> =>
        [(money.matched' > money.matched \/ (row.state = "mutating" /\ row'.state = "failed")) =>
            live[row.key] \/ recovery.state = "running"]_<<topvars, salevars>>
  BY CommitsAreBound
<1> QED
  BY <1>1, SaleApprovalInductive, PTL DEF ApprovedSaleSpec, OnlyUnderTheBinding
=============================================================================
