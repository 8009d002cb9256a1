----------------------------- MODULE Nodes_proofs -----------------------------
(*****************************************************************************)
(* Theorems about the modules MCNodes checks together: the gate in front of  *)
(* every write of a node, and the update of the panel.                       *)
(*****************************************************************************)
EXTENDS NodeGate, SafeUpdate, FiniteSetTheorems, TLAPS

-----------------------------------------------------------------------------
(*****************************************************************************)
(* NodeGate, for any hosts, processes and deployments and any number of      *)
(* changes of the mode and of the owner.                                     *)
(*****************************************************************************)

-----------------------------------------------------------------------------
(* The inductive invariant *)

\* The changes of the mode, which GateTypeOK leaves to their pcs.
ChangeRecord == [pc : {"idle", "started", "locked", "marked", "committed"},
                 to : Modes, from : Modes, seen : Rows \cup {NoRow}]

ChangeTypeOK == change \in [GateProcs -> ChangeRecord]

\* Epochs only grow, so that nobody knows one the row has not had.
EpochsKnown(p) ==
    /\ writer[p].rt.epoch <= row.epoch
    /\ cache[p].epoch <= row.epoch
    /\ writer[p].owned <= row.owned

\* A child, and the writer that waits for one, holds its host's gate-mode lock
\* shared; nobody does while a change holds it.
LocksHeld(p) ==
    /\ writer[p].pc \in ChildPcs \cup {"dispatch"} => writer[p].lock
    /\ writer[p].lock => writer[p].pc \in ChildPcs \cup {"dispatch", "inside", "sending"}
    /\ writer[p].hold => writer[p].pc = "sending"
    /\ Shares(p) => Open(placed[p])
    /\ change[p].pc \in {"locked", "marked", "committed"} => exclusive[placed[p]] = p

\* A child whose epochs are still the row's is the active owner's.
ChildKnows(p) ==
    writer[p].pc \in ChildPcs /\ row.epoch = writer[p].rt.epoch /\ row.owned = writer[p].owned
      => Owns(p, writer[p].rt.epoch, writer[p].owned)

\* After its one late write a child is refused at the next authorisation: its
\* session is lost or its epochs are not the row's.
LateStops(p) ==
    writer[p].late # 0 =>
        /\ writer[p].late = 1 /\ writer[p].pc = "gated"
        /\ ~(writer[p].adv /\ row.epoch = writer[p].rt.epoch /\ row.owned = writer[p].owned)

\* A change that is to be committed was allowed for the row it has seen; it
\* raises the mode only for an active owner on its own host.
ChangeAllowed(p) ==
    /\ change[p].pc \in {"marked", "committed"} => modeFile[placed[p]] = Changing
    /\ change[p].pc \in {"started", "locked", "marked"} => change[p].to # change[p].from
    /\ change[p].pc = "marked" =>
         /\ change[p].seen # NoRow
         /\ change[p].seen.mode = change[p].from
         /\ change[p].to = "enforced" => /\ change[p].seen.state = "active"
                                         /\ change[p].seen.owner[1] = placed[p]

\* One session has the node's advisory lock, one child of a host its lock file.
OneAtTheNode ==
    \A p, q \in GateProcs :
        /\ writer[p].adv /\ writer[q].adv => p = q
        /\ writer[p].pc \in {"gated", "authorised"} /\ writer[q].pc \in {"gated", "authorised"}
             /\ placed[p] = placed[q] => p = q

\* On a single host the file is never believed: its number is not the row's.
FileAhead ==
    OneHostOnly => \A p \in GateProcs : modeFile[placed[p]] \in {NoFile, Changing, row.epoch + 1}

GateOrder ==
    /\ ChangeTypeOK
    /\ \A p \in GateProcs : EpochsKnown(p) /\ LocksHeld(p) /\ ChildKnows(p) /\ LateStops(p)
                            /\ ChangeAllowed(p)
    /\ OneAtTheNode /\ FileAhead

GateIInv == GateTypeOK /\ GateOrder /\ EnforcedHasOwner /\ ActsOnPersistedMode


-----------------------------------------------------------------------------
(* Types *)

USE GateAssumption DEF GateAssumption, ChildPcs, Modes, NoFile, Changing

RuntimeRecord == [mode : Modes \cup {"none"}, epoch : 0..MaxGateEpoch]

\* What a process knows, and the values a writer and a change rest in.
LEMMA GateValues ==
    ASSUME GateTypeOK
    PROVE  /\ Runtime \in RuntimeRecord /\ NoRuntime \in RuntimeRecord
           /\ cache \in [GateProcs -> RuntimeRecord]
           /\ Resting \in WriterRecord /\ NoChange \in ChangeRecord
           /\ \A p \in GateProcs : Identity(p) \in GateHosts \X (0..1)
           /\ NoOwner[1] = NoProc
<1>1. Runtime \in RuntimeRecord /\ NoRuntime \in RuntimeRecord /\ cache \in [GateProcs -> RuntimeRecord]
  BY DEF GateTypeOK, Rows, Runtime, NoRuntime, RuntimeRecord
<1>2. Resting \in WriterRecord
  BY <1>1 DEF Resting, WriterRecord, RuntimeRecord
<1>3. NoChange \in ChangeRecord
  BY DEF NoChange, ChangeRecord
<1>4. \A p \in GateProcs : Identity(p) \in GateHosts \X (0..1)
  BY DEF GateTypeOK, Identity
<1>5. NoOwner[1] = NoProc
  BY DEF NoOwner
<1> QED
  BY <1>1, <1>2, <1>3, <1>4, <1>5

\* A passage leaves its writer a record of its own.
LEMMA PassMoves ==
    ASSUME GateTypeOK, NEW p \in GateProcs, NEW rt \in RuntimeRecord, NEW locked \in BOOLEAN,
           Pass(p, rt, locked)
    PROVE  \E w \in WriterRecord : Move(p, w)
<1> DEFINE in == [Resting EXCEPT !.pc = "inside", !.rt = rt, !.passage = TRUE, !.lock = locked]
<1>1. in \in WriterRecord
  BY GateValues DEF WriterRecord, RuntimeRecord
<1>2. /\ [in EXCEPT !.pc = "dispatch"] \in WriterRecord
      /\ \A b \in BOOLEAN : [in EXCEPT !.node = b] \in WriterRecord
  <2> HIDE DEF in
  <2> QED
    BY <1>1 DEF WriterRecord
<1>3. NodeFree(placed[p]) \in BOOLEAN
  BY DEF NodeFree
<1> HIDE DEF in
<1>4. \/ Move(p, [in EXCEPT !.pc = "dispatch"]) \/ Move(p, in) \/ Move(p, Resting)
      \/ Move(p, [in EXCEPT !.node = NodeFree(placed[p])])
  BY DEF Pass, Refuse, in
<1> QED
  BY <1>1, <1>2, <1>3, <1>4, GateValues

\* A writer's next record.
LEMMA WriterMoves ==
    ASSUME GateTypeOK, NEW p \in GateProcs,
           \/ Enter(p) \/ TakeModeLock(p) \/ EndWait(p) \/ Leave(p)
           \/ WriteBare(p) \/ Write(p) \/ PermitRead(p) \/ PermitFence(p) \/ Sent(p)
           \/ Dispatch(p) \/ ChildLock(p) \/ ChildAuthorise(p) \/ ChildWrite(p) \/ ChildEnd(p)
           \/ LoseSession(p)
    PROVE  /\ \E w \in WriterRecord : Move(p, w)
           /\ cache' \in [GateProcs -> RuntimeRecord]
           /\ UNCHANGED <<rowVars, exclusive, change, faultVars>>
<1> DEFINE Known == cache' \in [GateProcs -> RuntimeRecord]
           Moves == \E w \in WriterRecord : Move(p, w)
           Rest == UNCHANGED <<rowVars, exclusive, change, faultVars>>
<1>w. writer[p] \in WriterRecord
  BY DEF GateTypeOK
<1> USE GateValues DEF Refuse
<1> HIDE DEF Known, Moves, Rest
<1>1. CASE Enter(p)
  <2>1. Moves
    BY <1>1, <1>w, ZenonT(30) DEF Moves, Enter, Remember, Runtime, WriterRecord, RuntimeRecord, Resting
  <2>2. Known /\ Rest
    BY <1>1 DEF Known, Rest, Enter, Remember, Runtime
  <2> QED
    BY <2>1, <2>2 DEF Moves, Known, Rest
<1>2. CASE TakeModeLock(p)
  <2>1. Moves
    <3>1. writer[p].rt \in RuntimeRecord
      BY <1>w DEF WriterRecord, RuntimeRecord
    <3>2. [writer[p] EXCEPT !.pc = "waiting"] \in WriterRecord
      BY <1>w DEF WriterRecord
    <3> QED
      BY <1>2, <3>1, <3>2, PassMoves DEF Moves, TakeModeLock, Decide
  <2>2. Known /\ Rest
    BY <1>2 DEF Known, Rest, TakeModeLock, Decide, Pass, Remember, Runtime
  <2> QED
    BY <2>1, <2>2 DEF Moves, Known, Rest
<1>3. CASE EndWait(p)
  <2>1. Moves
    BY <1>3, PassMoves DEF Moves, EndWait
  <2>2. Known /\ Rest
    BY <1>3 DEF Known, Rest, EndWait, Pass, Remember, Runtime
  <2> QED
    BY <2>1, <2>2 DEF Moves, Known, Rest
<1>4. CASE Leave(p)
  <2>1. Moves
    BY <1>4, <1>w DEF Moves, Leave, WriterRecord, RuntimeRecord, Resting
  <2>2. Known /\ Rest
    BY <1>4 DEF Known, Rest, Leave
  <2> QED
    BY <2>1, <2>2 DEF Moves, Known, Rest
<1>5. CASE WriteBare(p)
  <2>1. Moves
    BY <1>5, <1>w DEF Moves, WriteBare, WriterRecord, RuntimeRecord, Resting
  <2>2. Known /\ Rest
    BY <1>5 DEF Known, Rest, WriteBare
  <2> QED
    BY <2>1, <2>2 DEF Moves, Known, Rest
<1>6. CASE Write(p)
  <2>1. Moves
    BY <1>6, <1>w DEF Moves, Write, WriterRecord, RuntimeRecord, Resting
  <2>2. Known /\ Rest
    BY <1>6 DEF Known, Rest, Write
  <2> QED
    BY <2>1, <2>2 DEF Moves, Known, Rest
<1>7. CASE PermitRead(p)
  <2>1. Moves
    BY <1>7, <1>w DEF Moves, PermitRead, Runtime, WriterRecord, RuntimeRecord, Resting
  <2>2. Known /\ Rest
    BY <1>7 DEF Known, Rest, PermitRead, Runtime
  <2> QED
    BY <2>1, <2>2 DEF Moves, Known, Rest
<1>8. CASE PermitFence(p)
  <2>1. Moves
    <3> DEFINE mode == FencedMode(p, usable[p])
               sent == [writer[p] EXCEPT !.pc = "sending", !.hold = usable[p], !.rt.mode = mode]
    <3>1. Move(p, Resting) \/ (mode \in {"off", "shadow"} /\ Move(p, sent))
      BY <1>8 DEF PermitFence, Sendable
    <3>2. usable[p] \in BOOLEAN
      BY DEF GateTypeOK
    <3>3. mode \in {"off", "shadow"} => sent \in WriterRecord
      <4> HIDE DEF mode
      <4> QED
        BY <1>w, <3>2 DEF WriterRecord
    <3> QED
      BY <3>1, <3>3 DEF Moves
  <2>2. Known /\ Rest
    BY <1>8 DEF Known, Rest, PermitFence, FencedMode, Sendable
  <2> QED
    BY <2>1, <2>2 DEF Moves, Known, Rest
<1>9. CASE Sent(p)
  <2>1. Moves
    BY <1>9, <1>w DEF Moves, Sent, WriterRecord, RuntimeRecord, Resting
  <2>2. Known /\ Rest
    BY <1>9 DEF Known, Rest, Sent
  <2> QED
    BY <2>1, <2>2 DEF Moves, Known, Rest
<1>10. CASE Dispatch(p)
  <2>1. Moves
    BY <1>10, <1>w DEF Moves, Dispatch, GateTypeOK, Rows, WriterRecord, RuntimeRecord, Resting
  <2>2. Known /\ Rest
    BY <1>10 DEF Known, Rest, Dispatch
  <2> QED
    BY <2>1, <2>2 DEF Moves, Known, Rest
<1>11. CASE ChildLock(p)
  <2>1. Moves
    BY <1>11, <1>w DEF Moves, ChildLock, WriterRecord, RuntimeRecord, Resting
  <2>2. Known /\ Rest
    BY <1>11 DEF Known, Rest, ChildLock
  <2> QED
    BY <2>1, <2>2 DEF Moves, Known, Rest
<1>12. CASE ChildAuthorise(p)
  <2>1. Moves
    BY <1>12, <1>w DEF Moves, ChildAuthorise, WriterRecord, RuntimeRecord, Resting
  <2>2. Known /\ Rest
    BY <1>12 DEF Known, Rest, ChildAuthorise
  <2> QED
    BY <2>1, <2>2 DEF Moves, Known, Rest
<1>13. CASE ChildWrite(p)
  <2>1. Moves
    <3> DEFINE late == IF Backed(p) THEN writer[p].late
                       ELSE IF writer[p].late < 2 THEN writer[p].late + 1 ELSE writer[p].late
               w == [writer[p] EXCEPT !.pc = "gated", !.late = late]
    <3>1. late \in 0..2
      BY <1>w DEF WriterRecord
    <3>2. Move(p, w)
      BY <1>13 DEF ChildWrite
    <3>3. w \in WriterRecord
      <4> HIDE DEF late
      <4> QED
        BY <1>w, <3>1 DEF WriterRecord
    <3> QED
      BY <3>2, <3>3 DEF Moves
  <2>2. Known /\ Rest
    BY <1>13 DEF Known, Rest, ChildWrite
  <2> QED
    BY <2>1, <2>2 DEF Moves, Known, Rest
<1>14. CASE ChildEnd(p)
  <2>1. Moves
    BY <1>14, <1>w DEF Moves, ChildEnd, WriterRecord, RuntimeRecord, Resting
  <2>2. Known /\ Rest
    BY <1>14 DEF Known, Rest, ChildEnd
  <2> QED
    BY <2>1, <2>2 DEF Moves, Known, Rest
<1>15. CASE LoseSession(p)
  <2>1. Moves
    <3>1. Move(p, [writer[p] EXCEPT !.adv = FALSE])
      BY <1>15 DEF LoseSession
    <3>2. [writer[p] EXCEPT !.adv = FALSE] \in WriterRecord
      BY <1>w DEF WriterRecord
    <3> QED
      BY <3>1, <3>2 DEF Moves
  <2>2. Known /\ Rest
    BY <1>15 DEF Known, Rest, LoseSession
  <2> QED
    BY <2>1, <2>2 DEF Moves, Known, Rest
<1> QED
  BY <1>1, <1>2, <1>3, <1>4, <1>5, <1>6, <1>7, <1>8, <1>9, <1>10, <1>11, <1>12, <1>13, <1>14, <1>15
     DEF Known, Moves, Rest

-----------------------------------------------------------------------------
(* Writers *)

\* The record w keeps the invariant if p's writer takes it.
Fits(p, w) ==
    /\ w.rt.epoch <= row.epoch /\ w.owned <= row.owned
    /\ w.pc \in ChildPcs \cup {"dispatch"} => w.lock
    /\ w.lock => w.pc \in ChildPcs \cup {"dispatch", "inside", "sending"}
    /\ w.hold => w.pc = "sending"
    /\ w.lock \/ w.hold => Open(placed[p])
    /\ w.pc \in ChildPcs /\ row.epoch = w.rt.epoch /\ row.owned = w.owned
         => Owns(p, w.rt.epoch, w.owned)
    /\ w.late # 0 => /\ w.late = 1 /\ w.pc = "gated"
                     /\ ~(w.adv /\ row.epoch = w.rt.epoch /\ row.owned = w.owned)
    /\ w.adv => writer[p].adv \/ AdvisoryFree
    /\ w.pc \in {"gated", "authorised"} =>
         writer[p].pc \in {"gated", "authorised"} \/ NodeFree(placed[p])
    /\ w.pc \in {"inside", "sending"} /\ (w.lock \/ w.hold) /\ OfOwner(p) =>
         /\ row.mode = "enforced" => modeFile[placed[p]] = w.rt.epoch /\ ~OneHostOnly
         /\ OneHostOnly => w.rt.mode = row.mode

\* A step of a writer that leaves it such a record keeps the invariant.
LEMMA FittingMove ==
    ASSUME GateIInv, NEW p \in GateProcs, NEW w \in WriterRecord, Move(p, w), Fits(p, w),
           \A q \in GateProcs : cache'[q] = cache[q] \/ cache'[q].epoch <= row.epoch,
           UNCHANGED <<rowVars, exclusive, change, faultVars>>
    PROVE  GateOrder' /\ EnforcedHasOwner' /\ ActsOnPersistedMode'
<1> USE DEF GateIInv, GateTypeOK, rowVars, faultVars
<1>1. /\ writer'[p] = w
      /\ \A q \in GateProcs \ {p} : writer'[q] = writer[q]
  BY DEF Move
<1>2. ChangeTypeOK' /\ FileAhead' /\ EnforcedHasOwner'
  BY DEF GateOrder, ChangeTypeOK, FileAhead, OneHostOnly, EnforcedHasOwner
<1>3. ASSUME NEW q \in GateProcs PROVE EpochsKnown(q)'
  BY <1>1, <1>3 DEF GateOrder, EpochsKnown, Fits
<1>4. ASSUME NEW q \in GateProcs PROVE LocksHeld(q)'
  BY <1>1, <1>4 DEF GateOrder, LocksHeld, Shares, Open, Fits
<1>5. ASSUME NEW q \in GateProcs PROVE ChildKnows(q)'
  BY <1>1, <1>5 DEF GateOrder, ChildKnows, Owns, Mine, Identity, Fits
<1>6. ASSUME NEW q \in GateProcs PROVE LateStops(q)'
  BY <1>1, <1>6 DEF GateOrder, LateStops, Fits
<1>7. ASSUME NEW q \in GateProcs PROVE ChangeAllowed(q)'
  BY <1>7 DEF GateOrder, ChangeAllowed
<1>8. OneAtTheNode'
  <2>1. w.adv => writer[p].adv \/ \A q \in GateProcs : ~writer[q].adv
    BY DEF Fits, AdvisoryFree
  <2>2. w.pc \in {"gated", "authorised"} =>
          \/ writer[p].pc \in {"gated", "authorised"}
          \/ \A q \in GateProcs : placed[q] = placed[p] => writer[q].pc \notin {"gated", "authorised"}
    BY DEF Fits, NodeFree
  <2>3. \A q, r \in GateProcs :
          /\ writer[q].adv /\ writer[r].adv => q = r
          /\ writer[q].pc \in {"gated", "authorised"} /\ writer[r].pc \in {"gated", "authorised"}
               /\ placed[q] = placed[r] => q = r
    BY DEF GateOrder, OneAtTheNode
  <2>4. ASSUME NEW q \in GateProcs, NEW r \in GateProcs, writer'[q].adv, writer'[r].adv PROVE q = r
    BY <1>1, <2>1, <2>3, <2>4
  <2>5. ASSUME NEW q \in GateProcs, NEW r \in GateProcs, placed[q] = placed[r],
               writer'[q].pc \in {"gated", "authorised"}, writer'[r].pc \in {"gated", "authorised"}
        PROVE  q = r
    BY <1>1, <2>2, <2>3, <2>5
  <2> QED
    BY <2>4, <2>5 DEF OneAtTheNode
<1>9. ActsOnPersistedMode'
  BY <1>1 DEF ActsOnPersistedMode, Fenced, Shares, OfOwner, FileProves, OneHostOnly, Fits
<1> QED
  BY <1>2, <1>3, <1>4, <1>5, <1>6, <1>7, <1>8, <1>9 DEF GateOrder

\* The values of a resting writer that matter.
LEMMA RestingFields ==
    /\ Resting.pc = "idle" /\ Resting.late = 0 /\ Resting.owned = 0 /\ Resting.rt.epoch = 0
    /\ ~Resting.lock /\ ~Resting.hold /\ ~Resting.adv
  BY DEF Resting, NoRuntime

\* A passage fits that has the persisted mode, or one its file vouches for.
LEMMA PassFits ==
    ASSUME GateIInv, NEW p \in GateProcs, NEW rt \in RuntimeRecord, NEW locked \in BOOLEAN,
           Pass(p, rt, locked), locked => Open(placed[p]), rt.epoch <= row.epoch,
           locked => rt.mode = row.mode \/ (~OneHostOnly /\ modeFile[placed[p]] = rt.epoch)
    PROVE  Fits(p, writer'[p])
<1>t. Resting \in WriterRecord /\ writer \in [GateProcs -> WriterRecord] /\ row \in Rows
  BY GateValues DEF GateIInv, GateTypeOK
<1>1. CASE Refuse(p)
  <2>1. writer'[p] = Resting
    BY <1>1, <1>t DEF Refuse, Move
  <2> QED
    BY <2>1, <1>t, RestingFields DEF Fits, Rows
<1>2. CASE ~Refuse(p)
  <2> DEFINE in == [Resting EXCEPT !.pc = "inside", !.rt = rt, !.passage = TRUE, !.lock = locked]
  <2>1. \/ rt.mode = "enforced" /\ locked /\ writer'[p] = [in EXCEPT !.pc = "dispatch"]
        \/ rt.mode # "enforced" /\ writer'[p] = in
        \/ rt.mode # "enforced" /\ writer'[p] = [in EXCEPT !.node = NodeFree(placed[p])]
    BY <1>2, <1>t DEF Pass, Move
  <2>2. /\ in.pc = "inside" /\ in.rt = rt /\ in.late = 0 /\ in.owned = 0
        /\ in.lock = locked /\ ~in.hold /\ ~in.adv
        /\ in \in WriterRecord
    BY <1>t, RestingFields DEF WriterRecord, RuntimeRecord
  <2> HIDE DEF in
  <2>3. /\ \/ writer'[p].pc = "inside" /\ rt.mode # "enforced"
           \/ writer'[p].pc = "dispatch" /\ locked
        /\ writer'[p].rt = rt /\ writer'[p].late = 0 /\ writer'[p].owned = 0
        /\ writer'[p].lock = locked /\ ~writer'[p].hold /\ ~writer'[p].adv
    <3>1. CASE locked /\ writer'[p] = [in EXCEPT !.pc = "dispatch"]
      BY <3>1, <2>2 DEF WriterRecord
    <3>2. CASE rt.mode # "enforced" /\ writer'[p] = in
      BY <3>2, <2>2
    <3>3. CASE rt.mode # "enforced" /\ writer'[p] = [in EXCEPT !.node = NodeFree(placed[p])]
      BY <3>3, <2>2 DEF WriterRecord
    <3> QED
      BY <2>1, <3>1, <3>2, <3>3
  <2> QED
    BY <2>3, <1>t DEF Fits, Rows
<1> QED
  BY <1>1, <1>2

\* Every step of a writer does.
LEMMA WritersFit ==
    ASSUME GateIInv, NEW p \in GateProcs,
           \/ Enter(p) \/ TakeModeLock(p) \/ EndWait(p) \/ Leave(p)
           \/ WriteBare(p) \/ Write(p) \/ PermitRead(p) \/ PermitFence(p) \/ Sent(p)
           \/ Dispatch(p) \/ ChildLock(p) \/ ChildAuthorise(p) \/ ChildWrite(p) \/ ChildEnd(p)
           \/ LoseSession(p)
    PROVE  /\ \A w : Move(p, w) => Fits(p, w)
           /\ \A q \in GateProcs : cache'[q] = cache[q] \/ cache'[q].epoch <= row.epoch
<1> DEFINE Fit == Fits(p, writer'[p])
           Known == \A q \in GateProcs : cache'[q] = cache[q] \/ cache'[q].epoch <= row.epoch
<1>t. /\ writer[p] \in WriterRecord /\ cache[p] \in RuntimeRecord
      /\ row \in Rows /\ writer \in [GateProcs -> WriterRecord] /\ cache \in [GateProcs -> RuntimeRecord]
  BY GateValues DEF GateIInv, GateTypeOK
<1>k. /\ EpochsKnown(p) /\ LocksHeld(p) /\ ChildKnows(p) /\ LateStops(p)
      /\ Fenced(p) /\ OfOwner(p) =>
           /\ row.mode = "enforced" => FileProves(p) /\ ~OneHostOnly
           /\ OneHostOnly => writer[p].rt.mode = row.mode
      /\ OneHostOnly => modeFile[placed[p]] \in {-1, -2, row.epoch + 1}
      /\ row.epoch \in Nat
  BY DEF GateIInv, GateOrder, GateTypeOK, ActsOnPersistedMode, FileAhead, Rows
<1>r. Fits(p, Resting)
  BY <1>t DEF Fits, Resting, NoRuntime, Rows
<1> USE <1>t, RestingFields
<1> HIDE DEF Fit, Known
<1>1. ASSUME Enter(p) PROVE Fit /\ Known
  <2>1. Fit
    <3>1. PICK rt, pc : /\ pc \in {"verified", "cached"} /\ rt \in {Runtime, cache[p]}
                        /\ Move(p, [Resting EXCEPT !.pc = pc, !.rt = rt])
      BY <1>1 DEF Enter
    <3>2. rt.epoch <= row.epoch
      BY <3>1, <1>k DEF EpochsKnown, Runtime, Rows
    <3>3. writer'[p] = [Resting EXCEPT !.pc = pc, !.rt = rt]
      BY <3>1 DEF Move
    <3>4. /\ writer'[p].pc = pc /\ writer'[p].rt = rt /\ writer'[p].late = 0 /\ writer'[p].owned = 0
          /\ ~writer'[p].lock /\ ~writer'[p].hold /\ ~writer'[p].adv
      BY <3>3, GateValues DEF WriterRecord, GateIInv
    <3> QED
      BY <3>1, <3>2, <3>4 DEF Fit, Fits, Rows
  <2>2. Known
    <3>1. UNCHANGED cache \/ cache' = [cache EXCEPT ![p] = Runtime]
      BY <1>1 DEF Enter, Remember
    <3> QED
      BY <3>1 DEF Known, Runtime, Rows
  <2> QED
    BY <2>1, <2>2
<1>2. ASSUME TakeModeLock(p) PROVE Fit /\ Known
  <2>1. Fit
    <3> DEFINE rt == writer[p].rt
    <3>1. Runtime.epoch <= row.epoch /\ Runtime.mode = row.mode /\ Runtime \in RuntimeRecord
      BY GateValues DEF GateIInv, Runtime, Rows
    <3>2. rt \in RuntimeRecord /\ rt.epoch <= row.epoch
      BY <1>k DEF WriterRecord, RuntimeRecord, EpochsKnown
    <3>3. rt.epoch = modeFile[placed[p]] => ~OneHostOnly
      BY <3>2, <1>k DEF RuntimeRecord
    <3>4. \/ \E locked \in BOOLEAN : (locked => Open(placed[p])) /\ Pass(p, Runtime, locked)
          \/ rt.epoch = modeFile[placed[p]] /\ Open(placed[p]) /\ Pass(p, rt, TRUE)
          \/ Pass(p, rt, FALSE)
          \/ Refuse(p)
          \/ Move(p, [writer[p] EXCEPT !.pc = "waiting"]) /\ writer[p].pc \in {"verified", "cached"}
      BY <1>2 DEF TakeModeLock, Decide, Stale
    <3>5. ASSUME Move(p, [writer[p] EXCEPT !.pc = "waiting"]), writer[p].pc \in {"verified", "cached"}
          PROVE  Fit
      BY <3>5, <1>k DEF Fit, Fits, Move, EpochsKnown, LocksHeld, LateStops, WriterRecord
    <3>6. ASSUME Refuse(p) PROVE Fit
      BY <3>6, <1>r DEF Fit, Refuse, Move
    <3>7. ASSUME NEW locked \in BOOLEAN, locked => Open(placed[p]), Pass(p, Runtime, locked)
          PROVE  Fit
      BY <3>1, <3>7, PassFits DEF Fit
    <3>8. ASSUME rt.epoch = modeFile[placed[p]], Open(placed[p]), Pass(p, rt, TRUE) PROVE Fit
      BY <3>2, <3>3, <3>8, PassFits DEF Fit
    <3>9. ASSUME Pass(p, rt, FALSE) PROVE Fit
      BY <3>2, <3>9, PassFits DEF Fit
    <3> HIDE DEF rt
    <3> QED
      BY <3>4, <3>5, <3>6, <3>7, <3>8, <3>9
  <2>2. Known
    BY <1>2 DEF Known, TakeModeLock, Decide, Pass, Refuse, Remember, Runtime, Move, rowVars, faultVars, Resting, NoRuntime, Rows
  <2> QED
    BY <2>1, <2>2
<1>3. ASSUME EndWait(p) PROVE Fit /\ Known
  <2>1. Fit
    <3>1. Runtime.epoch <= row.epoch /\ Runtime.mode = row.mode /\ Runtime \in RuntimeRecord
      BY GateValues DEF GateIInv, Runtime, Rows
    <3>2. Refuse(p) => Fit
      BY <1>r DEF Fit, Refuse, Move
    <3> QED
      BY <1>3, <3>1, <3>2, PassFits DEF Fit, EndWait
  <2>2. Known
    BY <1>3 DEF Known, EndWait, Pass, Refuse, Remember, Runtime, Move, rowVars, faultVars, Resting, NoRuntime, Rows
  <2> QED
    BY <2>1, <2>2
<1>4. ASSUME Leave(p) PROVE Fit /\ Known
  <2>1. Fit
    BY <1>4, <1>k, <1>r DEF Fit, Fits, EpochsKnown, LocksHeld, ChildKnows, LateStops, Shares, Fenced, FileProves, Leave, Refuse, Move, rowVars, faultVars, WriterRecord, RuntimeRecord
  <2>2. Known
    BY <1>4 DEF Known, Leave, Refuse, Move, rowVars, faultVars, Resting, NoRuntime, Rows
  <2> QED
    BY <2>1, <2>2
<1>5. ASSUME WriteBare(p) PROVE Fit /\ Known
  <2>1. Fit
    BY <1>5, <1>k, <1>r DEF Fit, Fits, EpochsKnown, LocksHeld, ChildKnows, LateStops, Shares, Fenced, FileProves, WriteBare, Move, rowVars, faultVars, WriterRecord, RuntimeRecord
  <2>2. Known
    BY <1>5 DEF Known, WriteBare, Move, rowVars, faultVars, Resting, NoRuntime, Rows
  <2> QED
    BY <2>1, <2>2
<1>6. ASSUME Write(p) PROVE Fit /\ Known
  <2>1. Fit
    BY <1>6, <1>k, <1>r DEF Fit, Fits, EpochsKnown, LocksHeld, ChildKnows, LateStops, Shares, Fenced, FileProves, Write, Move, rowVars, faultVars, WriterRecord, RuntimeRecord
  <2>2. Known
    BY <1>6 DEF Known, Write, Move, rowVars, faultVars, Rows
  <2> QED
    BY <2>1, <2>2
<1>7. ASSUME PermitRead(p) PROVE Fit /\ Known
  <2>1. Fit
    <3> DEFINE rt == IF readable THEN Runtime ELSE cache[p]
    <3>1. rt.epoch <= row.epoch
      BY <1>k DEF EpochsKnown, Runtime, Rows
    <3>2. writer'[p] = Resting \/ writer'[p] = [writer[p] EXCEPT !.pc = "fence", !.rt = rt]
      BY <1>7 DEF PermitRead, Refuse, Move
    <3> HIDE DEF rt
    <3>3. writer[p].pc = "permit"
      BY <1>7 DEF PermitRead
    <3> QED
      BY <3>1, <3>2, <3>3, <1>k, <1>r, ZenonT(30) DEF Fit, Fits, EpochsKnown, LocksHeld, LateStops, WriterRecord
  <2>2. Known
    BY <1>7 DEF Known, PermitRead, Runtime, Refuse, Move, rowVars, faultVars, Resting, NoRuntime, Rows
  <2> QED
    BY <2>1, <2>2
<1>8. ASSUME PermitFence(p) PROVE Fit /\ Known
  <2>1. Fit
    <3> DEFINE mode == FencedMode(p, usable[p])
    <3>1. /\ writer[p].pc = "fence"
          /\ \/ writer'[p] = Resting
             \/ /\ usable[p] => Open(placed[p])
                /\ Sendable(mode, usable[p])
                /\ writer'[p] = [writer[p] EXCEPT !.pc = "sending", !.hold = usable[p], !.rt.mode = mode]
      BY <1>8 DEF PermitFence, Refuse, Move
    <3>2. usable[p] /\ Sendable(mode, TRUE) =>
            \/ mode = row.mode /\ mode # "enforced"
            \/ modeFile[placed[p]] = writer[p].rt.epoch /\ ~OneHostOnly
      BY <1>k DEF FencedMode, Sendable, WriterRecord, EpochsKnown
    <3>3. usable[p] \in BOOLEAN
      BY DEF GateIInv, GateTypeOK
    <3> HIDE DEF mode
    <3> DEFINE w == [writer[p] EXCEPT !.pc = "sending", !.hold = usable[p], !.rt.mode = mode]
    <3>4. /\ w.pc = "sending" /\ w.hold = usable[p] /\ w.rt.mode = mode /\ w.rt.epoch = writer[p].rt.epoch
          /\ w.lock = writer[p].lock /\ w.owned = writer[p].owned /\ w.late = writer[p].late
          /\ w.adv = writer[p].adv
      BY DEF WriterRecord
    <3> HIDE DEF w
    <3>5. CASE writer'[p] = Resting
      BY <3>5, <1>r DEF Fit
    <3>6. CASE writer'[p] = w /\ Sendable(mode, usable[p]) /\ (usable[p] => Open(placed[p]))
      BY <3>1, <3>2, <3>3, <3>4, <3>6, <1>k
         DEF Fit, Fits, EpochsKnown, LocksHeld, LateStops, Sendable
    <3> QED
      BY <3>1, <3>5, <3>6 DEF w
  <2>2. Known
    BY <1>8 DEF Known, PermitFence, FencedMode, Sendable, Refuse, Move, rowVars, faultVars, Resting, NoRuntime, Rows
  <2> QED
    BY <2>1, <2>2
<1>9. ASSUME Sent(p) PROVE Fit /\ Known
  <2>1. Fit
    BY <1>9, <1>k, <1>r DEF Fit, Fits, EpochsKnown, LocksHeld, ChildKnows, LateStops, Shares, Fenced, FileProves, Sent, Move, rowVars, faultVars, WriterRecord, RuntimeRecord
  <2>2. Known
    BY <1>9 DEF Known, Sent, Move, rowVars, faultVars, Resting, NoRuntime, Rows
  <2> QED
    BY <2>1, <2>2
<1>10. ASSUME Dispatch(p) PROVE Fit /\ Known
  <2>1. Fit
    <3>1. /\ writer[p].pc = "dispatch"
          /\ \/ writer'[p] = Resting
             \/ /\ Owns(p, writer[p].rt.epoch, row.owned)
                /\ writer'[p] = [writer[p] EXCEPT !.pc = "spawned", !.owned = row.owned]
      BY <1>10 DEF Dispatch, Refuse, Move
    <3>2. CASE writer'[p] = Resting
      BY <3>2, <1>r DEF Fit
    <3>3. CASE /\ Owns(p, writer[p].rt.epoch, row.owned)
               /\ writer'[p] = [writer[p] EXCEPT !.pc = "spawned", !.owned = row.owned]
      <4>1. /\ writer'[p].pc = "spawned" /\ writer'[p].owned = row.owned
            /\ writer'[p].rt = writer[p].rt /\ writer'[p].late = writer[p].late
            /\ writer'[p].lock = writer[p].lock /\ writer'[p].hold = writer[p].hold
            /\ writer'[p].adv = writer[p].adv
        BY <3>3 DEF WriterRecord
      <4> QED
        BY <3>1, <3>3, <4>1, <1>k DEF Fit, Fits, EpochsKnown, LocksHeld, LateStops, Rows, Shares
    <3> QED
      BY <3>1, <3>2, <3>3
  <2>2. Known
    BY <1>10 DEF Known, Dispatch, Refuse, Move, rowVars, faultVars, Resting, NoRuntime, Rows
  <2> QED
    BY <2>1, <2>2
<1>11. ASSUME ChildLock(p) PROVE Fit /\ Known
  <2>1. Fit
    <3>1. /\ writer[p].pc = "spawned"
          /\ \/ writer'[p] = Resting
             \/ /\ AdvisoryFree /\ NodeFree(placed[p]) /\ Owns(p, writer[p].rt.epoch, writer[p].owned)
                /\ writer'[p] = [writer[p] EXCEPT !.pc = "gated", !.adv = TRUE]
      BY <1>11 DEF ChildLock, ChildCheck, Refuse, Move
    <3>2. CASE writer'[p] = Resting
      BY <3>2, <1>r DEF Fit
    <3>3. CASE /\ AdvisoryFree /\ NodeFree(placed[p]) /\ Owns(p, writer[p].rt.epoch, writer[p].owned)
               /\ writer'[p] = [writer[p] EXCEPT !.pc = "gated", !.adv = TRUE]
      <4>1. writer[p].late = 0
        BY <3>1, <1>k DEF LateStops
      <4>2. /\ writer'[p].pc = "gated" /\ writer'[p].owned = writer[p].owned
            /\ writer'[p].rt = writer[p].rt /\ writer'[p].late = writer[p].late
            /\ writer'[p].lock = writer[p].lock /\ writer'[p].hold = writer[p].hold
        BY <3>3 DEF WriterRecord
      <4> QED
        BY <3>1, <3>3, <4>1, <4>2, <1>k DEF Fit, Fits, EpochsKnown, LocksHeld, Shares
    <3> QED
      BY <3>1, <3>2, <3>3
  <2>2. Known
    BY <1>11 DEF Known, ChildLock, Refuse, Move, rowVars, faultVars, Resting, NoRuntime, Rows
  <2> QED
    BY <2>1, <2>2
<1>12. ASSUME ChildAuthorise(p) PROVE Fit /\ Known
  <2>1. Fit
    <3>1. /\ writer[p].pc = "gated"
          /\ \/ writer'[p] = Resting
             \/ /\ writer[p].adv /\ Owns(p, writer[p].rt.epoch, writer[p].owned)
                /\ writer'[p] = [writer[p] EXCEPT !.pc = "authorised"]
      BY <1>12 DEF ChildAuthorise, ChildMayWrite, ChildCheck, Refuse, Move
    <3>2. CASE writer'[p] = Resting
      BY <3>2, <1>r DEF Fit
    <3>3. CASE /\ writer[p].adv /\ Owns(p, writer[p].rt.epoch, writer[p].owned)
               /\ writer'[p] = [writer[p] EXCEPT !.pc = "authorised"]
      <4>1. writer[p].late = 0
        BY <3>3, <1>k DEF LateStops, Owns
      <4>2. /\ writer'[p].pc = "authorised" /\ writer'[p].owned = writer[p].owned
            /\ writer'[p].rt = writer[p].rt /\ writer'[p].late = writer[p].late
            /\ writer'[p].lock = writer[p].lock /\ writer'[p].hold = writer[p].hold
            /\ writer'[p].adv = writer[p].adv
        BY <3>3 DEF WriterRecord
      <4> QED
        BY <3>1, <3>3, <4>1, <4>2, <1>k DEF Fit, Fits, EpochsKnown, LocksHeld, Shares
    <3> QED
      BY <3>1, <3>2, <3>3
  <2>2. Known
    BY <1>12 DEF Known, ChildAuthorise, Refuse, Move, rowVars, faultVars, Resting, NoRuntime, Rows
  <2> QED
    BY <2>1, <2>2
<1>13. ASSUME ChildWrite(p) PROVE Fit /\ Known
  <2>1. Fit
    <3> DEFINE late == IF Backed(p) THEN writer[p].late
                       ELSE IF writer[p].late < 2 THEN writer[p].late + 1 ELSE writer[p].late
    <3>1. writer[p].pc = "authorised" /\ writer'[p] = [writer[p] EXCEPT !.pc = "gated", !.late = late]
      BY <1>13 DEF ChildWrite, Move
    <3>2. late # 0 => late = 1 /\ ~Backed(p)
      BY <3>1, <1>k DEF LateStops
    <3>3. ~Backed(p) =>
            ~(writer[p].adv /\ row.epoch = writer[p].rt.epoch /\ row.owned = writer[p].owned)
      BY <3>1, <1>k DEF Backed, ChildKnows
    <3> HIDE DEF late
    <3>4. /\ writer'[p].pc = "gated" /\ writer'[p].owned = writer[p].owned
          /\ writer'[p].rt = writer[p].rt /\ writer'[p].late = late
          /\ writer'[p].lock = writer[p].lock /\ writer'[p].hold = writer[p].hold
          /\ writer'[p].adv = writer[p].adv
      BY <3>1 DEF WriterRecord
    <3> QED
      BY <3>1, <3>2, <3>3, <3>4, <1>k DEF Fit, Fits, EpochsKnown, LocksHeld, ChildKnows, Shares
  <2>2. Known
    BY <1>13 DEF Known, ChildWrite, Move, rowVars, faultVars, Rows
  <2> QED
    BY <2>1, <2>2
<1>14. ASSUME ChildEnd(p) PROVE Fit /\ Known
  <2>1. Fit
    BY <1>14, <1>k, <1>r DEF Fit, Fits, EpochsKnown, LocksHeld, ChildKnows, LateStops, Shares, Fenced, FileProves, ChildEnd, Refuse, Move, rowVars, faultVars, WriterRecord, RuntimeRecord
  <2>2. Known
    BY <1>14 DEF Known, ChildEnd, Refuse, Move, rowVars, faultVars, Resting, NoRuntime, Rows
  <2> QED
    BY <2>1, <2>2
<1>15. ASSUME LoseSession(p) PROVE Fit /\ Known
  <2>1. Fit
    BY <1>15, <1>k, <1>r DEF Fit, Fits, EpochsKnown, LocksHeld, ChildKnows, LateStops, Shares, Fenced, FileProves, LoseSession, Move, rowVars, faultVars, WriterRecord, RuntimeRecord
  <2>2. Known
    BY <1>15 DEF Known, LoseSession, Move, rowVars, faultVars, Rows
  <2> QED
    BY <2>1, <2>2
<1> HIDE <1>t, RestingFields
<1>99. Fit /\ Known
  BY <1>1, <1>2, <1>3, <1>4, <1>5, <1>6, <1>7, <1>8, <1>9, <1>10, <1>11, <1>12, <1>13, <1>14, <1>15
<1> QED
  BY <1>99, <1>t DEF Fit, Known, Move

-----------------------------------------------------------------------------
(* Changes of the mode *)

\* A step that leaves row, hosts and writers alone keeps what is said of them.
LEMMA WritersStay ==
    ASSUME GateIInv, UNCHANGED <<placed, boot, row, writer>>,
           \A q \in GateProcs : cache'[q] = cache[q] \/ cache'[q] = NoRuntime
    PROVE  /\ \A q \in GateProcs : EpochsKnown(q)' /\ ChildKnows(q)' /\ LateStops(q)'
           /\ OneAtTheNode' /\ EnforcedHasOwner'
<1> USE DEF GateIInv, GateOrder
<1>1. ASSUME NEW q \in GateProcs PROVE EpochsKnown(q)'
  <2>1. EpochsKnown(q) /\ NoRuntime.epoch = 0 /\ row.epoch \in Nat
    BY <1>1 DEF NoRuntime, GateTypeOK, Rows
  <2> QED
    BY <2>1 DEF EpochsKnown
<1>2. \A q \in GateProcs : ChildKnows(q)' /\ LateStops(q)'
  BY DEF ChildKnows, LateStops, Owns, Mine, Identity
<1>3. OneAtTheNode' /\ EnforcedHasOwner'
  BY DEF OneAtTheNode, EnforcedHasOwner
<1> QED
  BY <1>1, <1>2, <1>3

\* A change is asked for.
LEMMA StartChangeKeeps ==
    ASSUME GateIInv, NEW p \in GateProcs, NEW to \in Modes, StartChange(p, to)
    PROVE  GateIInv'
<1> USE DEF GateIInv, GateOrder
<1>v. NoRuntime \in RuntimeRecord /\ NoChange \in ChangeRecord /\ cache \in [GateProcs -> RuntimeRecord]
  BY GateValues
<1>1. GateTypeOK'
  BY <1>v DEF GateTypeOK, RuntimeRecord, StartChange, MayChange, rowVars, faultVars, ChangeTypeOK, ChangeRecord
<1>2. ChangeTypeOK'
  <2>1. row.mode \in Modes
    BY DEF GateTypeOK, Rows
  <2>2. [pc |-> "started", to |-> to, from |-> row.mode, seen |-> NoRow] \in ChangeRecord
    BY <2>1 DEF ChangeRecord
  <2> QED
    BY <2>2 DEF ChangeTypeOK, StartChange
<1>3. \A q \in GateProcs : LocksHeld(q)'
  BY DEF LocksHeld, Drained, Open, Shares, StartChange, MayChange, rowVars, faultVars, GateTypeOK, ChangeTypeOK, ChangeRecord, NoChange
<1>4. \A q \in GateProcs : ChangeAllowed(q)'
  BY DEF ChangeAllowed, StartChange, MayChange, rowVars, faultVars, GateTypeOK, ChangeTypeOK, ChangeRecord, NoChange, LocksHeld, Mine, Identity, Level, Rows, NoRow
<1>5. FileAhead'
  BY DEF FileAhead, OneHostOnly, StartChange, MayChange, rowVars, faultVars, GateTypeOK
<1>6. ActsOnPersistedMode'
  BY SMTT(30) DEF ActsOnPersistedMode, Fenced, Shares, OfOwner, FileProves, OneHostOnly, LocksHeld, Open, StartChange, MayChange, rowVars, faultVars, GateTypeOK, ChangeTypeOK, ChangeRecord
<1>7. /\ UNCHANGED <<placed, boot, row, writer>>
      /\ \A q \in GateProcs : cache'[q] = cache[q] \/ cache'[q] = NoRuntime
  BY <1>v DEF StartChange, MayChange, rowVars, faultVars
<1> QED
  BY <1>1, <1>2, <1>3, <1>4, <1>5, <1>6, <1>7, WritersStay

\* A change waits for the writers of its host.
LEMMA LockExclusiveKeeps ==
    ASSUME GateIInv, NEW p \in GateProcs, LockExclusive(p)
    PROVE  GateIInv'
<1> USE DEF GateIInv, GateOrder
<1>v. NoRuntime \in RuntimeRecord /\ NoChange \in ChangeRecord /\ cache \in [GateProcs -> RuntimeRecord]
  BY GateValues
<1>1. GateTypeOK'
  BY <1>v DEF GateTypeOK, RuntimeRecord, LockExclusive, rowVars, faultVars, ChangeTypeOK, ChangeRecord
<1>2. ChangeTypeOK'
  <2>1. [change[p] EXCEPT !.pc = "locked"] \in ChangeRecord
    BY DEF ChangeTypeOK, ChangeRecord
  <2>2. change' = [change EXCEPT ![p] = [change[p] EXCEPT !.pc = "locked"]]
    BY DEF LockExclusive
  <2> QED
    BY <2>1, <2>2 DEF ChangeTypeOK
<1>3. \A q \in GateProcs : LocksHeld(q)'
  BY DEF LocksHeld, Drained, Open, Shares, LockExclusive, rowVars, faultVars, GateTypeOK, ChangeTypeOK, ChangeRecord, NoChange
<1>4. \A q \in GateProcs : ChangeAllowed(q)'
  BY DEF ChangeAllowed, LockExclusive, rowVars, faultVars, GateTypeOK, ChangeTypeOK, ChangeRecord, NoChange, LocksHeld, Mine, Identity, Level, Rows, NoRow
<1>5. FileAhead'
  BY DEF FileAhead, OneHostOnly, LockExclusive, rowVars, faultVars, GateTypeOK
<1>6. ActsOnPersistedMode'
  BY DEF ActsOnPersistedMode, Fenced, Shares, OfOwner, FileProves, OneHostOnly, LocksHeld, Open, LockExclusive, rowVars, faultVars, GateTypeOK, ChangeTypeOK, ChangeRecord
<1>7. /\ UNCHANGED <<placed, boot, row, writer>>
      /\ \A q \in GateProcs : cache'[q] = cache[q] \/ cache'[q] = NoRuntime
  BY <1>v DEF LockExclusive, rowVars, faultVars
<1> QED
  BY <1>1, <1>2, <1>3, <1>4, <1>5, <1>6, <1>7, WritersStay

\* A change marks the file, where no writer holds the lock.
LEMMA MarkChangingKeeps ==
    ASSUME GateIInv, NEW p \in GateProcs, MarkChanging(p)
    PROVE  GateIInv'
<1> USE DEF GateIInv, GateOrder
<1>v. NoRuntime \in RuntimeRecord /\ NoChange \in ChangeRecord /\ cache \in [GateProcs -> RuntimeRecord]
  BY GateValues
<1>1. GateTypeOK'
  BY <1>v DEF GateTypeOK, RuntimeRecord, MarkChanging, MayChange, Mark, faultVars, ChangeTypeOK, ChangeRecord
<1>2. ChangeTypeOK'
  <2>1. [change[p] EXCEPT !.pc = "marked", !.seen = row] \in ChangeRecord
    <3>1. change[p] \in ChangeRecord /\ row \in Rows \cup {NoRow}
      BY DEF GateTypeOK, ChangeTypeOK
    <3> QED
      BY <3>1 DEF ChangeRecord
  <2> QED
    BY <2>1 DEF ChangeTypeOK, MarkChanging
<1>3. \A q \in GateProcs : LocksHeld(q)'
  BY DEF LocksHeld, Drained, Open, Shares, MarkChanging, MayChange, Mark, faultVars, GateTypeOK, ChangeTypeOK, ChangeRecord, NoChange
<1>4. \A q \in GateProcs : ChangeAllowed(q)'
  BY DEF ChangeAllowed, MarkChanging, MayChange, Mark, faultVars, GateTypeOK, ChangeTypeOK, ChangeRecord, NoChange, LocksHeld, Mine, Identity, Level, Rows, NoRow
<1>5. FileAhead'
  BY DEF FileAhead, OneHostOnly, MarkChanging, MayChange, Mark, faultVars, GateTypeOK
<1>6. ActsOnPersistedMode'
  BY DEF ActsOnPersistedMode, Fenced, Shares, OfOwner, FileProves, OneHostOnly, LocksHeld, Open, MarkChanging, MayChange, Mark, faultVars, GateTypeOK, ChangeTypeOK, ChangeRecord
<1>7. /\ UNCHANGED <<placed, boot, row, writer>>
      /\ \A q \in GateProcs : cache'[q] = cache[q] \/ cache'[q] = NoRuntime
  BY <1>v DEF MarkChanging, MayChange, Mark, faultVars
<1> QED
  BY <1>1, <1>2, <1>3, <1>4, <1>5, <1>6, <1>7, WritersStay

\* A committed change publishes its epoch and ends.
LEMMA PublishEpochKeeps ==
    ASSUME GateIInv, NEW p \in GateProcs, PublishEpoch(p)
    PROVE  GateIInv'
<1> USE DEF GateIInv, GateOrder
<1>v. NoRuntime \in RuntimeRecord /\ NoChange \in ChangeRecord /\ cache \in [GateProcs -> RuntimeRecord]
  BY GateValues
<1>1. GateTypeOK'
  <2>1. row.epoch + 1 \in 0..(MaxGateEpoch + 1)
    BY DEF GateTypeOK, Rows
  <2>2. modeFile' = [modeFile EXCEPT ![placed[p]] = row.epoch + 1] /\ placed[p] \in GateHosts
    BY DEF PublishEpoch, GateTypeOK
  <2>3. modeFile' \in [GateHosts -> {NoFile, Changing} \cup (0..(MaxGateEpoch + 1))]
    BY <2>1, <2>2 DEF GateTypeOK
  <2>4. /\ UNCHANGED <<placed, asked, boot, row, writer, faultVars>>
        /\ cache' \in [GateProcs -> RuntimeRecord]
        /\ exclusive' \in [GateHosts -> GateProcs \cup {NoProc}]
    BY <1>v DEF PublishEpoch, EndChange, GateTypeOK
  <2>5. \A q \in GateProcs : change'[q].pc \in {"idle", "started", "locked", "marked", "committed"}
    BY <1>v DEF PublishEpoch, EndChange, ChangeTypeOK, ChangeRecord
  <2> QED
    BY <2>3, <2>4, <2>5 DEF GateTypeOK, RuntimeRecord, faultVars
<1>2. ChangeTypeOK'
  BY <1>v DEF GateTypeOK, PublishEpoch, EndChange, faultVars, ChangeTypeOK, ChangeRecord
<1>3. \A q \in GateProcs : LocksHeld(q)'
  BY DEF LocksHeld, Drained, Open, Shares, PublishEpoch, EndChange, faultVars, GateTypeOK, ChangeTypeOK, ChangeRecord, NoChange
<1>4. \A q \in GateProcs : ChangeAllowed(q)'
  BY DEF ChangeAllowed, PublishEpoch, EndChange, faultVars, GateTypeOK, ChangeTypeOK, ChangeRecord, NoChange, LocksHeld, Mine, Identity, Level, Rows, NoRow
<1>5. FileAhead'
  BY DEF FileAhead, OneHostOnly, PublishEpoch, EndChange, faultVars, GateTypeOK
<1>6. ActsOnPersistedMode'
  BY DEF ActsOnPersistedMode, Fenced, Shares, OfOwner, FileProves, OneHostOnly, LocksHeld, Open, PublishEpoch, EndChange, faultVars, GateTypeOK, ChangeTypeOK, ChangeRecord
<1>7. /\ UNCHANGED <<placed, boot, row, writer>>
      /\ \A q \in GateProcs : cache'[q] = cache[q] \/ cache'[q] = NoRuntime
  BY <1>v DEF PublishEpoch, EndChange, faultVars
<1> QED
  BY <1>1, <1>2, <1>3, <1>4, <1>5, <1>6, <1>7, WritersStay

\* A change is given up.
LEMMA AbandonChangeKeeps ==
    ASSUME GateIInv, NEW p \in GateProcs, AbandonChange(p)
    PROVE  GateIInv'
<1> USE DEF GateIInv, GateOrder
<1>v. NoRuntime \in RuntimeRecord /\ NoChange \in ChangeRecord /\ cache \in [GateProcs -> RuntimeRecord]
  BY GateValues
<1>1. GateTypeOK'
  BY <1>v DEF GateTypeOK, RuntimeRecord, AbandonChange, EndChange, rowVars, faultVars, ChangeTypeOK, ChangeRecord
<1>2. ChangeTypeOK'
  BY <1>v DEF GateTypeOK, AbandonChange, EndChange, rowVars, faultVars, ChangeTypeOK, ChangeRecord
<1>3. \A q \in GateProcs : LocksHeld(q)'
  BY DEF LocksHeld, Drained, Open, Shares, AbandonChange, EndChange, rowVars, faultVars, GateTypeOK, ChangeTypeOK, ChangeRecord, NoChange
<1>4. \A q \in GateProcs : ChangeAllowed(q)'
  BY DEF ChangeAllowed, AbandonChange, EndChange, rowVars, faultVars, GateTypeOK, ChangeTypeOK, ChangeRecord, NoChange, LocksHeld, Mine, Identity, Level, Rows, NoRow
<1>5. FileAhead'
  BY DEF FileAhead, OneHostOnly, AbandonChange, EndChange, rowVars, faultVars, GateTypeOK
<1>6. ActsOnPersistedMode'
  BY DEF ActsOnPersistedMode, Fenced, Shares, OfOwner, FileProves, OneHostOnly, LocksHeld, Open, AbandonChange, EndChange, rowVars, faultVars, GateTypeOK, ChangeTypeOK, ChangeRecord
<1>7. /\ UNCHANGED <<placed, boot, row, writer>>
      /\ \A q \in GateProcs : cache'[q] = cache[q] \/ cache'[q] = NoRuntime
  BY <1>v DEF AbandonChange, EndChange, rowVars, faultVars
<1> QED
  BY <1>1, <1>2, <1>3, <1>4, <1>5, <1>6, <1>7, WritersStay

\* A change commits the row it has seen.
LEMMA CommitChangeKeeps ==
    ASSUME GateIInv, NEW p \in GateProcs, CommitChange(p)
    PROVE  GateIInv'
<1> USE DEF GateIInv, GateOrder
<1>1. row' = [row EXCEPT !.mode = change[p].to, !.epoch = row.epoch + 1]
      /\ row.epoch + 1 \in 0..MaxGateEpoch /\ row \in Rows /\ change[p] \in ChangeRecord
  BY DEF CommitChange, GateTypeOK, ChangeTypeOK, Rows
<1>2. /\ row' \in Rows /\ row'.epoch = row.epoch + 1 /\ row'.mode = change[p].to
      /\ row'.state = row.state /\ row'.owner = row.owner /\ row'.owned = row.owned
      /\ row.epoch \in Nat
  <2>1. change[p].to \in Modes /\ row.epoch \in Nat
    BY <1>1 DEF Rows, ChangeRecord
  <2>2. row' \in Rows
    BY <1>1, <2>1 DEF Rows
  <2> QED
    BY <1>1, <2>1, <2>2 DEF Rows
<1>3. /\ UNCHANGED <<placed, asked, boot, modeFile, exclusive, cache, writer, faultVars>>
      /\ change[p].pc = "marked" /\ row = change[p].seen
      /\ \A q \in GateProcs \ {p} : change'[q] = change[q]
      /\ change'[p] = [change[p] EXCEPT !.pc = "committed", !.seen = NoRow]
      /\ change' \in [GateProcs -> ChangeRecord]
  <2>1. [change[p] EXCEPT !.pc = "committed", !.seen = NoRow] \in ChangeRecord
    BY <1>1 DEF ChangeRecord
  <2>2. change' = [change EXCEPT ![p] = [change[p] EXCEPT !.pc = "committed", !.seen = NoRow]]
    BY DEF CommitChange
  <2> QED
    BY <2>1, <2>2 DEF CommitChange, ChangeTypeOK
<1>4. change'[p].pc = "committed"
  BY <1>1, <1>3 DEF ChangeRecord
<1>5. GateTypeOK'
  BY <1>2, <1>3 DEF GateTypeOK, faultVars, ChangeRecord
<1>6. ChangeTypeOK'
  BY <1>3 DEF ChangeTypeOK
<1>7. ASSUME NEW q \in GateProcs PROVE EpochsKnown(q)' /\ LocksHeld(q)'
  <2>1. EpochsKnown(q)'
    BY <1>2, <1>3, <1>7 DEF EpochsKnown, GateTypeOK, WriterRecord
  <2>2. change'[q].pc \in {"locked", "marked", "committed"} => change[q].pc \in {"locked", "marked", "committed"}
    BY <1>3, <1>4, <1>7
  <2>3. LocksHeld(q)'
    BY <1>3, <1>7, <2>2 DEF LocksHeld, Shares, Open
  <2> QED
    BY <2>1, <2>3
<1>8. ASSUME NEW q \in GateProcs PROVE ChildKnows(q)' /\ LateStops(q)'
  BY <1>2, <1>3, <1>8 DEF EpochsKnown, ChildKnows, LateStops, GateTypeOK, WriterRecord
<1>9. ASSUME NEW q \in GateProcs PROVE ChangeAllowed(q)'
  <2>1. CASE q = p
    BY <1>3, <1>4, <2>1 DEF ChangeAllowed
  <2>2. CASE q # p
    BY <1>3, <1>9, <2>2 DEF ChangeAllowed
  <2> QED
    BY <2>1, <2>2
<1>10. OneAtTheNode' /\ FileAhead'
  BY <1>3 DEF OneAtTheNode, FileAhead, OneHostOnly, ChangeAllowed, LocksHeld
<1>11. EnforcedHasOwner'
  BY <1>2, <1>3, ZenonT(30) DEF EnforcedHasOwner, ChangeAllowed
<1>12. ASSUME NEW q \in GateProcs, Fenced(q), OfOwner(q)'
       PROVE  change[p].to # "enforced" /\ ~OneHostOnly
  BY <1>2, <1>3, <1>12 DEF Fenced, OfOwner, LocksHeld, Open, ChangeAllowed, OneHostOnly, GateTypeOK
<1>13. ActsOnPersistedMode'
  BY <1>2, <1>3, <1>12 DEF ActsOnPersistedMode, Fenced, Shares, OfOwner, OneHostOnly
<1> QED
  BY <1>5, <1>6, <1>7, <1>8, <1>9, <1>10, <1>11, <1>13

-----------------------------------------------------------------------------
(* Changes of the owner *)

\* The owner's columns change while no writer of the host holds its lock.
LEMMA OwnerChangeKeeps ==
    ASSUME GateIInv, NEW p \in GateProcs, NEW st, NEW owner, NEW owned,
           Own(p, st, owner, owned),
           st \in {"active", "draining", "released"},
           owner \in {NoOwner, Identity(p)}, owned \in {row.owned, row.owned + 1},
           st = "released" => row.mode # "enforced" \/ SupportsRelease,
           owned = row.owned => Mine(p) /\ owner = row.owner /\ {st, row.state} = {"active", "draining"}
    PROVE  GateIInv'
<1> USE DEF GateIInv, GateOrder
<1>1. /\ row \in Rows /\ row' = [row EXCEPT !.state = st, !.owner = owner, !.owned = owned]
      /\ owned \in 0..MaxOwnerEpoch
      /\ owner \in {NoOwner} \cup (GateHosts \X (0..1))
  BY GateValues DEF Own, GateTypeOK, Rows
<1>2. /\ row' \in Rows /\ row'.epoch = row.epoch /\ row'.mode = row.mode
      /\ row'.state = st /\ row'.owner = owner /\ row'.owned = owned
  BY <1>1 DEF Rows
<1>3. /\ UNCHANGED <<placed, asked, boot, modeFile, exclusive, writer, change, faultVars>>
      /\ \A q \in GateProcs : cache'[q] = cache[q] \/ cache'[q] = NoRuntime
      /\ cache' \in [GateProcs -> RuntimeRecord]
      /\ \A q \in GateProcs : placed[q] = placed[p] => ~Shares(q)
  BY GateValues DEF Own, Drained
<1>4. row.owned \in Nat /\ row.epoch \in Nat
  BY <1>1 DEF Rows
<1>5. GateTypeOK' /\ ChangeTypeOK'
  BY <1>2, <1>3 DEF GateTypeOK, RuntimeRecord, ChangeTypeOK, faultVars
<1>6. ASSUME NEW q \in GateProcs PROVE EpochsKnown(q)' /\ LocksHeld(q)' /\ ChangeAllowed(q)'
  <2>1. EpochsKnown(q)'
    BY <1>2, <1>3, <1>4, <1>6 DEF EpochsKnown, NoRuntime, GateTypeOK, WriterRecord
  <2>2. LocksHeld(q)'
    BY <1>3, <1>6 DEF LocksHeld, Shares, Open
  <2>3. ChangeAllowed(q)'
    BY <1>3, <1>6 DEF ChangeAllowed
  <2> QED
    BY <2>1, <2>2, <2>3
<1>7. ASSUME NEW q \in GateProcs PROVE ChildKnows(q)'
  <2>1. CASE owned = row.owned + 1
    BY <1>2, <1>3, <1>4, <1>7, <2>1 DEF ChildKnows, EpochsKnown, GateTypeOK, WriterRecord
  <2>2. CASE owned = row.owned /\ row.state # "active"
    BY <1>2, <1>3, <1>7, <2>2 DEF ChildKnows, Owns
  <2>3. CASE owned = row.owned /\ row.state = "active"
    <3>1. Mine(q) => placed[q] = placed[p]
      BY <2>3, <1>7 DEF Mine, Identity
    <3> QED
      BY <1>2, <1>3, <1>7, <2>3, <3>1 DEF ChildKnows, Owns, LocksHeld, Shares
  <2> QED
    BY <2>1, <2>2, <2>3
<1>8. ASSUME NEW q \in GateProcs PROVE LateStops(q)'
  BY <1>2, <1>3, <1>4, <1>8 DEF LateStops, EpochsKnown, GateTypeOK, WriterRecord
<1>9. OneAtTheNode' /\ FileAhead'
  BY <1>2, <1>3 DEF OneAtTheNode, FileAhead, OneHostOnly
<1>10. EnforcedHasOwner'
  BY <1>2 DEF EnforcedHasOwner
<1>11. ASSUME NEW q \in GateProcs, Fenced(q), OfOwner(q)' PROVE FALSE
  BY <1>2, <1>3, <1>11, GateValues DEF Fenced, OfOwner, Identity, GateTypeOK
<1>12. ActsOnPersistedMode'
  BY <1>3, <1>11 DEF ActsOnPersistedMode, Fenced, Shares
<1> QED
  BY <1>5, <1>6, <1>7, <1>8, <1>9, <1>10, <1>12

-----------------------------------------------------------------------------
(* Deaths *)

\* What processes leave behind when they die.
LEMMA DiedLeaves ==
    ASSUME GateIInv, NEW P \in SUBSET GateProcs, Died(P)
    PROVE  /\ writer' \in [GateProcs -> WriterRecord] /\ ChangeTypeOK'
           /\ cache' \in [GateProcs -> RuntimeRecord]
           /\ exclusive' \in [GateHosts -> GateProcs \cup {NoProc}]
           /\ \A q \in P : writer'[q] = Resting /\ change'[q] = NoChange
           /\ \A q \in GateProcs \ P : writer'[q] = writer[q] /\ change'[q] = change[q]
           /\ \A q \in GateProcs : cache'[q].epoch <= row.epoch
<1>1. GateTypeOK /\ ChangeTypeOK
  BY DEF GateIInv, GateOrder
<1>2. /\ writer' \in [GateProcs -> WriterRecord] /\ ChangeTypeOK'
      /\ cache' \in [GateProcs -> RuntimeRecord]
      /\ exclusive' \in [GateHosts -> GateProcs \cup {NoProc}]
  BY <1>1, GateValues DEF Died, GateTypeOK, ChangeTypeOK
<1>3. /\ \A q \in P : writer'[q] = Resting /\ change'[q] = NoChange
      /\ \A q \in GateProcs \ P : writer'[q] = writer[q] /\ change'[q] = change[q]
  BY DEF Died
<1>4. ASSUME NEW q \in GateProcs PROVE cache'[q].epoch <= row.epoch
  <2>1. cache'[q] = cache[q] \/ cache'[q] = NoRuntime
    BY DEF Died
  <2>2. cache[q].epoch <= row.epoch /\ NoRuntime.epoch <= row.epoch
    BY <1>1 DEF GateIInv, GateOrder, EpochsKnown, NoRuntime, GateTypeOK, Rows
  <2> QED
    BY <2>1, <2>2
<1> QED
  BY <1>2, <1>3, <1>4

\* The locks of the dead are free, and no other changes hands.
LEMMA DiedUnlocks ==
    ASSUME GateIInv, NEW P \in SUBSET GateProcs, Died(P), UNCHANGED <<placed, modeFile>>
    PROVE  /\ \A q \in GateProcs : LocksHeld(q)' /\ ChangeAllowed(q)'
           /\ OneAtTheNode'
<1>1. /\ \A q \in P : writer'[q] = Resting /\ change'[q] = NoChange
      /\ \A q \in GateProcs \ P : writer'[q] = writer[q] /\ change'[q] = change[q]
  BY DiedLeaves
<1>2. \A h \in GateHosts : exclusive'[h] = IF exclusive[h] \in P THEN NoProc ELSE exclusive[h]
  BY DEF Died
<1> USE DEF GateIInv, GateOrder
<1>3. ASSUME NEW q \in GateProcs PROVE LocksHeld(q)' /\ ChangeAllowed(q)'
  <2>1. placed[q] \in GateHosts
    BY DEF GateTypeOK
  <2>2. CASE q \in P
    BY <1>1, <2>2, RestingFields DEF LocksHeld, ChangeAllowed, Shares, NoChange
  <2>3. CASE q \notin P
    BY <1>1, <1>2, <2>1, <2>3 DEF LocksHeld, ChangeAllowed, Shares, Open
  <2> QED
    BY <2>2, <2>3
<1>4. OneAtTheNode'
  BY <1>1, RestingFields DEF OneAtTheNode
<1> QED
  BY <1>3, <1>4

\* A process dies, alone or with its host; the row stays.
LEMMA DeathKeeps ==
    ASSUME GateIInv, NEW P \in SUBSET GateProcs, Died(P), UNCHANGED <<rowVars, faultVars>> \/
             (\E h \in GateHosts : Reboot(h) /\ P = {p \in GateProcs : placed[p] = h})
    PROVE  GateIInv'
<1>0. /\ UNCHANGED <<placed, asked, row, modeFile, readable, usable>>
      /\ boot' \in [GateHosts -> 0..1]
      /\ \A q \in GateProcs \ P : boot'[placed[q]] = boot[placed[q]]
  <2>1. CASE UNCHANGED <<rowVars, faultVars>>
    BY <2>1 DEF GateIInv, GateTypeOK, rowVars, faultVars
  <2>2. ASSUME NEW h \in GateHosts, Reboot(h), P = {p \in GateProcs : placed[p] = h}
        PROVE  /\ UNCHANGED <<placed, asked, row, modeFile, readable, usable>>
               /\ boot' \in [GateHosts -> 0..1]
               /\ \A q \in GateProcs \ P : boot'[placed[q]] = boot[placed[q]]
    <3>1. boot \in [GateHosts -> 0..1] /\ placed \in [GateProcs -> GateHosts]
      BY DEF GateIInv, GateTypeOK
    <3>2. boot' = [boot EXCEPT ![h] = boot[h] + 1] /\ boot[h] + 1 \in 0..1
      BY <2>2, <3>1 DEF Reboot
    <3> QED
      BY <2>2, <3>1, <3>2 DEF Reboot, faultVars
  <2> QED
    BY <2>1, <2>2
<1>1. /\ writer' \in [GateProcs -> WriterRecord] /\ ChangeTypeOK'
      /\ cache' \in [GateProcs -> RuntimeRecord]
      /\ exclusive' \in [GateHosts -> GateProcs \cup {NoProc}]
      /\ \A q \in P : writer'[q] = Resting
      /\ \A q \in GateProcs \ P : writer'[q] = writer[q]
      /\ \A q \in GateProcs : cache'[q].epoch <= row.epoch
  BY DiedLeaves
<1>d. (\A q \in GateProcs : LocksHeld(q)' /\ ChangeAllowed(q)') /\ OneAtTheNode'
  BY <1>0, DiedUnlocks
<1> USE DEF GateIInv, GateOrder
<1>2. row.epoch \in Nat /\ row.owned \in Nat
  BY DEF GateTypeOK, Rows
<1>3. GateTypeOK'
  BY <1>0, <1>1 DEF GateTypeOK, RuntimeRecord, ChangeTypeOK, ChangeRecord
<1>4. ASSUME NEW q \in GateProcs PROVE EpochsKnown(q)' /\ LateStops(q)' /\ ChildKnows(q)'
  <2>2. CASE q \in P
    BY <1>0, <1>1, <1>2, <2>2, RestingFields DEF EpochsKnown, LateStops, ChildKnows
  <2>3. CASE q \notin P
    BY <1>0, <1>1, <1>4, <2>3 DEF EpochsKnown, LateStops, ChildKnows, Owns, Mine, Identity
  <2> QED
    BY <2>2, <2>3
<1>6. FileAhead' /\ EnforcedHasOwner'
  BY <1>0 DEF FileAhead, OneHostOnly, EnforcedHasOwner
<1>7. ActsOnPersistedMode'
  <2>1. ASSUME NEW q \in GateProcs, Fenced(q)' PROVE Fenced(q) /\ writer'[q] = writer[q]
    BY <1>1, <2>1, RestingFields DEF Fenced, Shares
  <2> QED
    BY <1>0, <2>1 DEF ActsOnPersistedMode, OfOwner, FileProves, OneHostOnly
<1> QED
  BY <1>1, <1>d, <1>3, <1>4, <1>6, <1>7

\* A clean stop dies and releases in one step.
LEMMA ShutdownKeeps ==
    ASSUME GateIInv, NEW p \in GateProcs, ShutdownRelease(p)
    PROVE  GateIInv'
<1>0. /\ UNCHANGED <<placed, asked, boot, modeFile, readable, usable>>
      /\ Died({p})
      /\ row \in Rows /\ row.owned < asked.owned /\ asked.owned \in 0..MaxOwnerEpoch
      /\ row' = [row EXCEPT !.state = "released", !.owner = NoOwner, !.owned = row.owned + 1]
  BY DEF GateIInv, GateTypeOK, ShutdownRelease, faultVars
<1>1. /\ writer' \in [GateProcs -> WriterRecord] /\ ChangeTypeOK'
      /\ cache' \in [GateProcs -> RuntimeRecord]
      /\ exclusive' \in [GateHosts -> GateProcs \cup {NoProc}]
      /\ writer'[p] = Resting
      /\ \A q \in GateProcs \ {p} : writer'[q] = writer[q]
      /\ \A q \in GateProcs : cache'[q].epoch <= row.epoch
  <2> DEFINE P == {p}
  <2>1. P \in SUBSET GateProcs /\ Died(P) /\ p \in P
    BY <1>0
  <2> HIDE DEF P
  <2>2. /\ writer' \in [GateProcs -> WriterRecord] /\ ChangeTypeOK'
        /\ cache' \in [GateProcs -> RuntimeRecord]
        /\ exclusive' \in [GateHosts -> GateProcs \cup {NoProc}]
        /\ \A q \in P : writer'[q] = Resting
        /\ \A q \in GateProcs \ P : writer'[q] = writer[q]
        /\ \A q \in GateProcs : cache'[q].epoch <= row.epoch
    BY <2>1, DiedLeaves
  <2> QED
    BY <2>1, <2>2 DEF P
<1>d. (\A q \in GateProcs : LocksHeld(q)' /\ ChangeAllowed(q)') /\ OneAtTheNode'
  BY <1>0, DiedUnlocks
<1>2. row.epoch \in Nat /\ row.owned \in Nat /\ NoOwner \in {NoOwner} \cup (GateHosts \X (0..1))
  BY <1>0 DEF Rows
<1>3. /\ row' \in Rows /\ row'.epoch = row.epoch /\ row'.mode = row.mode
      /\ row'.state = "released" /\ row'.owner = NoOwner /\ row'.owned = row.owned + 1
  <2>1. row.owned + 1 \in 0..MaxOwnerEpoch
    BY <1>0, <1>2
  <2> QED
    BY <1>0, <1>2, <2>1 DEF Rows
<1> USE DEF GateIInv, GateOrder
<1>4. GateTypeOK'
  BY <1>0, <1>1, <1>3 DEF GateTypeOK, RuntimeRecord, ChangeTypeOK, ChangeRecord
<1>5. ASSUME NEW q \in GateProcs PROVE EpochsKnown(q)' /\ LateStops(q)' /\ ChildKnows(q)'
  <2>2. CASE q = p
    BY <1>1, <1>2, <1>3, <2>2, RestingFields DEF EpochsKnown, LateStops, ChildKnows
  <2>3. CASE q # p
    <3>1. writer'[q] = writer[q] /\ writer[q].owned <= row.owned /\ writer[q].owned \in Nat
      BY <1>1, <1>5, <2>3 DEF EpochsKnown, GateTypeOK, WriterRecord
    <3>2. ~(row'.owned = writer'[q].owned)
      BY <1>2, <1>3, <3>1
    <3> QED
      BY <1>1, <1>2, <1>3, <1>5, <3>1, <3>2 DEF EpochsKnown, LateStops, ChildKnows
  <2> QED
    BY <2>2, <2>3
<1>7. FileAhead'
  BY <1>0, <1>3 DEF FileAhead, OneHostOnly
<1>8. EnforcedHasOwner'
  BY <1>3 DEF EnforcedHasOwner, ShutdownRelease, MayRelease
<1>9. ASSUME NEW q \in GateProcs PROVE ~OfOwner(q)'
  BY <1>0, <1>3, <1>9, GateValues DEF OfOwner, GateTypeOK
<1>10. ActsOnPersistedMode'
  BY <1>9 DEF ActsOnPersistedMode
<1> QED
  BY <1>1, <1>d, <1>4, <1>5, <1>7, <1>8, <1>10

-----------------------------------------------------------------------------
(* Theorems *)

\* The database and the lock files fail and come back.
LEMMA FaultKeeps ==
    ASSUME GateIInv, Fault \/ UNCHANGED gateVars
    PROVE  GateIInv'
<1>1. /\ UNCHANGED <<placed, asked, boot, row, modeFile, exclusive, cache, writer, change>>
      /\ readable' \in BOOLEAN /\ usable' \in [GateProcs -> BOOLEAN]
  BY DEF Fault, gateVars, rowVars, GateIInv, GateTypeOK
<1> USE DEF GateIInv, GateOrder
<1>2. GateTypeOK' /\ ChangeTypeOK' /\ FileAhead'
  BY <1>1 DEF GateTypeOK, ChangeTypeOK, FileAhead, OneHostOnly
<1>3. ASSUME NEW q \in GateProcs PROVE LocksHeld(q)' /\ ChangeAllowed(q)'
  BY <1>1, <1>3 DEF LocksHeld, ChangeAllowed, Shares, Open
<1>4. ActsOnPersistedMode'
  BY <1>1 DEF ActsOnPersistedMode, Fenced, Shares, OfOwner, FileProves, OneHostOnly
<1> QED
  BY <1>1, <1>2, <1>3, <1>4, WritersStay

\* The steps of a writer keep the invariant.
LEMMA WriterKeeps ==
    ASSUME GateIInv, NEW p \in GateProcs,
           \/ Enter(p) \/ TakeModeLock(p) \/ EndWait(p) \/ Leave(p)
           \/ WriteBare(p) \/ Write(p) \/ PermitRead(p) \/ PermitFence(p) \/ Sent(p)
           \/ Dispatch(p) \/ ChildLock(p) \/ ChildAuthorise(p) \/ ChildWrite(p) \/ ChildEnd(p)
           \/ LoseSession(p)
    PROVE  GateIInv'
<1>1. PICK w \in WriterRecord : Move(p, w)
  BY WriterMoves DEF GateIInv
<1>2. /\ cache' \in [GateProcs -> RuntimeRecord]
      /\ UNCHANGED <<rowVars, exclusive, change, faultVars>>
  BY WriterMoves DEF GateIInv
<1>3. GateTypeOK'
  BY <1>1, <1>2 DEF GateIInv, GateTypeOK, Move, RuntimeRecord, rowVars, faultVars
<1>4. Fits(p, w) /\ \A q \in GateProcs : cache'[q] = cache[q] \/ cache'[q].epoch <= row.epoch
  BY <1>1, WritersFit
<1> QED
  BY <1>1, <1>2, <1>3, <1>4, FittingMove DEF GateIInv

\* So do the changes of the owner.
LEMMA OwnerKeeps ==
    ASSUME GateIInv, NEW p \in GateProcs,
           \/ Claim(p) \/ Drain(p) \/ CancelDrain(p) \/ Release(p) \/ Reclaim(p) \/ ForcedTakeover(p)
    PROVE  GateIInv'
<1>0. row.owned # row.owned + 1
  BY DEF GateIInv, GateTypeOK, Rows
<1>1. CASE Claim(p)
  BY <1>0, <1>1, OwnerChangeKeeps DEF Claim
<1>2. CASE Drain(p)
  BY <1>2, OwnerChangeKeeps DEF Drain, Mine
<1>3. CASE CancelDrain(p)
  BY <1>3, OwnerChangeKeeps DEF CancelDrain, Mine
<1>4. CASE Release(p)
  BY <1>0, <1>4, OwnerChangeKeeps DEF Release, MayRelease
<1>5. CASE Reclaim(p)
  BY <1>0, <1>5, OwnerChangeKeeps DEF Reclaim
<1>6. CASE ForcedTakeover(p)
  BY <1>0, <1>6, OwnerChangeKeeps DEF ForcedTakeover
<1> QED
  BY <1>1, <1>2, <1>3, <1>4, <1>5, <1>6

\* Every step keeps the invariant.
LEMMA GateStep ==
    ASSUME GateIInv, [GateNext]_gateVars
    PROVE  GateIInv'
<1>1. asked.changers \subseteq GateProcs /\ asked.owners \subseteq GateProcs
  BY DEF GateIInv, GateTypeOK
<1>2. ASSUME NEW p \in GateProcs, Die(p) PROVE GateIInv'
  BY <1>2, DeathKeeps DEF Die
<1>3. ASSUME NEW h \in GateHosts, Reboot(h) PROVE GateIInv'
  <2> DEFINE P == {p \in GateProcs : placed[p] = h}
  <2>1. Died(P) /\ P \in SUBSET GateProcs
    BY <1>3 DEF Reboot
  <2> QED
    BY <1>3, <2>1, DeathKeeps
<1> QED
  BY <1>1, <1>2, <1>3, WriterKeeps, OwnerKeeps, ShutdownKeeps, FaultKeeps, StartChangeKeeps,
     LockExclusiveKeeps, MarkChangingKeeps, CommitChangeKeeps, PublishEpochKeeps, AbandonChangeKeeps
     DEF GateNext

\* The initial states satisfy it.
LEMMA GateStart == GateInit => GateIInv
<1> SUFFICES ASSUME GateInit PROVE GateIInv
  OBVIOUS
<1>1. PICK d \in Deployments :
        /\ placed = d.at
        /\ asked = [owners |-> d.owners, changers |-> d.changers, faulty |-> d.faulty,
                    restarting |-> d.restarting, epochs |-> d.epochs, owned |-> d.owned]
        /\ row = d.row
        /\ modeFile = [h \in GateHosts |-> IF d.row.owner[1] = h THEN d.row.epoch + 1 ELSE NoFile]
  BY DEF GateInit
<1>2. row \in Rows /\ row.epoch \in 0..MaxGateEpoch /\ row.owned \in Nat
  BY <1>1 DEF Rows
<1>3. boot \in [GateHosts -> 0..1] /\ placed \in [GateProcs -> GateHosts]
  BY <1>1 DEF GateInit
<1>4. /\ Resting \in WriterRecord /\ NoChange \in ChangeRecord /\ NoRuntime \in RuntimeRecord
      /\ NoChange.pc = "idle"
  <2>1. NoRuntime \in RuntimeRecord
    BY DEF NoRuntime, RuntimeRecord
  <2>2. Resting \in WriterRecord
    BY <2>1 DEF Resting, WriterRecord, RuntimeRecord
  <2>3. NoChange \in ChangeRecord /\ NoChange.pc = "idle"
    BY DEF NoChange, ChangeRecord
  <2> QED
    BY <2>1, <2>2, <2>3
<1>5. modeFile \in [GateHosts -> {NoFile, Changing} \cup (0..(MaxGateEpoch + 1))]
  BY <1>1, <1>2
<1>6. /\ boot = [h \in GateHosts |-> 0] /\ exclusive = [h \in GateHosts |-> NoProc]
      /\ cache = [p \in GateProcs |-> NoRuntime] /\ writer = [p \in GateProcs |-> Resting]
      /\ change = [p \in GateProcs |-> NoChange]
      /\ readable = TRUE /\ usable = [p \in GateProcs |-> TRUE]
  BY DEF GateInit
<1>7. GateTypeOK
  <2>1. asked \in [owners : SUBSET GateProcs, changers : SUBSET GateProcs, faulty : SUBSET GateProcs,
                   restarting : SUBSET GateHosts, epochs : 0..MaxGateEpoch, owned : 0..MaxOwnerEpoch]
    BY <1>1
  <2> QED
    BY <1>2, <1>3, <1>4, <1>5, <1>6, <2>1 DEF GateTypeOK, RuntimeRecord
<1>8. ChangeTypeOK
  BY <1>4, <1>6 DEF ChangeTypeOK
<1>9. ASSUME NEW p \in GateProcs
      PROVE  EpochsKnown(p) /\ LocksHeld(p) /\ ChildKnows(p) /\ LateStops(p) /\ ChangeAllowed(p)
  BY <1>2, <1>4, <1>6, <1>9, RestingFields
     DEF EpochsKnown, LocksHeld, ChildKnows, LateStops, ChangeAllowed, Shares, NoRuntime
<1>10. OneAtTheNode
  BY <1>6, RestingFields DEF OneAtTheNode
<1>11. FileAhead
  BY <1>1, <1>3 DEF FileAhead
<1>12. EnforcedHasOwner
  BY <1>1 DEF EnforcedHasOwner
<1>13. ActsOnPersistedMode
  BY <1>6, RestingFields DEF ActsOnPersistedMode, Fenced
<1> QED
  BY <1>7, <1>8, <1>9, <1>10, <1>11, <1>12, <1>13 DEF GateIInv, GateOrder

\* Every reachable state satisfies the inductive invariant.
THEOREM GateInductive == GateSpec => []GateIInv
<1>1. GateInit => GateIInv
  BY GateStart
<1>2. GateIInv /\ [GateNext]_gateVars => GateIInv'
  BY GateStep
<1> QED
  BY <1>1, <1>2, PTL DEF GateSpec

\* A set of which any two members are one has one at most.
LEMMA OneAtMost ==
    ASSUME NEW S, \A x, y \in S : x = y
    PROVE  Cardinality(S) <= 1
<1>1. CASE S = {}
  BY <1>1, FS_EmptySet
<1>2. CASE S # {}
  <2>1. PICK x \in S : TRUE
    BY <1>2
  <2>2. S = {x}
    BY <2>1
  <2>3. Cardinality({x}) = 1
    BY FS_Singleton
  <2> QED
    BY <2>2, <2>3
<1> QED
  BY <1>1, <1>2

\* For any hosts, processes and deployments, and however often sessions are
\* lost: a host has one child at the node at a time (FileLock) and one child
\* has its advisory lock (GET_LOCK), a child that was cut off sends one write
\* at most (LegacyChildGuard.check), and an enforced gate has an owner.
THEOREM GateHolds == GateSpec => []GateInv
<1>1. GateIInv => GateInv
  <2> SUFFICES ASSUME GateIInv PROVE GateInv
    OBVIOUS
  <2>1. Cardinality({p \in AtTheNode : writer[p].adv}) <= 1
    <3>1. \A p, q \in {p \in AtTheNode : writer[p].adv} : p = q
      BY DEF GateIInv, GateOrder, OneAtTheNode, AtTheNode
    <3> QED
      BY <3>1, OneAtMost
  <2>2. ASSUME NEW h \in GateHosts PROVE Cardinality({p \in AtTheNode : placed[p] = h}) <= 1
    <3>1. \A p, q \in {p \in AtTheNode : placed[p] = h} : p = q
      BY DEF GateIInv, GateOrder, OneAtTheNode, AtTheNode
    <3> QED
      BY <3>1, OneAtMost
  <2>3. CutOffWritesOnce
    BY DEF GateIInv, GateOrder, LateStops, CutOffWritesOnce, GateTypeOK, WriterRecord
  <2> QED
    BY <2>1, <2>2, <2>3 DEF GateInv, GateIInv, OneChildOnTheNode
<1> QED
  BY <1>1, GateInductive, PTL

\* On one host a passage or a fenced write acts on the mode persisted while it
\* holds its lock; on several, the application of the owner's host sends nothing
\* itself in enforced that its mode-state file did not vouch for
\* (node_gate.node_gate, transport_guard.permit).
THEOREM PersistedMode == GateSpec => []ActsOnPersistedMode
<1>1. GateIInv => ActsOnPersistedMode
  BY DEF GateIInv
<1> QED
  BY <1>1, GateInductive, PTL

-----------------------------------------------------------------------------
(*****************************************************************************)
(* SafeUpdate, for any number of jobs and of mishaps.                        *)
(*****************************************************************************)

-----------------------------------------------------------------------------
(* The inductive invariant *)

Alive == {"boot", "ready", "deploying", "ending"}

\* A container runs exactly while its runner does, and a runner that never was
\* started has deployed nothing.
ContainerOfRunner(j) ==
    /\ docker[j] \in {"none", "created"} => runner[j].pc = "none"
    /\ docker[j] = "running" => runner[j].pc \in Alive
    /\ docker[j] = "gone" => runner[j].pc \in {"none", "gone"}

\* What a runner has done to its update.sh, and is about to write about it.
RunnerTellsDeploy(j) ==
    /\ runner[j].pc \in {"none", "boot", "ready"} => deploy[j] = "no"
    /\ runner[j].pc = "deploying" => deploy[j] = "going"
    /\ runner[j].pc = "ending" =>
         /\ runner[j].value \in {"failed", "completed", "interrupted"}
         /\ runner[j].value = "failed" => deploy[j] \in {"no", "stopped"}
         /\ runner[j].value = "completed" => deploy[j] = "done"

\* A job without a folder has left no trace.
Untouched(j) ==
    /\ docker[j] = "none" /\ active # j /\ request.job # j
    /\ \A op \in {"create", "start", "remove"} : Ask(op, j) \notin inflight

\* No container is there, or can be.
NeverCreated(j) ==
    /\ docker[j] = "none" /\ Ask("create", j) \notin inflight /\ request.job # j

\* How far the file of a job lags behind its runner.
FileFollows(j) ==
    /\ state[j] = "none" => Untouched(j)
    /\ state[j] = "queued" => deploy[j] = "no" /\ runner[j].pc \notin {"ready", "deploying"}
    /\ state[j] = "running" => runner[j].pc \notin {"none", "boot"}
    /\ state[j] \in Final \cup {"interrupted"} =>
         docker[j] = "gone" \/ (state[j] = "not_started" /\ NeverCreated(j))
    /\ state[j] = "not_started" => deploy[j] = "no"
    /\ state[j] = "failed" => deploy[j] \in {"no", "stopped"}
    /\ state[j] = "completed" => deploy[j] = "done"

\* A start is asked for only once the container exists.
StartsWhatExists(j) == Ask("start", j) \in inflight => docker[j] # "none"

\* What the request that holds the queue lock may rely on.
RequestHolds(j) ==
    /\ At("prepared", j) \/ At("active", j) =>
         /\ docker[j] = "none" /\ state[j] = "queued"
         /\ \A op \in {"create", "remove"} : Ask(op, j) \notin inflight
    /\ At("creating", j) =>
         /\ docker[j] \in {"none", "created"} /\ state[j] = "queued"
         /\ \A op \in {"start", "remove"} : Ask(op, j) \notin inflight
    /\ At("starting", j) => docker[j] # "none"
    /\ At("removing", j) => docker[j] \in {"created", "running"} \/ (docker[j] = "gone" /\ runner[j].pc = "none")
    /\ request.pc \in {"active", "creating", "starting", "removing"} /\ request.job = j => active = j

\* While a job is being prepared nothing runs or can start.
PreparedAlone == request.pc = "prepared" => \A j \in Jobs : ~MayRun(j)

OnlyActiveRuns == \A j \in Jobs : MayRun(j) => active = j

JobInv(j) ==
    /\ ContainerOfRunner(j) /\ RunnerTellsDeploy(j) /\ FileFollows(j)
    /\ StartsWhatExists(j) /\ RequestHolds(j)

UpdateOrder == (\A j \in Jobs : JobInv(j)) /\ PreparedAlone /\ OnlyActiveRuns

UpdateIInv == UpdateTypeOK /\ UpdateOrder

-----------------------------------------------------------------------------
(* The steps *)

USE UpdateAssumption DEF SSH, UpdateAssumption

\* A step leaves every variable in its type.
LEMMA UpdateTypes ==
    ASSUME UpdateTypeOK, [UpdateNext]_updatevars
    PROVE  UpdateTypeOK'
<1> USE DEF UpdateTypeOK, Final
<1>1. ASSUME NEW j \in Jobs, Queue(j) PROVE UpdateTypeOK'
  BY <1>1 DEF Queue, runnerVars, Goes, Prepares, Writes, Final, Shown, CliFree, Idle
<1>2. ASSUME NEW j \in Jobs, Activate(j) PROVE UpdateTypeOK'
  BY <1>2 DEF Activate, runnerVars, Goes, At
<1>3. ASSUME NEW j \in Jobs, AskCreate(j) PROVE UpdateTypeOK'
  BY <1>3 DEF AskCreate, Asks, runnerVars, Goes, Ask, At
<1>4. ASSUME NEW j \in Jobs, AskStart(j) PROVE UpdateTypeOK'
  BY <1>4 DEF AskStart, Asks, runnerVars, Goes, Ask, At
<1>5. ASSUME NEW j \in Jobs, CreateRefused(j) PROVE UpdateTypeOK'
  BY <1>5 DEF CreateRefused, runnerVars, Ready, Goes, Writes, Ask, At
<1>6. ASSUME NEW j \in Jobs, Returns(j) PROVE UpdateTypeOK'
  BY <1>6 DEF Returns, runnerVars, Ready, Goes, At
<1>7. ASSUME NEW j \in Jobs, StartUnanswered(j) PROVE UpdateTypeOK'
  BY <1>7 DEF StartUnanswered, Asks, runnerVars, Goes, Ask, At
<1>8. ASSUME NEW j \in Jobs, NotStarted(j) PROVE UpdateTypeOK'
  BY <1>8 DEF NotStarted, runnerVars, Ready, Goes, Writes, At
<1>9. ASSUME NEW j \in Jobs, ResolveStarting(j) PROVE UpdateTypeOK'
  BY <1>9 DEF ResolveStarting, runnerVars, Goes, Ask, Shown, Final, Idle
<1>10. ASSUME NEW j \in Jobs, ResolveUnknown(j) PROVE UpdateTypeOK'
  BY <1>10 DEF ResolveUnknown, runnerVars, Writes, CliFree, Shown, Final, Idle
<1>11. ASSUME NEW j \in Jobs, Creates(j) PROVE UpdateTypeOK'
  BY <1>11 DEF Creates, runnerVars, Executes, Ask
<1>12. ASSUME NEW j \in Jobs, Starts(j) PROVE UpdateTypeOK'
  BY <1>12 DEF Starts, Executes, Ask
<1>13. ASSUME NEW j \in Jobs, Removes(j) PROVE UpdateTypeOK'
  BY <1>13 DEF Removes, runnerVars, Executes, Ask
<1>14. ASSUME NEW j \in Jobs, VerifyFails(j) PROVE UpdateTypeOK'
  BY <1>14 DEF VerifyFails, daemonVars, Ends
<1>15. ASSUME NEW j \in Jobs, Verified(j) PROVE UpdateTypeOK'
  BY <1>15 DEF Verified, daemonVars, Writes, Steps
<1>16. ASSUME NEW j \in Jobs, Spawn(j) PROVE UpdateTypeOK'
  BY <1>16 DEF Spawn, daemonVars, Became, Steps
<1>17. ASSUME NEW j \in Jobs, TakeLock(j) PROVE UpdateTypeOK'
  BY <1>17 DEF TakeLock, daemonVars, CliFree
<1>18. ASSUME NEW j \in Jobs, DeployStops(j) PROVE UpdateTypeOK'
  BY <1>18 DEF DeployStops, daemonVars, Releases, Became, Ends
<1>19. ASSUME NEW j \in Jobs, ReplacesBackend(j) PROVE UpdateTypeOK'
  BY <1>19 DEF ReplacesBackend, runnerVars, Ready, Goes, Idle
<1>20. ASSUME NEW j \in Jobs, Deployed(j) PROVE UpdateTypeOK'
  BY <1>20 DEF Deployed, daemonVars, Releases, Became, Ends, Idle
<1>21. ASSUME NEW j \in Jobs, Stopped(j) PROVE UpdateTypeOK'
  BY <1>21, SMTT(20) DEF Stopped, daemonVars, Releases, Ends, Became, Mishap
<1>22. ASSUME NEW j \in Jobs, Finish(j) PROVE UpdateTypeOK'
  BY <1>22 DEF Finish, Gone, NotWithinARemoval, At, Writes
<1>23. ASSUME NEW j \in Jobs, Killed(j) PROVE UpdateTypeOK'
  <2>1. faults' \in 0..UpdateFaults
    BY <1>23 DEF Killed, Mishap
  <2>2. cli' \in Jobs \cup {NoJob, SSH}
    BY <1>23 DEF Killed, Releases
  <2>3. deploy' \in [Jobs -> {"no", "going", "cut", "stopped", "done"}]
    BY <1>23 DEF Killed, Became
  <2> QED
    BY <1>23, <2>1, <2>2, <2>3 DEF Killed, Gone
<1>24. ASSUME NEW m \in inflight, Drops(m) PROVE UpdateTypeOK'
  BY <1>24 DEF Drops, runnerVars
<1>25. CASE BackendDies
  BY <1>25 DEF BackendDies, runnerVars, Ready, Goes, Mishap, Idle
<1>26. CASE SSHStarts
  BY <1>26 DEF SSHStarts, daemonVars, Mishap, CliFree
<1>27. CASE SSHEnds
  BY <1>27 DEF SSHEnds, Ready, Goes
<1>28. CASE UNCHANGED updatevars
  BY <1>28 DEF updatevars
<1> QED
  BY <1>1, <1>2, <1>3, <1>4, <1>5, <1>6, <1>7, <1>8, <1>9, <1>10, <1>11, <1>12, <1>13, <1>14, <1>15, <1>16, <1>17, <1>18, <1>19, <1>20, <1>21, <1>22, <1>23, <1>24, <1>25, <1>26, <1>27, <1>28 DEF UpdateNext

\* What is shown of a job, in the words of the invariant.
LEMMA ShownCases ==
    ASSUME NEW j \in Jobs, UpdateTypeOK
    PROVE  /\ Shown(j) = "not_started" <=>
                 \/ state[j] = "not_started"
                 \/ state[j] = "queued" /\ docker[j] \notin {"created", "running"}
           /\ Shown(j) = "failed" <=> state[j] = "failed"
           /\ Shown(j) = "completed" <=> state[j] = "completed"
           /\ docker[j] \in {"created", "running"} /\ state[j] \notin Final \cup {"interrupted"} =>
                Shown(j) \notin Final
BY DEF Shown, Final, UpdateTypeOK

\* What has a result does not run and cannot start.
LEMMA ResultsFinal ==
    ASSUME UpdateIInv
    PROVE  ShownIsOver
<1> SUFFICES ASSUME NEW j \in Jobs, MayRun(j) PROVE active = j /\ Shown(j) \notin Final
  BY DEF ShownIsOver
<1>1. active = j
  BY DEF UpdateIInv, UpdateOrder, OnlyActiveRuns
<1>2. docker[j] \in {"created", "running"}
  BY DEF MayRun
<1>3. state[j] \notin Final \cup {"interrupted"}
  BY <1>2 DEF UpdateIInv, UpdateOrder, JobInv, FileFollows, NeverCreated
<1> QED
  BY <1>1, <1>2, <1>3, ShownCases DEF UpdateIInv

\* The steps that put nothing new in the mail or on the queue keep the order.
LEMMA UpdateQuiet ==
    ASSUME UpdateIInv, UpdateTypeOK',
           \/ \E j \in Jobs :
                 \/ Activate(j) \/ AskCreate(j) \/ CreateRefused(j) \/ Returns(j) \/ StartUnanswered(j)
                 \/ NotStarted(j) \/ ResolveStarting(j) \/ ResolveUnknown(j) \/ VerifyFails(j) \/ Verified(j)
                 \/ Spawn(j) \/ TakeLock(j) \/ DeployStops(j) \/ ReplacesBackend(j) \/ Deployed(j)
                 \/ Finish(j) \/ Killed(j)
           \/ \E m \in inflight : Drops(m)
           \/ BackendDies \/ SSHStarts \/ UNCHANGED updatevars
    PROVE  UpdateOrder'
<1> USE DEF UpdateIInv, UpdateTypeOK, UpdateOrder, JobInv, ContainerOfRunner, RunnerTellsDeploy, FileFollows,
            StartsWhatExists, RequestHolds, PreparedAlone, OnlyActiveRuns, Untouched,
            NeverCreated, MayRun, Alive, At, Ask, Final
<1>1. ASSUME NEW j \in Jobs, Activate(j) PROVE UpdateOrder'
  BY <1>1 DEF Activate, runnerVars, Goes
<1>2. ASSUME NEW j \in Jobs, AskCreate(j) PROVE UpdateOrder'
  BY <1>2 DEF AskCreate, Asks, runnerVars, Goes
<1>3. ASSUME NEW j \in Jobs, CreateRefused(j) PROVE UpdateOrder'
  BY <1>3 DEF CreateRefused, runnerVars, Ready, Goes, Writes
<1>4. ASSUME NEW j \in Jobs, Returns(j) PROVE UpdateOrder'
  BY <1>4 DEF Returns, runnerVars, Ready, Goes
<1>5. ASSUME NEW j \in Jobs, StartUnanswered(j) PROVE UpdateOrder'
  BY <1>5 DEF StartUnanswered, Asks, runnerVars, Goes
<1>6. ASSUME NEW j \in Jobs, NotStarted(j) PROVE UpdateOrder'
  BY <1>6 DEF NotStarted, runnerVars, Ready, Goes, Writes
<1>7. ASSUME NEW j \in Jobs, ResolveStarting(j) PROVE UpdateOrder'
  BY <1>7 DEF ResolveStarting, runnerVars, Goes, Shown, Idle
<1>8. ASSUME NEW j \in Jobs, ResolveUnknown(j) PROVE UpdateOrder'
  BY <1>8 DEF ResolveUnknown, runnerVars, Writes, CliFree, Shown, Idle
<1>9. ASSUME NEW j \in Jobs, VerifyFails(j) PROVE UpdateOrder'
  BY <1>9 DEF VerifyFails, daemonVars, Ends
<1>10. ASSUME NEW j \in Jobs, Verified(j) PROVE UpdateOrder'
  BY <1>10 DEF Verified, daemonVars, Writes, Steps
<1>11. ASSUME NEW j \in Jobs, Spawn(j) PROVE UpdateOrder'
  BY <1>11 DEF Spawn, daemonVars, Became, Steps
<1>12. ASSUME NEW j \in Jobs, TakeLock(j) PROVE UpdateOrder'
  BY <1>12 DEF TakeLock, daemonVars, CliFree
<1>13. ASSUME NEW j \in Jobs, DeployStops(j) PROVE UpdateOrder'
  BY <1>13 DEF DeployStops, daemonVars, Releases, Became, Ends
<1>14. ASSUME NEW j \in Jobs, ReplacesBackend(j) PROVE UpdateOrder'
  BY <1>14 DEF ReplacesBackend, runnerVars, Ready, Goes, Idle
<1>15. ASSUME NEW j \in Jobs, Deployed(j) PROVE UpdateOrder'
  BY <1>15 DEF Deployed, daemonVars, Releases, Became, Ends, Idle
<1>16. ASSUME NEW j \in Jobs, Finish(j) PROVE UpdateOrder'
  BY <1>16 DEF Finish, Gone, NotWithinARemoval, Writes
<1>17. ASSUME NEW j \in Jobs, Killed(j) PROVE UpdateOrder'
  BY <1>17 DEF Killed, Became, Releases, Gone, NotWithinARemoval, Mishap
<1>18. ASSUME NEW m \in inflight, Drops(m) PROVE UpdateOrder'
  BY <1>18 DEF Drops, runnerVars
<1>19. CASE BackendDies
  BY <1>19 DEF BackendDies, runnerVars, Ready, Goes, Mishap, Idle
<1>20. CASE SSHStarts
  BY <1>20 DEF SSHStarts, daemonVars, Mishap, CliFree
<1>21. CASE UNCHANGED updatevars
  BY <1>21 DEF updatevars
<1> QED
  BY <1>1, <1>2, <1>3, <1>4, <1>5, <1>6, <1>7, <1>8, <1>9, <1>10, <1>11, <1>12, <1>13, <1>14, <1>15,
     <1>16, <1>17, <1>18, <1>19, <1>20, <1>21

\* So do the others: a job is queued, or the daemon creates, starts and removes.
LEMMA UpdateStep ==
    ASSUME UpdateIInv, UpdateTypeOK', [UpdateNext]_updatevars
    PROVE  UpdateOrder'
<1>1. ASSUME NEW j \in Jobs, Queue(j) PROVE UpdateOrder'
  <2>1. ASSUME NEW i \in Jobs PROVE ~MayRun(i)
    <3>1. MayRun(i) => active = i /\ Shown(i) \notin Final
      BY ResultsFinal DEF ShownIsOver
    <3> QED
      BY <1>1, <3>1 DEF Queue
  <2>2. PreparedAlone' /\ OnlyActiveRuns'
    BY <1>1, <2>1 DEF Queue, PreparedAlone, OnlyActiveRuns, MayRun, runnerVars, Ask
  <2>3. ASSUME NEW i \in Jobs PROVE JobInv(i)'
    BY <1>1 DEF Queue, runnerVars, Goes, Prepares, Writes, Idle, At, Ask, Final, UpdateIInv, UpdateTypeOK,
                UpdateOrder, JobInv, ContainerOfRunner, RunnerTellsDeploy, FileFollows, Untouched,
                NeverCreated, StartsWhatExists, RequestHolds
  <2> QED
    BY <2>2, <2>3 DEF UpdateOrder
<1>2. ASSUME NEW j \in Jobs, AskStart(j) PROVE UpdateOrder'
  <2>1. ASSUME NEW i \in Jobs PROVE ContainerOfRunner(i)' /\ RunnerTellsDeploy(i)'
    BY <1>2 DEF AskStart, Asks, runnerVars, Goes, UpdateIInv, UpdateTypeOK, UpdateOrder, JobInv, ContainerOfRunner,
                RunnerTellsDeploy, Alive
  <2>2. ASSUME NEW i \in Jobs PROVE FileFollows(i)'
    BY <1>2 DEF AskStart, Asks, runnerVars, Goes, Ask, At, UpdateIInv, UpdateTypeOK, UpdateOrder, JobInv, FileFollows, Untouched,
                NeverCreated, Final, ContainerOfRunner, RunnerTellsDeploy, RequestHolds
  <2>3. ASSUME NEW i \in Jobs PROVE StartsWhatExists(i)' /\ RequestHolds(i)'
    BY <1>2 DEF AskStart, Asks, runnerVars, Goes, Ask, At, UpdateIInv, UpdateTypeOK, UpdateOrder, JobInv,
                StartsWhatExists, RequestHolds
  <2>4. PreparedAlone' /\ OnlyActiveRuns'
    BY <1>2, ZenonT(30) DEF AskStart, Asks, runnerVars, Goes, At, Ask, UpdateIInv, UpdateTypeOK, UpdateOrder, JobInv, PreparedAlone,
                OnlyActiveRuns, MayRun, RequestHolds, StartsWhatExists, FileFollows, Untouched
  <2> QED
    BY <2>1, <2>2, <2>3, <2>4 DEF UpdateOrder, JobInv
<1>3. ASSUME NEW j \in Jobs, Creates(j) PROVE UpdateOrder'
  <2>1. ASSUME NEW i \in Jobs PROVE ContainerOfRunner(i)' /\ RunnerTellsDeploy(i)'
    BY <1>3 DEF Creates, Executes, runnerVars, UpdateIInv, UpdateTypeOK, UpdateOrder, JobInv, ContainerOfRunner,
                RunnerTellsDeploy, Alive
  <2>2. ASSUME NEW i \in Jobs PROVE FileFollows(i)'
    BY <1>3 DEF Creates, Executes, runnerVars, Ask, At, UpdateIInv, UpdateTypeOK, UpdateOrder, JobInv, FileFollows, Untouched,
                NeverCreated, Final, ContainerOfRunner, RunnerTellsDeploy, RequestHolds
  <2>3. ASSUME NEW i \in Jobs PROVE StartsWhatExists(i)' /\ RequestHolds(i)'
    <3>1. inflight' \subseteq inflight /\ runner' = runner /\ UNCHANGED <<request, state, active>>
      BY <1>3 DEF Creates, Executes, runnerVars
    <3>2. docker'[i] = IF i = j THEN "created" ELSE docker[i]
      BY <1>3 DEF Creates, Executes, UpdateIInv, UpdateTypeOK
    <3>3. JobInv(i) /\ docker[i] \in {"none", "created", "running", "gone"}
      BY DEF UpdateIInv, UpdateTypeOK, UpdateOrder
    <3>4. i = j => docker[i] = "none" /\ Ask("create", i) \in inflight
      BY <1>3 DEF Creates, Executes
    <3>5. StartsWhatExists(i)'
      BY <3>1, <3>2, <3>3 DEF JobInv, StartsWhatExists, Ask
    <3>6. RequestHolds(i)'
      BY <3>1, <3>2, <3>3, <3>4, SMTT(20) DEF JobInv, RequestHolds, ContainerOfRunner, At, Ask
    <3> QED
      BY <3>5, <3>6
  <2>4. PreparedAlone' /\ OnlyActiveRuns'
    <3>1. inflight' \subseteq inflight /\ UNCHANGED <<request, active>>
      BY <1>3 DEF Creates, Executes
    <3>2. ASSUME NEW i \in Jobs PROVE MayRun(i)' => MayRun(i)
      <4>1. docker'[i] = IF i = j THEN "created" ELSE docker[i]
        BY <1>3 DEF Creates, Executes, UpdateIInv, UpdateTypeOK
      <4>2. i = j => docker[i] = "none" /\ Ask("start", i) \notin inflight
        BY <1>3 DEF Creates, Executes, UpdateIInv, UpdateOrder, JobInv, StartsWhatExists
      <4> QED
        BY <3>1, <4>1, <4>2 DEF MayRun, Ask
    <3> QED
      BY <3>1, <3>2 DEF UpdateIInv, UpdateOrder, PreparedAlone, OnlyActiveRuns
  <2> QED
    BY <2>1, <2>2, <2>3, <2>4 DEF UpdateOrder, JobInv
<1>4. ASSUME NEW j \in Jobs, Starts(j) PROVE UpdateOrder'
  <2>1. ASSUME NEW i \in Jobs PROVE ContainerOfRunner(i)' /\ RunnerTellsDeploy(i)'
    BY <1>4 DEF Starts, Executes, UpdateIInv, UpdateTypeOK, UpdateOrder, JobInv, ContainerOfRunner,
                RunnerTellsDeploy, Alive
  <2>2. ASSUME NEW i \in Jobs PROVE FileFollows(i)'
    BY <1>4 DEF Starts, Executes, Ask, At, UpdateIInv, UpdateTypeOK, UpdateOrder, JobInv, FileFollows, Untouched,
                NeverCreated, Final, ContainerOfRunner, RunnerTellsDeploy, RequestHolds
  <2>3. ASSUME NEW i \in Jobs PROVE StartsWhatExists(i)' /\ RequestHolds(i)'
    <3>1. inflight' \subseteq inflight /\ UNCHANGED <<request, state, active>>
      BY <1>4 DEF Starts, Executes
    <3>2. docker'[i] = IF i = j THEN "running" ELSE docker[i]
      BY <1>4 DEF Starts, Executes, UpdateIInv, UpdateTypeOK
    <3>3. JobInv(i) /\ docker[i] \in {"none", "created", "running", "gone"}
      BY DEF UpdateIInv, UpdateTypeOK, UpdateOrder
    <3>4. i = j => docker[i] = "created" /\ Ask("start", i) \in inflight
      BY <1>4 DEF Starts, Executes
    <3>5. StartsWhatExists(i)'
      BY <3>1, <3>2, <3>3 DEF JobInv, StartsWhatExists, Ask
    <3>6. RequestHolds(i)'
      BY <3>1, <3>2, <3>3, <3>4, <1>4, SMTT(20) DEF Starts, JobInv, RequestHolds, ContainerOfRunner, At, Ask
    <3> QED
      BY <3>5, <3>6
  <2>4. PreparedAlone' /\ OnlyActiveRuns'
    BY <1>4 DEF Starts, Executes, At, Ask, UpdateIInv, UpdateTypeOK, UpdateOrder, JobInv, PreparedAlone,
                OnlyActiveRuns, MayRun, RequestHolds, StartsWhatExists, FileFollows, Untouched
  <2> QED
    BY <2>1, <2>2, <2>3, <2>4 DEF UpdateOrder, JobInv
<1>5. ASSUME NEW j \in Jobs, Removes(j) PROVE UpdateOrder'
  <2>1. ASSUME NEW i \in Jobs PROVE ContainerOfRunner(i)' /\ RunnerTellsDeploy(i)'
    BY <1>5 DEF Removes, Executes, runnerVars, UpdateIInv, UpdateTypeOK, UpdateOrder, JobInv, ContainerOfRunner,
                RunnerTellsDeploy, Alive
  <2>2. ASSUME NEW i \in Jobs PROVE FileFollows(i)'
    BY <1>5 DEF Removes, Executes, runnerVars, Ask, At, UpdateIInv, UpdateTypeOK, UpdateOrder, JobInv, FileFollows, Untouched,
                NeverCreated, Final, ContainerOfRunner, RunnerTellsDeploy, RequestHolds
  <2>3. ASSUME NEW i \in Jobs PROVE StartsWhatExists(i)' /\ RequestHolds(i)'
    <3>1. inflight' \subseteq inflight /\ runner' = runner /\ UNCHANGED <<request, state, active>>
      BY <1>5 DEF Removes, Executes, runnerVars
    <3>2. docker'[i] = IF i = j THEN "gone" ELSE docker[i]
      BY <1>5 DEF Removes, Executes, UpdateIInv, UpdateTypeOK
    <3>3. JobInv(i) /\ docker[i] \in {"none", "created", "running", "gone"}
      BY DEF UpdateIInv, UpdateTypeOK, UpdateOrder
    <3>4. i = j => docker[i] = "created" /\ Ask("remove", i) \in inflight
      BY <1>5 DEF Removes, Executes
    <3>5. StartsWhatExists(i)'
      BY <3>1, <3>2, <3>3 DEF JobInv, StartsWhatExists, Ask
    <3>6. RequestHolds(i)'
      BY <3>1, <3>2, <3>3, <3>4, SMTT(20) DEF JobInv, RequestHolds, ContainerOfRunner, At, Ask
    <3> QED
      BY <3>5, <3>6
  <2>4. PreparedAlone' /\ OnlyActiveRuns'
    BY <1>5 DEF Removes, Executes, runnerVars, At, Ask, UpdateIInv, UpdateTypeOK, UpdateOrder, JobInv, PreparedAlone,
                OnlyActiveRuns, MayRun, RequestHolds, StartsWhatExists, FileFollows, Untouched
  <2> QED
    BY <2>1, <2>2, <2>3, <2>4 DEF UpdateOrder, JobInv
<1>6. ASSUME NEW j \in Jobs, Stopped(j) PROVE UpdateOrder'
  <2>1. ASSUME NEW i \in Jobs PROVE ContainerOfRunner(i)' /\ RunnerTellsDeploy(i)'
    BY <1>6 DEF Stopped, Mishap, Ends, Became, daemonVars, UpdateIInv, UpdateTypeOK, UpdateOrder, JobInv, ContainerOfRunner,
                RunnerTellsDeploy, Alive
  <2>2. ASSUME NEW i \in Jobs PROVE FileFollows(i)'
    BY <1>6 DEF Stopped, Mishap, Ends, Became, daemonVars, Ask, At, UpdateIInv, UpdateTypeOK, UpdateOrder, JobInv, FileFollows, Untouched,
                NeverCreated, Final, ContainerOfRunner, RunnerTellsDeploy, RequestHolds
  <2>3. ASSUME NEW i \in Jobs PROVE StartsWhatExists(i)' /\ RequestHolds(i)'
    <3>1. UNCHANGED <<state, active, docker, inflight, request>>
      BY <1>6 DEF Stopped, daemonVars
    <3>2. JobInv(i) /\ JobInv(j)
      BY DEF UpdateIInv, UpdateOrder
    <3>3. runner[j].pc # "none" /\ (i # j => runner'[i] = runner[i])
      BY <1>6 DEF Stopped, Ends, UpdateIInv, UpdateTypeOK
    <3>4. docker[j] # "gone"
      BY <1>6, <3>2 DEF Stopped, JobInv, ContainerOfRunner
    <3> QED
      BY <3>1, <3>2, <3>3, <3>4 DEF JobInv, StartsWhatExists, RequestHolds, At, Ask
  <2>4. PreparedAlone' /\ OnlyActiveRuns'
    BY <1>6 DEF Stopped, Mishap, Ends, Became, daemonVars, At, Ask, UpdateIInv, UpdateTypeOK, UpdateOrder, JobInv, PreparedAlone,
                OnlyActiveRuns, MayRun, RequestHolds, StartsWhatExists, FileFollows, Untouched
  <2> QED
    BY <2>1, <2>2, <2>3, <2>4 DEF UpdateOrder, JobInv
<1>7. CASE SSHEnds
  <2>1. ASSUME NEW i \in Jobs PROVE ContainerOfRunner(i)' /\ RunnerTellsDeploy(i)'
    BY <1>7 DEF SSHEnds, Ready, Goes, UpdateIInv, UpdateTypeOK, UpdateOrder, JobInv, ContainerOfRunner,
                RunnerTellsDeploy, Alive
  <2>2. ASSUME NEW i \in Jobs PROVE FileFollows(i)'
    BY <1>7 DEF SSHEnds, Ready, Goes, Ask, At, UpdateIInv, UpdateTypeOK, UpdateOrder, JobInv, FileFollows, Untouched,
                NeverCreated, Final, ContainerOfRunner, RunnerTellsDeploy, RequestHolds
  <2>3. ASSUME NEW i \in Jobs PROVE StartsWhatExists(i)' /\ RequestHolds(i)'
    BY <1>7 DEF SSHEnds, Ready, Goes, At, Ask, UpdateIInv, UpdateTypeOK, UpdateOrder, JobInv,
                StartsWhatExists, RequestHolds
  <2>4. PreparedAlone' /\ OnlyActiveRuns'
    BY <1>7 DEF SSHEnds, Ready, Goes, At, Ask, UpdateIInv, UpdateTypeOK, UpdateOrder, JobInv, PreparedAlone,
                OnlyActiveRuns, MayRun, RequestHolds, StartsWhatExists, FileFollows, Untouched
  <2> QED
    BY <2>1, <2>2, <2>3, <2>4 DEF UpdateOrder, JobInv
<1> QED
  BY <1>1, <1>2, <1>3, <1>4, <1>5, <1>6, <1>7, UpdateQuiet DEF UpdateNext

-----------------------------------------------------------------------------
(* Theorems *)

\* The initial states satisfy the invariant.
LEMMA UpdateStart == UpdateInit => UpdateIInv
<1> SUFFICES ASSUME UpdateInit PROVE UpdateIInv
  OBVIOUS
<1>1. UpdateTypeOK
  BY DEF UpdateInit, UpdateTypeOK
<1>2. ASSUME NEW j \in Jobs PROVE JobInv(j)
  BY DEF UpdateInit, JobInv, ContainerOfRunner, RunnerTellsDeploy, FileFollows, Untouched,
         Final, StartsWhatExists, RequestHolds, At
<1>3. PreparedAlone /\ OnlyActiveRuns
  BY DEF UpdateInit, PreparedAlone, OnlyActiveRuns, MayRun
<1> QED
  BY <1>1, <1>2, <1>3 DEF UpdateIInv, UpdateOrder

\* Every reachable state satisfies the inductive invariant: the job's file, its
\* container, its runner, the daemon's mail and the request agree.
THEOREM UpdateInductive == UpdateSpec => []UpdateIInv
<1>1. UpdateIInv /\ [UpdateNext]_updatevars => UpdateIInv'
  BY UpdateTypes, UpdateStep DEF UpdateIInv
<1> QED
  BY <1>1, UpdateStart, PTL DEF UpdateSpec

\* The results the panel shows of its updates are final, and they are true:
\* only the active job can run, nothing with a result can, and a result says
\* what became of the deployment.
THEOREM ResultsHold == UpdateSpec => []UpdateInv
<1>1. UpdateIInv => UpdateInv
  <2> SUFFICES ASSUME UpdateIInv PROVE UpdateInv
    OBVIOUS
  <2>1. UpdateTypeOK
    BY DEF UpdateIInv
  <2>2. ShownIsOver
    BY ResultsFinal
  <2>3. ASSUME NEW j \in Jobs
        PROVE  /\ Shown(j) = "not_started" => deploy[j] = "no"
               /\ Shown(j) = "failed" => deploy[j] \in {"no", "stopped"}
               /\ Shown(j) = "completed" => deploy[j] = "done"
    BY <2>1, ShownCases DEF UpdateIInv, UpdateOrder, JobInv, FileFollows
  <2> QED
    BY <2>1, <2>2, <2>3 DEF UpdateInv, ShownIsTrue
<1> QED
  BY <1>1, UpdateInductive, PTL
=============================================================================
