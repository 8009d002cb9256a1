------------------------------ MODULE NodeGate ------------------------------
(***************************************************************************)
(* The node ownership gate: which process may write to a remote node.      *)
(*                                                                         *)
(* One row of the database holds the gate mode (off, shadow, enforced) and *)
(* the owner of the installation, each with an epoch.  Every process keeps *)
(* a copy of the mode for a while.  A writer passes the gate (passage) or  *)
(* not (bare), and its write is decided again by the transport guard; in   *)
(* enforced it is sent by a child process that takes the node's lock and   *)
(* re-reads the row before each write.  A change of the mode holds the     *)
(* gate-mode lock of its host exclusively and marks the mode-state file    *)
(* before and after its commit.  Hosts restart and are taken over,         *)
(* processes die, the database and the lock files fail, and a child loses  *)
(* its database session and with it the node's advisory lock.  One node.   *)
(***************************************************************************)
EXTENDS Integers, FiniteSets

CONSTANTS GateProcs,        \* application processes
          GateHosts,
          Deployments,      \* [at: process -> host, row: the singleton at first,
                            \*  owners, changers: processes asked for its changes,
                            \*  faulty: those whose lock files may become unusable,
                            \*  restarting: hosts that may restart, once,
                            \*  epochs, owned: bounds on changes of mode and owner]
          MaxGateEpoch,     \* the largest bounds of all deployments
          MaxOwnerEpoch,
          SupportsRelease,  \* the installed CHECK allows enforced without an owner
          NoProc

Modes    == {"off", "shadow", "enforced"}
NoOwner  == <<NoProc, 0>>

Rows == [mode : Modes, epoch : 0..MaxGateEpoch,
         state : {"none", "active", "draining", "released"},
         owner : {NoOwner} \cup (GateHosts \X (0..1)), owned : 0..MaxOwnerEpoch]

\* A deployment starts from a row that the table's CHECKs admit.
ASSUME GateAssumption == /\ \A d \in Deployments :
                               /\ d.at \in [GateProcs -> GateHosts]
                               /\ d.owners \subseteq GateProcs
                               /\ d.changers \subseteq GateProcs
                               /\ d.faulty \subseteq GateProcs
                               /\ d.restarting \subseteq GateHosts
                               /\ d.epochs \in 0..MaxGateEpoch
                               /\ d.owned \in 0..MaxOwnerEpoch
                               /\ d.row \in Rows
                               /\ d.row.mode = "enforced" => d.row.state \in {"active", "draining"}
                         /\ MaxGateEpoch \in Nat
                         /\ MaxOwnerEpoch \in Nat
                         /\ SupportsRelease \in BOOLEAN
                         /\ NoProc \notin GateProcs \cup GateHosts

VARIABLES
    placed,    \* process -> host
    asked,     \* what the deployment is asked for and exposed to
    boot,      \* host -> boot id
    row,       \* the singleton provisioning_runtime_state
    modeFile,  \* host -> gate-mode.state: an epoch, NoFile or Changing
    exclusive, \* host -> process holding the gate-mode lock exclusively
    cache,     \* process -> last runtime it read, or NoRuntime
    writer,    \* process -> its writer
    change,    \* process -> its change of the gate mode
    readable,  \* the database answers
    usable     \* process -> it can open lock files

gateVars == <<placed, asked, boot, row, modeFile, exclusive, cache, writer, change,
              readable, usable>>

Level    == [m \in Modes |-> IF m = "off" THEN 0 ELSE IF m = "shadow" THEN 1 ELSE 2]
NoFile   == -1
Changing == -2
NoRuntime == [mode |-> "none", epoch |-> 0]

Runtime == [mode |-> row.mode, epoch |-> row.epoch]
Identity(p) == <<placed[p], boot[placed[p]]>>
Mine(p) == row.owner = Identity(p)

\* No writer: nothing held, no child.
Resting == [pc |-> "idle", rt |-> NoRuntime, passage |-> FALSE, lock |-> FALSE,
            hold |-> FALSE, node |-> FALSE, adv |-> FALSE, owned |-> 0, late |-> 0]
NoRow    == [mode |-> "none"]
NoChange == [pc |-> "idle", to |-> "off", from |-> "off", seen |-> NoRow]

GateInit == /\ \E d \in Deployments :
                  /\ placed = d.at
                  /\ asked = [owners |-> d.owners, changers |-> d.changers, faulty |-> d.faulty,
                              restarting |-> d.restarting, epochs |-> d.epochs, owned |-> d.owned]
                  /\ row = d.row
                  /\ modeFile = [h \in GateHosts |-> IF d.row.owner[1] = h
                                   THEN d.row.epoch + 1 ELSE NoFile]
            /\ boot = [h \in GateHosts |-> 0]
            /\ exclusive = [h \in GateHosts |-> NoProc]
            /\ cache = [p \in GateProcs |-> NoRuntime]
            /\ writer = [p \in GateProcs |-> Resting]
            /\ change = [p \in GateProcs |-> NoChange]
            /\ readable = TRUE
            /\ usable = [p \in GateProcs |-> TRUE]

rowVars   == <<placed, asked, boot, row, modeFile>>
faultVars == <<readable, usable>>

-----------------------------------------------------------------------------
(* Locks *)

ChildPcs == {"spawned", "gated", "authorised"}

\* gate-mode.lock is held shared by a passage, by a fenced send and by a child.
Shares(p) == writer[p].lock \/ writer[p].hold

\* Nobody holds the gate-mode lock of host h exclusively.
Open(h) == exclusive[h] = NoProc

\* Nobody holds it at all: it can be taken exclusively.
Drained(h) == Open(h) /\ \A q \in GateProcs : placed[q] = h => ~Shares(q)

\* The node's lock file of host h is free.
NodeFree(h) == \A q \in GateProcs :
                  placed[q] = h => ~writer[q].node /\ writer[q].pc \notin {"gated", "authorised"}

\* Mutant of AdvisoryFree: only the lock files of the own host.
AdvisoryUnchecked == TRUE

\* The node's advisory lock of the database server is free, for any host.  It
\* belongs to the database session of the child that took it (adv) and ends
\* with that session, not with the child.
AdvisoryFree == \A q \in GateProcs : ~writer[q].adv

Move(p, w) == writer' = [writer EXCEPT ![p] = w]
Refuse(p)  == Move(p, Resting)

-----------------------------------------------------------------------------
(* A passage through node_gate *)

Remember(p) == cache' = [cache EXCEPT ![p] = Runtime]

\* The mode comes from the copy, or from the database once the copy's window
\* passed; a failed read leaves the copy.
Enter(p) ==
    /\ writer[p].pc = "idle"
    /\ \E passed \in BOOLEAN :
          LET verified == (passed \/ cache[p] = NoRuntime) /\ readable
              rt == IF verified THEN Runtime ELSE cache[p]
          IN /\ rt # NoRuntime
             /\ IF verified THEN Remember(p) ELSE UNCHANGED cache
             /\ Move(p, [Resting EXCEPT !.pc = IF verified THEN "verified" ELSE "cached",
                                        !.rt = rt])
    /\ UNCHANGED <<rowVars, exclusive, change, faultVars>>

\* What a passage with mode rt, holding the lock or not, may do.  A miss in
\* "off" is counted; a busy node lock in "shadow" is contention, counted too.
Pass(p, rt, locked) ==
    LET in == [Resting EXCEPT !.pc = "inside", !.rt = rt, !.passage = TRUE, !.lock = locked]
    IN \/ rt.mode = "enforced" /\ locked /\ Move(p, [in EXCEPT !.pc = "dispatch"])
       \/ rt.mode = "shadow" /\ locked /\ Move(p, [in EXCEPT !.node = NodeFree(placed[p])])
       \/ rt.mode = "off" /\ Move(p, in)
       \/ rt.mode # "off" /\ Refuse(p)  \* no lock, or a site that must not dispatch

\* Mutant of Stale: the cached epoch is trusted without the file.
StaleIfForgotten(p, rt) == cache[p] = NoRuntime

\* Under the lock the copy is the persisted mode only if the file names it.
Stale(p, rt) == cache[p] = NoRuntime \/ modeFile[placed[p]] # rt.epoch

\* The decision once the lock was taken or missed.
Decide(p, rt, locked, refresh) ==
    IF ~refresh THEN Pass(p, rt, locked) /\ UNCHANGED cache
    ELSE IF readable THEN Pass(p, Runtime, locked) /\ Remember(p)
    ELSE Refuse(p) /\ UNCHANGED cache

\* The shared lock is tried once; a miss needs a mode read in this passage.
TakeModeLock(p) ==
    LET rt == writer[p].rt
    IN /\ writer[p].pc \in {"verified", "cached"}
       /\ \/ usable[p] /\ Open(placed[p]) /\ Decide(p, rt, TRUE, Stale(p, rt))
          \/ ~usable[p] /\ Decide(p, rt, FALSE, writer[p].pc # "verified")
          \/ /\ usable[p] /\ ~Open(placed[p])
             /\ Move(p, [writer[p] EXCEPT !.pc = "waiting"])
             /\ UNCHANGED cache
       /\ UNCHANGED <<rowVars, exclusive, change, faultVars>>

\* A change in progress ended: what the process knew is forgotten.
EndWait(p) ==
    /\ writer[p].pc = "waiting"
    /\ \/ /\ usable[p] /\ Open(placed[p])
          /\ IF readable THEN Pass(p, Runtime, TRUE) /\ Remember(p)
             ELSE Refuse(p) /\ cache' = [cache EXCEPT ![p] = NoRuntime]
       \/ Refuse(p) /\ UNCHANGED cache
    /\ UNCHANGED <<rowVars, exclusive, change, faultVars>>

Leave(p) == /\ writer[p].pc = "inside"
            /\ Refuse(p)
            /\ UNCHANGED <<rowVars, exclusive, cache, change, faultVars>>

-----------------------------------------------------------------------------
(* The write itself: transport_guard.permit *)

\* A bare writer reaches the transport without a passage.
WriteBare(p) == /\ writer[p].pc = "idle"
                /\ Move(p, [Resting EXCEPT !.pc = "permit"])
                /\ UNCHANGED <<rowVars, exclusive, cache, change, faultVars>>

\* Inside a passage that holds the lock the write is fenced already.
Write(p) == /\ writer[p].pc = "inside"
            /\ Move(p, [writer[p] EXCEPT !.pc = IF writer[p].lock THEN "sending" ELSE "permit"])
            /\ UNCHANGED <<rowVars, exclusive, cache, change, faultVars>>

\* The first read; if it fails, the process's copy stands in for it.
PermitRead(p) ==
    LET rt == IF readable THEN Runtime ELSE cache[p]
    IN /\ writer[p].pc = "permit"
       /\ IF rt = NoRuntime THEN Refuse(p)
          ELSE Move(p, [writer[p] EXCEPT !.pc = "fence", !.rt = rt])
       /\ UNCHANGED <<rowVars, exclusive, cache, change, faultVars>>

\* The mode a fenced write is decided by: read now, or the copy if the
\* mode-state file proves it under the lock.
FencedMode(p, held) ==
    IF readable THEN row.mode
    ELSE IF held /\ modeFile[placed[p]] = writer[p].rt.epoch THEN writer[p].rt.mode
    ELSE "unreadable"

Sendable(mode, held) == mode = "off" \/ (mode = "shadow" /\ held)

PermitFence(p) ==
    LET held == usable[p]
        mode == FencedMode(p, held)
        sent == [writer[p] EXCEPT !.pc = "sending", !.hold = held, !.rt.mode = mode]
    IN /\ writer[p].pc = "fence"
       /\ \/ (held => Open(placed[p])) /\ Sendable(mode, held) /\ Move(p, sent)
          \/ \* Refused, or a change in progress outlasted the wait.
             /\ (held /\ ~Open(placed[p])) \/ ~Sendable(mode, held)
             /\ Refuse(p)
       /\ UNCHANGED <<rowVars, exclusive, cache, change, faultVars>>

\* The bytes are out; the fence's own lock is released.
Sent(p) == /\ writer[p].pc = "sending"
           /\ Move(p, IF writer[p].passage THEN [writer[p] EXCEPT !.pc = "inside", !.hold = FALSE]
                      ELSE Resting)
           /\ UNCHANGED <<rowVars, exclusive, cache, change, faultVars>>

-----------------------------------------------------------------------------
(* Enforced: the runner's child *)

\* The row names this host's active owner and the given epochs.
Owns(p, epoch, owned) == /\ row.mode = "enforced" /\ row.epoch = epoch
                         /\ row.state = "active" /\ Mine(p) /\ row.owned = owned

Dispatch(p) ==
    /\ writer[p].pc = "dispatch"
    /\ IF readable /\ Owns(p, writer[p].rt.epoch, row.owned)
       THEN Move(p, [writer[p] EXCEPT !.pc = "spawned", !.owned = row.owned])
       ELSE Refuse(p)
    /\ UNCHANGED <<rowVars, exclusive, cache, change, faultVars>>

\* The child's session still holds the advisory lock (adv), and the row is as
\* it was for the parent.  What happens between the two reads can as well
\* happen after both: nobody else's child gets in before the row changes.
ChildCheck(p, adv) == readable /\ adv /\ Owns(p, writer[p].rt.epoch, writer[p].owned)

\* The child waits for the node's lock file, then asks for the advisory lock
\* once and makes its first check.
ChildLock(p) ==
    /\ writer[p].pc = "spawned"
    /\ NodeFree(placed[p]) /\ usable[p]
    /\ IF ChildCheck(p, AdvisoryFree)
       THEN Move(p, [writer[p] EXCEPT !.pc = "gated", !.adv = TRUE])
       ELSE Refuse(p)
    /\ UNCHANGED <<rowVars, exclusive, cache, change, faultVars>>

\* The connection breaks or the database restarts: the lock is free, and the
\* child learns of it at its next check.
LoseSession(p) ==
    /\ writer[p].adv
    /\ Move(p, [writer[p] EXCEPT !.adv = FALSE])
    /\ UNCHANGED <<rowVars, exclusive, cache, change, faultVars>>

\* Mutants of ChildMayWrite: what the child saw at its entry lasts; the lock
\* once taken is not looked at again.
ChildMayWriteOnce(p) == TRUE
ChildMayWriteOwned(p) == ChildCheck(p, TRUE)

ChildMayWrite(p) == ChildCheck(p, writer[p].adv)

\* Fresh proof before every write; the write itself comes later.
ChildAuthorise(p) ==
    /\ writer[p].pc = "gated"
    /\ IF ChildMayWrite(p) THEN Move(p, [writer[p] EXCEPT !.pc = "authorised"]) ELSE Refuse(p)
    /\ UNCHANGED <<rowVars, exclusive, cache, change, faultVars>>

\* The child is not cut off: nobody replaced its owner or the mode, and no
\* other child can take the node's advisory lock.
Backed(p) == writer[p].adv /\ Owns(p, writer[p].rt.epoch, writer[p].owned)

\* late: writes sent after the child was cut off.
ChildWrite(p) ==
    /\ writer[p].pc = "authorised"
    /\ Move(p, [writer[p] EXCEPT !.pc = "gated",
                   !.late = IF Backed(p) THEN @ ELSE IF @ < 2 THEN @ + 1 ELSE @])
    /\ UNCHANGED <<rowVars, exclusive, cache, change, faultVars>>

\* The block ended or its deadline killed the child.
ChildEnd(p) == /\ writer[p].pc \in ChildPcs
               /\ Refuse(p)
               /\ UNCHANGED <<rowVars, exclusive, cache, change, faultVars>>

-----------------------------------------------------------------------------
(* Changing the gate mode *)

\* The table of preconditions.  The counters of missed locks and of writers
\* outside the gate, and the runner's self-test, may refuse: AbandonChange.
MayChange(p, from, to) ==
    /\ readable
    /\ row.mode = from
    /\ IF Level[to] > Level[from]
       THEN /\ Level[to] = Level[from] + 1
            /\ row.state = "active" /\ Mine(p)
       ELSE NodeFree(placed[p])

StartChange(p, to) ==
    /\ change[p].pc = "idle"
    /\ row.mode # to
    /\ row.epoch < asked.epochs
    /\ MayChange(p, row.mode, to)
    /\ change' = [change EXCEPT ![p] = [pc |-> "started", to |-> to, from |-> row.mode,
                                           seen |-> NoRow]]
    /\ UNCHANGED <<rowVars, exclusive, cache, writer, faultVars>>

\* Waits for every writer of the host.
LockExclusive(p) ==
    /\ change[p].pc = "started"
    /\ Drained(placed[p]) /\ usable[p]
    /\ exclusive' = [exclusive EXCEPT ![placed[p]] = p]
    /\ change' = [change EXCEPT ![p].pc = "locked"]
    /\ UNCHANGED <<rowVars, cache, writer, faultVars>>

\* The lock is released and the process forgets its copy.
EndChange(p) == /\ exclusive' = [exclusive EXCEPT ![placed[p]] = IF @ = p THEN NoProc ELSE @]
                /\ cache' = [cache EXCEPT ![p] = NoRuntime]
                /\ change' = [change EXCEPT ![p] = NoChange]

Mark(h) == modeFile' = [modeFile EXCEPT ![h] = Changing]

\* The preconditions again, under the lock; then the file says "changing".
MarkChanging(p) ==
    LET c == change[p]
    IN /\ c.pc = "locked"
       /\ MayChange(p, c.from, c.to)
       /\ Mark(placed[p])
       /\ change' = [change EXCEPT ![p] = [c EXCEPT !.pc = "marked", !.seen = row]]
       /\ UNCHANGED <<placed, asked, boot, row, exclusive, cache, writer, faultVars>>

\* The compare-and-set of the row, which another host may have changed.
CommitChange(p) ==
    LET c == change[p]
    IN /\ c.pc = "marked"
       /\ readable /\ row = c.seen /\ row.epoch < asked.epochs
       /\ row' = [row EXCEPT !.mode = c.to, !.epoch = @ + 1]
       /\ change' = [change EXCEPT ![p].pc = "committed", ![p].seen = NoRow]
       /\ UNCHANGED <<placed, asked, boot, modeFile, exclusive, cache, writer, faultVars>>

\* After the commit the row object is expired: reading its epoch reloads the
\* new one, and the file gets the epoch after it.
PublishEpoch(p) ==
    /\ change[p].pc = "committed"
    /\ readable
    /\ modeFile' = [modeFile EXCEPT ![placed[p]] = row.epoch + 1]
    /\ EndChange(p)
    /\ UNCHANGED <<placed, asked, boot, row, writer, faultVars>>

\* A precondition, the wait, the compare-and-set or a write of the file fails.
AbandonChange(p) ==
    /\ change[p].pc # "idle"
    /\ EndChange(p)
    /\ UNCHANGED <<rowVars, writer, faultVars>>

-----------------------------------------------------------------------------
(* Ownership: one commit under the exclusive lock of the own host *)

\* values of the owner columns; a new owner is a new ownership epoch.
Own(p, state, owner, owned) ==
    /\ readable /\ usable[p] /\ Drained(placed[p])
    /\ owned <= asked.owned
    /\ row' = [row EXCEPT !.state = state, !.owner = owner, !.owned = owned]
    /\ cache' = [cache EXCEPT ![p] = NoRuntime]
    /\ UNCHANGED <<placed, asked, boot, modeFile, exclusive, writer, change, faultVars>>

Claim(p) == /\ row.state \in {"none", "released"} /\ row.owner = NoOwner
            /\ Own(p, "active", Identity(p), row.owned + 1)

Drain(p)       == row.state = "active"   /\ Mine(p) /\ Own(p, "draining", row.owner, row.owned)
CancelDrain(p) == row.state = "draining" /\ Mine(p) /\ Own(p, "active", row.owner, row.owned)

\* Mutant of MayRelease: a release leaves the gate enforced.
MayReleaseAlways == TRUE

MayRelease == row.mode # "enforced" \/ SupportsRelease

Release(p) == /\ row.state = "draining" /\ Mine(p) /\ MayRelease
              /\ NodeFree(placed[p])
              /\ Own(p, "released", NoOwner, row.owned + 1)

\* The same host after a restart.
Reclaim(p) == /\ row.state \in {"active", "draining"}
              /\ row.owner[1] = placed[p] /\ ~Mine(p)
              /\ Own(p, "active", Identity(p), row.owned + 1)

\* Another host; nothing stops the former one's children.
ForcedTakeover(p) == /\ row.state \in {"active", "draining"}
                     /\ row.owner[1] # placed[p]
                     /\ Own(p, "active", Identity(p), row.owned + 1)

\* Everything process p held is gone with it.
Died(P) == /\ writer' = [q \in GateProcs |-> IF q \in P THEN Resting ELSE writer[q]]
           /\ change' = [q \in GateProcs |-> IF q \in P THEN NoChange ELSE change[q]]
           /\ cache' = [q \in GateProcs |-> IF q \in P THEN NoRuntime ELSE cache[q]]
           /\ exclusive' = [h \in GateHosts |-> IF exclusive[h] \in P THEN NoProc ELSE exclusive[h]]

\* A clean stop: its runners are reaped, then the owner releases.  No lock.
ShutdownRelease(p) ==
    /\ readable /\ Mine(p) /\ row.state \in {"active", "draining"} /\ MayRelease
    /\ row.owned < asked.owned
    /\ row' = [row EXCEPT !.state = "released", !.owner = NoOwner, !.owned = @ + 1]
    /\ Died({p})
    /\ UNCHANGED <<placed, asked, boot, modeFile, faultVars>>

-----------------------------------------------------------------------------
(* The world *)

Die(p) == /\ writer[p].pc # "idle" \/ change[p].pc # "idle"
          /\ Died({p})
          /\ UNCHANGED <<rowVars, faultVars>>

Reboot(h) == /\ h \in asked.restarting /\ boot[h] < 1
             /\ boot' = [boot EXCEPT ![h] = @ + 1]
             /\ Died({p \in GateProcs : placed[p] = h})
             /\ UNCHANGED <<placed, asked, row, modeFile, faultVars>>

Fault == /\ \/ readable' = ~readable /\ UNCHANGED usable
            \/ \E p \in asked.faulty : usable' = [usable EXCEPT ![p] = ~@] /\ UNCHANGED readable
         /\ UNCHANGED <<rowVars, exclusive, cache, writer, change>>

GateNext ==
    \/ \E p \in GateProcs :
          \/ Enter(p) \/ TakeModeLock(p) \/ EndWait(p) \/ Leave(p)
          \/ WriteBare(p) \/ Write(p) \/ PermitRead(p) \/ PermitFence(p) \/ Sent(p)
          \/ Dispatch(p) \/ ChildLock(p) \/ ChildAuthorise(p) \/ ChildWrite(p) \/ ChildEnd(p)
          \/ LoseSession(p) \/ Die(p)
    \/ \E p \in asked.changers :
          \/ \E to \in Modes : StartChange(p, to)
          \/ LockExclusive(p) \/ MarkChanging(p) \/ CommitChange(p) \/ PublishEpoch(p)
          \/ AbandonChange(p)
    \/ \E p \in asked.owners :
          \/ Claim(p) \/ Drain(p) \/ CancelDrain(p) \/ Release(p) \/ Reclaim(p)
          \/ ForcedTakeover(p) \/ ShutdownRelease(p)
    \/ \E h \in GateHosts : Reboot(h)
    \/ Fault

GateSpec == GateInit /\ [][GateNext]_gateVars

-----------------------------------------------------------------------------
(* Properties *)

\* Inside the application's own process, at the transport, with a lock.
Fenced(p) == writer[p].pc \in {"inside", "sending"} /\ Shares(p)

\* The host whose process owns the installation, and changes its mode.
OfOwner(p) == row.owner[1] = placed[p]

\* The mode-state file names the epoch the writer knows, which proves its mode.
FileProves(p) == modeFile[placed[p]] = writer[p].rt.epoch

OneHostOnly == \A p, q \in GateProcs : placed[p] = placed[q]

\* On a single host, what a passage or a fenced write acts on, copy or fresh
\* read, is the mode persisted until its lock is released.  Where several hosts
\* run, no write of the owner's host is sent by the application itself in
\* enforced, but one that its file, a number ahead of the epoch, vouched for
\* (node_gate.py, transport_guard.permit against change_gate_mode).
ActsOnPersistedMode ==
    \A p \in GateProcs : Fenced(p) /\ OfOwner(p) =>
        /\ row.mode = "enforced" => FileProves(p) /\ ~OneHostOnly
        /\ OneHostOnly => writer[p].rt.mode = row.mode

AtTheNode == {p \in GateProcs : writer[p].pc \in {"gated", "authorised"}}

\* Of all children at the one node, those of a former and of a new owner on two
\* hosts too, one at most still has the advisory lock, and one at most is of
\* each host.  Two hosts' children meet only where one of them was cut off; it
\* then has CutOffWritesOnce to keep to (FileLock, GET_LOCK of LegacyChildGuard).
OneChildOnTheNode ==
    /\ Cardinality({p \in AtTheNode : writer[p].adv}) <= 1
    /\ \A h \in GateHosts : Cardinality({p \in AtTheNode : placed[p] = h}) <= 1

\* A child that was cut off, because its owner or the mode was replaced or its
\* database session lost, sends at most the one write it was authorised for
\* before (LegacyChildGuard.check before every write).
CutOffWritesOnce == \A p \in GateProcs : writer[p].late <= 1

\* However ownership is drained, released, reclaimed, taken over or dropped
\* at a shutdown, the enforced gate has an owner, unless the installed CHECK lets a release keep it
\* (ck_provrt_enforced_needs_owner).
EnforcedHasOwner == row.mode = "enforced" =>
                       \/ row.state \in {"active", "draining"}
                       \/ SupportsRelease /\ row.state = "released"

WriterRecord == [pc : {"idle", "verified", "cached", "waiting", "inside", "permit", "fence",
                       "sending", "dispatch"} \cup ChildPcs,
                 rt : [mode : Modes \cup {"none"}, epoch : 0..MaxGateEpoch],
                 passage : BOOLEAN, lock : BOOLEAN, hold : BOOLEAN, node : BOOLEAN, adv : BOOLEAN,
                 owned : 0..MaxOwnerEpoch, late : 0..2]

GateTypeOK ==
    /\ placed \in [GateProcs -> GateHosts]
    /\ asked \in [owners : SUBSET GateProcs, changers : SUBSET GateProcs, faulty : SUBSET GateProcs,
                  restarting : SUBSET GateHosts, epochs : 0..MaxGateEpoch, owned : 0..MaxOwnerEpoch]
    /\ boot \in [GateHosts -> 0..1]
    /\ row \in Rows
    /\ modeFile \in [GateHosts -> {NoFile, Changing} \cup (0..(MaxGateEpoch + 1))]
    /\ exclusive \in [GateHosts -> GateProcs \cup {NoProc}]
    /\ cache \in [GateProcs -> [mode : Modes \cup {"none"}, epoch : 0..MaxGateEpoch]]
    /\ writer \in [GateProcs -> WriterRecord]
    /\ \A p \in GateProcs : change[p].pc \in {"idle", "started", "locked", "marked", "committed"}
    /\ readable \in BOOLEAN
    /\ usable \in [GateProcs -> BOOLEAN]

\* The gate's invariant: one child of each host at the node and one with its
\* advisory lock, whatever hosts, owners and sessions there were, at most one
\* write of a child that was cut off, and never an enforced gate without owner.
GateInv == GateTypeOK /\ OneChildOnTheNode /\ CutOffWritesOnce /\ EnforcedHasOwner

=============================================================================
