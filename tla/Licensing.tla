------------------------------ MODULE Licensing ------------------------------
(***************************************************************************)
(* The licence of one panel: the vendor's control server with what its     *)
(* operator decided about each key, the panel's key, state file and cached *)
(* verdict, the check-ins between the two, and the pass that cuts and      *)
(* restores the customers' services by that verdict.                       *)
(*                                                                         *)
(* A day is the unit of time; an unset date is later than every day.  Keys *)
(* run for a number of days from their activation and are well formed,     *)
(* signed and for this machine.  Of the scopes of a lock only the one that *)
(* cuts services and the one that does not are kept.  Silence does not     *)
(* lock, which is the default.  Every database transaction outside the     *)
(* pass holds the shared fence while it is open, so that it is one action  *)
(* that the exclusive fence excludes.                                      *)
(***************************************************************************)
EXTENDS Integers, FiniteSetsExt, TLC

CONSTANTS LConns,     \* connections, by id
          LKeys,      \* licence keys
          NoKey,
          LastDay,    \* bound: days that pass
          LPlans      \* bound: what there is and what may happen

LPlan == [kind: [LConns -> {"peer", "ppp"}], term: [LKeys -> Nat], left: Nat,
          events: SUBSET {"day", "back", "lost", "keys", "silence", "check", "decide", "forget", "busy", "restart",
                          "torn", "node", "expire", "renew", "hold", "edit", "login"}]
ASSUME LicenceAssumption ==
    /\ LConns \subseteq Nat \ {0} /\ LKeys \subseteq Nat /\ LKeys # {} /\ NoKey \notin LKeys
    /\ LastDay \in Nat /\ LPlans \subseteq LPlan

Unset == LastDay + 1
Days == 0..LastDay
Callers == {"job", "check_now"}

VARIABLES lplan,      \* [kind, term, events, left]
          today,      \* the panel's clock
          install,    \* the server's row of each key: [revoked, scope, act]
          key,        \* settings.license_key
          swap,       \* an operator is between the new key and the cleared file
          file,       \* the state file: [revoked, scope, act, high]
          verdict,    \* the cached enforcement: "open", "locked", "cut"
          beat,       \* check-ins: [pc, key, act, reply]
          pass,       \* the licence pass: [pc, todo, conn, ok]
          row,        \* connections: [enabled, suspended, applied, bound]
          allowed,    \* connections whose limits allow them to run
          target,     \* connections whose customer or endpoint was changed
          held,       \* a durable operation of the customer is pending
          wire,       \* connections that carry traffic
          by,         \* history: the key whose reply set file.revoked
          readmitted  \* history: sessions accepted while still suspended

panelvars == <<key, swap, file, verdict, by>>
servicevars_ == <<pass, row, allowed, target, held, wire, readmitted>>
licencevars == <<lplan, today, install, panelvars, beat, servicevars_>>

LOccurs(e) == e \in lplan.events /\ lplan.left > 0
LCounted == [lplan EXCEPT !.left = @ - 1]
IsPeer(c) == lplan.kind[c] = "peer"
SomeKey(k) == k # NoKey

Fresh == [revoked |-> FALSE, scope |-> "panel_only", act |-> Unset]
NoCheckIn == [pc |-> "idle", key |-> NoKey, act |-> Unset, reply |-> Fresh]
Issued == [Fresh EXCEPT !.scope = "everything"]

LicenceInit ==
    /\ lplan \in LPlans
    /\ today = 0
    /\ key = Min(LKeys) /\ swap = FALSE
    /\ file = [revoked |-> FALSE, scope |-> "everything", act |-> [k \in LKeys |-> IF k = key THEN 0 ELSE Unset], high |-> 0]
    /\ install = [k \in LKeys |-> [Issued EXCEPT !.act = file.act[k]]]
    /\ verdict = "open"
    /\ beat = [b \in Callers |-> NoCheckIn]
    /\ pass = [pc |-> "idle", todo |-> {}, conn |-> 0, ok |-> FALSE]
    /\ row = [c \in LConns |-> [enabled |-> TRUE, suspended |-> FALSE, applied |-> FALSE, bound |-> FALSE]]
    /\ allowed = LConns /\ target = {} /\ held = FALSE
    /\ wire = LConns
    /\ by = NoKey /\ readmitted = {}

-----------------------------------------------------------------------------
(* The verdict                                                               *)

\* _compute writes down the highest clock it has seen and the first day of a
\* key.
Stamped(f) ==
    [f EXCEPT !.high = Max({@, today}),
              !.act = [k \in LKeys |-> IF k = key /\ @[k] = Unset THEN today ELSE @[k]]]

\* A clock 25 hours behind the highest one is two whole days behind.
Valid(f) ==
    /\ SomeKey(key)
    /\ ~f.revoked
    /\ today >= f.high - 1
    /\ f.act[key] + lplan.term[key] > today

VerdictOf(f) == IF Valid(f) THEN "open" ELSE IF f.scope = "everything" THEN "cut" ELSE "locked"

\* The file that a caller has changed, stamped, and the verdict it gives.
Recomputed(f) == file' = Stamped(f) /\ verdict' = VerdictOf(Stamped(f))

\* The lock that check-ins, installations and recomputations share.
Locked == \E b \in Callers : beat[b].pc = "applying"

\* current_enforcement, at least once a minute.
Refresh ==
    /\ ~Locked
    /\ Recomputed(file)
    /\ UNCHANGED <<lplan, today, install, key, swap, by, beat, servicevars_>>

-----------------------------------------------------------------------------
(* Check-ins: the scheduler's and the operator's may overlap.                *)

Ask(b) ==
    /\ beat[b].pc = "idle" /\ SomeKey(key)
    /\ b = "check_now" => LOccurs("check")
    /\ lplan' = IF b = "check_now" THEN LCounted ELSE lplan
    /\ beat' = [beat EXCEPT ![b] = [pc |-> "asked", key |-> key, act |-> file.act[key], reply |-> Fresh]]
    /\ UNCHANGED <<today, install, panelvars, servicevars_>>

\* Mutant of Anchored: the server keeps what it was told last.
AnchoredLast(known, told) == IF told = Unset THEN known ELSE told

\* Both sides keep the earliest date they have heard of.
Anchored(known, told) == Min({known, told})

\* record_heartbeat
Answer(b) ==
    /\ beat[b].pc = "asked"
    /\ LET k == beat[b].key
           r == [install[k] EXCEPT !.act = Anchored(@, beat[b].act)]
       IN /\ install' = [install EXCEPT ![k] = r]
          /\ beat' = [beat EXCEPT ![b].pc = "answered", ![b].reply = r]
    /\ UNCHANGED <<lplan, today, panelvars, servicevars_>>

\* The request or the answer is lost.
Unanswered(b) ==
    /\ LOccurs("silence") /\ beat[b].pc \in {"asked", "answered"}
    /\ lplan' = LCounted
    /\ beat' = [beat EXCEPT ![b] = NoCheckIn]
    /\ UNCHANGED <<today, install, panelvars, servicevars_>>

\* Mutant of Current: any reply is applied.
CurrentAnyway(b) == TRUE

\* A response for a replaced key cannot revoke its successor.
Current(b) == beat[b].key = key

\* heartbeat takes the lock and looks whether the key is still the one it
\* asked about ...
TakeReply(b) ==
    /\ beat[b].pc = "answered" /\ ~Locked
    /\ beat' = [beat EXCEPT ![b] = IF Current(b) THEN [@ EXCEPT !.pc = "applying"] ELSE NoCheckIn]
    /\ UNCHANGED <<lplan, today, install, panelvars, servicevars_>>

\* ... and applies the reply.
ApplyReply(b) ==
    /\ beat[b].pc = "applying"
    /\ LET r == beat[b].reply  k == beat[b].key IN
       /\ Recomputed([file EXCEPT !.revoked = r.revoked, !.scope = r.scope,
                                  !.act[k] = Anchored(@, r.act)])
       /\ by' = IF r.revoked THEN k ELSE NoKey
    /\ beat' = [beat EXCEPT ![b] = NoCheckIn]
    /\ UNCHANGED <<lplan, today, install, key, swap, servicevars_>>

-----------------------------------------------------------------------------
(* The operator of the panel: a new key, or none                             *)

InstallKey(k) ==
    /\ LOccurs("keys") /\ ~swap
    /\ lplan' = LCounted
    /\ key' = k /\ swap' = TRUE
    /\ UNCHANGED <<today, install, file, verdict, by, beat, servicevars_>>

\* Mutant of ClearedFile: the new key inherits the old one's revocation.
ClearedFileKept == file

\* set_license_key: a freshly issued key gets a clean check.
ClearedFile == [file EXCEPT !.revoked = FALSE]

SetLicenseKey ==
    /\ swap /\ ~Locked
    /\ swap' = FALSE
    /\ Recomputed(ClearedFile) /\ by' = NoKey
    /\ UNCHANGED <<lplan, today, install, key, beat, servicevars_>>

\* The state file is lost, and with it the clock, the verdict's scope and the
\* activation dates.
LoseFile ==
    /\ LOccurs("lost") /\ ~Locked
    /\ lplan' = LCounted
    /\ file' = [revoked |-> FALSE, scope |-> "panel_only", act |-> [k \in LKeys |-> Unset], high |-> 0]
    /\ by' = NoKey
    /\ UNCHANGED <<today, install, key, swap, verdict, beat, servicevars_>>

-----------------------------------------------------------------------------
(* The operator of the control server, and the panel's clock                 *)

\* The console's compare-and-set makes a decision one step.
Decide(k, revoked, scope) ==
    /\ LOccurs("decide") /\ <<install[k].revoked, install[k].scope>> # <<revoked, scope>>
    /\ lplan' = LCounted
    /\ install' = [install EXCEPT ![k].revoked = revoked, ![k].scope = scope]
    /\ UNCHANGED <<today, panelvars, beat, servicevars_>>

\* A row that is not revoked may be removed; the panel registers again.
Forget(k) ==
    /\ LOccurs("forget") /\ ~install[k].revoked /\ install[k] # Fresh
    /\ lplan' = LCounted
    /\ install' = [install EXCEPT ![k] = Fresh]
    /\ UNCHANGED <<today, panelvars, beat, servicevars_>>

SetClock(d) ==
    /\ IF d > today THEN LOccurs("day") ELSE LOccurs("back")
    /\ d # today
    /\ lplan' = LCounted
    /\ today' = d
    /\ UNCHANGED <<install, panelvars, beat, servicevars_>>

-----------------------------------------------------------------------------
(* The pass.  The fence is exclusive from the first read of a connection to  *)
(* the last commit; between connections it is free.                          *)

Between == pass.pc \in {"idle", "choosing"}

\* Mutant of FenceFree: requests commit while a restoration is at its node.
FenceFreeAlways == TRUE

FenceFree == Between

\* Mutant of Selected: a stop that was tried once counts as done.
SelectedOnce == {c \in LConns : IF verdict = "cut" THEN row[c].enabled /\ ~row[c].suspended ELSE row[c].suspended}

Selected ==
    {c \in LConns : IF verdict = "cut"
                    THEN (row[c].enabled \/ row[c].suspended) /\ ~(row[c].suspended /\ row[c].applied)
                    ELSE row[c].suspended}

StartPass ==
    /\ pass.pc = "idle" /\ Selected # {}
    /\ pass' = [pass EXCEPT !.pc = "choosing", !.todo = Selected]
    /\ UNCHANGED <<lplan, today, install, panelvars, beat, row, allowed, target, held, wire, readmitted>>

Next_ == pass.todo # {} /\ pass.pc = "choosing"
This == Min(pass.todo)
Left == [pass EXCEPT !.pc = "choosing", !.todo = @ \ {pass.conn}, !.conn = 0, !.ok = FALSE]
Passed == [pass EXCEPT !.todo = @ \ {This}]
AtConn(pc) == [pass EXCEPT !.pc = pc, !.conn = This, !.ok = FALSE]

EndPass ==
    /\ pass.pc = "choosing" /\ pass.todo = {}
    /\ pass' = [pass EXCEPT !.pc = "idle"]
    /\ UNCHANGED <<lplan, today, install, panelvars, beat, row, allowed, target, held, wire, readmitted>>

\* The customer and the endpoint are still those of the suspension.
SameTarget(c) == row[c].bound = (c \in target)

MustCut(c) ==
    /\ row[c].enabled \/ row[c].suspended
    /\ ~(row[c].suspended /\ row[c].applied)
    /\ row[c].suspended => SameTarget(c)

\* Mutant of Eligible: what the limits say is not looked at.
EligibleAnyway(c) == row[c].enabled

\* _license_restore_snapshot
Eligible(c) == row[c].enabled /\ c \in allowed

MayRestore(c) == verdict # "cut" /\ row[c].suspended /\ SameTarget(c) /\ ~held /\ Eligible(c)

\* The marker is committed before the node is told.
CutMarks ==
    /\ Next_ /\ verdict = "cut" /\ MustCut(This)
    /\ row' = [row EXCEPT ![This].suspended = TRUE, ![This].bound = This \in target]
    /\ pass' = AtConn("marked")
    /\ UNCHANGED <<lplan, today, install, panelvars, beat, allowed, target, held, wire, readmitted>>

RestoreReads ==
    /\ Next_ /\ MayRestore(This)
    /\ pass' = AtConn("restoring")
    /\ UNCHANGED <<lplan, today, install, panelvars, beat, row, allowed, target, held, wire, readmitted>>

\* Nothing to do, not allowed yet, or (an event) the fence or the node is busy.
SkipConn ==
    /\ Next_
    /\ \/ lplan' = lplan /\ (IF verdict = "cut" THEN ~MustCut(This) ELSE ~MayRestore(This))
       \/ LOccurs("busy") /\ lplan' = LCounted
    /\ pass' = Passed
    /\ UNCHANGED <<today, install, panelvars, beat, row, allowed, target, held, wire, readmitted>>

\* Whether a call took effect, and whether the panel knows.
Calls == {[did |-> TRUE, known |-> TRUE]} \cup
         (IF LOccurs("node") THEN {[did |-> TRUE, known |-> FALSE], [did |-> FALSE, known |-> FALSE]} ELSE {})
CountCall(call) == lplan' = IF call.known THEN lplan ELSE LCounted

\* The verdict is read again before the node is told; a licence renewed
\* meanwhile leaves the marker for the restoration.
CutStands ==
    /\ pass.pc = "marked" /\ verdict # "cut"
    /\ pass' = Left
    /\ UNCHANGED <<lplan, today, install, panelvars, beat, row, allowed, target, held, wire, readmitted>>

CutSends ==
    /\ pass.pc = "marked" /\ verdict = "cut"
    /\ \E call \in Calls :
          /\ CountCall(call)
          /\ wire' = IF call.did THEN wire \ {pass.conn} ELSE wire
          /\ pass' = IF call.known THEN [pass EXCEPT !.pc = "stopped"] ELSE Left
    /\ readmitted' = readmitted \ {pass.conn}
    /\ UNCHANGED <<today, install, panelvars, beat, row, allowed, target, held>>

CutRecords ==
    /\ pass.pc = "stopped"
    /\ row' = [row EXCEPT ![pass.conn].applied = row[pass.conn].suspended \/ @]
    /\ pass' = Left
    /\ UNCHANGED <<lplan, today, install, panelvars, beat, allowed, target, held, wire, readmitted>>

\* Nothing is sent for a PPP service: its next login is accepted.
RestoreSends ==
    /\ pass.pc = "restoring"
    /\ \E call \in Calls :
          /\ CountCall(call)
          /\ IsPeer(pass.conn) \/ call.known
          /\ wire' = IF IsPeer(pass.conn) /\ call.did THEN wire \cup {pass.conn} ELSE wire
          /\ pass' = [pass EXCEPT !.pc = "enabled", !.ok = call.known]
    /\ UNCHANGED <<today, install, panelvars, beat, row, allowed, target, held, readmitted>>

\* Mutant of Restorable: what was read before the call is trusted after it.
RestorableBlindly == pass.ok

\* Everything is read again after the call.
Restorable == pass.ok /\ MayRestore(pass.conn)

RestoreJudges ==
    /\ pass.pc = "enabled"
    /\ pass' = [pass EXCEPT !.pc = IF Restorable THEN "judged" ELSE "undoing"]
    /\ UNCHANGED <<lplan, today, install, panelvars, beat, row, allowed, target, held, wire, readmitted>>

\* The fence keeps what was judged until the commit; the clock and the licence
\* may go on.
RestoreCommits ==
    /\ pass.pc = "judged"
    /\ row' = [row EXCEPT ![pass.conn].suspended = FALSE, ![pass.conn].applied = FALSE, ![pass.conn].bound = FALSE]
    /\ readmitted' = readmitted \ {pass.conn}
    /\ pass' = Left
    /\ UNCHANGED <<lplan, today, install, panelvars, beat, allowed, target, held, wire>>

\* Even an unknown enable can have reached the node: it is cut again.
RestoreUndoes ==
    /\ pass.pc = "undoing"
    /\ \E call \in Calls :
          /\ CountCall(call)
          /\ wire' = IF call.did THEN wire \ {pass.conn} ELSE wire
          /\ pass' = [pass EXCEPT !.pc = "undone", !.ok = call.known]
    /\ UNCHANGED <<today, install, panelvars, beat, row, allowed, target, held, readmitted>>

\* Mutant of UndoResult: a service that was to be cut again is recorded as cut.
UndoResultAssumed == TRUE

UndoResult == pass.ok

RestoreRecords ==
    /\ pass.pc = "undone"
    /\ row' = [row EXCEPT ![pass.conn].applied = UndoResult]
    /\ pass' = Left
    /\ UNCHANGED <<lplan, today, install, panelvars, beat, allowed, target, held, wire, readmitted>>

PassStep ==
    \/ StartPass \/ EndPass \/ CutMarks \/ RestoreReads \/ SkipConn
    \/ CutStands \/ CutSends \/ CutRecords
    \/ RestoreSends \/ RestoreJudges \/ RestoreCommits \/ RestoreUndoes \/ RestoreRecords

-----------------------------------------------------------------------------
(* Everybody else                                                            *)

\* _set_connection_enabled: while a service is suspended, licensing owns it.
Toggle(c, on) ==
    IF row[c].suspended \/ (on /\ verdict = "cut") \/ row[c].enabled = on
    THEN UNCHANGED <<row, wire>>
    ELSE /\ row' = [row EXCEPT ![c].enabled = on]
         /\ wire' = IF ~on THEN wire \ {c} ELSE IF IsPeer(c) THEN wire \cup {c} ELSE wire

\* The poll cycle switches a service to what its limits say.
Poll(c) ==
    /\ FenceFree
    /\ row[c].enabled # (c \in allowed)
    /\ Toggle(c, c \in allowed)
    /\ UNCHANGED <<lplan, today, install, panelvars, beat, pass, allowed, target, held, readmitted>>

\* The end of the term is reached; nobody has noticed yet.
RunsOutNow(c) ==
    /\ LOccurs("expire") /\ c \in allowed
    /\ lplan' = LCounted
    /\ allowed' = allowed \ {c}
    /\ UNCHANGED <<today, install, panelvars, beat, pass, row, target, held, wire, readmitted>>

RenewNow(c) ==
    /\ LOccurs("renew") /\ FenceFree /\ c \notin allowed
    /\ lplan' = LCounted
    /\ allowed' = allowed \cup {c}
    /\ Toggle(c, TRUE)
    /\ UNCHANGED <<today, install, panelvars, beat, pass, target, held, readmitted>>

\* The customer is renamed or handed over, or the node moves.
Retarget(c) ==
    /\ LOccurs("edit") /\ FenceFree /\ c \notin target
    /\ lplan' = LCounted
    /\ target' = target \cup {c}
    /\ UNCHANGED <<today, install, panelvars, beat, pass, row, allowed, held, wire, readmitted>>

\* A durable operation of the customer begins, or ends.
Hold ==
    /\ FenceFree
    /\ held \/ LOccurs("hold")
    /\ lplan' = IF held THEN lplan ELSE LCounted
    /\ held' = ~held
    /\ UNCHANGED <<today, install, panelvars, beat, pass, row, allowed, target, wire, readmitted>>

\* RADIUS asks for the verdict, not for the marker.
Accept(c) ==
    /\ LOccurs("login") /\ FenceFree
    /\ ~IsPeer(c) /\ c \notin wire
    /\ verdict # "cut" /\ row[c].enabled /\ c \in allowed
    /\ lplan' = LCounted
    /\ wire' = wire \cup {c}
    /\ readmitted' = IF row[c].suspended THEN readmitted \cup {c} ELSE readmitted
    /\ UNCHANGED <<today, install, panelvars, beat, pass, row, allowed, target, held>>

\* The backend restarts; its threads are gone, a new verdict is computed.  A
\* restart inside a restoration, or inside the installation of a key, only
\* where the plan says so ("torn").
Restart ==
    /\ LOccurs("restart")
    /\ swap \/ pass.pc \in {"enabled", "judged", "undoing", "undone"} => "torn" \in lplan.events
    /\ lplan' = LCounted
    /\ swap' = FALSE
    /\ beat' = [b \in Callers |-> NoCheckIn]
    /\ pass' = [pc |-> "idle", todo |-> {}, conn |-> 0, ok |-> FALSE]
    /\ Recomputed(file)
    /\ UNCHANGED <<today, install, key, by, row, allowed, target, held, wire, readmitted>>

LicenceNext ==
    \/ Refresh \/ SetLicenseKey \/ LoseFile \/ Hold \/ Restart
    \/ \E b \in Callers : Ask(b) \/ Answer(b) \/ Unanswered(b) \/ TakeReply(b) \/ ApplyReply(b)
    \/ \E k \in LKeys \cup {NoKey} : InstallKey(k)
    \/ \E k \in LKeys : Forget(k) \/ \E r \in BOOLEAN, s \in {"panel_only", "everything"} : Decide(k, r, s)
    \/ \E d \in Days : SetClock(d)
    \/ PassStep
    \/ \E c \in LConns : Poll(c) \/ RunsOutNow(c) \/ RenewNow(c) \/ Retarget(c) \/ Accept(c)

-----------------------------------------------------------------------------
(* Properties                                                                *)

LicenceTypeOK ==
    /\ today \in Days /\ key \in LKeys \cup {NoKey} /\ swap \in BOOLEAN /\ held \in BOOLEAN
    /\ install \in [LKeys -> [revoked : BOOLEAN, scope : {"panel_only", "everything"}, act : 0..Unset]]
    /\ file \in [revoked : BOOLEAN, scope : {"panel_only", "everything"}, act : [LKeys -> 0..Unset], high : Days]
    /\ verdict \in {"open", "locked", "cut"}
    /\ row \in [LConns -> [enabled : BOOLEAN, suspended : BOOLEAN, applied : BOOLEAN, bound : BOOLEAN]]
    /\ wire \subseteq LConns /\ allowed \subseteq LConns /\ target \subseteq LConns
    /\ readmitted \subseteq LConns

\* A key that has been installed is revoked only by a reply about itself,
\* however the replies about its predecessor overlap with the installation.
RevokedByItsKey == ~swap /\ file.revoked => by = key

\* A suspension recorded as applied is applied: outside its own restoration
\* the node does not carry the service, except a session that RADIUS accepted
\* between two verdicts.
AppliedIsOff ==
    \A c \in LConns : row[c].suspended /\ row[c].applied /\ (pass.conn # c \/ pass.pc = "restoring")
                          => c \notin wire \ readmitted

\* What the panel and its records say of the licence and of the services.
LicenceInv == LicenceTypeOK /\ RevokedByItsKey /\ AppliedIsOff

\* A suspension is lifted only if the service and its customer are free to run
\* at the very commit: no decision of a request comes between.  The licence
\* and the limits, which no fence stops, are looked at after the node was told.
LiftedIfAllowed ==
    /\ \A c \in LConns : row[c].suspended /\ ~row'[c].suspended =>
          row[c].enabled /\ SameTarget(c) /\ ~held /\ (IsPeer(c) => c \in wire)
    /\ pass.pc # "judged" /\ pass'.pc = "judged" => verdict # "cut" /\ pass.conn \in allowed

\* The term of a key, once started, is only ever corrected backwards, unless
\* the copy that knew it is lost as a whole.
TermOnlyShortens ==
    \A k \in LKeys :
        /\ file.act[k] # Unset => file'.act[k] <= file.act[k] \/ file'.act = [j \in LKeys |-> Unset]
        /\ install[k].act # Unset => install'[k].act <= install[k].act \/ install'[k] = Fresh

\* What no step of anybody does: lift a suspension that something still
\* justifies, or lengthen a term.
LicenceSteps == [][LiftedIfAllowed /\ TermOnlyShortens]_licencevars

\* The panel has heard the server's last decision, and every service runs or
\* is cut as the verdict and its limits say, if its customer and endpoint are
\* those of the suspension.
LicenceSettled ==
    /\ ~swap
    /\ SomeKey(key) => /\ file.revoked = install[key].revoked /\ file.scope = install[key].scope
                       /\ file.act[key] = install[key].act
    /\ verdict = VerdictOf(file)
    /\ \A c \in LConns \ target :
          IF verdict = "cut" THEN c \notin wire \ readmitted
          ELSE c \in allowed /\ ~held => ~row[c].suspended /\ row[c].enabled /\ (IsPeer(c) => c \in wire)

\* Whatever was lost or late on the way, in the end the services are what the
\* vendor's last decision and their own limits say.
LicenceSettles == <>[]LicenceSettled
=============================================================================
