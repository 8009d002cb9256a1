----------------------------- MODULE Cancellation -----------------------------
(***************************************************************************)
(* The cancellation of an unpaid service (reseller_refund_worker.execute)  *)
(* against the accounting that proves what the customer used (the grants   *)
(* of radius_server).  The service is one PPP connection and, by the plan, *)
(* one WireGuard peer of the same purchase.                                *)
(*                                                                         *)
(* Every login the RADIUS server accepts leaves a grant, and the session's *)
(* reports carry the grant's cookie; they arrive late, twice, in any order *)
(* or never.  One run of the operation at a time holds the exclusive       *)
(* barrier; it may die or be refused at every step, and is started again   *)
(* by the operator.  Rows of live sessions are left out: one exists only   *)
(* while its grant is unended, and every check reads the grants as well.   *)
(* Sessions without a cookie are left out but for the mark they leave.     *)
(***************************************************************************)
EXTENDS Integers, FiniteSets, Functions

CONSTANTS Sids,     \* sessions the customer's devices may open
          CPlans    \* bound: [wg, sids, away, events, left, units]

Faults == {"restart", "stray", "interim", "mangled", "renew", "crash"}

ASSUME CancelAssumption ==
    /\ IsFiniteSet(Sids)
    /\ CPlans \subseteq [wg: BOOLEAN, sids: SUBSET Sids, away: SUBSET Sids, events: SUBSET Faults,
                         left: Nat, units: Nat]

VARIABLES cplan,    \* the plan: with a peer, which sessions, those on another NAS, what may happen
          session,  \* [at, moved]: "none", "deciding", "asked", "up", "ended"
          packets,  \* reports sent, [s, type, n]
          grant,    \* [state, high, unverified, regressed, restarted]
          total,    \* octets counted on the two connections
          peer,     \* the peer: [here, on, moved, seen, polled, rebooted]
          refund,   \* the operation: [state, started, base, final]
          pstep,    \* the PPP step: [blocked, unverified, seen, final, verified]
          wstep,    \* the peer's step: [final, counter, verified]
          renewal,  \* of the same service: "none", "asked", "done"
          worker,   \* the run of the operation: [pc, kicks, shown, measured]
          consumed  \* octets carried, ever

cancelvars == <<cplan, session, packets, grant, total, peer, refund, pstep, wstep, renewal, worker, consumed>>
service == <<session, packets, grant, consumed>>
operation == <<refund, pstep, wstep>>

None == -1                                  \* no counter, nothing captured
May(e) == e \in cplan.events /\ cplan.left > 0
Spent == [cplan EXCEPT !.left = @ - 1]
Home == Sids \ cplan.away
Shown == {s \in Home : session[s].at = "up"}

CancelInit ==
    /\ cplan \in CPlans
    /\ session = [s \in Sids |-> [at |-> "none", moved |-> 0]]
    /\ packets = {}
    /\ grant = [s \in Sids |-> [state |-> "none", high |-> 0, unverified |-> FALSE,
                                regressed |-> FALSE, restarted |-> FALSE]]
    /\ total = [ppp |-> 0, wg |-> 0]
    /\ peer = [here |-> cplan.wg, on |-> cplan.wg, moved |-> 0, seen |-> 0,
                polled |-> None, rebooted |-> FALSE]
    /\ refund = [state |-> "none", started |-> FALSE, base |-> [ppp |-> 0, wg |-> 0], final |-> None]
    /\ pstep = [blocked |-> FALSE, unverified |-> FALSE, seen |-> {}, final |-> None, verified |-> FALSE]
    /\ wstep = [final |-> None, counter |-> None, verified |-> FALSE]
    /\ renewal = "none"
    /\ worker = [pc |-> "idle", kicks |-> 0, shown |-> {}, measured |-> None]
    /\ consumed = 0

Pending == refund.state = "pending"
Blocked == Pending /\ pstep.blocked
Unended == {s \in Sids : grant[s].state \in {"granted", "open"}}
Used == total.ppp + total.wg

\* holding_operations: what was started owns its service.
Holding == Pending /\ (refund.started \/ pstep.blocked \/ wstep.final # None)

-----------------------------------------------------------------------------
(* RADIUS: one Access-Request, decided and answered under the shared lock    *)

Decide(s) ==
    /\ s \in cplan.sids /\ session[s].at = "none" /\ ~Blocked /\ refund.state # "completed"
    /\ session' = [session EXCEPT ![s].at = "deciding"]
    /\ UNCHANGED <<cplan, packets, grant, total, peer, operation, renewal, worker, consumed>>

\* The grant is committed before the Accept is sent.
Answer(s) ==
    /\ session[s].at = "deciding"
    /\ session' = [session EXCEPT ![s].at = "asked"]
    /\ grant' = [grant EXCEPT ![s].state = "granted"]
    /\ UNCHANGED <<cplan, packets, total, peer, operation, renewal, worker, consumed>>

\* Mutant of Growth: a counter that went back starts again from zero.
FromZero(g, p) == IF p.n > g.high THEN p.n - g.high ELSE IF p.n < g.high /\ p.n # None THEN p.n ELSE 0

Growth(g, p) == IF p.n > g.high THEN p.n - g.high ELSE 0

ProvesNothing(g, p) == p.type # "Start" /\ (p.n = None \/ (p.type = "Stop" /\ p.n < g.high))

\* _account_grant, of a grant that has not ended.
Accounted(g, p) ==
    IF ProvesNothing(g, p) THEN [g EXCEPT !.unverified = TRUE]
    ELSE [state      |-> IF p.type = "Stop" THEN "stopped" ELSE "open",
          high       |-> IF p.n > g.high THEN p.n ELSE g.high,
          unverified |-> g.unverified /\ p.type # "Stop",
          regressed  |-> g.regressed \/ (p.type = "Interim" /\ p.n < g.high),
          restarted  |-> g.restarted /\ p.n <= g.high]

\* A report arrives, for the first time or again; an ended grant ignores it.
Deliver(p) ==
    /\ p \in packets /\ p.s \in Unended /\ refund.state # "completed"
    /\ grant' = [grant EXCEPT ![p.s] = Accounted(@, p)]
    /\ total' = [total EXCEPT !.ppp = @ + IF ProvesNothing(grant[p.s], p) THEN 0 ELSE Growth(grant[p.s], p)]
    /\ UNCHANGED <<cplan, session, packets, peer, operation, renewal, worker, consumed>>

\* Accounting-On/Off of the node, or the lack of it after a crash.
RestartHeard ==
    /\ May("restart") /\ peer.rebooted
    /\ grant' = [s \in Sids |-> IF s \in Home \cap Unended THEN [grant[s] EXCEPT !.restarted = TRUE] ELSE grant[s]]
    /\ cplan' = Spent
    /\ UNCHANGED <<session, packets, total, peer, operation, renewal, worker, consumed>>

\* A report whose cookie is not this connection's.
Stray ==
    /\ May("stray") /\ Blocked /\ ~pstep.unverified
    /\ pstep' = [pstep EXCEPT !.unverified = TRUE] /\ cplan' = Spent
    /\ UNCHANGED <<service, total, peer, refund, wstep, renewal, worker>>

-----------------------------------------------------------------------------
(* The customer and the nodes *)

\* An accepted session comes up at any later time, or never does.
ComesUp(s) ==
    /\ session[s].at = "asked"
    /\ session' = [session EXCEPT ![s].at = "up"]
    /\ packets' = packets \cup {[s |-> s, type |-> "Start", n |-> 0]}
    /\ UNCHANGED <<cplan, grant, total, peer, operation, renewal, worker, consumed>>

Ended(S) == [s \in Sids |-> IF s \in S THEN [session[s] EXCEPT !.at = "ended"] ELSE session[s]]
Stops(S) == {[s |-> s, type |-> "Stop", n |-> session[s].moved] : s \in S}

HangsUp(s) ==
    /\ session[s].at = "up"
    /\ session' = Ended({s}) /\ packets' = packets \cup Stops({s})
    /\ UNCHANGED <<cplan, grant, total, peer, operation, renewal, worker, consumed>>

Interim(s) ==
    /\ May("interim") /\ session[s].at = "up"
    /\ packets' = packets \cup {[s |-> s, type |-> "Interim", n |-> session[s].moved]}
    /\ UNCHANGED <<cplan, session, grant, total, peer, operation, renewal, worker, consumed>>

\* A report that lost its counters on the way.
Mangled(p) ==
    /\ May("mangled") /\ p \in packets /\ cplan' = Spent
    /\ packets' = packets \cup {[p EXCEPT !.n = None]}
    /\ UNCHANGED <<session, grant, total, peer, operation, renewal, worker, consumed>>

Moves(s) ==
    /\ cplan.units > 0 /\ session[s].at = "up"
    /\ session' = [session EXCEPT ![s].moved = @ + 1]
    /\ cplan' = [cplan EXCEPT !.units = @ - 1] /\ consumed' = consumed + 1
    /\ UNCHANGED <<packets, grant, total, peer, operation, renewal, worker>>

PeerMoves ==
    /\ cplan.units > 0 /\ peer.here /\ peer.on
    /\ peer' = [peer EXCEPT !.moved = @ + 1]
    /\ cplan' = [cplan EXCEPT !.units = @ - 1] /\ consumed' = consumed + 1
    /\ UNCHANGED <<session, packets, grant, total, operation, renewal, worker>>

\* The router restarts: its sessions end without a word, its counters are zero.
Reboot ==
    /\ May("restart") /\ cplan' = Spent
    /\ session' = Ended(Shown)
    /\ peer' = [peer EXCEPT !.moved = 0, !.rebooted = TRUE]
    /\ UNCHANGED <<packets, grant, total, operation, renewal, worker, consumed>>

Gained == IF peer.polled >= peer.seen THEN peer.polled - peer.seen ELSE peer.polled

\* The poll cycle reads counters and commits them outside the barrier.
PollReads ==
    /\ peer.here /\ peer.polled = None /\ peer.moved # peer.seen /\ refund.state # "completed"
    /\ peer' = [peer EXCEPT !.polled = peer.moved]
    /\ UNCHANGED <<cplan, service, total, operation, renewal, worker>>

PollPeer ==
    /\ peer.polled # None /\ refund.state # "completed"
    /\ total' = [total EXCEPT !.wg = @ + Gained]
    /\ peer' = [peer EXCEPT !.seen = peer.polled, !.polled = None]
    /\ UNCHANGED <<cplan, service, operation, renewal, worker>>

\* A renewal is asked for under the shared barrier, unless a started operation
\* owns the service; the runner gives it at any later time.
AskRenewal ==
    /\ May("renew") /\ cplan' = Spent
    /\ worker.pc = "idle" /\ ~Holding /\ refund.state # "completed"
    /\ renewal' = "asked"
    /\ UNCHANGED <<service, total, peer, operation, worker>>

RenewService ==
    /\ renewal = "asked" /\ refund.state # "completed"
    /\ renewal' = "done"
    /\ UNCHANGED <<cplan, service, total, peer, operation, worker>>

-----------------------------------------------------------------------------
(* execute *)

Stays == UNCHANGED <<cplan, service, total, peer, operation, renewal>>
GoesTo(pc) == worker' = [worker EXCEPT !.pc = pc]
At(pc) == worker.pc = pc

\* preview: a renewal invalidates the basis.
Entitled == renewal # "done"

\* Mutant of Held: what was judged when the operation was prepared still holds.
HeldOnce == refund.state = "none" /\ renewal = "asked"

\* reseller_refund_holds.reason: other work owns the service.
Held == renewal = "asked"

BeginRun ==
    /\ At("idle") /\ refund.state # "completed" /\ Entitled /\ (Pending \/ ~Held)
    /\ worker' = [pc |-> "look", kicks |-> 0, shown |-> {}, measured |-> None]
    /\ Stays

Refused == worker' = [pc |-> "idle", kicks |-> 0, shown |-> {}, measured |-> None]

\* Refused, dead or out of reach: what is committed stays, the barrier is free.
GivesUp ==
    /\ ~At("idle") /\ May("crash") /\ cplan' = Spent /\ Refused
    /\ UNCHANGED <<service, total, peer, operation, renewal>>

\* _precheck: reads only.
WireReadable == ~cplan.wg \/ (peer.here /\ ~peer.rebooted) \/ (~peer.here /\ wstep.final # None)

Look ==
    /\ At("look")
    /\ IF WireReadable THEN worker' = [worker EXCEPT !.pc = "compare", !.shown = Shown] ELSE Refused
    /\ Stays

\* ppp_sessions_unverified: what the router showed and the grants agree.
Unverified(shown) ==
    \/ \E s \in Sids : grant[s].regressed
    \/ \E s \in Unended : s \in cplan.away \/ grant[s].restarted \/ grant[s].unverified \/ s \notin shown
    \/ ~(shown \subseteq Unended)

Compare ==
    /\ At("compare")
    /\ IF ~pstep.blocked /\ Unverified(worker.shown) THEN Refused ELSE GoesTo("elsewhere")
    /\ Stays

Elsewhere ==
    /\ At("elsewhere")
    /\ IF ~pstep.blocked /\ \E s \in cplan.away : session[s].at = "up" THEN Refused ELSE GoesTo("prepare")
    /\ Stays

Prepare ==
    /\ At("prepare")
    /\ IF ~Pending /\ (Held \/ ~Entitled) THEN Refused /\ UNCHANGED refund
       ELSE /\ GoesTo("start")
            /\ refund' = IF Pending THEN refund ELSE [refund EXCEPT !.state = "pending", !.base = total]
    /\ UNCHANGED <<cplan, service, total, peer, pstep, wstep, renewal>>

StartMutation ==
    /\ At("start")
    /\ IF ~Entitled \/ (Held /\ ~Holding) THEN Refused /\ UNCHANGED refund
       ELSE GoesTo("block") /\ refund' = [refund EXCEPT !.started = TRUE]
    /\ UNCHANGED <<cplan, service, total, peer, pstep, wstep, renewal>>

\* Mutant of DecisionsAnswered: the block does not wait for the logins under way.
AnsweredOrNot == TRUE

DecisionsAnswered == \A s \in Sids : session[s].at # "deciding"

\* block_ppp, under the exclusive lock of the login decisions.
BlockPpp ==
    /\ At("block") /\ DecisionsAnswered
    /\ GoesTo("stop")
    /\ pstep' = [pstep EXCEPT !.blocked = TRUE]
    /\ UNCHANGED <<cplan, service, total, peer, refund, wstep, renewal>>

BlockTimesOut == At("block") /\ ~DecisionsAnswered /\ Refused /\ Stays

\* Mutant of Answers: a peer that is gone is never measured.
AnswersPresent == peer.here

\* stop_and_measure: an absent peer is answered by what was captured.
Answers == peer.here \/ wstep.final # None

WgStop ==
    /\ At("stop")
    /\ IF cplan.wg /\ Answers
       THEN peer' = IF peer.here THEN [peer EXCEPT !.on = FALSE] ELSE peer
       ELSE UNCHANGED peer
    /\ IF ~cplan.wg THEN GoesTo("ppp") ELSE IF ~Answers THEN Refused
       ELSE IF peer.here /\ (peer.rebooted \/ (wstep.final # None /\ peer.moved # wstep.counter))
       THEN Refused
       ELSE worker' = [worker EXCEPT !.pc = IF peer.here THEN "capture" ELSE "ppp",
                                     !.measured = IF peer.here THEN peer.moved ELSE wstep.counter]
    /\ UNCHANGED <<cplan, service, total, operation, renewal>>

\* capture_counters, with what the stopped peer was measured at.
WgCapture ==
    /\ At("capture")
    /\ IF wstep.final # None THEN GoesTo("ppp") /\ UNCHANGED wstep
       ELSE IF worker.measured < peer.seen THEN Refused /\ UNCHANGED wstep
       ELSE /\ GoesTo("ppp")
            /\ wstep' = [wstep EXCEPT !.final = total.wg + worker.measured - peer.seen,
                                     !.counter = worker.measured]
    /\ UNCHANGED <<cplan, service, total, peer, refund, pstep, renewal>>

\* Mutant of Missing: an Accept that never reported is forgotten.
MissingReports ==
    \/ pstep.unverified
    \/ \E s \in Sids : grant[s].unverified \/ grant[s].regressed \/ grant[s].state = "open"
    \/ \E s \in pstep.seen : grant[s].state # "stopped"

\* ppp_stop_missing.
Missing ==
    \/ pstep.unverified
    \/ \E s \in Sids : grant[s].unverified \/ grant[s].regressed \/ grant[s].state \in {"granted", "open"}
    \/ \E s \in pstep.seen : grant[s].state # "stopped"

\* _ppp_final: see, write down, end, until the router shows none.
ReadPpp ==
    /\ At("ppp") /\ pstep.final = None
    /\ IF Shown = {} THEN GoesTo("wait")
       ELSE IF worker.kicks = 3 THEN Refused
       ELSE worker' = [worker EXCEPT !.pc = "observe", !.shown = Shown]
    /\ Stays

RecheckPpp ==
    /\ At("ppp") /\ pstep.final # None
    /\ IF Missing \/ total.ppp # pstep.final THEN Refused ELSE GoesTo("remove")
    /\ Stays

Observe ==
    /\ At("observe") /\ GoesTo("kick")
    /\ pstep' = [pstep EXCEPT !.seen = @ \cup worker.shown]
    /\ UNCHANGED <<cplan, service, total, peer, refund, wstep, renewal>>

Kick ==
    /\ At("kick")
    /\ session' = Ended(Shown) /\ packets' = packets \cup Stops(Shown)
    /\ worker' = [worker EXCEPT !.pc = "ppp", !.kicks = @ + 1]
    /\ UNCHANGED <<cplan, grant, total, peer, operation, renewal, consumed>>

WaitsInVain == At("wait") /\ Missing /\ Refused /\ Stays

CapturePpp ==
    /\ At("wait") /\ ~Missing /\ GoesTo("remove")
    /\ pstep' = [pstep EXCEPT !.final = total.ppp]
    /\ UNCHANGED <<cplan, service, total, peer, refund, wstep, renewal>>

\* remove_stopped, verify_stopped.
WgRemove ==
    /\ At("remove")
    /\ IF cplan.wg /\ peer.here /\ (peer.on \/ peer.moved # worker.measured)
       THEN Refused /\ UNCHANGED peer
       ELSE GoesTo("verify") /\ peer' = [peer EXCEPT !.here = FALSE]
    /\ UNCHANGED <<cplan, service, total, operation, renewal>>

WgVerify ==
    /\ At("verify") /\ GoesTo("last")
    /\ wstep' = [wstep EXCEPT !.verified = cplan.wg]
    /\ UNCHANGED <<cplan, service, total, peer, refund, pstep, renewal>>

LastLook ==
    /\ At("last")
    /\ IF Shown # {} THEN Refused /\ UNCHANGED pstep
       ELSE GoesTo("settle") /\ pstep' = [pstep EXCEPT !.verified = TRUE]
    /\ UNCHANGED <<cplan, service, total, peer, refund, wstep, renewal>>

Verified == pstep.verified /\ (cplan.wg => wstep.verified)
Final == [ppp |-> pstep.final, wg |-> IF cplan.wg THEN wstep.final ELSE 0]

\* One transaction that reads the evidence again.
Settle ==
    /\ At("settle") /\ Refused
    /\ refund' =
        IF ~Verified \/ Missing \/ total.ppp > Final.ppp \/ total.wg > Final.wg \/ ~Entitled THEN refund
        ELSE LET proven == refund.base.ppp + refund.base.wg
                           + (Final.ppp - refund.base.ppp) + (Final.wg - refund.base.wg)
             IN [refund EXCEPT !.state = "completed", !.final = IF Used > proven THEN Used ELSE proven]
    /\ UNCHANGED <<cplan, service, total, peer, pstep, wstep, renewal>>

Executes ==
    \/ BeginRun \/ Look \/ Compare \/ Elsewhere \/ Prepare \/ StartMutation \/ BlockPpp \/ BlockTimesOut
    \/ WgStop \/ WgCapture \/ ReadPpp \/ RecheckPpp \/ Observe \/ Kick \/ WaitsInVain \/ CapturePpp
    \/ WgRemove \/ WgVerify \/ LastLook \/ Settle

CancelNext ==
    \/ Executes \/ GivesUp
    \/ \E s \in Sids : Decide(s) \/ Answer(s) \/ ComesUp(s) \/ HangsUp(s) \/ Interim(s) \/ Moves(s)
    \/ \E p \in packets : Deliver(p) \/ Mangled(p)
    \/ RestartHeard \/ Stray \/ PeerMoves \/ Reboot \/ PollReads \/ PollPeer
    \/ AskRenewal \/ RenewService

\* The operator asks again until it is done.
CancelSpec == CancelInit /\ [][CancelNext]_cancelvars /\ WF_cancelvars(Executes)

-----------------------------------------------------------------------------
(* Properties *)

CancelTypeOK ==
    /\ session \in [Sids -> [at: {"none", "deciding", "asked", "up", "ended"}, moved: Nat]]
    /\ packets \subseteq [s: Sids, type: {"Start", "Interim", "Stop"}, n: Nat \cup {None}]
    /\ grant \in [Sids -> [state: {"none", "granted", "open", "stopped"}, high: Nat, unverified: BOOLEAN,
                           regressed: BOOLEAN, restarted: BOOLEAN]]
    /\ total \in [ppp: Nat, wg: Nat]
    /\ refund.state \in {"none", "pending", "completed"}
    /\ pstep.seen \subseteq Sids /\ {pstep.final, wstep.final, wstep.counter} \subseteq Nat \cup {None}

\* What the refund calls used is what the customer used: no octet of a lost,
\* late or repeated report, of a restarted router or of a session nobody saw
\* end is missing from it or in it twice, then or ever after.
SettledForWhatWasUsed == refund.state = "completed" => refund.final = consumed

\* A cancelled service is gone: no peer, no session, and no Accept that may
\* still become one.
NothingLivesOn ==
    refund.state = "completed" =>
        /\ ~peer.here
        /\ \A s \in Sids : session[s].at \in {"none", "ended"}

\* Reports arriving in any order, any number of times, are billed once, and
\* an ended session in full.
BilledOnceHoweverDelivered ==
    /\ total.ppp <= SumFunctionOnSet([s \in Sids |-> session[s].moved], Sids)
    /\ \A s \in Sids : grant[s].state = "stopped" => grant[s].high = session[s].moved

\* A service that was renewed is left whole: no cancellation of the first sale
\* takes it apart.
RenewedStaysWhole ==
    renewal = "done" =>
               /\ ~pstep.blocked /\ refund.state # "completed"
               /\ cplan.wg => peer.here /\ peer.on

\* The invariant of a cancellation: the accounting it reads counts once, what
\* is refunded is what was not used, and what it takes apart was not renewed
\* and does not live on.
CancelInv == CancelTypeOK /\ SettledForWhatWasUsed /\ NothingLivesOn /\ BilledOnceHoweverDelivered /\ RenewedStaysWhole

\* A cancellation was begun, and every session has ended with its own Stop, on a
\* router that did not restart.
Provable ==
    /\ refund.state # "none" /\ renewal = "none" /\ ~peer.rebooted /\ ~pstep.unverified
    /\ \A s \in Sids : /\ session[s].at \in {"none", "ended"}
                       /\ grant[s].state \in {"none", "stopped"} /\ ~grant[s].regressed

\* A begun cancellation that can be proved is settled, whatever died or was refused on the way.
CancellationSettles == <>[]Provable => <>(refund.state = "completed")
=============================================================================
