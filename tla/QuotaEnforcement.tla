--------------------------- MODULE QuotaEnforcement ---------------------------
(***************************************************************************)
(* One customer's services between the four that switch them: the poll     *)
(* cycle (quota_manager.poll_all), the RADIUS server (a login, an          *)
(* accounting report), a renewal and an administrator.                     *)
(*                                                                         *)
(* An allotment is the account's own pool ("user") or a purchase ("buy");  *)
(* a connection draws on one of them.  A "node" connection (WireGuard,     *)
(* Xray, SoftEther) is a peer that is switched on its node and polled for  *)
(* its counter; a "ppp" one is judged at every login and reports itself.   *)
(* A pass of the poll cycle judges what it has read, switches peers one    *)
(* remote call after another and commits the columns it changed at the     *)
(* end; the others are short transactions in between.  Expiry is a flag,   *)
(* the accounting rows of live PPP sessions are the live sessions, and a   *)
(* queued renewal is not modelled here.                                    *)
(***************************************************************************)
EXTENDS Integers, SequencesExt, FiniteSetsExt, TLC

CONSTANTS QConns,     \* the customer's connections, by id
          QPlans      \* bound: what the customer has and what may happen

Allotments == {"user", "buy"}
QPlan == [kind: [QConns -> {"node", "ppp"}], of: [QConns -> Allotments], quota: [Allotments -> Nat],
          cap: [Allotments -> Nat], mode: {"legacy", "enforced"}, left: Nat,
          events: SUBSET {"traffic", "renew", "expire", "reset", "unreachable", "crash", "switch", "account", "devices"}]
ASSUME QuotaAssumption == QConns \subseteq Nat /\ IsFiniteSet(QConns) /\ QPlans \subseteq QPlan

VARIABLES qplan,      \* [kind, of, quota, cap, mode, events, left]
          sub,        \* allotments: [status, used, expired]
          qconn,      \* connection rows: [enabled, limited, adminOff, online, seen]
          peer,       \* on the nodes: [on, moved]
          using,      \* connections the customer's devices use
          poll,       \* the poll cycle: [pc, base, work, todo]
          carried,    \* units carried, ever
          billed      \* units added to an allotment, ever

quotavars == <<qplan, sub, qconn, peer, using, poll, carried, billed>>

On(c) == qplan.of[c]
IsNode(c) == qplan.kind[c] = "node"
Owned(s) == {c \in QConns : On(c) = s}
ById(S) == CHOOSE q \in [1..Cardinality(S) -> S] : \A i, j \in DOMAIN q : i < j => q[i] < q[j]
Occurs(e) == e \in qplan.events /\ qplan.left > 0
Counted == [qplan EXCEPT !.left = @ - 1]

Exceeded(a, s) == qplan.quota[s] > 0 /\ a[s].used >= qplan.quota[s]
Exhausted(a, s) == Exceeded(a, s) \/ a[s].expired
Verdict(a, s) ==
    IF Exceeded(a, s) THEN "quota_exceeded" ELSE IF a[s].expired THEN "expired" ELSE "active"

Row == [enabled |-> TRUE, limited |-> FALSE, adminOff |-> FALSE, online |-> FALSE, seen |-> 0]
QuotaInit ==
    /\ qplan \in QPlans
    /\ sub = [s \in Allotments |-> [status |-> "active", used |-> 0, expired |-> FALSE]]
    /\ qconn = [c \in QConns |-> Row]
    /\ peer = [c \in QConns |-> [on |-> IsNode(c), moved |-> 0]]
    /\ using = QConns
    /\ poll = [pc |-> "idle", base |-> [sub |-> <<>>, conn |-> <<>>], work |-> [sub |-> <<>>, conn |-> <<>>],
               flushed |-> <<>>, live |-> {}, todo |-> <<>>]
    /\ carried = 0 /\ billed = 0

-----------------------------------------------------------------------------
(* _set_connection_enabled: the row follows what the node confirmed.  w is   *)
(* what the session of the caller holds, [sub, conn], and what is on the     *)
(* nodes.                                                                    *)

Outcomes == {"done"} \cup (IF Occurs("unreachable") THEN {"refused"} ELSE {})

Pushes(w, c, on) == w.conn[c].enabled # on /\ ~(on /\ w.conn[c].adminOff)

\* Mutant of SetEnabled: the row is written whatever the node said.
SetEnabledAnyway(w, c, on, out) ==
    IF ~Pushes(w, c, on) THEN w
    ELSE IF ~IsNode(c) \/ out = "refused" THEN [w EXCEPT !.conn[c].enabled = on]
    ELSE [w EXCEPT !.conn[c].enabled = on, !.peer[c].on = on]

SetEnabled(w, c, on, out) ==
    IF ~Pushes(w, c, on) THEN w
    ELSE IF ~IsNode(c) THEN [w EXCEPT !.conn[c].enabled = on]
    ELSE IF out = "refused" THEN w
    ELSE [w EXCEPT !.conn[c].enabled = on, !.peer[c].on = on]

\* One switch after another, all with one outcome.
SetAll(w, switches, out) ==
    FoldLeft(LAMBDA x, p : SetEnabled(x, p[1], p[2], out), w, switches)

Switches(S, on) == [i \in DOMAIN ById(S) |-> <<ById(S)[i], on>>]

\* What quota asks for: a kicked connection is not switched on.
ApplyAll(w, S, on) == Switches({c \in S : on => ~w.conn[c].limited}, on)

-----------------------------------------------------------------------------
(* _enforce_purchase_limits, _enforce_user_limits: [status of the two, what  *)
(* is switched]                                                              *)

Legacy == Owned("user")
HasPurchase == Owned("buy") # {}
FromPurchases(a) == IF HasPurchase THEN a["buy"].status ELSE "active"

JudgePurchase(w) ==
    LET target == Verdict(w.sub, "buy") IN
    IF ~HasPurchase \/ target = w.sub["buy"].status THEN [w |-> w, todo |-> <<>>]
    ELSE [w |-> [w EXCEPT !.sub["buy"].status = target],
          todo |-> ApplyAll(w, Owned("buy"), target = "active")]

\* The badge of an account with a valid purchase says active; its own
\* connections follow its own quota and expiry.
JudgeUser(w) ==
    LET own   == Verdict(w.sub, "user")
        badge == IF own # "active" /\ HasPurchase /\ FromPurchases(w.sub) = "active" THEN "active" ELSE own
    IN IF w.sub["user"].status = "disabled" THEN [w |-> w, todo |-> <<>>]
       ELSE IF Legacy = {}
       THEN [w |-> [w EXCEPT !.sub["user"].status = FromPurchases(w.sub)], todo |-> <<>>]
       ELSE [w |-> [w EXCEPT !.sub["user"].status = badge],
             todo |-> ApplyAll(w, Legacy, own = "active")]

Judge(w) ==
    LET p == JudgePurchase(w)
        u == JudgeUser(p.w)
    IN [w |-> u.w, todo |-> p.todo \o u.todo]

-----------------------------------------------------------------------------
(* The poll cycle.  Its session holds the rows it has loaded (base) and what *)
(* it has made of them (work); a row is read when it is first needed, and    *)
(* never again in the cycle.                                                 *)

Nothing == [sub |-> <<>>, conn |-> <<>>]
Resting == [pc |-> "idle", base |-> Nothing, work |-> Nothing, flushed |-> <<>>, live |-> {}, todo |-> <<>>]

\* What has been read of f, and the rest as the database has it.
Over(f, g) == [x \in DOMAIN f \cup DOMAIN g |-> IF x \in DOMAIN f THEN f[x] ELSE g[x]]
Load(w, S, C) == [sub |-> Over(w.sub, [s \in S |-> sub[s]]), conn |-> Over(w.conn, [c \in C |-> qconn[c]])]
Step(pc, S, C, judged, todo) ==
    poll' = [poll EXCEPT !.pc = pc, !.base = Load(@, S, C), !.work = judged, !.todo = todo]

\* Mutant of Baseline: a high-water mark.
HighWater(c) == IF peer[c].moved > qconn[c].seen THEN peer[c].moved ELSE qconn[c].seen

\* _apply_delta: a counter below the last one was reset on the node.
Baseline(c) == peer[c].moved
Delta(c) == IF peer[c].moved >= qconn[c].seen THEN peer[c].moved - qconn[c].seen ELSE peer[c].moved

Metered(C) == SumFunctionOnSet([c \in C |-> Delta(c)], C)

\* Every node is read and committed on its own; one that does not answer is
\* left for the next cycle.
PollNodes ==
    /\ poll.pc = "idle"
    /\ \E C \in {{c \in QConns : IsNode(c)}} \cup IF Occurs("unreachable") THEN {{}} ELSE {} :
        /\ sub' = [s \in Allotments |-> [sub[s] EXCEPT !.used = @ + Metered(C \cap Owned(s))]]
        /\ billed' = billed + Metered(C)
        /\ qconn' = [c \in QConns |->
                        IF c \in C THEN [qconn[c] EXCEPT !.seen = Baseline(c), !.online = peer[c].on /\ c \in using]
                        ELSE qconn[c]]
    /\ poll' = [Resting EXCEPT !.pc = "purchases", !.live = {c \in QConns : ~IsNode(c) /\ peer[c].on}]
    /\ UNCHANGED <<qplan, peer, using, carried>>

PollPurchases ==
    /\ poll.pc = "purchases"
    /\ LET due  == HasPurchase /\ Verdict(sub, "buy") # sub["buy"].status
           S    == IF due THEN {"buy"} ELSE {}
           C    == IF due THEN Owned("buy") ELSE {}
           read == Load(Nothing, S, C)
           j    == IF due THEN JudgePurchase(read) ELSE [w |-> read, todo |-> <<>>]
       IN Step("users", S, C, j.w, j.todo)
    /\ UNCHANGED <<qplan, sub, qconn, peer, using, carried, billed>>

\* The next switch of the pass, a remote call between two reads.
PollSwitch ==
    /\ poll.todo # <<>>
    /\ \E out \in Outcomes :
        LET p == Head(poll.todo)
            r == SetEnabled([conn |-> poll.work.conn, peer |-> peer], p[1], p[2], out)
        IN /\ poll' = [poll EXCEPT !.work.conn = r.conn, !.todo = Tail(@)]
           /\ peer' = r.peer
           /\ qplan' = IF out = "refused" THEN Counted ELSE qplan
    /\ UNCHANGED <<sub, qconn, using, carried, billed>>

\* What the session has changed of column `col` of the connections.
Dirty(col) ==
    LET C == {c \in DOMAIN poll.work.conn : poll.work.conn[c][col] # poll.base.conn[c][col]}
    IN [c \in C |-> poll.work.conn[c][col]]

\* The purchases' pass is flushed before the account is looked at.
PollUsers ==
    /\ poll.pc = "users" /\ poll.todo = <<>>
    /\ LET seen == Load(poll.work, Allotments, QConns)
           due  == /\ sub["user"].status # "disabled"
                   /\ Legacy # {} \/ FromPurchases(seen.sub) # sub["user"].status
           j    == IF due THEN JudgeUser(seen) ELSE [w |-> poll.work, todo |-> <<>>]
       IN /\ poll' = [poll EXCEPT !.pc = "limits", !.work = j.w, !.todo = j.todo, !.flushed = Dirty("enabled"),
                                  !.base = IF due THEN Load(@, Allotments, QConns) ELSE @]
    /\ UNCHANGED <<qplan, sub, qconn, peer, using, carried, billed>>

\* The scopes of the cap: legacy, the account's cap over everything; enforced,
\* the purchase's own cap over its connections, the account's over the rest.
Scopes ==
    IF qplan.mode = "legacy" THEN {[cap |-> qplan.cap["user"], conns |-> QConns]}
    ELSE {[cap |-> qplan.cap[s], conns |-> Owned(s)] : s \in Allotments}

Live(S) == Cardinality({c \in S : ~IsNode(c) /\ peer[c].on})

CountedOnline(w, S) == {c \in S : IsNode(c) /\ w.conn[c].online /\ ~w.conn[c].limited}

Effective(w, sc) == Live(sc.conns) + Cardinality(CountedOnline(w, sc.conns))

Lowest(S, n) == {c \in S : Cardinality({d \in S : d < c}) < n}
Highest(S, n) == {c \in S : Cardinality({d \in S : d > c}) < n}

\* The newest connections first.
Kicked(w, sc) ==
    IF sc.cap = 0 THEN {}
    ELSE Highest({c \in CountedOnline(w, sc.conns) : w.conn[c].enabled}, Effective(w, sc) - sc.cap)

\* Mutant of Room: the cap is reached, so one more may come.
RoomForOneMore(w, sc) == sc.cap - Effective(w, sc) + 1

Room(w, sc) == sc.cap - Effective(w, sc)

Released(w, sc) ==
    LET limited == {c \in sc.conns : IsNode(c) /\ (w.conn[c].limited \/ c \in Kicked(w, sc))}
        active  == {c \in limited : w.sub[On(c)].status = "active"}
    IN IF sc.cap = 0 THEN active ELSE Lowest(active, Room(w, sc))

PollLimits ==
    /\ poll.pc = "limits" /\ poll.todo = <<>>
    /\ LET candidate == (\E s \in Allotments : qplan.cap[s] > 0) \/ (\E c \in QConns : qconn[c].limited)
           w     == Load(poll.work, Allotments, QConns)
           kicks == UNION {Kicked(w, sc) : sc \in Scopes}
           frees == UNION {Released(w, sc) : sc \in Scopes}
           told  == [w EXCEPT !.conn = [c \in QConns |->
                        [w.conn[c] EXCEPT !.limited = (w.conn[c].limited \/ c \in kicks) /\ c \notin frees]]]
       IN IF candidate
          THEN Step("reconcile", Allotments, QConns, told, Switches(kicks, FALSE) \o Switches(frees, TRUE))
          ELSE Step("reconcile", {}, {}, poll.work, <<>>)
    /\ UNCHANGED <<qplan, sub, qconn, peer, using, carried, billed>>

\* Mutant of OutOfStep: only what runs and should not.
OutOfStepOpen(c) ==
    /\ IsNode(c) /\ ~qconn[c].limited /\ sub[On(c)].status # "disabled"
    /\ qconn[c].enabled /\ (Exhausted(sub, On(c)) \/ qconn[c].adminOff)

\* _reconcile_connection_enabled_state, on the rows the database shows:
\* nothing of a kicked connection, and of the account only where the account
\* itself is the allotment.
OutOfStep(c) ==
    /\ IsNode(c) /\ ~qconn[c].limited /\ sub[On(c)].status # "disabled"
    /\ Over(poll.flushed, [d \in QConns |-> qconn[d].enabled])[c] = (Exhausted(sub, On(c)) \/ qconn[c].adminOff)

PollReconcile ==
    /\ poll.pc = "reconcile" /\ poll.todo = <<>>
    /\ LET S == {c \in QConns : OutOfStep(c)}
       IN Step("commit", {}, S, Load(poll.work, {}, S),
               [i \in DOMAIN ById(S) |->
                   LET c == ById(S)[i] IN <<c, ~(Exhausted(sub, On(c)) \/ qconn[c].adminOff)>>])
    /\ UNCHANGED <<qplan, sub, qconn, peer, using, carried, billed>>

\* Live sessions of a connection that is off are cut, and the columns this
\* session changed are written over whatever is there by now.
PollCommit ==
    /\ poll.pc = "commit" /\ poll.todo = <<>>
    /\ LET statuses == [s \in {s \in DOMAIN poll.work.sub : poll.work.sub[s].status # poll.base.sub[s].status}
                            |-> poll.work.sub[s].status]
       IN sub' = [s \in Allotments |->
                    [sub[s] EXCEPT !.status = IF s \in DOMAIN statuses THEN statuses[s] ELSE @]]
    /\ qconn' = [c \in QConns |->
        [qconn[c] EXCEPT !.enabled = IF c \in DOMAIN Dirty("enabled") THEN Dirty("enabled")[c] ELSE @,
                         !.limited = IF c \in DOMAIN Dirty("limited") THEN Dirty("limited")[c] ELSE @]]
    /\ \E out \in Outcomes :
        LET cut == {c \in poll.live : ~qconn'[c].enabled}
        IN /\ peer' = [c \in QConns |-> IF c \in cut /\ out = "done" THEN [peer[c] EXCEPT !.on = FALSE] ELSE peer[c]]
           /\ qplan' = IF out = "refused" THEN Counted ELSE qplan
    /\ poll' = Resting
    /\ UNCHANGED <<using, carried, billed>>

\* The cycle fails somewhere: its session is rolled back, its remote calls not.
PollFails ==
    /\ Occurs("crash") /\ qplan' = Counted
    /\ poll.pc # "idle"
    /\ poll' = Resting
    /\ UNCHANGED <<sub, qconn, peer, using, carried, billed>>

PollCycle ==
    PollNodes \/ PollPurchases \/ PollUsers \/ PollSwitch \/ PollLimits \/ PollReconcile \/ PollCommit

-----------------------------------------------------------------------------
(* RADIUS *)

Admits(c) ==
    /\ qconn[c].enabled
    /\ sub["user"].status # "disabled"
    /\ sub[On(c)].status = "active" /\ ~Exhausted(sub, On(c))
    /\ LET sc == CHOOSE x \in Scopes : c \in x.conns
       IN sc.cap = 0 \/ Live(sc.conns) + Cardinality({d \in sc.conns : IsNode(d) /\ qconn[d].online}) < sc.cap

Login(c) ==
    /\ ~IsNode(c) /\ c \in using /\ ~peer[c].on
    /\ Admits(c)
    /\ peer' = [peer EXCEPT ![c].on = TRUE]
    /\ UNCHANGED <<qplan, sub, qconn, using, poll, carried, billed>>

\* What a short transaction leaves: its rows and its remote calls.
Leaves(w, out) ==
    /\ sub' = w.sub /\ qconn' = w.conn /\ peer' = w.peer
    /\ qplan' = IF out = "refused" THEN [Counted EXCEPT !.left = IF @ = 0 THEN 0 ELSE @ - 1] ELSE Counted
    /\ UNCHANGED <<using, poll>>

World == [sub |-> sub, conn |-> qconn, peer |-> peer]

\* An interim report or a stop: usage is added in the database, then both
\* allotments are judged in the same transaction.
Report(c) ==
    /\ Occurs("traffic") /\ ~IsNode(c) /\ peer[c].on
    /\ \E out \in Outcomes :
        LET j == Judge([World EXCEPT !.sub[On(c)].used = @ + 1])
        IN Leaves(SetAll(j.w, j.todo, out), out)
    /\ carried' = carried + 1 /\ billed' = billed + 1

-----------------------------------------------------------------------------
(* A renewal, an administrator *)

\* renew_purchase_core, renew_user_core: exhausted, so it applies at once.
Renew(s) ==
    /\ Occurs("renew") /\ Owned(s) # {} /\ Exhausted(sub, s)
    /\ \E out \in Outcomes :
        LET fresh == [World EXCEPT !.sub[s].used = 0, !.sub[s].expired = FALSE]
            w == [fresh EXCEPT !.sub[s].status = IF @ \in {"quota_exceeded", "expired"} THEN "active" ELSE @]
            told == w.sub[s].status # sub[s].status
            all == IF s = "buy" THEN Switches(Owned(s), TRUE)
                   ELSE [i \in DOMAIN ById(QConns) |->
                            LET c == ById(QConns)[i] IN <<c, On(c) = "user" \/ w.sub["buy"].status = "active">>]
        IN Leaves(IF told THEN SetAll(w, all, out) ELSE w, out)
    /\ UNCHANGED <<carried, billed>>

Allowed(c) ==
    sub[On(c)].status # "disabled" /\ sub["user"].status # "disabled" /\ ~Exhausted(sub, On(c))

\* The panel's switch of one service; an intent that did not reach the node is
\* kept.
ManualSwitch(c, wanted) ==
    /\ Occurs("switch") /\ qconn[c].adminOff = wanted
    /\ \E out \in Outcomes :
        LET w == [World EXCEPT !.conn[c].adminOff = ~wanted]
        IN Leaves(SetEnabled(w, c, wanted /\ Allowed(c), out), out)
    /\ UNCHANGED <<carried, billed>>

\* The account as a whole, from the bot (everything on) or from the panel
\* (a purchase's connections only if the purchase is active).
SetAccount(on, how) ==
    /\ Occurs("account") /\ (sub["user"].status = "disabled") = on
    /\ \E out \in Outcomes :
        LET w == [World EXCEPT !.sub["user"].status = IF on THEN "active" ELSE "disabled"]
            up(c) == on /\ (how = "bot" \/ On(c) = "user" \/ sub["buy"].status = "active")
        IN Leaves(SetAll(w, [i \in DOMAIN ById(QConns) |-> <<ById(QConns)[i], up(ById(QConns)[i])>>], out), out)
    /\ UNCHANGED <<carried, billed>>

-----------------------------------------------------------------------------
(* The customer, the nodes, time *)

Traffic(c) ==
    /\ Occurs("traffic") /\ IsNode(c) /\ c \in using /\ peer[c].on
    /\ qplan' = Counted
    /\ peer' = [peer EXCEPT ![c].moved = @ + 1]
    /\ carried' = carried + 1
    /\ UNCHANGED <<sub, qconn, using, poll, billed>>

CounterReset(c) ==
    /\ Occurs("reset") /\ IsNode(c) /\ peer[c].moved > 0
    /\ qplan' = Counted
    /\ peer' = [peer EXCEPT ![c].moved = 0]
    /\ UNCHANGED <<sub, qconn, using, poll, carried, billed>>

\* A device goes away, or comes back; a PPP session ends with it.
Device(c) ==
    /\ Occurs("devices") /\ qplan' = Counted
    /\ using' = IF c \in using THEN using \ {c} ELSE using \cup {c}
    /\ peer' = IF c \in using /\ ~IsNode(c) THEN [peer EXCEPT ![c].on = FALSE] ELSE peer
    /\ UNCHANGED <<sub, qconn, poll, carried, billed>>

Expire(s) ==
    /\ Occurs("expire") /\ Owned(s) # {} /\ ~sub[s].expired
    /\ qplan' = Counted
    /\ sub' = [sub EXCEPT ![s].expired = TRUE]
    /\ UNCHANGED <<qconn, peer, using, poll, carried, billed>>

QuotaNext ==
    \/ PollCycle \/ PollFails
    \/ \E c \in QConns : Login(c) \/ Report(c) \/ Traffic(c) \/ CounterReset(c) \/ Device(c)
    \/ \E c \in QConns, wanted \in BOOLEAN : ManualSwitch(c, wanted)
    \/ \E s \in Allotments : Renew(s) \/ Expire(s)
    \/ \E on \in BOOLEAN, how \in {"bot", "panel"} : SetAccount(on, how)

\* The poll cycle is an interval job of the scheduler.
QuotaSpec == QuotaInit /\ [][QuotaNext]_quotavars /\ WF_quotavars(PollCycle)

-----------------------------------------------------------------------------
(* Properties *)

QuotaTypeOK ==
    /\ \A s \in Allotments :
        /\ sub[s].status \in {"active", "quota_exceeded", "expired", "disabled"}
        /\ sub[s].used \in Nat /\ sub[s].expired \in BOOLEAN
    /\ sub["buy"].status # "disabled"
    /\ qconn \in [QConns -> [enabled: BOOLEAN, limited: BOOLEAN, adminOff: BOOLEAN, online: BOOLEAN, seen: Nat]]
    /\ peer \in [QConns -> [on: BOOLEAN, moved: Nat]]
    /\ using \subseteq QConns
    /\ poll.pc \in {"idle", "purchases", "users", "limits", "reconcile", "commit"}
    /\ \A i \in DOMAIN poll.todo : poll.todo[i] \in QConns \X BOOLEAN

Openers == {"renew", "account", "switch"}

\* What a service may do by all that governs it.
MayRun(c) ==
    /\ ~Exhausted(sub, On(c)) /\ ~qconn[c].adminOff
    /\ sub["user"].status # "disabled"

\* The customer never pays for a unit that was not carried, whatever the
\* resets between two polls and whoever meters at the same time.
NeverOverMetered == billed <= carried

\* The invariant of metering: counters and statuses in their ranges, and no
\* unit billed that was not carried.
QuotaInv == QuotaTypeOK /\ NeverOverMetered

\* Nobody judges for ever by what was true once: when nothing happens any
\* more, statuses and rows say what the allotments and the switches say and a
\* session runs only if its service may.
RowsAgree ==
    /\ \A c \in QConns : qconn[c].limited \/
        IF IsNode(c) THEN qconn[c].enabled = MayRun(c)
        ELSE /\ peer[c].on => MayRun(c)
             /\ MayRun(c) => qconn[c].enabled
    /\ HasPurchase => sub["buy"].status = Verdict(sub, "buy")

RowsSettle == <>[]RowsAgree

\* Where nobody switches services on (no renewal, no administrator), what the
\* rows say is true of the nodes in the end, whatever calls and cycles fail.
NodesSettle ==
    Openers \cap qplan.events = {} => <>[]\A c \in QConns : peer[c].on => qconn[c].enabled

\* A kick is not undone by its own effect: with the devices at rest, nobody is
\* kicked and released in turn.
KicksSettle == \A c \in QConns : <>[]qconn[c].limited \/ <>[]~qconn[c].limited

\* With nothing more to happen, statuses, rows, nodes and kicks come to rest
\* on what the allotments say.
ServicesSettle == RowsSettle /\ NodesSettle /\ KicksSettle
=============================================================================
