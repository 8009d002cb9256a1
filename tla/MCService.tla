------------------------------ MODULE MCService ------------------------------
(***************************************************************************)
(* What keeps a service running, in one run: each behaviour is one of the  *)
(* enforcement of its limits, of its renewals, or of the panel's licence.  *)
(***************************************************************************)
EXTENDS QuotaEnforcement, RenewalHistory, Licensing

CONSTANT Parts      \* the parts this run has: "quota", "renewal", "licence"

VARIABLE part       \* the part this behaviour is one of; it never changes

P(kind, of, q, cap, mode, events, n) ==
    [kind |-> kind, of |-> of, quota |-> [s \in Allotments |-> q], cap |-> [s \in Allotments |-> cap],
     mode |-> mode, events |-> events, left |-> n]
Node2 == [c \in QConns |-> "node"]
Mixed == [c \in QConns |-> IF c = 1 THEN "node" ELSE "ppp"]
Buy == [c \in QConns |-> "buy"]
Pool == [c \in QConns |-> "user"]
Both == [c \in QConns |-> IF c = 1 THEN "user" ELSE "buy"]
MCQPlans == {
    P(Mixed, Buy, 1, 0, "enforced", {"traffic", "renew", "expire"}, 3),
    P(Mixed, Pool, 1, 0, "legacy", {"traffic", "renew"}, 4),
    P(Node2, Both, 1, 0, "legacy", {"traffic", "renew", "reset"}, 4),
    P(Node2, Buy, 2, 0, "enforced", {"traffic", "unreachable", "reset", "crash"}, 4),
    P(Mixed, Both, 1, 0, "legacy", {"traffic", "switch", "expire"}, 4),
    P(Mixed, Pool, 1, 0, "legacy", {"traffic", "account"}, 3),
    P(Node2, Buy, 0, 1, "enforced", {"devices"}, 3),
    P(Mixed, Both, 0, 1, "legacy", {"devices", "expire"}, 3) }

H(pays, voids, readers, locked, events, units, n) ==
    [pays |-> pays, voids |-> voids, readers |-> readers, locked |-> locked,
     events |-> events, units |-> units, left |-> n]
MCHPlans == {
    H({1, 2, 3}, {}, {"poller", "radius"}, FALSE, {}, 3, 1),
    H({1, 2}, {1, 2}, {"poller", "radius"}, FALSE, {}, 2, 0),
    H({1, 2, 3}, {1, 2}, {"poller"}, FALSE, {}, 3, 0),
    H({1, 2}, {1, 2}, {"poller", "radius"}, TRUE, {}, 2, 1) }
MCRace == { H({1, 2}, {}, {"poller"}, FALSE, {"race"}, 2, 0) }

L(t1, t2, events, n) ==
    [kind |-> [c \in LConns |-> IF c = 1 THEN "peer" ELSE "ppp"],
     term |-> [k \in LKeys |-> IF k = 1 THEN t1 ELSE t2], events |-> events, left |-> n]
MCLPlans == {
    L(2, 1, {"day", "back", "lost"}, 2),
    L(2, 1, {"day", "keys"}, 2),
    L(2, 1, {"silence", "check", "keys", "lost"}, 2),
    L(3, 3, {"decide", "forget", "silence"}, 3),
    L(3, 3, {"decide", "check", "keys"}, 2),
    L(3, 3, {"decide", "busy", "restart"}, 3),
    L(0, 3, {"keys", "node"}, 3),
    L(3, 3, {"decide", "expire", "renew", "hold"}, 3),
    L(3, 3, {"decide", "edit"}, 2),
    L(3, 3, {"decide", "login"}, 3) }

servicevars == <<part, quotavars, historyvars, licencevars>>

\* A part that is not this behaviour's stays in one of its initial states.
ServiceInit ==
    /\ part \in Parts
    /\ QuotaInit /\ HistoryInit /\ LicenceInit
    /\ part # "quota"        => qplan = CHOOSE p \in QPlans : TRUE
    /\ part # "renewal"      => hplan = CHOOSE p \in HPlans : TRUE
    /\ part # "licence"      => lplan = CHOOSE p \in LPlans : p.term[1] > 0

QuotaPart(A)   == part = "quota" /\ A /\ UNCHANGED <<part, historyvars, licencevars>>
HistoryPart(A) == part = "renewal" /\ A /\ UNCHANGED <<part, quotavars, licencevars>>
LicencePart(A) == part = "licence" /\ A /\ UNCHANGED <<part, quotavars, historyvars>>

ServiceNext == QuotaPart(QuotaNext) \/ HistoryPart(HistoryNext) \/ LicencePart(LicenceNext)

ServiceFairness ==
    /\ WF_servicevars(QuotaPart(PollCycle))
    /\ WF_servicevars(HistoryPart(Consumes("poller")))
    /\ WF_servicevars(HistoryPart(Recheck("radius") \/ Commit("radius")))
    /\ \A p \in Pays : WF_servicevars(HistoryPart(Block(p) \/ ApplyVoid(p)))
    /\ WF_servicevars(LicencePart(PassStep))
    /\ WF_servicevars(LicencePart((held /\ Hold) \/ \E c \in LConns : Poll(c)))
    /\ SF_servicevars(LicencePart(Refresh \/ SetLicenseKey))
    /\ WF_servicevars(LicencePart(Ask("job") \/ Answer("job") \/ \E b \in Callers : ApplyReply(b)))
    /\ SF_servicevars(LicencePart(TakeReply("job")))

\* What the two readers of a service promise, and the panel's own licence.
ServiceInv == QuotaInv /\ RenewalInv /\ LicenceInv

\* What is out of step with its limits, waits for its turn or was cut by a
\* verdict that no longer holds does not stay so.
ServiceSettles == ServicesSettle /\ QueueStarts /\ LicenceSettles

ServiceSpec == ServiceInit /\ [][ServiceNext]_servicevars /\ ServiceFairness
=============================================================================
