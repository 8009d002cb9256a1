----------------------------- MODULE MCDeletion -----------------------------
(* Two deletions of one customer by two workers.                           *)
EXTENDS Deletion, TLC

CONSTANTS c1, c2, c3, c4, p1, n1, d1, d2

MCNode == [c \in Conns |-> n1]
MCPurchase == [c \in Conns |-> IF c = c3 THEN NoPurchase ELSE p1]
MCOrder == (c1 :> 1) @@ (c2 :> 2) @@ (c3 :> 3) @@ (c4 :> 4)

Del(k, t) == [kind |-> k, target |-> t]
None == [kind |-> "none", target |-> p1]
Plan(a, b, has, later, ev) == [del |-> (d1 :> a) @@ (d2 :> b), has |-> has, later |-> later, events |-> ev]

MCPlans == {
    \* overlapping deletions, and workers that die
    Plan(Del("connection", c1), Del("purchase", p1), {c1}, {}, {"crash"}),
    \* the same purchase twice, and a node somebody edits
    Plan(Del("purchase", p1), Del("purchase", p1), {c2}, {}, {"foreign", "operator"}),
    \* the scope changes under the deletion
    Plan(Del("user", p1), None, {c1, c3}, {c4}, {"add", "edit"}),
    Plan(Del("purchase", p1), None, {c1, c3}, {c4}, {"add", "conflict", "down", "crash", "drain"}),
    \* leases that expire under a running child
    Plan(Del("purchase", p1), None, {c1, c2}, {}, {"expire", "operator", "kill"}),
    \* the poller
    Plan(Del("connection", c1), None, {c1}, {}, {"poll", "kill"}) }
=============================================================================
