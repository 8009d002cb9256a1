----------------------------- MODULE MCReceipts -----------------------------
(***************************************************************************)
(* The parts of a receipt's life, in one run: each behaviour is one of the *)
(* approval of a top-up, of the approval of a sale or a renewal, or of the *)
(* void of an approval.                                                    *)
(***************************************************************************)
EXTENDS ReceiptVoid, SaleApproval, TLC

CONSTANTS s1, s2, a1, a2,
          Parts     \* the parts this run has: "void", "topup", "sale"

VARIABLE part       \* the part this behaviour is one of; it never changes

V(shape, conns, broken, events, n) ==
    [shape |-> shape, conns |-> conns, broken |-> broken, events |-> events, left |-> n]
MCVoidPlans == {
    V("new_user", {s1}, {}, {"customer", "operator"}, 2),
    V("new_user", {s1}, {}, {"customer", "admin", "operator"}, 1),
    V("existing_user", {s1}, {}, {"glitch", "crash", "unverified"}, 2),
    V("new_user", {s1, s2}, {}, {"unverified", "operator"}, 2),
    V("topup", {}, {}, {"glitch", "expire"}, 2),
    V("topup", {}, {<<"wallet_reversal">>}, {"expire", "crash", "busy", "operator"}, 2),
    V("topup", {}, {<<"ledger_reversal">>}, {"customer", "flags", "operator"}, 3),
    V("renew_purchase", {}, {}, {"admin", "operator"}, 2) }

T(keys, approvers, mode, wallet, ready, logged, events, n) ==
    [key |-> keys, approver |-> approvers, mode |-> mode, wallet |-> wallet, ready |-> ready,
     logged |-> logged, kind |-> "topup", known |-> TRUE, events |-> events, left |-> n]
Same == [a \in Attempts |-> 1]
Other == [a \in Attempts |-> IF a = a1 THEN 1 ELSE 2]
MCApPlans == {
    T(Same, Same, "required", "enforced", TRUE, FALSE, {"timeout", "unrecorded", "reject"}, 3),
    T(Same, Other, "required", "enforced", TRUE, TRUE, {"timeout", "modes", "keys"}, 3),
    T(Other, Other, "required", "enforced", TRUE, FALSE, {"timeout", "unrecorded"}, 3),
    T(Same, Same, "shadow", "normal", TRUE, TRUE, {"timeout", "unrecorded"}, 3),
    T(Same, Other, "shadow", "normal", TRUE, TRUE, {"timeout", "modes"}, 4),
    T(Other, Other, "shadow", "enforced", FALSE, FALSE, {"timeout", "modes", "keys"}, 4) }

S(kind, known, plan) == [plan EXCEPT !.kind = kind, !.known = known]
MCSalePlans == {
    S("new", FALSE, T(Same, Other, "required", "enforced", TRUE, TRUE, {"timeout", "unrecorded", "fail"}, 2)),
    S("new", FALSE, T(Other, Other, "required", "enforced", TRUE, FALSE, {"revoke", "late", "timeout"}, 2)),
    S("new", TRUE, T(Other, Other, "shadow", "enforced", TRUE, FALSE, {"revoke", "unrecorded"}, 2)),
    S("new", FALSE, T(Same, Same, "shadow", "normal", TRUE, TRUE, {"timeout", "drift"}, 2)),
    S("new", FALSE, T(Same, Same, "shadow", "normal", TRUE, TRUE, {"modes", "drift"}, 3)),
    S("new", TRUE, T(Same, Other, "shadow", "enforced", TRUE, FALSE, {"modes", "fail", "keys"}, 3)),
    S("new", TRUE, T(Same, Other, "shadow", "enforced", TRUE, FALSE, {"modes", "timeout"}, 2)),
    S("renew", TRUE, T(Other, Other, "required", "enforced", TRUE, TRUE, {"timeout", "unrecorded", "drift"}, 3)),
    S("renew", TRUE, T(Same, Same, "required", "enforced", TRUE, TRUE, {"timeout", "unrecorded"}, 2)),
    S("renew", TRUE, T(Same, Other, "shadow", "enforced", TRUE, FALSE, {"timeout", "unrecorded", "modes"}, 3)) }

\* Two keys, one of which is revoked while the sale it approved runs.
MCSaleAsked == {
    S("new", TRUE, T(Other, Other, "shadow", "enforced", TRUE, FALSE, {"revoke", "unrecorded"}, 2)) }

receiptvars == <<part, voidvars, topvars, salevars>>

\* A part that is not this behaviour's stays in one of its initial states.
ReceiptsInit ==
    /\ part \in Parts
    /\ IF part = "sale" THEN ApInit(SalePlans) ELSE TopInit
    /\ SaleInit /\ VoidInit
    /\ part # "void"  => vplan = CHOOSE p \in VoidPlans : TRUE
    /\ part \notin {"topup", "sale"} => aplan = CHOOSE p \in ApPlans : TRUE

VoidPart(A)  == part = "void"  /\ A /\ UNCHANGED <<part, topvars, salevars>>
TopPart(A)   == part = "topup" /\ A /\ UNCHANGED <<part, voidvars, salevars>>
SalePart(A)  == part = "sale"  /\ A /\ UNCHANGED <<part, voidvars>>

ReceiptsNext == VoidPart(VoidNext) \/ TopPart(TopNext) \/ SalePart(SaleNext)

\* A behaviour is of one part, so one condition does for an action of each.
ReceiptsFairness ==
    /\ \A w \in VoidWorkers : WF_receiptvars(VoidPart(VoidWork(w)))
    /\ WF_receiptvars(VoidPart(VoidMachine) \/ SalePart(Tick))
    /\ WF_receiptvars(VoidPart(BackoffElapses)) /\ WF_receiptvars(VoidPart(LeaseEnds))
    /\ WF_receiptvars(VoidPart(HeldDebitSettles))
    /\ \A a \in Attempts : WF_receiptvars(TopPart(Panel(a)) \/ SalePart(SalePanel(a)))

ReceiptsSpec == ReceiptsInit /\ [][ReceiptsNext]_receiptvars
ReceiptsFairSpec == ReceiptsSpec /\ ReceiptsFairness
=============================================================================
