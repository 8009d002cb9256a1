------------------------------ MODULE MCAccounts ------------------------------
(* Whose money it is: each behaviour is one of the wallet (one customer who  *)
(* meets two voids, or two accounts of one identity that can leave it), of   *)
(* the credit of a reseller and its seller, or of the pool of cards the      *)
(* customers pay to.                                                         *)
EXTENDS WalletLots, ResellerCredit, PaymentCards

CONSTANTS acct1, acct2, owner, other, rcpt, rcpt2,
          HolderKinds   \* the parts this run has: "wallet", "credit", "cards"

VARIABLE part           \* the part this behaviour is one of; it never changes

\* Both approvals are of the same customer, whose account shares its identity
\* with a second one.
MCBound    == (acct1 :> owner) @@ (acct2 :> owner)
MCCustomer == (rcpt :> acct1) @@ (rcpt2 :> acct1)

\* One customer alone; a customer and a referrer of one identity, the referrer
\* with an old balance, where an account can be rebound.
MCScenes == {
    [actors |-> {acct1}, baseline |-> (acct1 :> 0) @@ (acct2 :> 0), amounts |-> {1, 2},
     kinds |-> {"sale", "manual_adjustment"}, rebinds |-> 0],
    [actors |-> {acct1, acct2}, baseline |-> (acct1 :> 0) @@ (acct2 :> 1), amounts |-> {1},
     kinds |-> {"manual_adjustment"}, rebinds |-> 1] }

\* Both approvals are of the same customer.
Symmetry == Permutations({rcpt, rcpt2})

\* A reseller of the owner's and its seller.
MCParentOf == [a \in Resellers |-> IF a = "seller" THEN "reseller" ELSE Owner]
Cr(usage, sells, later, deals, limit, unit, events, n) ==
    [usage |-> usage, sells |-> sells, later |-> later, deals |-> deals, limit |-> limit,
     unit |-> unit, events |-> events, left |-> n]
MCCrPlans == {
    Cr({}, {"reseller", "seller"}, {}, {<<"reseller", 2>>, <<"reseller", -1>>, <<"seller", -1>>}, 1, "balance",
       {"crash", "raise"}, 1),
    Cr({}, {"seller"}, {"seller"}, {<<"reseller", 1>>, <<"reseller", -1>>, <<"seller", -1>>}, 1, "balance",
       {"limit"}, 1),
    Cr({"seller"}, {"reseller", "seller"}, {}, {<<"reseller", 2>>, <<"reseller", -1>>, <<"seller", -1>>}, 0, "volume",
       {"traffic", "settle", "raise"}, 3),
    Cr({"reseller", "seller"}, {}, {}, {<<"reseller", 2>>}, 0, "volume", {"traffic", "settle", "switch", "fail"}, 5) }
MCCrRace == { Cr({}, {"reseller"}, {}, {<<"reseller", 2>>}, 1, "balance", {"race"}, 0) }

Ca(ph, threshold, events, n) == [phase |-> ph, threshold |-> threshold, events |-> events, left |-> n]
MCPoolPlans == {
    Ca("event_logged", 3, {"void", "cards"}, 2),
    Ca("event_logged", 2, {"void", "broken", "phase"}, 2),
    Ca("legacy", 3, {"phase", "void"}, 3) }

accountvars == <<part, vars, creditvars, poolvars>>

\* A part that is not this behaviour's stays in one of its initial states.
AccountsInit ==
    /\ part \in HolderKinds
    /\ Init /\ CreditInit /\ PoolInit
    /\ part # "wallet" => scene = CHOOSE s \in Scenes : TRUE
    /\ part # "credit" => crplan = CHOOSE p \in CrPlans : TRUE
    /\ part # "cards" => poolplan = CHOOSE p \in PoolPlans : TRUE

WalletPart(A) == part = "wallet" /\ A /\ UNCHANGED <<part, creditvars, poolvars>>
CreditPart(A) == part = "credit" /\ A /\ UNCHANGED <<part, vars, poolvars>>
CardPart(A)   == part = "cards"  /\ A /\ UNCHANGED <<part, vars, creditvars>>

AccountsNext == WalletPart(Next) \/ CreditPart(CreditNext) \/ CardPart(PoolNext)

\* What resellers hold and what cards were paid agree with their logs.
HoldersInv == CreditInv /\ PoolInv

AccountsSpec == AccountsInit /\ [][AccountsNext]_accountvars
=============================================================================
