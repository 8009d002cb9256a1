---------------------------- MODULE MCProvisioning ----------------------------
(* Instances of Provisioning for TLC: one operation with one or two steps,    *)
(* and two operations that compete for a one-time package.                    *)
EXTENDS Provisioning, TLC

CONSTANTS a, b, c, n1, w1, w2, e1, e2, k

Seller == "reseller_credit"
MCPayers == {Wallet, Seller}

\* One operation, two steps on one node, paid by both payers.
OneOpOf     == (a :> "op") @@ (b :> "op")
OneSameNode == (a :> n1) @@ (b :> n1)
OneOrder    == (a :> 0) @@ (b :> 1)
OnePrice    == "op" :> ((Wallet :> 2) @@ (Seller :> 1))
OneCredit   == (Wallet :> 2) @@ (Seller :> 2)
OneKey      == "op" :> NoKey

\* The same with one step.
SoloOpOf   == a :> "op"
SoloNodeOf == a :> n1
SoloOrder  == a :> 0

\* Two operations for the same one-time package, the second with a connection
\* that has no remote resource, and an order the wallet can never pay.
TwoOpOf   == (a :> "op") @@ (b :> "other") @@ (c :> "other")
TwoNodeOf == (a :> n1) @@ (b :> n1) @@ (c :> n1)
TwoOrder  == (a :> 0) @@ (b :> 0) @@ (c :> 1)
TwoPrice  == ("op" :> ((Wallet :> 2) @@ (Seller :> 0))) @@ ("other" :> ((Wallet :> 1) @@ (Seller :> 1)))
               @@ ("dear" :> ((Wallet :> 4) @@ (Seller :> 0)))
TwoCredit == (Wallet :> 3) @@ (Seller :> 1)
TwoKeys   == ("op" :> k) @@ ("other" :> k) @@ ("dear" :> NoKey)

QuietSpec == FairSpec /\ FairNodes

Symmetry == Permutations({w1, w2})
=============================================================================
