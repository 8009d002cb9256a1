----------------------------- MODULE AtomicSale -----------------------------
(***************************************************************************)
(* What the durable provisioning machinery promises of a sale: the price   *)
(* is held from its first step, and the sale ends in one step, either      *)
(* delivered (every part whole on its node, the price gone for good) or    *)
(* refunded (no trace of any part except those an operator gave up).       *)
(* Nothing about an ended sale changes again, and parts come and go only   *)
(* while their own sale is pending.                                        *)
(***************************************************************************)
EXTENDS Integers

CONSTANTS Sales, Parts, PartOf, \* part -> sale
          Local,                \* parts that live in the database only
          Payers, Price, Credit

VARIABLES sale,     \* sale -> "none", "pending", "delivered" or "refunded"
          balance,  \* payer -> balance
          trace,    \* parts with any trace on their node
          whole,    \* parts complete on their node
          givenup   \* parts an operator gave up

salevars == <<sale, balance, trace, whole, givenup>>

PartsOf(o) == {p \in Parts : PartOf[p] = o}

Init == /\ sale = [o \in Sales |-> "none"]
        /\ balance = Credit
        /\ trace = {} /\ whole = {} /\ givenup = {}

Begin(o) == /\ sale[o] = "none"
            /\ sale' = [sale EXCEPT ![o] = "pending"]
            /\ balance' = [p \in Payers |-> balance[p] - Price[o][p]]
            /\ \A p \in Payers : balance'[p] >= 0
            /\ UNCHANGED <<trace, whole, givenup>>

\* One part of a pending sale changes on its node.
Work(o) == /\ sale[o] = "pending"
           /\ \E p \in PartsOf(o) : /\ trace' \in {trace \cup {p}, trace \ {p}}
                                    /\ whole' \in {whole \cup {p}, whole \ {p}}
           /\ whole' \subseteq trace'
           /\ UNCHANGED <<sale, balance, givenup>>

GiveUp(o) == /\ sale[o] = "pending"
             /\ \E p \in PartsOf(o) : givenup' = givenup \cup {p}
             /\ UNCHANGED <<sale, balance, trace, whole>>

Deliver(o) == /\ sale[o] = "pending"
              /\ PartsOf(o) \ Local \subseteq whole
              /\ sale' = [sale EXCEPT ![o] = "delivered"]
              /\ UNCHANGED <<balance, trace, whole, givenup>>

Refund(o) == /\ sale[o] = "pending"
             /\ PartsOf(o) \cap trace \subseteq givenup
             /\ sale' = [sale EXCEPT ![o] = "refunded"]
             /\ balance' = [p \in Payers |-> balance[p] + Price[o][p]]
             /\ UNCHANGED <<trace, whole, givenup>>

Next == \E o \in Sales : Begin(o) \/ Work(o) \/ GiveUp(o) \/ Deliver(o) \/ Refund(o)

Spec == Init /\ [][Next]_salevars
=============================================================================
