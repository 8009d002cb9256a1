--------------------------- MODULE WalletPosition ---------------------------
(* What the wallet promises each customer identity, without lots, sources,   *)
(* allocations or applications: what it can spend and what it owes follow    *)
(* from the money it really gave and the value it really took.               *)
EXTENDS Integers

CONSTANT Identities

VARIABLES given,      \* real money: credits not voided, and value written off
          taken,      \* value taken by debits and not given back
          spendable,  \* money that can be spent
          owed        \* open debt

vars == <<given, taken, spendable, owed>>

Positive(n) == IF n > 0 THEN n ELSE 0

Balanced(i) == spendable[i] - owed[i] = given[i] - taken[i]

Still(f, i) == f'[i] = f[i]

\* Money comes in: it pays what is owed, the rest can be spent.
PayIn(i) ==
    LET n == given'[i] - given[i]
    IN  /\ n > 0
        /\ Still(taken, i)
        /\ owed'[i] = Positive(owed[i] - n)
        /\ spendable'[i] = spendable[i] + Positive(n - owed[i])

\* Value is taken for money that can be spent.
Take(i) ==
    LET n == taken'[i] - taken[i]
    IN  /\ n \in 1 .. spendable[i]
        /\ Still(given, i) /\ Still(owed, i)
        /\ spendable'[i] = spendable[i] - n

\* Value comes back: every unit of it pays debt or can be spent, none is lost
\* and none is made.
GiveBack(i) ==
    /\ taken'[i] < taken[i]
    /\ Still(given, i)
    /\ owed'[i] <= owed[i] /\ spendable'[i] >= spendable[i]
    /\ Balanced(i)'

\* Money turns out not to be real: it can only shrink what can be spent and
\* grow what is owed.
ClawBack(i) ==
    /\ given'[i] < given[i]
    /\ Still(taken, i)
    /\ owed'[i] >= owed[i] /\ spendable'[i] <= spendable[i]
    /\ Balanced(i)'

Rest(i) == Still(given, i) /\ Still(taken, i) /\ Still(spendable, i) /\ Still(owed, i)

Init ==
    /\ given \in [Identities -> Nat]
    /\ spendable = given
    /\ taken = [i \in Identities |-> 0]
    /\ owed = [i \in Identities |-> 0]

Next == \A i \in Identities :
            Rest(i) \/ PayIn(i) \/ Take(i) \/ GiveBack(i) \/ ClawBack(i)

Spec == Init /\ [][Next]_vars
=============================================================================
