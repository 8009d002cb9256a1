------------------------------ MODULE WalletLots ------------------------------
(* The lot generation of the customer wallet (wallet_lots.py, wallet_void.py) *)
(* and the two things that move under it: a receipt void between its block    *)
(* and its wallet reversal, and the rebind of an account to another identity. *)
(* Money comes in as credit sources; a source settles the open debts of the   *)
(* customer's identity and the rest is a lot; a debit takes lots in the order *)
(* they were made; a void takes the lots of a fraudulent receipt back and     *)
(* makes a debt of what was already spent.                                    *)
(*                                                                            *)
(* Every operation is one transaction that locks the rows it reads, so every  *)
(* action here is one step. Rows are numbered in the order they are inserted; *)
(* the code orders by (created_at, id), which is that order on one clock.     *)
(* An identical repeat of a request finds its row and changes nothing: it is  *)
(* a stuttering step and has no action.                                       *)
EXTENDS Integers, SequencesExt

CONSTANTS Accounts,    \* wallet accounts of live customers
          Identities,  \* customer identities (a Telegram user in a tenant)
          Approvals,   \* receipt approvals that can cause credits
          None,        \* no approval, no identity
          Bound,       \* the identity of each account at the start
          Customer,    \* the account of each approval's customer
          Scenes,      \* who acts, what the cutover left, the credits and debits
          MaxSources,  \* bound on credit sources
          MaxDebits    \* bound on debits

ASSUME WalletAssumption ==
    /\ IsFiniteSet(Accounts) /\ IsFiniteSet(Identities)
    /\ Bound \in [Accounts -> Identities]
    /\ Customer \in [Approvals -> Accounts]
    /\ Scenes \subseteq [actors: SUBSET Accounts, baseline: [Accounts -> Nat],
                        amounts: SUBSET (Nat \ {0}),
                        kinds: SUBSET {"sale", "manual_adjustment"}, rebinds: Nat]
    /\ {MaxSources, MaxDebits} \subseteq Nat
    /\ None \notin Approvals \union Identities

VARIABLES scene,     \* the scene of this behaviour; it never changes
          book,      \* the wallet's tables and the cached balances
          identity,  \* wallet_accounts.customer_identity_id
          voids,     \* progress of the void of each approval
          voidedAs,  \* the identity a void's operation was claimed for
          rebinds    \* rebinds made, for the bound

vars == <<scene, book, identity, voids, voidedAs, rebinds>>

-------------------------------------------------------------------------------
\* Rows and sums.

InOrder(ids) == CHOOSE q \in [1 .. Cardinality(ids) -> ids] : \A j, k \in DOMAIN q : j < k => q[j] < q[k]

\* Do op for each of the rows one after the other: in their order if the last
\* one is their Max, the latest first if it is their Min.
Each(op(_, _), b, last(_), ids) == MapThenFoldSet(LAMBDA x, c : op(c, x), b, LAMBDA x : x, last, ids)

\* The baseline lots of the cutover: one for each account that had a balance.
Opening == SetToSeq({a \in Accounts : scene.baseline[a] > 0})

NewLot(a, s, amount) ==
    [account |-> a, source |-> s, original |-> amount, available |-> amount,
     consumed |-> 0, withheld |-> 0, state |-> "active"]

Available(b, a) ==
    SumFunctionOnSet([l \in DOMAIN b.lots |-> b.lots[l].available],
                     {l \in DOMAIN b.lots : /\ b.lots[l].account = a
                                            /\ b.lots[l].state # "voided"})

\* User.balance, checked before a mutation and written after it.
CacheMatches(a)  == book.cache[a] = Available(book, a)
WriteCache(b, a) == [b EXCEPT !.cache[a] = Available(b, a)]

\* Mutant of Effective: forgets what a void already took back.
EffectiveOfRefunds(app) == app.amount - app.reallocated

Effective(app)  == app.amount - app.reallocated - app.writtenOff
Paid(b, ps)     == SumFunctionOnSet([p \in DOMAIN b.apps |-> Effective(b.apps[p])], ps)
Remaining(debt) == debt.amount - debt.adjusted - debt.settled

\* Mutant of Owing: a debt that is partly settled is not owed.
OwingUntouched(b, i) == {d \in DOMAIN b.debts : /\ b.debts[d].identity = i
                                                /\ b.debts[d].state = "open"}

Owing(b, i) == {d \in DOMAIN b.debts : /\ b.debts[d].identity = i
                                       /\ b.debts[d].state # "settled"}
OpenDebt(b, i) == SumFunctionOnSet([d \in DOMAIN b.debts |-> Remaining(b.debts[d])], Owing(b, i))

DebtState(amount, adjusted, settled) ==
    IF settled = amount - adjusted THEN "settled"
    ELSE IF settled = 0 THEN "open" ELSE "partially_settled"

WithTotals(debt, adjusted, settled) ==
    [debt EXCEPT !.adjusted = adjusted, !.settled = settled,
                 !.state = DebtState(debt.amount, adjusted, settled)]

\* Mutant of Allot: every row gives as if it were the first.
AllotFull(capacity, latestFirst, amount) ==
    [x \in DOMAIN capacity |-> Min({capacity[x], amount})]

\* Take `amount` from the rows in their order, each up to its capacity.
Allot(capacity, latestFirst, amount) ==
    LET Before(x) == {y \in DOMAIN capacity : IF latestFirst THEN y > x ELSE y < x}
        left(x)   == amount - SumFunctionOnSet(capacity, Before(x))
    IN  [x \in DOMAIN capacity |-> Min({capacity[x], Max({0, left(x)})})]

-------------------------------------------------------------------------------
\* C: a source settles the open debts of the identity, the rest is one lot.

\* `rev` is 0 for a credit and the reversal's number for a reallocation: the
\* prefix of every effect key the call writes. A lot's own key is made of the
\* same parts. `except` is the debt a reallocation must not settle again.
Application(s, rev, debt, lot, amount) ==
    [source |-> s, key |-> <<rev, debt>>, debt |-> debt, lot |-> lot,
     amount |-> amount, reallocated |-> 0, writtenOff |-> 0]

Distribute(b, s, except, rev) ==
    LET src   == b.sources[s]
        open  == Owing(b, identity[src.account]) \ {except}
        paid  == Allot([d \in open |-> Remaining(b.debts[d])], FALSE, src.unapplied)
        order == InOrder({d \in open : paid[d] > 0})
        rest  == src.unapplied - SumFunction(paid)
        toDebts == [k \in DOMAIN order |->
                        Application(s, rev, order[k], 0, paid[order[k]])]
        toLot   == IF rest = 0 THEN <<>>
                   ELSE <<Application(s, rev, 0, Len(b.lots) + 1, rest)>>
    IN  [b EXCEPT
            !.sources[s] = [src EXCEPT !.unapplied = 0, !.state = "applied"],
            !.apps  = @ \o toDebts \o toLot,
            !.lots  = IF rest = 0 THEN @ ELSE Append(@, NewLot(src.account, s, rest)),
            !.debts = [d \in DOMAIN b.debts |->
                IF d \in open
                THEN WithTotals(b.debts[d], b.debts[d].adjusted, b.debts[d].settled + paid[d])
                ELSE b.debts[d]]]

Credited(a, amount, cause) ==
    LET opened == [book EXCEPT !.sources = Append(@,
                      [account |-> a, cause |-> cause, gross |-> amount,
                       unapplied |-> amount, state |-> "applying"])]
    IN  WriteCache(Distribute(opened, Len(opened.sources), 0, 0), a)

\* D: a debit takes the account's active lots, oldest first.
Spend(lot, x) ==
    [lot EXCEPT !.available = @ - x, !.consumed = @ + x,
                !.state = IF lot.available = x THEN "exhausted" ELSE "active"]

ActiveLots(a) == {l \in DOMAIN book.lots : /\ book.lots[l].account = a
                                           /\ book.lots[l].state = "active"}

Debited(a, amount, kind) ==
    LET lots  == ActiveLots(a)
        taken == Allot([l \in lots |-> book.lots[l].available], FALSE, amount)
        order == InOrder({l \in lots : taken[l] > 0})
    IN  WriteCache([book EXCEPT
            !.debits = Append(@, [account |-> a, kind |-> kind, amount |-> amount,
                                  state |-> IF kind = "sale" THEN "held" ELSE "captured"]),
            !.allocs = @ \o [k \in DOMAIN order |->
                                [debit |-> Len(book.debits) + 1, lot |-> order[k],
                                 amount |-> taken[order[k]], reversal |-> "none"]],
            !.lots = [l \in DOMAIN book.lots |->
                        IF l \in lots THEN Spend(book.lots[l], taken[l]) ELSE book.lots[l]]], a)

-------------------------------------------------------------------------------
\* R1, R2: the reversal of the allocations of a debit.

\* R1: the money goes back to the lot it came from.
GiveBack(b, al) ==
    LET x   == b.allocs[al].amount
        l   == b.allocs[al].lot
        lot == b.lots[l]
    IN  [b EXCEPT !.allocs[al].reversal = "live",
                  !.lots[l] = [lot EXCEPT !.available = lot.available + x,
                                          !.consumed = lot.consumed - x, !.state = "active"]]

\* What is freed waits at its source to be distributed.
Freed(src, amount) == [src EXCEPT !.unapplied = @ + amount, !.state = "applying"]

\* Mutants of Reapply: the whole application is freed, not the excess.
ReapplyAll(b, app, amount, debt, rev) ==
    LET s == b.apps[app].source
        freed == [b EXCEPT !.sources[s] = Freed(b.sources[s], b.apps[app].amount)]
    IN  WriteCache(Distribute(freed, s, debt, rev), b.sources[s].account)
\* The freed money waits at its source.
ReapplyLater(b, app, amount, debt, rev) ==
    [b EXCEPT !.sources[b.apps[app].source] = Freed(@, amount)]
\* The freed money is one lot, whatever else is owed.
ReapplyToLot(b, app, amount, debt, rev) ==
    LET s == b.apps[app].source
        a == b.sources[s].account
    IN  WriteCache([b EXCEPT
            !.apps = Append(@, Application(s, rev, 0, Len(b.lots) + 1, amount)),
            !.lots = Append(@, NewLot(a, s, amount))], a)
\* The balance of the source's account is not written again.
ReapplyUncached(b, app, amount, debt, rev) ==
    LET s == b.apps[app].source
    IN  Distribute([b EXCEPT !.sources[s] = Freed(@, amount)], s, debt, rev)

\* The settlement freed from one application goes back to its source and is
\* distributed again, never to the debt it came from.
Reapply(b, app, amount, debt, rev) ==
    LET s == b.apps[app].source
        freed == [b EXCEPT !.sources[s] = Freed(b.sources[s], amount)]
    IN  WriteCache(Distribute(freed, s, debt, rev), b.sources[s].account)

\* The applications give back what they are freed of, the latest first.
Reapplied(b, ps, freed, debt, rev) ==
    Each(LAMBDA c, p : Reapply(c, p, freed[p], debt, rev), b, Min, ps)

\* R2: the lot was voided. Its debt shrinks by the refund; only what was
\* settled in excess of the new obligation is freed, the latest first.
RefundVoided(b, al) ==
    LET x     == b.allocs[al].amount
        noted == [b EXCEPT !.allocs[al].reversal = "voided"]
        debts == {d \in DOMAIN b.debts : b.debts[d].lot = b.allocs[al].lot}
    IN  IF debts = {} THEN noted
        ELSE LET d        == Min(debts)
                 debt     == b.debts[d]
                 excess   == Max({debt.settled - (debt.amount - debt.adjusted - x), 0})
                 settlers == {p \in DOMAIN b.apps : b.apps[p].debt = d}
                 freed    == Allot([p \in settlers |-> Effective(b.apps[p])], TRUE, excess)
                 left     == debt.settled - SumFunction(freed)
                 adjusted == [noted EXCEPT
                     !.apps = [p \in DOMAIN b.apps |->
                         IF p \in settlers
                         THEN [b.apps[p] EXCEPT !.reallocated = b.apps[p].reallocated + freed[p]]
                         ELSE b.apps[p]],
                     !.debts[d] = WithTotals(debt, debt.adjusted + x, left)]
             IN  Reapplied(adjusted, {p \in settlers : freed[p] > 0}, freed, d, al)

\* Mutant of ReverseAllocation: the money goes back to a voided lot too.
ReverseToLot(b, al) == GiveBack(b, al)

ReverseAllocation(b, al) ==
    IF b.lots[b.allocs[al].lot].state = "voided" THEN RefundVoided(b, al) ELSE GiveBack(b, al)

\* A debit that ends as `state`: released (it was held) or reversed (captured).
Reversed(d, state) ==
    LET done == Each(ReverseAllocation, book,
                     Max, {al \in DOMAIN book.allocs : book.allocs[al].debit = d})
    IN  WriteCache([done EXCEPT !.debits[d].state = state], book.debits[d].account)

-------------------------------------------------------------------------------
\* V: the void of one source, by an operation claimed for identity `who`.

\* Mutant of OwnAccount: a referrer owes what it consumed as well.
AnyAccount(a, who) == TRUE

OwnAccount(a, who) == identity[a] = who

VoidSource(b, s, who) ==
    LET src     == b.sources[s]
        settled == {p \in DOMAIN b.apps : b.apps[p].source = s /\ b.apps[p].debt # 0}
        undone(d) == Paid(b, {p \in settled : b.apps[p].debt = d})
        lots    == {l \in DOMAIN b.lots : b.lots[l].source = s /\ b.lots[l].state # "voided"}
        spent   == {l \in lots : b.lots[l].consumed > 0}
        own(l)  == OwnAccount(b.lots[l].account, who)
        owed    == InOrder({l \in spent : own(l)})
        kept    == InOrder({l \in spent : ~own(l)})
        holder(l) == b.lots[l].account
    IN  WriteCache([b EXCEPT
            !.sources[s] = [src EXCEPT !.unapplied = 0, !.state = "voided"],
            !.apps  = [p \in DOMAIN b.apps |->
                IF p \in settled
                THEN [b.apps[p] EXCEPT !.writtenOff = b.apps[p].writtenOff + Effective(b.apps[p])]
                ELSE b.apps[p]],
            !.lots  = [l \in DOMAIN b.lots |->
                IF l \in lots
                THEN [b.lots[l] EXCEPT !.withheld = b.lots[l].available,
                                       !.available = 0, !.state = "voided"]
                ELSE b.lots[l]],
            !.debts = [d \in DOMAIN b.debts |->
                          WithTotals(b.debts[d], b.debts[d].adjusted,
                                     b.debts[d].settled - undone(d))]
                      \o [k \in DOMAIN owed |->
                          [identity |-> identity[holder(owed[k])], account |-> holder(owed[k]),
                           lot |-> owed[k], amount |-> b.lots[owed[k]].consumed,
                           adjusted |-> 0, settled |-> 0, state |-> "open"]],
            !.writeoffs = @ \o [k \in DOMAIN kept |->
                          [identity |-> identity[holder(kept[k])], account |-> holder(kept[k]),
                           lot |-> kept[k], amount |-> b.lots[kept[k]].consumed]]],
            src.account)

CausedBy(ap) == {s \in DOMAIN book.sources : book.sources[s].cause = ap}

Voided(ap) ==
    Each(LAMBDA b, s : IF b.sources[s].state = "voided" THEN b
                       ELSE VoidSource(b, s, voidedAs[ap]),
         book, Max, CausedBy(ap))

-------------------------------------------------------------------------------
\* The unique keys and CHECKs of the tables. A transaction whose rows break
\* one of them is refused by the database as a whole.

LotShape(lot) ==
    /\ lot.available >= 0 /\ lot.consumed >= 0
    /\ lot.available + lot.withheld + lot.consumed = lot.original
    /\ CASE lot.state = "active"    -> lot.available > 0 /\ lot.withheld = 0
         [] lot.state = "exhausted" -> lot.available = 0 /\ lot.withheld = 0
         [] lot.state = "voided"    -> lot.available = 0

DebtShape(debt) ==
    /\ debt.amount > 0
    /\ debt.adjusted \in 0 .. debt.amount
    /\ debt.settled \in 0 .. (debt.amount - debt.adjusted)
    /\ debt.state = DebtState(debt.amount, debt.adjusted, debt.settled)

Storable(b) ==
    /\ \A p, q \in DOMAIN b.apps :
          <<b.apps[p].source, b.apps[p].key>> = <<b.apps[q].source, b.apps[q].key>> => p = q
    /\ \A p \in DOMAIN b.apps :
          b.apps[p].amount > 0 /\ b.apps[p].reallocated + b.apps[p].writtenOff \in 0 .. b.apps[p].amount
    /\ \A l \in DOMAIN b.lots : LotShape(b.lots[l])
    /\ \A d \in DOMAIN b.debts : DebtShape(b.debts[d])
    /\ \A s \in DOMAIN b.sources : b.sources[s].state # "applying" => b.sources[s].unapplied = 0

Commit(b) == Storable(b) /\ book' = b

-------------------------------------------------------------------------------
Init ==
    /\ scene \in Scenes
    /\ book = [sources |-> <<>>, debits |-> <<>>, allocs |-> <<>>, debts |-> <<>>,
               apps |-> <<>>, writeoffs |-> <<>>, cache |-> scene.baseline,
               lots |-> [k \in DOMAIN Opening |-> NewLot(Opening[k], 0, scene.baseline[Opening[k]])]]
    /\ identity = Bound
    /\ voids = [ap \in Approvals |-> "completed"]
    /\ voidedAs = [ap \in Approvals |-> None]
    /\ rebinds = 0

\* A receipt top-up, a reward an approval caused, or a credit of nobody's
\* receipt. An approval credits an account once (the key of the source), and
\* only while it is not being voided.
Credit(a, amount, cause) ==
    /\ Len(book.sources) < MaxSources
    /\ cause # None => /\ voids[cause] = "completed"
                       /\ \A s \in CausedBy(cause) : book.sources[s].account # a
    /\ CacheMatches(a)
    /\ Commit(Credited(a, amount, cause))
    /\ UNCHANGED <<scene, identity, voids, voidedAs, rebinds>>

\* A sale is held only while the identity owes nothing; an administrator's
\* negative adjustment asks for no policy and is captured at once. The
\* purchase lock a void sets is not modelled: an administrator can lift it.
Hold(a, amount, kind) ==
    /\ Len(book.debits) < MaxDebits
    /\ kind = "sale" => OpenDebt(book, identity[a]) = 0
    /\ CacheMatches(a)
    /\ SumFunctionOnSet([l \in DOMAIN book.lots |-> book.lots[l].available], ActiveLots(a)) >= amount
    /\ Commit(Debited(a, amount, kind))
    /\ UNCHANGED <<scene, identity, voids, voidedAs, rebinds>>

\* The sale is booked.
Capture(d) ==
    /\ book.debits[d].state = "held"
    /\ Commit([book EXCEPT !.debits[d].state = "captured"])
    /\ UNCHANGED <<scene, identity, voids, voidedAs, rebinds>>

\* The sale did not happen.
Release(d) ==
    /\ book.debits[d].state = "held"
    /\ CacheMatches(book.debits[d].account)
    /\ Commit(Reversed(d, "released"))
    /\ UNCHANGED <<scene, identity, voids, voidedAs, rebinds>>

\* A captured debit is refunded.
Refund(d) ==
    /\ book.debits[d].state = "captured"
    /\ CacheMatches(book.debits[d].account)
    /\ Commit(Reversed(d, "reversed"))
    /\ UNCHANGED <<scene, identity, voids, voidedAs, rebinds>>

\* The void is claimed and blocked. The block refuses if the customer's
\* Telegram or owner changed since the claim, so the two are one step.
BlockVoid(ap) ==
    /\ voids[ap] = "completed"
    /\ CausedBy(ap) # {}
    /\ voids' = [voids EXCEPT ![ap] = "voiding"]
    /\ voidedAs' = [voidedAs EXCEPT ![ap] = identity[Customer[ap]]]
    /\ UNCHANGED <<scene, book, identity, rebinds>>

\* The step wallet_reversal of the void, with the identity of its claim.
WalletReversal(ap) ==
    /\ voids[ap] = "voiding"
    /\ Commit(Voided(ap))
    /\ voids' = [voids EXCEPT ![ap] = "voided"]
    /\ UNCHANGED <<scene, identity, voidedAs, rebinds>>

\* The customer's Telegram or owner changes. Refused over a held sale of this
\* customer and over open debt of the identity it would leave.
Rebind(a, i) ==
    /\ rebinds < scene.rebinds
    /\ i # identity[a]
    /\ \A d \in DOMAIN book.debits : book.debits[d].account = a => book.debits[d].state # "held"
    /\ Owing(book, identity[a]) = {}
    /\ identity' = [identity EXCEPT ![a] = i]
    /\ rebinds' = rebinds + 1
    /\ UNCHANGED <<scene, book, voids, voidedAs>>

Next ==
    \/ \E a \in scene.actors, n \in scene.amounts :
          \/ \E cause \in Approvals \union {None} : Credit(a, n, cause)
          \/ \E kind \in scene.kinds : Hold(a, n, kind)
    \/ \E d \in DOMAIN book.debits : Capture(d) \/ Release(d) \/ Refund(d)
    \/ \E ap \in Approvals : BlockVoid(ap) \/ WalletReversal(ap)
    \/ \E a \in Accounts, i \in Identities : Rebind(a, i)

Spec == Init /\ [][Next]_vars
-------------------------------------------------------------------------------
\* Properties.

Allocated(b, als) == SumFunctionOnSet([al \in DOMAIN b.allocs |-> b.allocs[al].amount], als)
AllocsOf(b, d)    == {al \in DOMAIN b.allocs : b.allocs[al].debit = d}
Standing(b, l)    == {al \in DOMAIN b.allocs : /\ b.allocs[al].lot = l
                                               /\ b.allocs[al].reversal = "none"}
AppsOn(b, d)      == {p \in DOMAIN b.apps : b.apps[p].debt = d}
AppsOf(b, s)      == {p \in DOMAIN b.apps : b.apps[p].source = s}
\* What the applications of a source hold of it.
Applied(b, s)     == SumFunctionOnSet([p \in DOMAIN b.apps |-> b.apps[p].amount - b.apps[p].reallocated],
                                      AppsOf(b, s))
OfIdentity(rows, i) == {r \in DOMAIN rows : identity[rows[r].account] = i}
WrittenOff(l) == \E w \in DOMAIN book.writeoffs : book.writeoffs[w].lot = l

\* The tables hold rows of their types. The bounds on amounts are the CHECKs.
TypeOK ==
    /\ book.cache \in [Accounts -> Nat]
    /\ identity \in [Accounts -> Identities]
    /\ voids \in [Approvals -> {"completed", "voiding", "voided"}]
    /\ voidedAs \in [Approvals -> Identities \union {None}]
    /\ \A s \in DOMAIN book.sources : book.sources[s].state \in {"applied", "voided"}
    /\ \A d \in DOMAIN book.debits :
          book.debits[d].state \in {"held", "captured", "released", "reversed"}

\* I-CACHE: the balance the customer sees is the money in the lots, whichever
\* account of the identity an operation moved money to (wallet_lots.py:105).
CacheIsTheLots == \A a \in Accounts : CacheMatches(a)

\* I-SRC: every unit of a credit is in exactly one application, however often
\* it was freed and distributed again (wallet_void.py:129).
SourceIsAccountedFor ==
    \A s \in DOMAIN book.sources :
        book.sources[s].gross = book.sources[s].unapplied + Applied(book, s)

\* A debit took exactly its amount, and all of its allocations are reversed
\* once it ended, none before (wallet_lots.py:342).
DebitIsAccountedFor ==
    \A d \in DOMAIN book.debits :
        /\ Allocated(book, AllocsOf(book, d)) = book.debits[d].amount
        /\ \A al \in AllocsOf(book, d) : (book.allocs[al].reversal = "none")
                                            <=> book.debits[d].state \in {"held", "captured"}

\* What a lot has consumed is what standing allocations took from it; once it
\* is voided, what they still take is what its debt still obliges, and the
\* debt is settled by what its applications still pay (wallet_void.py:142).
DebtIsWhatWasSpent ==
    /\ \A l \in DOMAIN book.lots :
          book.lots[l].state # "voided" => book.lots[l].consumed = Allocated(book, Standing(book, l))
    /\ \A d \in DOMAIN book.debts :
          LET debt == book.debts[d]
          IN  /\ debt.amount - debt.adjusted = Allocated(book, Standing(book, debt.lot))
              /\ debt.settled = Paid(book, AppsOn(book, d))

\* A voided source never has money anywhere again: neither in a lot, also one
\* a later reallocation would have made, nor in the settlement of a debt, from
\* where a refund could free it (wallet_void.py:79, 97, 151).
VoidedMoneyIsGone ==
    \A s \in DOMAIN book.sources : book.sources[s].state = "voided" =>
        /\ \A l \in DOMAIN book.lots :
              book.lots[l].source = s => book.lots[l].state = "voided" /\ book.lots[l].available = 0
        /\ \A p \in AppsOf(book, s) : book.apps[p].debt # 0 => Effective(book.apps[p]) = 0

\* Money becomes a new lot only for an identity that then owes nothing: the
\* exclusion of the refunded debt never lets money pass an open debt
\* (wallet_lots.py:209, wallet_void.py:182).
NoLotOverDebt ==
    [][\A l \in DOMAIN book'.lots \ DOMAIN book.lots :
          OpenDebt(book', identity[book'.lots[l].account]) = 0]_vars

\* A void makes a debtor of the identity it was claimed for only, never of a
\* third party whose reward it takes back, nor of one the account moved to
\* (owner default #4, wallet_void.py:108).
OnlyTheCustomerOwes ==
    \A d \in DOMAIN book.debts :
        LET cause == book.sources[book.lots[book.debts[d].lot].source].cause
        IN  book.debts[d].identity = voidedAs[cause]

\* Value given back over a written-off lot of a third party changes nothing:
\* it counts as taken still.
Forgiven(rows) == Allocated(book, {al \in DOMAIN book.allocs :
    book.allocs[al].lot \in rows /\ book.allocs[al].reversal = "voided" /\ WrittenOff(book.allocs[al].lot)})

Spendable(i) ==
    SumFunctionOnSet([l \in DOMAIN book.lots |-> book.lots[l].available], OfIdentity(book.lots, i))
Real(i) ==
    SumFunctionOnSet([s \in DOMAIN book.sources |-> book.sources[s].gross],
        {s \in OfIdentity(book.sources, i) : book.sources[s].state # "voided"})
    + SumFunctionOnSet([l \in DOMAIN book.lots |-> book.lots[l].original],
        {l \in OfIdentity(book.lots, i) : book.lots[l].source = 0})
    + SumFunctionOnSet([w \in DOMAIN book.writeoffs |-> book.writeoffs[w].amount],
        OfIdentity(book.writeoffs, i))
NetDebited(i) == Allocated(book, {al \in DOMAIN book.allocs :
    /\ book.allocs[al].lot \in OfIdentity(book.lots, i)
    /\ book.allocs[al].reversal = "none"})

\* The figures of the identities, where none of them can lose an account.
Figures(F(_)) == [i \in Identities |-> IF scene.rebinds = 0 THEN F(i) ELSE 0]

Position == INSTANCE WalletPosition WITH
    given     <- Figures(Real),
    taken     <- Figures(LAMBDA i : NetDebited(i) + Forgiven(OfIdentity(book.lots, i))),
    spendable <- Figures(Spendable),
    owed      <- Figures(LAMBDA i : OpenDebt(book, i))

\* While nobody is rebound, the wallet implements WalletPosition: what each
\* identity can spend and owes moves only as real money, taken and returned
\* value say (I-NET after every operation, and its direction).
ImplementsPosition == Position!Spec

\* I-NET over all identities together, which a rebind cannot disturb: no
\* operation makes or loses a unit (wallet_lots.py:202, wallet_void.py:129).
NothingMadeNothingLost ==
    SumFunction([i \in Identities |-> Spendable(i)]) - SumFunction([i \in Identities |-> OpenDebt(book, i)])
      = SumFunction([i \in Identities |-> Real(i)]) - SumFunction([i \in Identities |-> NetDebited(i)])
          - Forgiven(DOMAIN book.lots)

\* The invariant of the books: each unit of every source, debit, debt and cache
\* is accounted for, and all identities together neither gain nor lose one.
BooksBalance ==
    /\ TypeOK /\ CacheIsTheLots /\ SourceIsAccountedFor /\ DebitIsAccountedFor
    /\ DebtIsWhatWasSpent /\ NothingMadeNothingLost

\* The invariant of the voids: no voided money anywhere, and no debt of anybody
\* but the customer whose receipt it was.
VoidsAreFinal == VoidedMoneyIsGone /\ OnlyTheCustomerOwes
===============================================================================
