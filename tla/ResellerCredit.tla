---------------------------- MODULE ResellerCredit ----------------------------
(***************************************************************************)
(* What the resellers of a panel hold and owe: the credit a sale is charged *)
(* to and a failed one gives back (admin_billing), the top-ups and the     *)
(* transfers down the tree (routers/admins), the volume that traffic       *)
(* depletes, and the daily job that prices what was metered                *)
(* (usage_billing).                                                        *)
(*                                                                         *)
(* A sale commits its charge before it makes anything, and its refund is a *)
(* transaction of its own; both are UPDATEs relative to the row.  A top-up *)
(* or a transfer writes what it computed from the row it read: another     *)
(* writer of that row in between is lost ("race" in the plan's events).    *)
(***************************************************************************)
EXTENDS Integers, FiniteSets, Functions

CONSTANTS Resellers,  \* accounts below the panel's owner
          Owner,      \* the superadmin: the source of credit, holds none
          ParentOf,   \* [Resellers -> Resellers \cup {Owner}]
          Sales,      \* sales made without the durable saga
          Changes,    \* requests that move credit or volume
          CrPlans     \* bound: [usage, sells, later, deals, limit, unit, events, left]

VARIABLES crplan,   \* the plan of this behaviour: who may do what, how often
          acct,     \* [reseller -> [balance, limit, volume, unbilled, usage]]
          books,    \* sums of the logs: [given, spent, refunded, volume, billed]
          sale,     \* [state, by, units, made, paid]
          change,   \* [state, by, to, amount, saw, own]
          bill,     \* the settlement: [todo, of, gb]
          metered,  \* traffic of the usage-billed customers, ever
          put,      \* what the owner gave less what it took, ever
          grants    \* history: [reseller -> [taken: what those above took from it, ever,
                    \* lent: the debt the owner lets it have]]

creditvars == <<crplan, acct, books, sale, change, bill, metered, put, grants>>

Price == 1
Nobody == "nobody"

Amounts == {-1, 1, 2}

\* later: the accounts yet to be created; limit: that of the others; deals: at
\* whom the owner moves how much.
CrPlan == [usage: SUBSET Resellers, sells: SUBSET Resellers, later: SUBSET Resellers,
           deals: SUBSET (Resellers \X Amounts), limit: Nat, unit: {"balance", "volume"}, left: Nat,
           events: SUBSET {"crash", "raise", "race", "traffic", "settle", "switch", "fail", "limit", "gift"}]

\* Nobody is his own parent (reparent_admin refuses it).
ASSUME CreditAssumption ==
    /\ IsFiniteSet(Resellers) /\ IsFiniteSet(Sales)
    /\ {Owner, Nobody} \cap Resellers = {} /\ Owner # Nobody
    /\ ParentOf \in [Resellers -> Resellers \cup {Owner}]
    /\ \A a \in Resellers : ParentOf[a] # a
    /\ CrPlans \subseteq CrPlan

CreditInit ==
    /\ crplan \in CrPlans
    /\ acct = [a \in Resellers |-> [balance |-> 0, limit |-> IF a \in crplan.later THEN 0 ELSE crplan.limit,
                                    volume |-> 0, unbilled |-> 0, usage |-> a \in crplan.usage]]
    /\ books = [a \in Resellers |-> [given |-> 0, spent |-> 0, refunded |-> 0, volume |-> 0, billed |-> 0]]
    /\ sale = [s \in Sales |-> [state |-> "none", by |-> Nobody, units |-> 0, made |-> 0, paid |-> 0]]
    /\ change = [c \in Changes |-> [state |-> "none", by |-> Nobody, to |-> Nobody, amount |-> 0, saw |-> 0, own |-> 0]]
    /\ bill = [todo |-> {}, of |-> Nobody, gb |-> 0]
    /\ metered = [a \in Resellers |-> 0]
    /\ put = 0
    /\ grants = [a \in Resellers |-> [taken |-> 0, lent |-> acct[a].limit]]

Happens(e) == e \in crplan.events /\ crplan.left > 0
OneLess == [crplan EXCEPT !.left = @ - 1]

\* No change of a's row is between its read and its write.
Undisturbed(a) ==
    "race" \in crplan.events \/ \A c \in Changes : change[c].state = "read" => a \notin {change[c].to, change[c].by}

-----------------------------------------------------------------------------
(* A sale *)

\* Mutant of Affords: the floor is compared before the cost is taken.
AffordsAnything(a, cost) == acct[a].balance >= -acct[a].limit

\* reserve_admin_balance_core: the floor, in the WHERE of the UPDATE.
Affords(a, cost) == acct[a].balance - cost >= -acct[a].limit

\* charge_for_package; a usage-billed reseller pays nothing here but must hold volume.
Charge(s, a, n) ==
    LET cost == IF acct[a].usage THEN 0 ELSE n * Price IN
    /\ sale[s].state = "none" /\ a \in crplan.sells \ crplan.later /\ Undisturbed(a)
    /\ IF acct[a].usage THEN acct[a].volume > 0 ELSE Affords(a, cost)
    /\ acct' = [acct EXCEPT ![a].balance = @ - cost]
    /\ books' = [books EXCEPT ![a].spent = @ + cost]
    /\ sale' = [sale EXCEPT ![s] = [state |-> "charged", by |-> a, units |-> n, made |-> 0, paid |-> cost]]
    /\ UNCHANGED <<crplan, change, bill, metered, put, grants>>

\* One more customer of the batch is committed.
Make(s) ==
    /\ sale[s].state = "charged" /\ sale[s].made < sale[s].units
    /\ sale' = [sale EXCEPT ![s].made = @ + 1]
    /\ UNCHANGED <<crplan, acct, books, change, bill, metered, put, grants>>

\* refund_for_package: by the mode and the price of now.
RefundCharge(s, n, state) ==
    LET a == sale[s].by
        amount == IF acct[a].usage THEN 0 ELSE n * Price
    IN /\ Undisturbed(a)
       /\ acct' = [acct EXCEPT ![a].balance = @ + amount]
       /\ books' = [books EXCEPT ![a].refunded = @ + amount]
       /\ sale' = [sale EXCEPT ![s].state = state, ![s].paid = @ - amount]
       /\ UNCHANGED <<crplan, change, bill, metered, put, grants>>

\* Mutant of NotMade: a batch that made something is refunded whole.
WholeBatch(s) == sale[s].units

NotMade(s) == sale[s].units - sale[s].made

\* It returns, with the whole batch or with the part that could be made.
Return(s) == sale[s].state = "charged" /\ RefundCharge(s, NotMade(s), "returned")

\* It raises: everything is given back, the customers already committed stay.
Raise(s) == sale[s].state = "charged" /\ Happens("raise") /\ RefundCharge(s, sale[s].units, "raised")

\* The panel dies between the charge and the refund.
Die(s) ==
    /\ sale[s].state = "charged" /\ Happens("crash")
    /\ sale' = [sale EXCEPT ![s].state = "died"] /\ crplan' = OneLess
    /\ UNCHANGED <<acct, books, change, bill, metered, put, grants>>

-----------------------------------------------------------------------------
(* Credit and volume that change hands *)

Held(a) == IF crplan.unit = "balance" THEN acct[a].balance ELSE acct[a].volume
Floor(a) == IF crplan.unit = "balance" THEN -acct[a].limit ELSE 0

\* Mutants of MayMove: a giver may hand on its overdraft; all can be taken back.
MayMoveOverdraft(by, to, amount) ==
    IF amount > 0 THEN Held(by) + acct[by].limit >= amount ELSE Held(to) + amount >= Floor(to)
MayMoveBack(by, to, amount) == amount > 0 => Held(by) >= amount

\* What a giver holds, not its overdraft; a takeback stops at the receiver's floor.
MayMove(by, to, amount) ==
    IF amount > 0 THEN Held(by) >= amount ELSE Held(to) + amount >= Floor(to)

\* A reseller moves what it holds to its own sellers and back.  The owner gives
\* and takes, at any reseller and below any floor: a top-up, a correction, or a
\* balance set directly, which is the difference to the one that was read.
Ask(c, by, to, amount) ==
    /\ change[c].state = "none" /\ {by, to} \cap crplan.later = {}
    /\ Undisturbed(to) /\ (by # Owner => Undisturbed(by))
    /\ by # Owner => ParentOf[to] = by /\ MayMove(by, to, amount)
    /\ change' = [change EXCEPT ![c] = [state |-> "read", by |-> by, to |-> to, amount |-> amount,
                                        saw |-> Held(to), own |-> IF by = Owner THEN 0 ELSE Held(by)]]
    /\ UNCHANGED <<crplan, acct, books, sale, bill, metered, put, grants>>

\* _apply_balance_change, _apply_volume_change: the row and its log.
Holding(a, amount) ==
    IF crplan.unit = "balance" THEN [acct[a] EXCEPT !.balance = amount] ELSE [acct[a] EXCEPT !.volume = amount]
Logged(a, amount) ==
    IF crplan.unit = "balance" THEN [books[a] EXCEPT !.given = @ + amount] ELSE [books[a] EXCEPT !.volume = @ + amount]

\* History: amount of a was moved by `by`.  What the owner sets, it lets a owe.
Larger(m, n) == IF m > n THEN m ELSE n
Granted(a, by, amount) ==
    [taken |-> IF amount < 0 THEN grants[a].taken - amount ELSE grants[a].taken,
     lent |-> IF by = Owner THEN Larger(acct'[a].limit, -acct'[a].balance) ELSE grants[a].lent]

\* Mutant of Sides: the giver keeps what it gave.
OneSide(c) == {change[c].to}

Sides(c) == {change[c].to, change[c].by} \ {Owner}

Apply(c) ==
    LET r == change[c]
        New(a) == IF a = r.to THEN r.saw + r.amount ELSE r.own - r.amount
        Delta(a) == IF a = r.to THEN r.amount ELSE -r.amount
    IN /\ r.state = "read"
       /\ acct' = [a \in Resellers |-> IF a \in Sides(c) THEN Holding(a, New(a)) ELSE acct[a]]
       /\ books' = [a \in Resellers |-> IF a \in Sides(c) THEN Logged(a, Delta(a)) ELSE books[a]]
       /\ put' = IF r.by = Owner THEN put + r.amount ELSE put
       /\ grants' = [grants EXCEPT ![r.to] = Granted(r.to, r.by, r.amount)]
       /\ change' = [change EXCEPT ![c].state = "done"]
       /\ UNCHANGED <<crplan, sale, bill, metered>>

\* create_admin: with an initial balance, which the creator's own does not pay
\* ("gift": a creator who is a reseller), or an initial volume; no credit limit.
Create(a, by, amount) ==
    /\ a \in crplan.later /\ by \in {Owner, ParentOf[a]} \ crplan.later /\ Undisturbed(a)
    /\ by # Owner /\ amount # 0 => "gift" \in crplan.events
    /\ crplan.unit = "volume" /\ amount # 0 => acct[a].usage
    /\ acct' = [acct EXCEPT ![a] = Holding(a, Held(a) + amount)]
    /\ books' = [books EXCEPT ![a] = Logged(a, amount)]
    /\ put' = IF by = Owner THEN put + amount ELSE put
    /\ grants' = [grants EXCEPT ![a] = Granted(a, by, amount)]
    /\ crplan' = [crplan EXCEPT !.later = @ \ {a}]
    /\ UNCHANGED <<sale, change, bill, metered>>

\* The owner sets the limit, to less than is owed already if it likes.  A
\* takeback whose check is behind it goes by the limit it read.
SetLimit(a, n) ==
    /\ Happens("limit") /\ a \notin crplan.later /\ n # acct[a].limit
    /\ acct' = [acct EXCEPT ![a].limit = n] /\ crplan' = OneLess
    /\ grants' = [grants EXCEPT ![a].lent =
                     IF \E c \in Changes : change[c].state = "read" /\ change[c].to = a THEN Larger(@, n)
                     ELSE Larger(n, -acct[a].balance)]
    /\ UNCHANGED <<books, sale, change, bill, metered, put>>

-----------------------------------------------------------------------------
(* Usage billing *)

\* _apply_delta: both counters, relative to the row.
Meter(a) ==
    /\ Happens("traffic") /\ acct[a].usage /\ a \notin crplan.later
    /\ crplan.unit = "volume" => Undisturbed(a)
    /\ acct' = [acct EXCEPT ![a].volume = @ - 1, ![a].unbilled = @ + 1]
    /\ metered' = [metered EXCEPT ![a] = @ + 1]
    /\ crplan' = OneLess
    /\ UNCHANGED <<books, sale, change, bill, put, grants>>

\* The daily job begins: whom it will bill.
Settlement ==
    /\ Happens("settle") /\ bill.todo = {} /\ bill.of = Nobody
    /\ \E a \in Resellers : acct[a].usage /\ acct[a].unbilled > 0
    /\ bill' = [bill EXCEPT !.todo = {a \in Resellers : acct[a].usage /\ acct[a].unbilled > 0}]
    /\ crplan' = OneLess
    /\ UNCHANGED <<acct, books, sale, change, metered, put, grants>>

ReadMeter(a) ==
    /\ a \in bill.todo /\ bill.of = Nobody
    /\ bill' = [todo |-> bill.todo \ {a}, of |-> a, gb |-> acct[a].unbilled]
    /\ UNCHANGED <<crplan, acct, books, sale, change, metered, put, grants>>

\* Mutant of Drained: the counter is reset.
Emptied(a, gb) == 0

\* Exactly what is about to be billed.
Drained(a, gb) == acct[a].unbilled - gb

PriceIt ==
    LET a == bill.of IN
    /\ a # Nobody
    /\ acct' = [acct EXCEPT ![a].unbilled = Drained(a, bill.gb)]
    /\ books' = [books EXCEPT ![a].billed = @ + bill.gb]
    /\ bill' = [bill EXCEPT !.of = Nobody, !.gb = 0]
    /\ UNCHANGED <<crplan, sale, change, metered, put, grants>>

\* Any error ends the job of the day; the transaction of this account is undone.
GiveUpForToday ==
    /\ Happens("fail") /\ (bill.todo # {} \/ bill.of # Nobody)
    /\ bill' = [todo |-> {}, of |-> Nobody, gb |-> 0] /\ crplan' = OneLess
    /\ UNCHANGED <<acct, books, sale, change, metered, put, grants>>

\* update_admin: another billing mode.
Switch(a) ==
    /\ Happens("switch") /\ a \notin crplan.later
    /\ acct' = [acct EXCEPT ![a].usage = ~@] /\ crplan' = OneLess
    /\ UNCHANGED <<books, sale, change, bill, metered, put, grants>>

CreditNext ==
    \/ \E s \in Sales : \/ \E a \in Resellers, n \in {1, 2} : Charge(s, a, n)
                        \/ Make(s) \/ Return(s) \/ Raise(s) \/ Die(s)
    \/ \E c \in Changes : \/ \E by, to \in Resellers, n \in Amounts : Ask(c, by, to, n)
                          \/ \E deal \in crplan.deals : Ask(c, Owner, deal[1], deal[2])
                          \/ Apply(c)
    \/ \E a \in Resellers : \/ Meter(a) \/ ReadMeter(a) \/ Switch(a)
                            \/ \E by \in Resellers \cup {Owner}, n \in {-1, 0, 1} : Create(a, by, n)
                            \/ \E n \in {0, 2} : SetLimit(a, n)
    \/ Settlement \/ PriceIt \/ GiveUpForToday

CreditSpec == CreditInit /\ [][CreditNext]_creditvars

-----------------------------------------------------------------------------
(* Properties *)

CreditTypeOK ==
    /\ acct \in [Resellers -> [balance: Int, limit: Nat, volume: Int, unbilled: Nat, usage: BOOLEAN]]
    /\ \A a \in Resellers : {books[a].spent, books[a].refunded, books[a].billed, metered[a], grants[a].taken} \subseteq Nat
    /\ bill.todo \subseteq Resellers /\ bill.of \in Resellers \cup {Nobody}

\* The balance of every reseller is what its log and the ledger say, and its
\* volume what it was given less what its customers used: no charge, refund or
\* traffic is overwritten by another writer of the row.
BooksAgree ==
    \A a \in Resellers :
        /\ acct[a].balance = books[a].given - books[a].spent + books[a].refunded
        /\ acct[a].volume = books[a].volume - metered[a]

\* Traffic is billed once, however a settlement interleaves with the meter,
\* with a switch of mode or with an error that ends it.
MeteredIsBilled == \A a \in Resellers : metered[a] = acct[a].unbilled + books[a].billed

\* A batch that returned cost what it made, one that raised cost nothing; one
\* that died still owes its refund.
PaidForWhatWasMade ==
    \A s \in Sales : CASE sale[s].state = "returned" -> sale[s].paid = IF sale[s].by \in crplan.usage THEN 0 ELSE sale[s].made * Price
                       [] sale[s].state = "raised" -> sale[s].paid = 0
                       [] OTHER -> sale[s].paid \in {0, sale[s].units * Price}

Given(a) == IF crplan.unit = "balance" THEN books[a].given ELSE books[a].volume

\* Nobody but the owner takes a reseller below the floor it has: below its
\* limit it is only by the owner's hand, who took the credit or cut the limit,
\* and no sale, transfer or takeback takes it deeper.
WithinWhatWasLent == \A a \in Resellers : acct[a].balance >= -grants[a].lent

\* What resellers were given in all is what the owner put in: on its way down
\* the tree and back no credit appears and none is lost.
OwnerPutsIn == put = SumFunctionOnSet([a \in Resellers |-> Given(a)], Resellers)

\* Nobody hands down more than was ever given to it, but for what was taken back
\* afterwards: an overdraft is not passed on.
HandsOnWhatItGot == \A a \in Resellers : Given(a) + grants[a].taken >= 0

\* However sales, refunds, transfers, takebacks, the owner's corrections and new
\* limits follow each other, credit is moved and not made.
CreditIsMovedNotMade == WithinWhatWasLent /\ OwnerPutsIn /\ HandsOnWhatItGot

\* The invariant of the resellers' accounts.
CreditInv == CreditTypeOK /\ BooksAgree /\ MeteredIsBilled /\ PaidForWhatWasMade /\ CreditIsMovedNotMade
=============================================================================
