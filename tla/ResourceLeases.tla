--------------------------- MODULE ResourceLeases ---------------------------
(***************************************************************************)
(* Database-clock leases with fencing epochs (resource_leases.py): every   *)
(* durable worker takes a lease on its operation, its customer identity    *)
(* and its address pools, commits, works, and revalidates the lease at the *)
(* start of the transaction that writes.                                   *)
(*                                                                         *)
(* A transaction locks the lease rows it touches until it ends (MariaDB    *)
(* row locks; SQLite's BEGIN IMMEDIATE allows fewer interleavings than     *)
(* these).  Between two transactions of a worker its lease may expire and  *)
(* be granted to another worker, or the process may die.                   *)
(***************************************************************************)
EXTENDS Naturals, FiniteSets

CONSTANTS Keys,           \* resource keys (KEY)
          Workers,        \* the processes and threads that take leases
          Owners,         \* lease_owner strings
          OwnerOf,        \* the owner string each worker writes
          Hold,           \* the updater's owner string (DEPLOYMENT_HOLD_NONCE)
          NoOwner,        \* SQL NULL in lease_owner
          NoWorker,       \* nobody has locked the row
          Times,          \* values of the database clock
          TTLs,           \* ttl arguments
          MaxEpoch,       \* bound on grants of a key
          MonotoneClock   \* FALSE: the clock may be set back

ASSUME OwnersAssumption == /\ Hold \in Owners
                           /\ NoOwner \notin Owners
                           /\ OwnerOf \in [Workers -> Owners]
ASSUME LockAssumption   == NoWorker \notin Workers
ASSUME ClockAssumption  == /\ Times \subseteq Nat
                           /\ 0 \in Times
                           /\ TTLs \subseteq Nat \ {0}
                           /\ MaxEpoch \in Nat
                           /\ MonotoneClock \in BOOLEAN

VARIABLES
    now,      \* the database clock
    row,      \* resource_locks as committed
    work,     \* resource_locks as the transaction that locked the row sees it
    lock,     \* the worker whose open transaction has locked the row
    open,     \* is a transaction of the worker open?
    got,      \* tokens granted inside the worker's open transaction
    fenced,   \* tokens revalidated inside it
    wrote,    \* key -> epoch under which it has written the data, 0 if not
    held,     \* tokens the worker keeps from committed transactions
    data      \* key -> epoch under which the data was last written (history)

vars == <<now, row, work, lock, open, got, fenced, wrote, held, data>>
txvars == <<open, got, fenced, wrote>>

Token == [key : Keys, owner : Owners, epoch : Nat \ {0}]
Row   == [owner : Owners \cup {NoOwner}, epoch : Nat, until : Nat]

Nothing == [k \in Keys |-> 0]

Init == /\ now = 0
        /\ row = [k \in Keys |-> [owner |-> NoOwner, epoch |-> 0, until |-> 0]]
        /\ work = row
        /\ lock = [k \in Keys |-> NoWorker]
        /\ open = [w \in Workers |-> FALSE]
        /\ got = [w \in Workers |-> {}]
        /\ fenced = [w \in Workers |-> {}]
        /\ wrote = [w \in Workers |-> Nothing]
        /\ held = [w \in Workers |-> {}]
        /\ data = Nothing

-----------------------------------------------------------------------------
(* Row predicates *)

\* leased_until >= now
Unexpired(r) == r.until >= now

\* Mutant of Free: a lease whose deadline is this very instant counts as expired.
FreeAtDeadline(r) == r.owner = NoOwner \/ r.until <= now

\* lease_owner IS NULL OR leased_until < now
Free(r) == r.owner = NoOwner \/ ~Unexpired(r)

\* Mutant of Names: the fencing epoch is not compared.
NamesOwnerOnly(r, t) == r.owner = t.owner

Names(r, t) == r.owner = t.owner /\ r.epoch = t.epoch

CanLock(w, k) == open[w] /\ lock[k] \in {w, NoWorker}

Tokens(w) == held[w] \cup got[w]

-----------------------------------------------------------------------------
(* Transactions *)

Begin(w) == /\ ~open[w]
            /\ open' = [open EXCEPT ![w] = TRUE]
            /\ UNCHANGED <<now, row, work, lock, got, fenced, wrote, held, data>>

\* Mutant of Granted: an epoch that does not advance.
GrantedSameEpoch(w, k, ttl) == [owner |-> OwnerOf[w], epoch |-> work[k].epoch, until |-> now + ttl]

\* The worker becomes the owner of k's row under the next epoch.
Granted(w, k, ttl) == [owner |-> OwnerOf[w], epoch |-> work[k].epoch + 1, until |-> now + ttl]
TokenOf(k, r)      == [key |-> k, owner |-> r.owner, epoch |-> r.epoch]

Grant(w, k, ttl) ==
    /\ CanLock(w, k)
    /\ fenced[w] = {}               \* callers take leases before they revalidate
    /\ work[k].epoch < MaxEpoch
    /\ lock' = [lock EXCEPT ![k] = w]
    /\ work' = [work EXCEPT ![k] = Granted(w, k, ttl)]
    /\ got'  = [got EXCEPT ![w] = @ \cup {TokenOf(k, Granted(w, k, ttl))}]
    /\ UNCHANGED <<now, row, open, wrote, held, data>>

Acquire(w, k, ttl) == /\ Free(work[k])
                      /\ Grant(w, k, ttl)
                      /\ UNCHANGED fenced

\* The operator's recovery replaces the updater's unexpired hold, and
\* revalidates the token it gets.
TakeOverDeploymentHold(w, k, ttl) ==
    /\ OwnerOf[w] # Hold
    /\ work[k].owner = Hold
    /\ Unexpired(work[k])
    /\ Grant(w, k, ttl)
    /\ fenced' = [fenced EXCEPT ![w] = {TokenOf(k, Granted(w, k, ttl))}]

Renew(w, t, ttl) ==
    /\ CanLock(w, t.key)
    /\ Names(work[t.key], t)
    /\ Unexpired(work[t.key])
    /\ lock' = [lock EXCEPT ![t.key] = w]
    /\ work' = [work EXCEPT ![t.key] = [owner |-> t.owner, epoch |-> t.epoch, until |-> now + ttl]]
    /\ UNCHANGED <<now, row, txvars, held, data>>

\* An expired lease may still be released by its own token.
Release(w, t) ==
    /\ CanLock(w, t.key)
    /\ Names(work[t.key], t)
    /\ lock' = [lock EXCEPT ![t.key] = w]
    /\ work' = [work EXCEPT ![t.key] = [owner |-> NoOwner, epoch |-> t.epoch, until |-> 0]]
    /\ UNCHANGED <<now, row, txvars, held, data>>

\* Mutant of Revalidate: the rows are read without FOR UPDATE.
RevalidateUnlocked(w, S) ==
    /\ S # {}
    /\ \A t, u \in S : t.key = u.key => t = u
    /\ \A t \in S : /\ CanLock(w, t.key)
                    /\ Names(work[t.key], t)
                    /\ Unexpired(work[t.key])
    /\ fenced' = [fenced EXCEPT ![w] = @ \cup S]
    /\ UNCHANGED <<now, row, work, lock, open, got, wrote, held, data>>

\* Every row is locked and checked for owner, epoch and liveness.
Revalidate(w, S) ==
    /\ S # {}
    /\ \A t, u \in S : t.key = u.key => t = u
    /\ \A t \in S : /\ CanLock(w, t.key)
                    /\ Names(work[t.key], t)
                    /\ Unexpired(work[t.key])
    /\ lock' = [k \in Keys |-> IF \E t \in S : t.key = k THEN w ELSE lock[k]]
    /\ fenced' = [fenced EXCEPT ![w] = @ \cup S]
    /\ UNCHANGED <<now, row, work, open, got, wrote, held, data>>

\* The business statements that follow a revalidation.
Write(w, t) ==
    /\ open[w]
    /\ t \in fenced[w]
    /\ wrote' = [wrote EXCEPT ![w][t.key] = t.epoch]
    /\ UNCHANGED <<now, row, work, lock, open, got, fenced, held, data>>

EndTransaction(w) ==
    /\ open[w]
    /\ lock' = [k \in Keys |-> IF lock[k] = w THEN NoWorker ELSE lock[k]]
    /\ open' = [open EXCEPT ![w] = FALSE]
    /\ got' = [got EXCEPT ![w] = {}]
    /\ fenced' = [fenced EXCEPT ![w] = {}]
    /\ wrote' = [wrote EXCEPT ![w] = Nothing]
    /\ UNCHANGED now

\* The caller keeps the tokens only of a committed transaction.
Commit(w) ==
    /\ EndTransaction(w)
    /\ row' = [k \in Keys |-> IF lock[k] = w THEN work[k] ELSE row[k]]
    /\ data' = [k \in Keys |-> IF wrote[w][k] # 0 THEN wrote[w][k] ELSE data[k]]
    /\ held' = [held EXCEPT ![w] = @ \cup got[w]]
    /\ UNCHANGED work

\* Mutant of Rollback: the tokens of the rolled-back grants are kept.
RollbackKeepsTokens(w) ==
    /\ EndTransaction(w)
    /\ work' = [k \in Keys |-> IF lock[k] = w THEN row[k] ELSE work[k]]
    /\ held' = [held EXCEPT ![w] = @ \cup got[w]]
    /\ UNCHANGED <<row, data>>

\* LeaseBusy, LeaseLost, a deadlock, a lock wait timeout or any other error.
Rollback(w) ==
    /\ EndTransaction(w)
    /\ work' = [k \in Keys |-> IF lock[k] = w THEN row[k] ELSE work[k]]
    /\ UNCHANGED <<row, held, data>>

\* The process dies: the database rolls back, the tokens are forgotten, the
\* lease rows stay as they are until they expire.
Crash(w) ==
    /\ lock' = [k \in Keys |-> IF lock[k] = w THEN NoWorker ELSE lock[k]]
    /\ work' = [k \in Keys |-> IF lock[k] = w THEN row[k] ELSE work[k]]
    /\ open' = [open EXCEPT ![w] = FALSE]
    /\ got' = [got EXCEPT ![w] = {}]
    /\ fenced' = [fenced EXCEPT ![w] = {}]
    /\ wrote' = [wrote EXCEPT ![w] = Nothing]
    /\ held' = [held EXCEPT ![w] = {}]
    /\ UNCHANGED <<now, row, data>>

Tick == /\ now' \in Times
        /\ MonotoneClock => now' > now
        /\ UNCHANGED <<row, work, lock, txvars, held, data>>

Step(w) == \/ Begin(w)
           \/ \E k \in Keys, ttl \in TTLs : Acquire(w, k, ttl)
           \/ \E k \in Keys, ttl \in TTLs : TakeOverDeploymentHold(w, k, ttl)
           \/ \E t \in Tokens(w), ttl \in TTLs : Renew(w, t, ttl)
           \/ \E t \in Tokens(w) : Release(w, t)
           \/ \E S \in SUBSET Tokens(w) : Revalidate(w, S)
           \/ \E t \in fenced[w] : Write(w, t)
           \/ Commit(w)
           \/ Rollback(w)
           \/ Crash(w)

Next == Tick \/ \E w \in Workers : Step(w)

Spec == Init /\ [][Next]_vars

-----------------------------------------------------------------------------
(* Properties *)

\* Every variable keeps its type.
TypeOK == /\ now \in Times
          /\ row \in [Keys -> Row]
          /\ work \in [Keys -> Row]
          /\ lock \in [Keys -> Workers \cup {NoWorker}]
          /\ open \in [Workers -> BOOLEAN]
          /\ got \in [Workers -> SUBSET Token]
          /\ fenced \in [Workers -> SUBSET Token]
          /\ wrote \in [Workers -> [Keys -> Nat]]
          /\ held \in [Workers -> SUBSET Token]
          /\ data \in [Keys -> Nat]

\* A fencing epoch of a key names one grant: two workers never hold tokens of
\* the same key and epoch, even if their owner strings collide, and although a
\* rolled-back grant gives its epoch back to be granted again.
OneHolderPerEpoch ==
    \A w, v \in Workers : w # v =>
        \A t \in held[w], u \in held[v] : t.key = u.key => t.epoch # u.epoch

\* Once a transaction has revalidated a token, nobody is granted the key until
\* that transaction ends, however long it takes and even if the lease expires
\* or the clock jumps meanwhile.
FenceHoldsToCommit ==
    \A w \in Workers : \A t \in fenced[w] :
        \A v \in Workers : \A u \in held[v] \cup got[v] :
            t.key = u.key => u.epoch <= t.epoch

\* Why the two above hold, in inductive form.  Only the worker that has locked a
\* row can differ from the committed row, upwards; a token it was granted there
\* is newer than every committed one; a revalidated token and what was written
\* under it name exactly the locked row's epoch.
LockDiscipline ==
    \A k \in Keys : /\ lock[k] # NoWorker => open[lock[k]]
                    /\ lock[k] = NoWorker => work[k] = row[k]
                    /\ row[k].epoch <= work[k].epoch

TokenBounds ==
    \A w \in Workers :
        /\ \A t \in held[w] : t.epoch <= row[t.key].epoch
        /\ \A t \in got[w] : /\ lock[t.key] = w
                              /\ row[t.key].epoch < t.epoch
                              /\ t.epoch <= work[t.key].epoch

FenceBounds ==
    \A w \in Workers :
        /\ \A t \in fenced[w] : /\ lock[t.key] = w
                                 /\ work[t.key].epoch = t.epoch
        /\ \A k \in Keys : wrote[w][k] # 0 =>
              \E t \in fenced[w] : t.key = k /\ t.epoch = wrote[w][k]

LeaseInv == /\ TypeOK
            /\ LockDiscipline
            /\ TokenBounds
            /\ FenceBounds
            /\ OneHolderPerEpoch

\* With a forward clock: whoever has changed a locked row either found the
\* committed lease free or held by the updater, or holds its token itself.
ChangedRowWasFree ==
    \A k \in Keys : work[k] # row[k] =>
        \/ row[k].owner \in {NoOwner, Hold}
        \/ ~Unexpired(row[k])
        \/ \E t \in held[lock[k]] : t.key = k /\ Names(row[k], t)

\* With a clock that only moves forward, a worker loses an unexpired lease only
\* by its own doing: through a commit or crash of its own.  The updater's hold
\* is the one exception (take_over_deployment_hold).
LiveLeaseIsNotStolen ==
    [][\A w \in Workers : \A t \in held[w] :
          /\ Names(row[t.key], t)
          /\ Unexpired(row[t.key])
          /\ t.owner # Hold
          /\ ~Names(row'[t.key], t)
          => open[w] /\ ~open'[w]]_vars

\* Data is only written under the newest grant, and grants only grow.
Fencing == INSTANCE FencedWrites WITH granted <- [k \in Keys |-> row[k].epoch],
                                      written <- data
FencedSpec == Fencing!FSpec

=============================================================================
