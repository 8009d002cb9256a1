--------------------------- MODULE Recovery_proofs ----------------------------
(*****************************************************************************)
(* Theorems about the modules MCRecovery checks together: the leases, the    *)
(* pass of the recovery worker, and the cancellation of a service it         *)
(* resumes.                                                                  *)
(*****************************************************************************)
EXTENDS ResourceLeases, DueRecovery, Cancellation, Sums_proofs

-----------------------------------------------------------------------------
(*****************************************************************************)
(* ResourceLeases, for any keys, workers, owner strings, clock values and    *)
(* number of grants. Owner strings may collide and the clock may be set      *)
(* back: nothing here relies on either.                                      *)
(*****************************************************************************)

(* A transaction's end, shared by Commit, Rollback and Crash. *)
Closes(w) == /\ lock' = [k \in Keys |-> IF lock[k] = w THEN NoWorker ELSE lock[k]]
             /\ open' = [open EXCEPT ![w] = FALSE]
             /\ got' = [got EXCEPT ![w] = {}]
             /\ fenced' = [fenced EXCEPT ![w] = {}]
             /\ wrote' = [wrote EXCEPT ![w] = Nothing]

\* The invariant holds before any lease exists.
LEMMA LeaseInvInit == Init => LeaseInv
BY OwnersAssumption, LockAssumption, ClockAssumption
   DEF Init, LeaseInv, TypeOK, LockDiscipline, TokenBounds, FenceBounds,
       OneHolderPerEpoch, Row, Token, Nothing

\* A new grant is a well-formed row and a well-formed token, one epoch up.
LEMMA GrantTypes ==
    ASSUME TypeOK, NEW w \in Workers, NEW k \in Keys, NEW ttl \in TTLs
    PROVE  /\ Granted(w, k, ttl) \in Row
           /\ TokenOf(k, Granted(w, k, ttl)) \in Token
           /\ Granted(w, k, ttl).epoch = work[k].epoch + 1
           /\ TokenOf(k, Granted(w, k, ttl)).epoch = work[k].epoch + 1
           /\ TokenOf(k, Granted(w, k, ttl)).key = k
BY OwnersAssumption, ClockAssumption DEF TypeOK, Granted, TokenOf, Row, Token

\* The invariant survives a grant of a row the worker can lock.
LEMMA GrantStep ==
    ASSUME LeaseInv, NEW w \in Workers, NEW k \in Keys, NEW ttl \in TTLs, Grant(w, k, ttl),
           \/ UNCHANGED fenced
           \/ fenced' = [fenced EXCEPT ![w] = {TokenOf(k, Granted(w, k, ttl))}]
    PROVE  LeaseInv'
<1> DEFINE r == Granted(w, k, ttl)
           t == TokenOf(k, r)
<1>1. /\ r \in Row /\ r.epoch = work[k].epoch + 1
      /\ t \in Token /\ t.key = k /\ t.epoch = work[k].epoch + 1
  BY GrantTypes DEF LeaseInv
<1>2. /\ lock' = [lock EXCEPT ![k] = w]
      /\ work' = [work EXCEPT ![k] = r]
      /\ got' = [got EXCEPT ![w] = @ \cup {t}]
      /\ fenced' = fenced \/ fenced' = [fenced EXCEPT ![w] = {t}]
      /\ UNCHANGED <<now, row, open, wrote, held, data>>
      /\ open[w] /\ lock[k] \in {w, NoWorker} /\ fenced[w] = {}
  BY DEF Grant, CanLock
<1> HIDE DEF r, t
<1>3. TypeOK'
  <2>1. /\ work' \in [Keys -> Row]
        /\ lock' \in [Keys -> Workers \cup {NoWorker}]
    BY <1>1, <1>2 DEF LeaseInv, TypeOK
  <2>2. got' \in [Workers -> SUBSET Token]
    BY <1>1, <1>2 DEF LeaseInv, TypeOK
  <2>3. fenced' \in [Workers -> SUBSET Token]
    <3>1. CASE fenced' = fenced
      BY <3>1 DEF LeaseInv, TypeOK
    <3>2. CASE fenced' = [fenced EXCEPT ![w] = {t}]
      BY <1>1, <3>2 DEF LeaseInv, TypeOK
    <3> QED BY <1>2, <3>1, <3>2
  <2> QED BY <1>2, <2>1, <2>2, <2>3 DEF LeaseInv, TypeOK
<1>4. LockDiscipline'
  BY <1>1, <1>2, LockAssumption DEF LeaseInv, LockDiscipline, TypeOK, Row
<1>5. TokenBounds'
  BY <1>1, <1>2, LockAssumption DEF LeaseInv, LockDiscipline, TokenBounds, TypeOK, Row, Token
<1>6. FenceBounds'
  BY <1>1, <1>2, LockAssumption DEF LeaseInv, FenceBounds, TypeOK, Row, Token
<1>7. OneHolderPerEpoch'
  BY <1>2 DEF LeaseInv, OneHolderPerEpoch
<1> QED BY <1>3, <1>4, <1>5, <1>6, <1>7 DEF LeaseInv

\* Ending a transaction without publishing anything forgets its tokens and
\* gives every locked row its committed value back.
LEMMA AbortStep ==
    ASSUME LeaseInv, NEW w \in Workers, Closes(w),
           work' = [k \in Keys |-> IF lock[k] = w THEN row[k] ELSE work[k]],
           held' = held \/ held' = [held EXCEPT ![w] = {}],
           UNCHANGED <<now, row, data>>
    PROVE  LeaseInv'
<1>1. TypeOK'
  BY DEF LeaseInv, TypeOK, Closes, Nothing
<1>2. LockDiscipline'
  BY LockAssumption DEF LeaseInv, LockDiscipline, TypeOK, Closes, Row
<1>3. TokenBounds'
  BY LockAssumption DEF LeaseInv, TokenBounds, TypeOK, Closes, Row, Token
<1>4. FenceBounds'
  BY LockAssumption DEF LeaseInv, FenceBounds, TypeOK, Closes, Nothing, Row, Token
<1>5. OneHolderPerEpoch'
  BY DEF LeaseInv, OneHolderPerEpoch, TypeOK
<1> QED BY <1>1, <1>2, <1>3, <1>4, <1>5 DEF LeaseInv

\* A commit publishes the rows it has locked and makes its tokens visible.
LEMMA CommitStep ==
    ASSUME LeaseInv, NEW w \in Workers, Commit(w)
    PROVE  LeaseInv'
<1>0. /\ Closes(w)
      /\ row' = [k \in Keys |-> IF lock[k] = w THEN work[k] ELSE row[k]]
      /\ data' = [k \in Keys |-> IF wrote[w][k] # 0 THEN wrote[w][k] ELSE data[k]]
      /\ held' = [held EXCEPT ![w] = @ \cup got[w]]
      /\ UNCHANGED <<now, work>>
  BY DEF Commit, EndTransaction, Closes
<1>1. TypeOK'
  BY <1>0 DEF LeaseInv, TypeOK, Closes, Nothing
<1>2. LockDiscipline'
  BY <1>0, LockAssumption DEF LeaseInv, LockDiscipline, TypeOK, Closes, Row
<1>3. TokenBounds'
  BY <1>0, LockAssumption DEF LeaseInv, TokenBounds, LockDiscipline, TypeOK, Closes, Row, Token
<1>4. FenceBounds'
  BY <1>0, LockAssumption DEF LeaseInv, FenceBounds, TypeOK, Closes, Nothing, Row, Token
<1>5. OneHolderPerEpoch'
  BY <1>0 DEF LeaseInv, OneHolderPerEpoch, TokenBounds, TypeOK, Row, Token
<1> QED BY <1>1, <1>2, <1>3, <1>4, <1>5 DEF LeaseInv

\* Locking one's row and changing neither its epoch nor any token.
LEMMA LockStep ==
    ASSUME LeaseInv, NEW w \in Workers, NEW k \in Keys, NEW r \in Row,
           open[w], lock[k] \in {w, NoWorker}, r.epoch = work[k].epoch,
           lock' = [lock EXCEPT ![k] = w],
           work' = [work EXCEPT ![k] = r],
           UNCHANGED <<now, row, open, got, fenced, wrote, held, data>>
    PROVE  LeaseInv'
<1>1. TypeOK'
  BY DEF LeaseInv, TypeOK
<1>2. LockDiscipline'
  BY LockAssumption DEF LeaseInv, LockDiscipline, TypeOK
<1>3. TokenBounds'
  BY LockAssumption DEF LeaseInv, TokenBounds, TypeOK, Token
<1>4. FenceBounds'
  BY LockAssumption DEF LeaseInv, FenceBounds, TypeOK, Token
<1>5. OneHolderPerEpoch'
  BY DEF LeaseInv, OneHolderPerEpoch
<1> QED BY <1>1, <1>2, <1>3, <1>4, <1>5 DEF LeaseInv

\* A revalidation locks the rows whose tokens it has compared.
LEMMA RevalidateStep ==
    ASSUME LeaseInv, NEW w \in Workers, NEW S \in SUBSET Tokens(w), Revalidate(w, S)
    PROVE  LeaseInv'
<1>1. /\ S \subseteq Token
      /\ \A t \in S : open[w] /\ lock[t.key] \in {w, NoWorker} /\ work[t.key].epoch = t.epoch
      /\ lock' = [k \in Keys |-> IF \E t \in S : t.key = k THEN w ELSE lock[k]]
      /\ fenced' = [fenced EXCEPT ![w] = @ \cup S]
      /\ UNCHANGED <<now, row, work, open, got, wrote, held, data>>
  BY DEF Revalidate, CanLock, Names, Tokens, LeaseInv, TypeOK
<1>2. TypeOK'
  BY <1>1 DEF LeaseInv, TypeOK
<1>3. LockDiscipline'
  BY <1>1, LockAssumption DEF LeaseInv, LockDiscipline, TypeOK
<1>4. TokenBounds'
  BY <1>1, LockAssumption DEF LeaseInv, TokenBounds, TypeOK, Token
<1>5. FenceBounds'
  BY <1>1, LockAssumption DEF LeaseInv, FenceBounds, TypeOK, Token
<1>6. OneHolderPerEpoch'
  BY <1>1 DEF LeaseInv, OneHolderPerEpoch
<1> QED BY <1>2, <1>3, <1>4, <1>5, <1>6 DEF LeaseInv

\* A write happens under a revalidated token.
LEMMA WriteStep ==
    ASSUME LeaseInv, NEW w \in Workers, NEW t \in fenced[w], Write(w, t)
    PROVE  LeaseInv'
<1>1. /\ t \in Token
      /\ wrote' = [wrote EXCEPT ![w][t.key] = t.epoch]
      /\ UNCHANGED <<now, row, work, lock, open, got, fenced, held, data>>
  BY DEF Write, LeaseInv, TypeOK
<1>2. TypeOK'
  BY <1>1 DEF LeaseInv, TypeOK, Token
<1>3. LockDiscipline' /\ TokenBounds' /\ OneHolderPerEpoch'
  BY <1>1 DEF LeaseInv, LockDiscipline, TokenBounds, OneHolderPerEpoch
<1>4. FenceBounds'
  BY <1>1 DEF LeaseInv, FenceBounds, TypeOK, Token
<1> QED BY <1>2, <1>3, <1>4 DEF LeaseInv

\* Every other action of a worker, and the clock, keep the invariant.
LEMMA LeaseInvStep == LeaseInv /\ [Next]_vars => LeaseInv'
<1> SUFFICES ASSUME LeaseInv, [Next]_vars PROVE LeaseInv'
  OBVIOUS
<1>1. CASE UNCHANGED vars
  BY <1>1 DEF vars, LeaseInv, TypeOK, LockDiscipline, TokenBounds, FenceBounds, OneHolderPerEpoch
<1>2. CASE Tick
  BY <1>2 DEF Tick, txvars, LeaseInv, TypeOK, LockDiscipline, TokenBounds, FenceBounds, OneHolderPerEpoch
<1>3. ASSUME NEW w \in Workers, Step(w) PROVE LeaseInv'
  <2>1. CASE Begin(w)
    BY <2>1 DEF Begin, LeaseInv, TypeOK, LockDiscipline, TokenBounds, FenceBounds, OneHolderPerEpoch
  <2>2. ASSUME NEW k \in Keys, NEW ttl \in TTLs, Acquire(w, k, ttl) PROVE LeaseInv'
    BY <2>2, GrantStep DEF Acquire
  <2>3. ASSUME NEW k \in Keys, NEW ttl \in TTLs, TakeOverDeploymentHold(w, k, ttl) PROVE LeaseInv'
    BY <2>3, GrantStep DEF TakeOverDeploymentHold
  <2>4. ASSUME NEW t \in Tokens(w), NEW ttl \in TTLs, Renew(w, t, ttl) PROVE LeaseInv'
    <3> DEFINE r == [owner |-> t.owner, epoch |-> t.epoch, until |-> now + ttl]
    <3>1. /\ t \in Token
          /\ r \in Row /\ r.epoch = t.epoch
      BY <2>4, ClockAssumption DEF Tokens, LeaseInv, TypeOK, Token, Row
    <3>2. /\ open[w] /\ lock[t.key] \in {w, NoWorker} /\ work[t.key].epoch = t.epoch
          /\ lock' = [lock EXCEPT ![t.key] = w]
          /\ work' = [work EXCEPT ![t.key] = r]
          /\ UNCHANGED <<now, row, open, got, fenced, wrote, held, data>>
      BY <2>4 DEF Renew, CanLock, Names, txvars
    <3> HIDE DEF r
    <3> QED BY <3>1, <3>2, LockStep DEF Token
  <2>5. ASSUME NEW t \in Tokens(w), Release(w, t) PROVE LeaseInv'
    <3> DEFINE r == [owner |-> NoOwner, epoch |-> t.epoch, until |-> 0]
    <3>1. /\ t \in Token
          /\ r \in Row /\ r.epoch = t.epoch
      BY <2>5 DEF Tokens, LeaseInv, TypeOK, Token, Row
    <3>2. /\ open[w] /\ lock[t.key] \in {w, NoWorker} /\ work[t.key].epoch = t.epoch
          /\ lock' = [lock EXCEPT ![t.key] = w]
          /\ work' = [work EXCEPT ![t.key] = r]
          /\ UNCHANGED <<now, row, open, got, fenced, wrote, held, data>>
      BY <2>5 DEF Release, CanLock, Names, txvars
    <3> HIDE DEF r
    <3> QED BY <3>1, <3>2, LockStep DEF Token
  <2>6. ASSUME NEW S \in SUBSET Tokens(w), Revalidate(w, S) PROVE LeaseInv'
    BY <2>6, RevalidateStep
  <2>7. ASSUME NEW t \in fenced[w], Write(w, t) PROVE LeaseInv'
    BY <2>7, WriteStep
  <2>8. CASE Commit(w)
    BY <2>8, CommitStep
  <2>9. CASE Rollback(w)
    BY <2>9, AbortStep DEF Rollback, EndTransaction, Closes
  <2>10. CASE Crash(w)
    BY <2>10, AbortStep DEF Crash, Closes
  <2> QED
    BY <1>3, <2>1, <2>2, <2>3, <2>4, <2>5, <2>6, <2>7, <2>8, <2>9, <2>10 DEF Step
<1> QED BY <1>1, <1>2, <1>3 DEF Next

\* The lease rows, the tokens and the fences keep their invariant in every
\* behaviour of resource_leases.py's callers.
THEOREM LeaseSafety == Spec => []LeaseInv
<1> QED BY LeaseInvInit, LeaseInvStep, PTL DEF Spec

\* Types, for every instance.
THEOREM TypeCorrect == Spec => []TypeOK
<1>1. LeaseInv => TypeOK
  BY DEF LeaseInv
<1> QED BY <1>1, LeaseSafety, PTL

\* Two workers never hold the same key under the same fencing epoch (acquire,
\* and the callers that drop the tokens of a rolled-back transaction).
THEOREM EpochsAreUnique == Spec => []OneHolderPerEpoch
<1>1. LeaseInv => OneHolderPerEpoch
  BY DEF LeaseInv
<1> QED BY <1>1, LeaseSafety, PTL

\* Nobody is granted a key between another transaction's revalidation of it
\* and that transaction's end (revalidate's row locks).
THEOREM RevalidationHolds == Spec => []FenceHoldsToCommit
<1>1. LeaseInv => FenceHoldsToCommit
  <2> SUFFICES ASSUME LeaseInv, NEW w \in Workers, NEW t \in fenced[w], NEW v \in Workers,
                      NEW u \in held[v] \cup got[v], u.key = t.key
               PROVE  u.epoch <= t.epoch
    BY DEF FenceHoldsToCommit
  <2>1. t \in Token /\ u \in Token /\ work[t.key].epoch = t.epoch
    BY DEF LeaseInv, TypeOK, FenceBounds
  <2>2. row[t.key].epoch \in Nat /\ row[t.key].epoch <= work[t.key].epoch /\ work[t.key].epoch \in Nat
    BY <2>1 DEF LeaseInv, TypeOK, LockDiscipline, Token, Row
  <2>3. u.epoch <= row[u.key].epoch \/ u.epoch <= work[u.key].epoch
    BY DEF LeaseInv, TokenBounds
  <2> QED BY <2>1, <2>2, <2>3 DEF Token
<1> QED BY <1>1, LeaseSafety, PTL

\* Data protected by a key is only written under the key's newest grant.
THEOREM ImplementsFencing == Spec => FencedSpec
<1>1. Init => Fencing!FInit
  BY DEF Init, Fencing!FInit, Nothing
<1>2. LeaseInv /\ LeaseInv' /\ [Next]_vars => [Fencing!FNext]_(Fencing!fvars)
  <2> SUFFICES ASSUME LeaseInv, LeaseInv', [Next]_vars
               PROVE  [Fencing!FNext]_(Fencing!fvars)
    OBVIOUS
  <2>1. CASE UNCHANGED <<row, data>>
    BY <2>1 DEF Fencing!fvars
  <2>2. ASSUME NEW w \in Workers, Commit(w) PROVE Fencing!FNext
    <3>1. /\ row' = [k \in Keys |-> IF lock[k] = w THEN work[k] ELSE row[k]]
          /\ data' = [k \in Keys |-> IF wrote[w][k] # 0 THEN wrote[w][k] ELSE data[k]]
      BY <2>2 DEF Commit
    <3>2. /\ [k \in Keys |-> row[k].epoch]' \in [Keys -> Nat]
          /\ data' \in [Keys -> Nat]
      BY DEF LeaseInv, TypeOK, Row
    <3>3. ASSUME NEW k \in Keys
          PROVE  /\ row'[k].epoch >= row[k].epoch
                 /\ data'[k] \in {data[k], row'[k].epoch}
      <4>1. /\ row[k].epoch \in Nat /\ work[k].epoch \in Nat
            /\ row[k].epoch <= work[k].epoch
        BY DEF LeaseInv, TypeOK, Row, LockDiscipline
      <4>2. wrote[w][k] # 0 => lock[k] = w /\ work[k].epoch = wrote[w][k]
        BY DEF LeaseInv, FenceBounds
      <4> QED BY <3>1, <4>1, <4>2
    <3> QED BY <3>2, <3>3 DEF Fencing!FNext, Fencing!FCommit
  <2>3. ASSUME NEW w \in Workers, Step(w), ~Commit(w) PROVE UNCHANGED <<row, data>>
    BY <2>3 DEF Step, Begin, Acquire, TakeOverDeploymentHold, Grant, Renew, Release,
                Revalidate, Write, Rollback, Crash
  <2>4. Tick \/ UNCHANGED vars => UNCHANGED <<row, data>>
    BY DEF Tick, vars
  <2> QED BY <2>1, <2>2, <2>3, <2>4 DEF Next
<1> QED BY <1>1, <1>2, LeaseSafety, PTL DEF Spec, FencedSpec, Fencing!FSpec

\* The invariant behind LiveLeaseIsNotStolen survives every step when the clock
\* only moves forward.
LEMMA ChangedRowStep ==
    ASSUME MonotoneClock
    PROVE  LeaseInv /\ ChangedRowWasFree /\ [Next]_vars => ChangedRowWasFree'
<1> SUFFICES ASSUME LeaseInv, ChangedRowWasFree, [Next]_vars,
                    NEW k \in Keys, work'[k] # row'[k]
             PROVE  (\/ row[k].owner \in {NoOwner, Hold}
                     \/ ~Unexpired(row[k])
                     \/ \E t \in held[lock[k]] : t.key = k /\ Names(row[k], t))'
  BY DEF ChangedRowWasFree
<1> USE DEF Unexpired, Names
<1>1. CASE UNCHANGED vars
  BY <1>1 DEF vars, ChangedRowWasFree
<1>2. CASE Tick
  <2>1. now \in Nat /\ now' \in Nat /\ now' > now /\ row[k].until \in Nat
    BY <1>2, ClockAssumption DEF Tick, LeaseInv, TypeOK, Row
  <2> QED BY <1>2, <2>1 DEF Tick, ChangedRowWasFree
<1>3. ASSUME NEW w \in Workers, Step(w) PROVE
                    (\/ row[k].owner \in {NoOwner, Hold}
                     \/ ~Unexpired(row[k])
                     \/ \E t \in held[lock[k]] : t.key = k /\ Names(row[k], t))'
  <2>1. CASE Begin(w) \/ \E t \in fenced[w] : Write(w, t)
    BY <2>1 DEF Begin, Write, ChangedRowWasFree
  <2>2. ASSUME NEW j \in Keys, NEW ttl \in TTLs, Grant(w, j, ttl),
               Free(work[j]) \/ work[j].owner = Hold
        PROVE  (\/ row[k].owner \in {NoOwner, Hold}
                \/ ~Unexpired(row[k])
                \/ \E t \in held[lock[k]] : t.key = k /\ Names(row[k], t))'
    <3>1. UNCHANGED <<now, row, held>>
      BY <2>2 DEF Grant
    <3>2. CASE k = j /\ work[k] = row[k]
      BY <2>2, <3>1, <3>2 DEF Free
    <3>3. CASE k = j /\ work[k] # row[k]
      <4>1. lock[k] = w /\ lock'[k] = w
        BY <2>2, <3>3 DEF Grant, CanLock, LeaseInv, TypeOK, LockDiscipline
      <4> QED BY <3>1, <3>3, <4>1 DEF ChangedRowWasFree
    <3>4. CASE k # j
      <4>1. lock'[k] = lock[k] /\ work'[k] = work[k]
        BY <2>2, <3>4 DEF Grant, LeaseInv, TypeOK
      <4> QED BY <3>1, <4>1 DEF ChangedRowWasFree
    <3> QED BY <3>2, <3>3, <3>4
  <2>3. ASSUME NEW t \in Tokens(w), CanLock(w, t.key), Names(work[t.key], t),
               lock' = [lock EXCEPT ![t.key] = w],
               \A j \in Keys : j # t.key => work'[j] = work[j],
               UNCHANGED <<now, row, held>>
        PROVE  (\/ row[k].owner \in {NoOwner, Hold}
                \/ ~Unexpired(row[k])
                \/ \E u \in held[lock[k]] : u.key = k /\ Names(row[k], u))'
    <3>1. t \in Token
      BY <2>3 DEF Tokens, LeaseInv, TypeOK
    <3>2. CASE k = t.key /\ work[k] = row[k]
      <4>1. t \in held[w]
        BY <2>3, <3>1, <3>2 DEF Tokens, LeaseInv, TypeOK, TokenBounds, Row, Token
      <4>2. lock'[k] = w
        BY <2>3, <3>2 DEF LeaseInv, TypeOK
      <4> QED BY <2>3, <3>2, <4>1, <4>2
    <3>3. CASE k = t.key /\ work[k] # row[k]
      <4>1. lock[k] = w /\ lock'[k] = w
        BY <2>3, <3>3 DEF CanLock, LeaseInv, TypeOK, LockDiscipline
      <4> QED BY <2>3, <3>3, <4>1 DEF ChangedRowWasFree
    <3>4. CASE k # t.key
      <4>1. lock'[k] = lock[k] /\ work'[k] = work[k]
        BY <2>3, <3>4 DEF LeaseInv, TypeOK
      <4> QED BY <2>3, <4>1 DEF ChangedRowWasFree
    <3> QED BY <3>2, <3>3, <3>4
  <2>4. ASSUME NEW t \in Tokens(w), NEW ttl \in TTLs, Renew(w, t, ttl)
        PROVE  /\ CanLock(w, t.key) /\ Names(work[t.key], t)
               /\ lock' = [lock EXCEPT ![t.key] = w]
               /\ \A j \in Keys : j # t.key => work'[j] = work[j]
               /\ UNCHANGED <<now, row, held>>
    BY <2>4 DEF Renew, LeaseInv, TypeOK
  <2>5. ASSUME NEW t \in Tokens(w), Release(w, t)
        PROVE  /\ CanLock(w, t.key) /\ Names(work[t.key], t)
               /\ lock' = [lock EXCEPT ![t.key] = w]
               /\ \A j \in Keys : j # t.key => work'[j] = work[j]
               /\ UNCHANGED <<now, row, held>>
    BY <2>5 DEF Release, LeaseInv, TypeOK
  <2>6. ASSUME NEW S \in SUBSET Tokens(w), Revalidate(w, S)
        PROVE  (\/ row[k].owner \in {NoOwner, Hold}
                \/ ~Unexpired(row[k])
                \/ \E t \in held[lock[k]] : t.key = k /\ Names(row[k], t))'
    <3>1. lock[k] # NoWorker /\ UNCHANGED <<now, row, work, held>>
      BY <2>6 DEF Revalidate, LeaseInv, LockDiscipline
    <3>2. lock'[k] = lock[k]
      BY <2>6, <3>1 DEF Revalidate, CanLock
    <3> QED BY <3>1, <3>2 DEF ChangedRowWasFree
  <2>7. CASE Commit(w)
    <3>1. /\ row'[k] = (IF lock[k] = w THEN work[k] ELSE row[k])
          /\ lock'[k] = (IF lock[k] = w THEN NoWorker ELSE lock[k])
          /\ held' = [held EXCEPT ![w] = @ \cup got[w]]
          /\ UNCHANGED <<now, work>>
      BY <2>7 DEF Commit, EndTransaction
    <3>2. lock[k] # w /\ lock[k] \in Workers
      BY <3>1 DEF LeaseInv, TypeOK, LockDiscipline
    <3> QED BY <3>1, <3>2 DEF ChangedRowWasFree, LeaseInv, TypeOK
  <2>8. CASE Rollback(w) \/ Crash(w)
    <3>1. /\ work'[k] = (IF lock[k] = w THEN row[k] ELSE work[k])
          /\ lock'[k] = (IF lock[k] = w THEN NoWorker ELSE lock[k])
          /\ held' = held \/ held' = [held EXCEPT ![w] = {}]
          /\ UNCHANGED <<now, row>>
      BY <2>8 DEF Rollback, Crash, EndTransaction
    <3>2. lock[k] # w /\ lock[k] \in Workers
      BY <3>1 DEF LeaseInv, TypeOK, LockDiscipline
    <3>3. held'[lock[k]] = held[lock[k]]
      BY <3>1, <3>2 DEF LeaseInv, TypeOK
    <3> QED BY <3>1, <3>2, <3>3 DEF ChangedRowWasFree
  <2> QED BY <1>3, <2>1, <2>2, <2>3, <2>4, <2>5, <2>6, <2>7, <2>8
          DEF Step, Acquire, TakeOverDeploymentHold
<1> QED BY <1>1, <1>2, <1>3 DEF Next

\* If the database clock is never set back, a worker loses an unexpired lease
\* only through its own commit; the updater's hold is the one exception.
THEOREM NoTheft ==
    ASSUME MonotoneClock
    PROVE  Spec => LiveLeaseIsNotStolen
<1>1. Init => ChangedRowWasFree
  BY DEF Init, ChangedRowWasFree
<1>2. LeaseInv /\ ChangedRowWasFree /\ [Next]_vars
      => [\A w \in Workers : \A t \in held[w] :
            /\ Names(row[t.key], t)
            /\ Unexpired(row[t.key])
            /\ t.owner # Hold
            /\ ~Names(row'[t.key], t)
            => open[w] /\ ~open'[w]]_vars
  <2> SUFFICES ASSUME LeaseInv, ChangedRowWasFree, Next,
                      NEW w \in Workers, NEW t \in held[w],
                      Names(row[t.key], t), Unexpired(row[t.key]), t.owner # Hold,
                      ~Names(row'[t.key], t)
               PROVE  open[w] /\ ~open'[w]
    BY DEF vars
  <2>1. t \in Token
    BY DEF LeaseInv, TypeOK
  <2>2. row' # row
    OBVIOUS
  <2>3. PICK v \in Workers : Commit(v)
    BY <2>2 DEF Next, Tick, Step, Begin, Acquire, TakeOverDeploymentHold, Grant, Renew,
                Release, Revalidate, Write, Rollback, Crash
  <2>4. lock[t.key] = v /\ work[t.key] # row[t.key]
    BY <2>1, <2>3 DEF Commit, Token
  <2>5. PICK u \in held[v] : u.key = t.key /\ Names(row[t.key], u)
    BY <2>1, <2>4, OwnersAssumption DEF ChangedRowWasFree, Names, Token
  <2>6. v = w
    BY <2>5 DEF LeaseInv, OneHolderPerEpoch, Names
  <2> QED BY <2>3, <2>6 DEF Commit, EndTransaction, LeaseInv, TypeOK
<1> QED BY <1>1, <1>2, ChangedRowStep, LeaseSafety, PTL DEF Spec, LiveLeaseIsNotStolen

-----------------------------------------------------------------------------
(*****************************************************************************)
(* DueRecovery: PassInv is inductive, whatever the operations, their number  *)
(* and the budget of a pass; a pass that nothing cut short misses no         *)
(* operation.                                                                *)
(*****************************************************************************)

\* A loop that finds nothing to select has nothing due after its cursor: of the
\* ready operations one has the least id.
LEMMA NothingSelectable == ASSUME Selectable = {}
                           PROVE  Ready = {}
<1>1. Ready \subseteq Nat
  BY IdAssumption DEF Ready, OfLoop
<1>2. ASSUME Ready # {} PROVE FALSE
  <2> DEFINE Less == OpToRel(<, Nat)
  <2>1. \A p, o \in Nat : p < o => <<p, o>> \in Less
    BY DEF OpToRel
  <2>2. IsWellFoundedOn(Less, Nat)
    BY NatLessThanWellFounded
  <2> HIDE DEF Less
  <2>3. PICK o \in Ready : \A p \in Ready : ~(<<p, o>> \in Less)
    BY <1>1, <1>2, <2>2, WFMin
  <2>4. \A p \in Ready : ~(p < o)
    BY <1>1, <2>1, <2>3
  <2>5. \A p \in Ready : o <= p
    BY <1>1, <2>4
  <2>6. QED BY <2>3, <2>5 DEF Selectable
<1>3. QED BY <1>2

LEMMA DueInitPassInv == DueInit => PassInv
<1> SUFFICES ASSUME DueInit PROVE PassInv
  OBVIOUS
<1>1. cut \in BOOLEAN
  BY Zenon DEF DueInit
<1>2. advanced \in 0..MaxOperations
  BY BudgetAssumption DEF DueInit
<1>3. QED BY <1>1, <1>2 DEF DueInit, PassInv, DueTypeOK, OfLoop, Operations

LEMMA NextPassInv == PassInv /\ [DueNext]_duevars => PassInv'
<1> SUFFICES ASSUME PassInv, [DueNext]_duevars PROVE PassInv'
  OBVIOUS
<1> USE IdAssumption, BudgetAssumption
<1>1. CASE StartPass
  <2>1. cut' \in BOOLEAN
    BY <1>1, Zenon DEF StartPass
  <2>2. \A o \in waiting' : o > 0
    BY <1>1 DEF StartPass, PassInv, DueTypeOK, Operations
  <2>3. loop' = "creations" /\ picked' = 0 /\ cursor' = 0 /\ advanced' = 0
    BY <1>1 DEF StartPass, PassInv
  <2>4. waiting' = due' \ leased' /\ due' = due /\ leased' = leased /\ refused' = refused
    BY <1>1 DEF StartPass, environment
  <2>5. QED BY <2>1, <2>2, <2>3, <2>4 DEF PassInv, DueTypeOK, OfLoop, Operations
<1>2. CASE Select
  <2>1. picked' \in Ready /\ \A p \in Ready : picked' <= p
    BY <1>2 DEF Select, Selectable
  <2>2. waiting \cap OfLoop \subseteq Ready
    BY <1>2 DEF Select, PassInv, DueTypeOK, Ready
  <2>3. picked' # 0 /\ picked' \in OfLoop /\ picked' > cursor
    BY <2>1 DEF Ready, OfLoop
  <2>4. \A o \in waiting' \cap OfLoop : o > cursor /\ o > picked'
    BY <1>2, <2>1, <2>2 DEF Select, Ready, OfLoop
  <2>5. QED BY <1>2, <2>3, <2>4 DEF Select, PassInv, DueTypeOK, OfLoop, Operations, environment
<1>3. CASE NothingDue
  <2>1. waiting \cap OfLoop = {}
    BY <1>3, NothingSelectable DEF NothingDue, PassInv, DueTypeOK, Ready
  <2>2. QED BY <1>3, <2>1 DEF NothingDue, EndLoop, PassInv, DueTypeOK, OfLoop, Operations, environment
<1>4. CASE BudgetSpent
  BY <1>4 DEF BudgetSpent, EndLoop, PassInv, DueTypeOK, OfLoop, Operations, environment
<1>5. ASSUME NEW o \in Operations, Attempt(o) PROVE PassInv'
  <2>1. waiting \subseteq due' \ leased
    BY <1>5 DEF Attempt, PassInv, DueTypeOK, OfLoop, Operations
  <2>2. QED BY <2>1, <1>5 DEF Attempt, Passed, PassInv, DueTypeOK, OfLoop, Operations, environment
<1>6. ASSUME NEW o \in Operations, AttemptRaises(o) PROVE PassInv'
  BY <1>6 DEF AttemptRaises, EndLoop, PassInv, DueTypeOK, OfLoop, Operations, environment
<1>7. ASSUME NEW o \in Operations, AttemptBusy(o) PROVE PassInv'
  BY <1>7 DEF AttemptBusy, Passed, PassInv, DueTypeOK, OfLoop, Operations, environment
<1>8. ASSUME NEW d \in SUBSET Operations, NEW l \in SUBSET Operations,
             NEW r \in SUBSET Operations, Outside(d, l, r)
      PROVE PassInv'
  BY <1>8 DEF Outside, PassInv, DueTypeOK, OfLoop, Operations
<1>9. ASSUME NEW o \in Operations,
             BecomeDue(o) \/ TakeLease(o) \/ FreeLease(o) \/ Refuse(o) \/ Accept(o)
      PROVE PassInv'
  <2>1. due \subseteq Operations /\ leased \subseteq Operations /\ refused \subseteq Operations
    BY DEF PassInv, DueTypeOK
  <2>2. QED BY <1>8, <1>9, <2>1 DEF BecomeDue, TakeLease, FreeLease, Refuse, Accept
<1>10. CASE UNCHANGED duevars
  BY <1>10 DEF duevars, environment, PassInv, DueTypeOK, OfLoop
<1>11. QED BY <1>1, <1>2, <1>3, <1>4, <1>5, <1>6, <1>7, <1>9, <1>10 DEF DueNext, Pass

\* The inductive invariant of a pass of the recovery worker.
THEOREM PassInvariant == DueSpec => []PassInv
<1>1. QED BY DueInitPassInv, NextPassInv, PTL DEF DueSpec

\* A pass that no error and no budget cut short has selected every operation
\* that stayed due with a free lease.
THEOREM NothingMissed == DueSpec => PassMissesNothing
<1>1. ASSUME PassInv, [DueNext]_duevars
      PROVE  [loop = "deletions" /\ loop' = "idle" /\ ~cut' => waiting = {}]_duevars
  <2>1. SUFFICES ASSUME DueNext, loop = "deletions", loop' = "idle", ~cut'
                 PROVE  waiting = {}
    BY <1>1
  <2>2. NothingDue /\ ~cut
    BY <2>1 DEF DueNext, Pass, StartPass, Select, NothingDue, BudgetSpent, Attempt, AttemptRaises,
                AttemptBusy, BecomeDue, TakeLease, FreeLease, Refuse, Accept, Outside, EndLoop, Passed
  <2>3. waiting \cap Deletions = {}
    BY <1>1, <2>1, <2>2, NothingSelectable DEF NothingDue, PassInv, DueTypeOK, Ready, OfLoop
  <2>4. waiting \cap Creations = {}
    BY <1>1, <2>1, <2>2 DEF PassInv
  <2>5. QED BY <1>1, <2>3, <2>4 DEF PassInv, DueTypeOK, Operations
<1>2. QED BY <1>1, PassInvariant, PTL DEF DueSpec, PassMissesNothing

-----------------------------------------------------------------------------
(*****************************************************************************)
(* Cancellation, for any set of sessions, any kinds of fault and every plan: *)
(* what a run measures, what the grants count and what the refund is settled *)
(* on agree, however the accounting packets arrive and wherever the peer is  *)
(* deleted.                                                                  *)
(*****************************************************************************)

\* The octets all sessions moved, and what the grants have counted of them.
MovedBy    == [s \in Sids |-> session[s].moved]
CountedBy  == [s \in Sids |-> grant[s].high]
AllMoved   == SumFunctionOnSet(MovedBy, Sids)
AllCounted == SumFunctionOnSet(CountedBy, Sids)

Early   == {"idle", "look", "compare", "elsewhere", "prepare", "start"}
Ending  == {"remove", "verify", "last", "settle"}
Stopped == {"capture", "ppp", "observe", "kick", "wait", "remove"}
Late    == {"stop"} \cup Stopped \cup Ending
Pcs     == Early \cup {"block"} \cup Late
Count   == Nat \cup {None}

PlanType   == [wg: BOOLEAN, sids: SUBSET Sids, away: SUBSET Sids, events: SUBSET Faults, left: Nat, units: Nat]
PacketType == [s: Sids, type: {"Start", "Interim", "Stop"}, n: Count]
GrantType  == [state: {"none", "granted", "open", "stopped"}, high: Nat, unverified: BOOLEAN,
               regressed: BOOLEAN, restarted: BOOLEAN]
PeerType   == [here: BOOLEAN, on: BOOLEAN, moved: Nat, seen: Nat, polled: Count, rebooted: BOOLEAN]
RefundType == [state: {"none", "pending", "completed"}, started: BOOLEAN, base: [ppp: Nat, wg: Nat], final: Int]
PppType    == [blocked: BOOLEAN, unverified: BOOLEAN, seen: SUBSET Sids, final: Count, verified: BOOLEAN]
WgType     == [final: Count, counter: Count, verified: BOOLEAN]
RunType    == [pc: Pcs, kicks: Nat, shown: SUBSET Sids, measured: Count]

CTyped ==
    /\ cplan \in PlanType
    /\ session \in [Sids -> [at: {"none", "deciding", "asked", "up", "ended"}, moved: Nat]]
    /\ packets \subseteq PacketType
    /\ grant \in [Sids -> GrantType]
    /\ total \in [ppp: Nat, wg: Nat]
    /\ peer \in PeerType
    /\ refund \in RefundType
    /\ pstep \in PppType
    /\ wstep \in WgType
    /\ renewal \in {"none", "asked", "done"}
    /\ worker \in RunType
    /\ consumed \in Nat

\* What has been done of an operation bounds where its run may be, and a renewal
\* is asked for only of a service no operation has begun to take apart.
OrderKept ==
    /\ refund.state = "none" => ~refund.started /\ worker.pc # "start"
    /\ ~refund.started =>
           /\ ~pstep.blocked /\ pstep.final = None /\ wstep.final = None
           /\ worker.pc \in Early /\ refund.state # "completed"
           /\ cplan.wg => peer.here /\ peer.on
    /\ renewal # "none" => ~refund.started
    /\ worker.pc # "idle" => refund.state # "completed"
    /\ worker.pc \in Late => pstep.blocked
    /\ worker.pc \in Ending => pstep.final # None

\* A grant stands for its session, and a report says what its session moved when it was sent.
GrantsFollow ==
    \A s \in Sids :
        /\ grant[s].state = "none" <=> session[s].at \in {"none", "deciding"}
        /\ session[s].at \in {"none", "deciding"} => session[s].moved = 0
        /\ grant[s].high <= session[s].moved
        /\ grant[s].state = "stopped" => session[s].at = "ended" /\ grant[s].high = session[s].moved
        /\ pstep.blocked => session[s].at # "deciding"
ReportsTell ==
    \A p \in packets :
        /\ session[p.s].at \in {"up", "ended"} /\ p.n <= session[p.s].moved
        /\ p.type = "Stop" => session[p.s].at = "ended" /\ p.n \in {None, session[p.s].moved}

\* What is counted is what the grants say; once captured it does not change.
CountsAdd ==
    /\ total.ppp = AllCounted
    /\ pstep.final # None => /\ pstep.blocked /\ total.ppp = pstep.final
                             /\ \A s \in Sids : session[s].at \in {"none", "ended"} /\ grant[s].state \in {"none", "stopped"}

\* The peer's part of what was consumed.
Gain == IF peer.polled = None THEN 0 ELSE Gained
PeerCounts ==
    /\ ~cplan.wg => ~peer.here /\ peer.moved = 0
    /\ ~cplan.wg \/ ~peer.rebooted => consumed = AllMoved + peer.moved
    /\ ~peer.rebooted => /\ total.wg = peer.seen /\ peer.seen <= peer.moved
                         /\ peer.polled # None => peer.seen <= peer.polled /\ peer.polled <= peer.moved
CaptureHolds ==
    /\ wstep.final # None =>
           /\ cplan.wg /\ ~peer.on /\ wstep.counter # None
           /\ peer.here /\ ~peer.rebooted => wstep.final = peer.moved /\ wstep.counter = peer.moved
    /\ cplan.wg /\ ~peer.here => wstep.final # None /\ consumed = AllMoved + wstep.final
RunMeasures ==
    /\ worker.pc = "capture" => peer.here
    /\ worker.pc \in Ending \ {"remove"} => ~peer.here
    /\ worker.pc \in Stopped /\ peer.here =>
           /\ ~peer.on /\ worker.measured # None /\ consumed = AllMoved + worker.measured
           /\ peer.moved = IF peer.rebooted THEN 0 ELSE worker.measured
           /\ total.wg <= worker.measured /\ total.wg + Gain <= worker.measured
           /\ worker.pc # "capture" => wstep.final # None
           /\ wstep.final # None => wstep.final = worker.measured \/ (peer.rebooted /\ worker.measured > 0)

SettledWhole ==
    refund.state = "completed" => pstep.final # None /\ ~peer.here /\ refund.final = consumed

CancelIInv == /\ CTyped /\ OrderKept /\ GrantsFollow /\ ReportsTell /\ CountsAdd
              /\ PeerCounts /\ CaptureHolds /\ RunMeasures /\ SettledWhole

-----------------------------------------------------------------------------
(* Types *)

LEMMA RunGoes ==
    ASSUME CTyped, NEW c \in Pcs, GoesTo(c)
    PROVE  /\ worker' \in RunType /\ worker'.pc = c /\ worker'.measured = worker.measured
BY DEF CTyped, RunType, GoesTo

LEMMA RunRefused ==
    ASSUME Refused
    PROVE  worker' \in RunType /\ worker'.pc = "idle"
BY DEF Refused, RunType, Pcs, Early, Count, None

LEMMA PlanSpent ==
    ASSUME CTyped, cplan' = Spent, cplan.left > 0
    PROVE  cplan' \in PlanType /\ cplan'.wg = cplan.wg
BY DEF CTyped, PlanType, Spent

LEMMA SessionsEnded ==
    ASSUME CTyped, NEW S \in SUBSET Sids, \A s \in S : session[s].at = "up", session' = Ended(S)
    PROVE  /\ session' \in [Sids -> [at: {"none", "deciding", "asked", "up", "ended"}, moved: Nat]]
           /\ \A s \in Sids : /\ session'[s].moved = session[s].moved
                              /\ session'[s].at = IF s \in S THEN "ended" ELSE session[s].at
BY DEF CTyped, Ended

LEMMA ShownAreUp ==
    Shown \in SUBSET Sids /\ \A s \in Shown : session[s].at = "up"
BY DEF Shown, Home

LEMMA StopsTyped ==
    ASSUME CTyped, NEW S \in SUBSET Sids
    PROVE  /\ Stops(S) \subseteq PacketType
           /\ \A p \in Stops(S) : p.type = "Stop" /\ p.s \in S /\ p.n = session[p.s].moved
BY DEF CTyped, Stops, PacketType, Count

LEMMA GrantAccounted ==
    ASSUME NEW g \in GrantType, NEW p \in PacketType, g.state \in {"granted", "open"}
    PROVE  /\ Accounted(g, p) \in GrantType
           /\ ProvesNothing(g, p) => Accounted(g, p).state = g.state /\ Accounted(g, p).high = g.high
           /\ ~ProvesNothing(g, p) => /\ Accounted(g, p).state = IF p.type = "Stop" THEN "stopped" ELSE "open"
                                      /\ Accounted(g, p).high = IF p.n > g.high THEN p.n ELSE g.high
                                      /\ Accounted(g, p).high = g.high + Growth(g, p)
                                      /\ Growth(g, p) \in Nat
<1>1. /\ g.high \in Nat /\ p.n \in Int /\ p.type \in {"Start", "Interim", "Stop"}
      /\ g.unverified \in BOOLEAN /\ g.regressed \in BOOLEAN /\ g.restarted \in BOOLEAN
  BY DEF GrantType, PacketType, Count, None
<1>2. CASE ProvesNothing(g, p)
  <2>1. Accounted(g, p) = [g EXCEPT !.unverified = TRUE]
    BY <1>2 DEF Accounted
  <2> QED
    BY <1>2, <2>1 DEF GrantType
<1>3. CASE ~ProvesNothing(g, p)
  <2> DEFINE a == Accounted(g, p)
  <2>1. /\ a.state = (IF p.type = "Stop" THEN "stopped" ELSE "open")
        /\ a.high = IF p.n > g.high THEN p.n ELSE g.high
        /\ a = [state |-> a.state, high |-> a.high, unverified |-> a.unverified,
                regressed |-> a.regressed, restarted |-> a.restarted]
        /\ a.unverified = (g.unverified /\ p.type # "Stop")
        /\ a.regressed = (g.regressed \/ (p.type = "Interim" /\ p.n < g.high))
        /\ a.restarted = (g.restarted /\ p.n <= g.high)
    BY <1>3 DEF Accounted
  <2>2. a.high \in Nat /\ a.high = g.high + Growth(g, p) /\ Growth(g, p) \in Nat
    BY <1>1, <2>1 DEF Growth
  <2>3. a \in GrantType
    <3>1. a.unverified \in BOOLEAN /\ a.regressed \in BOOLEAN /\ a.restarted \in BOOLEAN
      BY <1>1, <2>1, Zenon
    <3>2. a.state \in {"none", "granted", "open", "stopped"}
      BY <2>1
    <3> HIDE DEF a
    <3> QED
      BY <2>1, <2>2, <3>1, <3>2 DEF GrantType
  <2> QED
    BY <1>3, <2>1, <2>2, <2>3
<1> QED
  BY <1>2, <1>3

\* A run's step that changes nothing but where it is.
Looks == BeginRun \/ Look \/ Compare \/ Elsewhere \/ BlockTimesOut \/ ReadPpp \/ RecheckPpp \/ WaitsInVain

LEMMA LooksOn ==
    ASSUME CTyped, Looks
    PROVE  /\ Stays /\ worker' \in RunType
           /\ \/ worker'.pc = "idle"
              \/ worker'.pc \in {"look", "compare", "elsewhere", "prepare"} /\ refund.state # "completed"
              \/ worker'.pc \in {"compare", "elsewhere", "prepare"} /\ worker.pc \in Early \ {"idle"}
              \/ /\ worker.pc = "ppp" /\ worker'.measured = worker.measured
                 /\ worker'.pc \in {"observe", "wait"} \/ (worker'.pc = "remove" /\ pstep.final # None)
<1>1. Stays
  BY DEF Looks, BeginRun, Look, Compare, Elsewhere, BlockTimesOut, ReadPpp, RecheckPpp, WaitsInVain
<1>2. CASE BeginRun
  BY <1>1, <1>2 DEF BeginRun, RunType, Pcs, Early, Count, None
<1>3. CASE Look
  <2>1. worker' = [worker EXCEPT !.pc = "compare", !.shown = Shown] \/ Refused
    BY <1>3 DEF Look
  <2>2. worker.pc = "look"
    BY <1>3 DEF Look, At
  <2>3. worker' = [worker EXCEPT !.pc = "compare", !.shown = Shown] =>
            worker' \in RunType /\ worker'.pc = "compare"
    BY ShownAreUp DEF CTyped, RunType, Pcs, Early
  <2> QED
    BY <1>1, <2>1, <2>2, <2>3, RunRefused DEF Early
<1>4. CASE Compare
  <2>1. (GoesTo("elsewhere") \/ Refused) /\ worker.pc = "compare"
    BY <1>4 DEF Compare, At
  <2> QED
    BY <1>1, <2>1, RunGoes, RunRefused DEF Early, Pcs
<1>5. CASE Elsewhere
  <2>1. (GoesTo("prepare") \/ Refused) /\ worker.pc = "elsewhere"
    BY <1>5 DEF Elsewhere, At
  <2> QED
    BY <1>1, <2>1, RunGoes, RunRefused DEF Early, Pcs
<1>6. CASE BlockTimesOut \/ WaitsInVain
  BY <1>1, <1>6, RunRefused DEF BlockTimesOut, WaitsInVain
<1>7. CASE ReadPpp
  <2>1. /\ worker.pc = "ppp"
        /\ GoesTo("wait") \/ Refused \/ worker' = [worker EXCEPT !.pc = "observe", !.shown = Shown]
    BY <1>7 DEF ReadPpp, At
  <2>2. worker' = [worker EXCEPT !.pc = "observe", !.shown = Shown] =>
            worker' \in RunType /\ worker'.pc = "observe" /\ worker'.measured = worker.measured
    BY ShownAreUp DEF CTyped, RunType, Pcs, Late, Stopped
  <2>3. "wait" \in Pcs
    BY DEF Pcs, Late, Stopped
  <2> QED
    BY <1>1, <2>1, <2>2, <2>3, RunGoes, RunRefused
<1>8. CASE RecheckPpp
  <2>1. worker.pc = "ppp" /\ pstep.final # None /\ (GoesTo("remove") \/ Refused)
    BY <1>8 DEF RecheckPpp, At
  <2>2. "remove" \in Pcs
    BY DEF Pcs, Late, Stopped
  <2> QED
    BY <1>1, <2>1, <2>2, RunGoes, RunRefused
<1> QED
  BY <1>2, <1>3, <1>4, <1>5, <1>6, <1>7, <1>8 DEF Looks

\* Steps of the run that write what it has done.
LEMMA OperationTyped ==
    ASSUME CTyped, Prepare \/ StartMutation \/ BlockPpp \/ WgCapture \/ Observe \/ CapturePpp
                                    \/ WgVerify \/ LastLook \/ Settle
    PROVE  refund' \in RefundType /\ pstep' \in PppType /\ wstep' \in WgType /\ worker' \in RunType
<1> USE DEF At
<1>0. /\ refund \in RefundType /\ pstep \in PppType /\ wstep \in WgType /\ worker \in RunType
      /\ total \in [ppp: Nat, wg: Nat] /\ peer \in PeerType /\ cplan \in PlanType
  BY DEF CTyped
<1>1. \A c \in {"start", "block", "stop", "ppp", "kick", "remove", "last", "settle"} : GoesTo(c) => worker' \in RunType
  <2>1. {"start", "block", "stop", "ppp", "kick", "remove", "last", "settle"} \subseteq Pcs
    BY DEF Pcs, Early, Late, Stopped, Ending
  <2> QED
    BY <2>1, RunGoes
<1>2. CASE Prepare
  <2>1. UNCHANGED <<pstep, wstep>> /\ (Refused \/ GoesTo("start"))
    BY <1>2 DEF Prepare
  <2>2. refund' = refund \/ refund' = [refund EXCEPT !.state = "pending", !.base = total]
    BY <1>2 DEF Prepare
  <2>3. refund' \in RefundType
    BY <1>0, <2>2 DEF RefundType
  <2> QED
    BY <1>0, <1>1, <2>1, <2>3, RunRefused
<1>3. CASE StartMutation
  <2>1. UNCHANGED <<pstep, wstep>> /\ (Refused \/ GoesTo("block"))
    BY <1>3 DEF StartMutation
  <2>2. refund' = refund \/ refund' = [refund EXCEPT !.started = TRUE]
    BY <1>3 DEF StartMutation
  <2>3. refund' \in RefundType
    BY <1>0, <2>2 DEF RefundType
  <2> QED
    BY <1>0, <1>1, <2>1, <2>3, RunRefused
<1>4. CASE BlockPpp
  <2>1. UNCHANGED <<refund, wstep>> /\ GoesTo("stop") /\ pstep' = [pstep EXCEPT !.blocked = TRUE]
    BY <1>4 DEF BlockPpp
  <2> QED
    BY <1>0, <1>1, <2>1 DEF PppType
<1>5. CASE WgCapture
  <2>1. UNCHANGED <<refund, pstep>> /\ (Refused \/ GoesTo("ppp"))
    BY <1>5 DEF WgCapture
  <2>2. \/ wstep' = wstep
        \/ /\ worker.measured >= peer.seen
           /\ wstep' = [wstep EXCEPT !.final = total.wg + worker.measured - peer.seen, !.counter = worker.measured]
    BY <1>0, <1>5 DEF WgCapture, PeerType, RunType, Count, None
  <2>3. wstep' \in WgType
    <3>1. worker.measured >= peer.seen => total.wg + worker.measured - peer.seen \in Nat
      BY <1>0 DEF PeerType, RunType, Count, None
    <3> QED
      BY <1>0, <2>2, <3>1 DEF WgType, Count, RunType
  <2> QED
    BY <1>0, <1>1, <2>1, <2>3, RunRefused
<1>6. CASE Observe
  <2>1. UNCHANGED <<refund, wstep>> /\ GoesTo("kick") /\ pstep' = [pstep EXCEPT !.seen = pstep.seen \cup worker.shown]
    BY <1>6 DEF Observe
  <2> QED
    BY <1>0, <1>1, <2>1 DEF PppType, RunType
<1>7. CASE CapturePpp
  <2>1. UNCHANGED <<refund, wstep>> /\ GoesTo("remove") /\ pstep' = [pstep EXCEPT !.final = total.ppp]
    BY <1>7 DEF CapturePpp
  <2> QED
    BY <1>0, <1>1, <2>1 DEF PppType, Count
<1>8. CASE WgVerify
  <2>1. UNCHANGED <<refund, pstep>> /\ GoesTo("last") /\ wstep' = [wstep EXCEPT !.verified = cplan.wg]
    BY <1>8 DEF WgVerify
  <2> QED
    BY <1>0, <1>1, <2>1 DEF WgType, PlanType
<1>9. CASE LastLook
  <2>1. UNCHANGED <<refund, wstep>> /\ (Refused \/ GoesTo("settle")) /\ (pstep' = pstep \/ pstep' = [pstep EXCEPT !.verified = TRUE])
    BY <1>9 DEF LastLook
  <2>2. pstep' \in PppType
    BY <1>0, <2>1 DEF PppType
  <2> QED
    BY <1>0, <1>1, <2>1, <2>2, RunRefused
<1>10. CASE Settle
  <2>1. UNCHANGED <<pstep, wstep>> /\ Refused
    BY <1>10 DEF Settle
  <2>2. refund' \in RefundType
    <3> DEFINE proven == refund.base.ppp + refund.base.wg + (Final.ppp - refund.base.ppp) + (Final.wg - refund.base.wg)
    <3>1. Final.ppp \in Int /\ Final.wg \in Int /\ Used \in Int /\ refund.base.ppp \in Nat /\ refund.base.wg \in Nat
      BY <1>0 DEF Final, Used, PppType, WgType, Count, None, RefundType
    <3>2. refund' = refund \/ refund' = [refund EXCEPT !.state = "completed", !.final = IF Used > proven THEN Used ELSE proven]
      BY <1>10 DEF Settle
    <3>3. (IF Used > proven THEN Used ELSE proven) \in Int
      BY <3>1
    <3> HIDE DEF proven
    <3> QED
      BY <1>0, <3>2, <3>3 DEF RefundType
  <2> QED
    BY <1>0, <2>1, <2>2, RunRefused
<1> QED
  BY <1>2, <1>3, <1>4, <1>5, <1>6, <1>7, <1>8, <1>9, <1>10

\* What a poll gains is counted.
LEMMA GainCounted ==
    ASSUME CTyped
    PROVE  peer.polled # None => peer.polled \in Nat /\ Gained \in Nat
BY DEF CTyped, PeerType, Count, None, Gained

\* The peer's steps, and those of the run that touch the peer or the router.
LEMMA PeerTyped ==
    ASSUME CTyped,
           PeerMoves \/ Reboot \/ PollReads \/ PollPeer \/ WgStop \/ WgRemove \/ Kick
    PROVE  peer' \in PeerType /\ total' \in [ppp: Nat, wg: Nat] /\ worker' \in RunType
<1>0. /\ peer \in PeerType /\ total \in [ppp: Nat, wg: Nat] /\ worker \in RunType /\ wstep \in WgType
  BY DEF CTyped
<1>1. CASE PeerMoves
  BY <1>0, <1>1 DEF PeerMoves, PeerType
<1>2. CASE Reboot
  BY <1>0, <1>2 DEF Reboot, PeerType
<1>3. CASE PollReads
  BY <1>0, <1>3 DEF PollReads, PeerType, Count
<1>4. CASE PollPeer
  <2>1. /\ peer.polled # None /\ UNCHANGED worker
        /\ total' = [total EXCEPT !.wg = total.wg + Gained]
        /\ peer' = [peer EXCEPT !.seen = peer.polled, !.polled = None]
    BY <1>4 DEF PollPeer
  <2>2. peer.polled \in Nat /\ Gained \in Nat
    BY <2>1, GainCounted
  <2>3. peer' \in PeerType
    BY <1>0, <2>1, <2>2 DEF PeerType, Count
  <2>4. total' \in [ppp: Nat, wg: Nat]
    BY <1>0, <2>1, <2>2
  <2> QED
    BY <1>0, <2>1, <2>3, <2>4
<1>5. CASE WgStop
  <2>1. UNCHANGED total /\ (peer' = peer \/ peer' = [peer EXCEPT !.on = FALSE])
    BY <1>5 DEF WgStop
  <2>2. \/ GoesTo("ppp") \/ Refused
        \/ worker' = [worker EXCEPT !.pc = IF peer.here THEN "capture" ELSE "ppp",
                                    !.measured = IF peer.here THEN peer.moved ELSE wstep.counter]
    BY <1>5 DEF WgStop
  <2>3. {"ppp", "capture"} \subseteq Pcs
    BY DEF Pcs, Late, Stopped
  <2>4. worker' \in RunType
    BY <1>0, <2>2, <2>3, RunGoes, RunRefused DEF RunType, WgType, PeerType, Count
  <2> QED
    BY <1>0, <2>1, <2>4 DEF PeerType
<1>6. CASE WgRemove
  <2>1. UNCHANGED total /\ (peer' = peer \/ peer' = [peer EXCEPT !.here = FALSE])
    BY <1>6 DEF WgRemove
  <2>2. (GoesTo("verify") \/ Refused) /\ "verify" \in Pcs
    BY <1>6 DEF WgRemove, Pcs, Late, Ending
  <2> QED
    BY <1>0, <2>1, <2>2, RunGoes, RunRefused DEF PeerType
<1>7. CASE Kick
  <2>1. UNCHANGED <<total, peer>> /\ worker' = [worker EXCEPT !.pc = "ppp", !.kicks = worker.kicks + 1]
    BY <1>7 DEF Kick
  <2>2. worker.kicks + 1 \in Nat /\ "ppp" \in Pcs
    BY <1>0 DEF RunType, Pcs, Late, Stopped
  <2>3. worker' \in RunType
    BY <1>0, <2>1, <2>2 DEF RunType
  <2> QED
    BY <1>0, <2>1, <2>3
<1> QED
  BY <1>1, <1>2, <1>3, <1>4, <1>5, <1>6, <1>7

\* What the sessions and their reports become.
Sends == (\E s \in Sids : ComesUp(s) \/ HangsUp(s) \/ Interim(s)) \/ (\E p \in packets : Mangled(p)) \/ Reboot \/ Kick

LEMMA SendsReports ==
    ASSUME CTyped, Sends
    PROVE  /\ session' \in [Sids -> [at: {"none", "deciding", "asked", "up", "ended"}, moved: Nat]]
           /\ \A s \in Sids : /\ session'[s].moved = session[s].moved
                              /\ \/ session'[s].at = session[s].at
                                 \/ session[s].at = "asked" /\ session'[s].at = "up"
                                 \/ session[s].at = "up" /\ session'[s].at = "ended"
           /\ packets' \subseteq PacketType
           /\ \A p \in packets' \ packets :
                  /\ session'[p.s].at \in {"up", "ended"} \/ \E q \in packets : q.s = p.s
                  /\ p.n <= session'[p.s].moved
                  /\ p.type = "Stop" => \/ session'[p.s].at = "ended" /\ p.n = session'[p.s].moved
                                        \/ p.n = None /\ \E q \in packets : q.s = p.s /\ q.type = "Stop"
<1>0. /\ session \in [Sids -> [at: {"none", "deciding", "asked", "up", "ended"}, moved: Nat]]
      /\ packets \subseteq PacketType
  BY DEF CTyped
<1>1. ASSUME NEW p, p \in PacketType, packets' = packets \cup {p}
      PROVE  packets' \subseteq PacketType /\ \A q \in packets' \ packets : q = p
  BY <1>0, <1>1
<1>2. ASSUME NEW s \in Sids, NEW t \in {"Start", "Interim"}, NEW n \in Count
      PROVE  LET p == [s |-> s, type |-> t, n |-> n] IN p \in PacketType /\ p.s = s /\ p.type = t /\ p.n = n
  BY DEF PacketType
<1>3. ASSUME NEW p \in packets
      PROVE  LET q == [p EXCEPT !.n = None] IN q \in PacketType /\ q.s = p.s /\ q.type = p.type /\ q.n = None
  BY <1>0 DEF PacketType, Count
<1>4. ASSUME NEW S \in SUBSET Sids, \A s \in S : session[s].at = "up", session' = Ended(S),
             packets' = packets \/ packets' = packets \cup Stops(S)
      PROVE  /\ session' \in [Sids -> [at: {"none", "deciding", "asked", "up", "ended"}, moved: Nat]]
             /\ \A s \in Sids : /\ session'[s].moved = session[s].moved
                                /\ \/ session'[s].at = session[s].at
                                   \/ session[s].at = "up" /\ session'[s].at = "ended"
             /\ packets' \subseteq PacketType
             /\ \A p \in packets' \ packets :
                    p.s \in S /\ p.type = "Stop" /\ session'[p.s].at = "ended" /\ p.n = session'[p.s].moved
  <2>1. Stops(S) \subseteq PacketType /\ \A p \in Stops(S) : p.type = "Stop" /\ p.s \in S /\ p.n = session[p.s].moved
    BY StopsTyped
  <2>2. session' \in [Sids -> [at: {"none", "deciding", "asked", "up", "ended"}, moved: Nat]]
    BY <1>4, SessionsEnded
  <2>3. \A s \in Sids : /\ session'[s].moved = session[s].moved
                        /\ session'[s].at = IF s \in S THEN "ended" ELSE session[s].at
    BY <1>4, SessionsEnded
  <2> QED
    BY <1>0, <1>4, <2>1, <2>2, <2>3
<1>5. CASE \E s \in Sids : ComesUp(s)
  <2>1. PICK s \in Sids : ComesUp(s)
    BY <1>5
  <2> DEFINE p == [s |-> s, type |-> "Start", n |-> 0]
  <2>2. /\ session' = [session EXCEPT ![s].at = "up"] /\ session[s].at = "asked" /\ packets' = packets \cup {p}
    BY <2>1 DEF ComesUp
  <2>3. p \in PacketType /\ p.s = s /\ p.type = "Start" /\ p.n = 0
    BY <1>2 DEF Count
  <2> HIDE DEF p
  <2>4. packets' \subseteq PacketType /\ \A q \in packets' \ packets : q = p
    BY <1>1, <2>2, <2>3
  <2>5. session' \in [Sids -> [at: {"none", "deciding", "asked", "up", "ended"}, moved: Nat]]
    BY <1>0, <2>2
  <2>6. \A t \in Sids : /\ session'[t].moved = session[t].moved /\ session[t].moved \in Nat
                        /\ session'[t].at = IF t = s THEN "up" ELSE session[t].at
    BY <1>0, <2>2
  <2> QED
    BY <2>2, <2>3, <2>4, <2>5, <2>6
<1>6. CASE \E s \in Sids : Interim(s)
  <2>1. PICK s \in Sids : Interim(s)
    BY <1>6
  <2> DEFINE p == [s |-> s, type |-> "Interim", n |-> session[s].moved]
  <2>2. session' = session /\ session[s].at = "up" /\ session[s].moved \in Nat /\ packets' = packets \cup {p}
    BY <1>0, <2>1 DEF Interim
  <2>3. p \in PacketType /\ p.s = s /\ p.type = "Interim" /\ p.n = session[s].moved
    BY <1>2, <2>2 DEF Count
  <2> HIDE DEF p
  <2>4. packets' \subseteq PacketType /\ \A q \in packets' \ packets : q = p
    BY <1>1, <2>2, <2>3
  <2> QED
    BY <1>0, <2>2, <2>3, <2>4
<1>7. CASE \E p \in packets : Mangled(p)
  <2>1. PICK p \in packets : Mangled(p)
    BY <1>7
  <2> DEFINE q == [p EXCEPT !.n = None]
  <2>2. session' = session /\ p \in PacketType /\ session[p.s].moved \in Nat /\ packets' = packets \cup {q}
    BY <1>0, <2>1 DEF Mangled, PacketType
  <2>3. q \in PacketType /\ q.s = p.s /\ q.type = p.type /\ q.n = None
    BY <1>3
  <2> HIDE DEF q
  <2>4. packets' \subseteq PacketType /\ \A u \in packets' \ packets : u = q
    BY <1>1, <2>2, <2>3
  <2> QED
    BY <1>0, <2>1, <2>2, <2>3, <2>4 DEF None
<1>8. CASE \E s \in Sids : HangsUp(s)
  <2>1. PICK s \in Sids : HangsUp(s)
    BY <1>8
  <2>2. {s} \in SUBSET Sids /\ (\A t \in {s} : session[t].at = "up") /\ session' = Ended({s}) /\ packets' = packets \cup Stops({s})
    BY <2>1 DEF HangsUp
  <2>3. /\ session' \in [Sids -> [at: {"none", "deciding", "asked", "up", "ended"}, moved: Nat]]
        /\ \A t \in Sids : /\ session'[t].moved = session[t].moved
                           /\ \/ session'[t].at = session[t].at
                              \/ session[t].at = "up" /\ session'[t].at = "ended"
        /\ packets' \subseteq PacketType
        /\ \A p \in packets' \ packets : p.type = "Stop" /\ session'[p.s].at = "ended" /\ p.n = session'[p.s].moved
    BY <1>4, <2>2
  <2>4. \A p \in packets' : p.n \in Int /\ p.s \in Sids
    BY <2>3 DEF PacketType, Count, None
  <2> QED
    BY <2>3, <2>4
<1>9. CASE Reboot \/ Kick
  <2>1. session' = Ended(Shown) /\ (packets' = packets \/ packets' = packets \cup Stops(Shown))
    BY <1>9 DEF Reboot, Kick
  <2>2. Shown \in SUBSET Sids /\ \A s \in Shown : session[s].at = "up"
    BY ShownAreUp
  <2> HIDE DEF Shown
  <2> QED
    BY <1>0, <1>4, <2>1, <2>2 DEF PacketType
<1> QED
  BY <1>5, <1>6, <1>7, <1>8, <1>9 DEF Sends

\* A report is accounted to the grant of its session, which has not ended.
LEMMA Delivered ==
    ASSUME CTyped, NEW p \in packets, Deliver(p)
    PROVE  /\ p \in PacketType /\ p.s \in Sids /\ grant[p.s].state \in {"granted", "open"}
           /\ grant' \in [Sids -> GrantType]
           /\ \A s \in Sids \ {p.s} : grant'[s] = grant[s]
           /\ \/ /\ ProvesNothing(grant[p.s], p) /\ total'.ppp = total.ppp
                 /\ grant'[p.s].state = grant[p.s].state /\ grant'[p.s].high = grant[p.s].high
              \/ /\ ~ProvesNothing(grant[p.s], p)
                 /\ grant'[p.s].state = IF p.type = "Stop" THEN "stopped" ELSE "open"
                 /\ grant'[p.s].high = IF p.n > grant[p.s].high THEN p.n ELSE grant[p.s].high
                 /\ total'.ppp = total.ppp + (grant'[p.s].high - grant[p.s].high)
           /\ total' \in [ppp: Nat, wg: Nat] /\ total'.wg = total.wg
<1> DEFINE g == grant[p.s]
           a == Accounted(g, p)
<1>1. p \in PacketType /\ p.s \in Sids /\ g \in GrantType /\ g.state \in {"granted", "open"}
  BY DEF CTyped, PacketType, Deliver, Unended
<1>2. /\ a \in GrantType
      /\ ProvesNothing(g, p) => a.state = g.state /\ a.high = g.high
      /\ ~ProvesNothing(g, p) => /\ a.state = IF p.type = "Stop" THEN "stopped" ELSE "open"
                                 /\ a.high = IF p.n > g.high THEN p.n ELSE g.high
                                 /\ a.high = g.high + Growth(g, p)
                                 /\ Growth(g, p) \in Nat
  BY <1>1, GrantAccounted
<1>3. /\ grant' = [grant EXCEPT ![p.s] = a]
      /\ total' = [total EXCEPT !.ppp = total.ppp + IF ProvesNothing(g, p) THEN 0 ELSE Growth(g, p)]
  BY DEF Deliver
<1>4. grant \in [Sids -> GrantType] /\ total \in [ppp: Nat, wg: Nat] /\ g.high \in Nat
  BY <1>1 DEF CTyped, GrantType
<1> HIDE DEF a
<1>5. grant' \in [Sids -> GrantType] /\ grant'[p.s] = a /\ \A s \in Sids \ {p.s} : grant'[s] = grant[s]
  BY <1>1, <1>2, <1>3, <1>4
<1>6. /\ total'.ppp = total.ppp + IF ProvesNothing(g, p) THEN 0 ELSE Growth(g, p)
      /\ total'.wg = total.wg /\ total' \in [ppp: Nat, wg: Nat]
  BY <1>2, <1>3, <1>4
<1>7. ~ProvesNothing(g, p) => total'.ppp = total.ppp + (a.high - g.high)
  BY <1>2, <1>4, <1>6
<1> QED
  BY <1>1, <1>2, <1>4, <1>5, <1>6, <1>7

\* What an answer and a restart make of the grants.
LEMMA GrantsTyped ==
    ASSUME CTyped, RestartHeard \/ \E s \in Sids : Answer(s)
    PROVE  /\ grant' \in [Sids -> GrantType]
           /\ \A s \in Sids : /\ grant'[s].high = grant[s].high
                              /\ \/ grant'[s].state = grant[s].state
                                 \/ grant'[s].state = "granted" /\ Answer(s)
<1>0. grant \in [Sids -> GrantType]
  BY DEF CTyped
<1>1. CASE RestartHeard
  <2>1. ASSUME NEW s \in Sids
        PROVE  grant'[s] \in GrantType /\ grant'[s].high = grant[s].high /\ grant'[s].state = grant[s].state
    <3>1. grant'[s] = grant[s] \/ grant'[s] = [grant[s] EXCEPT !.restarted = TRUE]
      BY <1>1 DEF RestartHeard
    <3> QED
      BY <1>0, <3>1 DEF GrantType
  <2>2. grant' = [s \in Sids |-> grant'[s]]
    BY <1>1 DEF RestartHeard
  <2> QED
    BY <2>1, <2>2
<1>2. ASSUME NEW s \in Sids, Answer(s)
      PROVE  /\ grant' \in [Sids -> GrantType]
             /\ \A t \in Sids : /\ grant'[t].high = grant[t].high
                                /\ t # s => grant'[t].state = grant[t].state
             /\ grant'[s].state = "granted"
  <2>1. grant' = [grant EXCEPT ![s] = [grant[s] EXCEPT !.state = "granted"]]
    BY <1>2 DEF Answer
  <2>2. [grant[s] EXCEPT !.state = "granted"] \in GrantType
    BY <1>0 DEF GrantType
  <2>3. [grant[s] EXCEPT !.state = "granted"].high = grant[s].high /\ [grant[s] EXCEPT !.state = "granted"].state = "granted"
    BY <1>0 DEF GrantType
  <2> QED
    BY <1>0, <2>1, <2>2, <2>3
<1> QED
  BY <1>1, <1>2

\* Types are kept: the steps by what they change.
LEMMA TypedNext ==
    ASSUME CTyped, [CancelNext]_cancelvars
    PROVE  CTyped'
<1>0. /\ cplan \in PlanType /\ packets \subseteq PacketType /\ consumed \in Nat /\ pstep \in PppType
      /\ session \in [Sids -> [at: {"none", "deciding", "asked", "up", "ended"}, moved: Nat]]
  BY DEF CTyped
<1>1. CASE Looks
  BY <1>1, LooksOn DEF CTyped, Stays, service, operation
<1>2. CASE Prepare \/ StartMutation \/ BlockPpp \/ WgCapture \/ Observe \/ CapturePpp \/ WgVerify \/ LastLook \/ Settle
  <2>1. UNCHANGED <<cplan, service, total, peer, renewal>>
    BY <1>2 DEF Prepare, StartMutation, BlockPpp, WgCapture, Observe, CapturePpp, WgVerify, LastLook, Settle
  <2> QED
    BY <1>2, <2>1, OperationTyped DEF CTyped, service
<1>3. CASE WgStop \/ WgRemove \/ PollReads \/ PollPeer
  <2>1. UNCHANGED <<cplan, service, operation, renewal>>
    BY <1>3 DEF WgStop, WgRemove, PollReads, PollPeer
  <2> QED
    BY <1>3, <2>1, PeerTyped DEF CTyped, service, operation
<1>4. CASE PeerMoves
  <2>1. UNCHANGED <<session, packets, grant, operation, renewal>>
    BY <1>4 DEF PeerMoves
  <2>2. cplan' \in PlanType /\ consumed' \in Nat
    BY <1>0, <1>4 DEF PeerMoves, PlanType
  <2> QED
    BY <1>4, <2>1, <2>2, PeerTyped DEF CTyped, operation
<1>5. CASE Reboot \/ Kick
  <2>1. UNCHANGED <<grant, operation, renewal, consumed>>
    BY <1>5 DEF Reboot, Kick
  <2>2. cplan' \in PlanType
    BY <1>0, <1>5, PlanSpent DEF Reboot, Kick, May
  <2>3. /\ session' \in [Sids -> [at: {"none", "deciding", "asked", "up", "ended"}, moved: Nat]]
        /\ packets' \subseteq PacketType
    BY <1>5, SendsReports DEF Sends
  <2> QED
    BY <1>5, <2>1, <2>2, <2>3, PeerTyped DEF CTyped, operation
<1>6. CASE (\E s \in Sids : ComesUp(s) \/ HangsUp(s) \/ Interim(s)) \/ (\E p \in packets : Mangled(p))
  <2>1. UNCHANGED <<grant, total, peer, operation, renewal, worker, consumed>>
    BY <1>6 DEF ComesUp, HangsUp, Interim, Mangled
  <2>2. cplan' \in PlanType
    BY <1>0, <1>6, PlanSpent DEF ComesUp, HangsUp, Interim, Mangled, May
  <2>3. /\ session' \in [Sids -> [at: {"none", "deciding", "asked", "up", "ended"}, moved: Nat]]
        /\ packets' \subseteq PacketType
    BY <1>6, SendsReports DEF Sends
  <2> QED
    BY <2>1, <2>2, <2>3 DEF CTyped, operation
<1>7. ASSUME NEW s \in Sids, Decide(s) \/ Answer(s) \/ Moves(s)
      PROVE  CTyped'
  <2>1. UNCHANGED <<packets, total, peer, operation, renewal, worker>>
    BY <1>7 DEF Decide, Answer, Moves
  <2>2. session' \in [Sids -> [at: {"none", "deciding", "asked", "up", "ended"}, moved: Nat]]
    BY <1>0, <1>7 DEF Decide, Answer, Moves
  <2>3. cplan' \in PlanType /\ consumed' \in Nat
    BY <1>0, <1>7 DEF Decide, Answer, Moves, PlanType
  <2>4. grant' \in [Sids -> GrantType]
    BY <1>7, GrantsTyped DEF Decide, Moves, CTyped
  <2> QED
    BY <2>1, <2>2, <2>3, <2>4 DEF CTyped, operation
<1>8. ASSUME NEW p \in packets, Deliver(p)
      PROVE  CTyped'
  <2>1. UNCHANGED <<cplan, session, packets, peer, operation, renewal, worker, consumed>>
    BY <1>8 DEF Deliver
  <2> QED
    BY <1>8, <2>1, Delivered DEF CTyped, operation
<1>9. CASE RestartHeard
  <2>1. UNCHANGED <<session, packets, total, peer, operation, renewal, worker, consumed>>
    BY <1>9 DEF RestartHeard
  <2>2. cplan' \in PlanType
    BY <1>9, PlanSpent DEF RestartHeard, May
  <2> QED
    BY <1>9, <2>1, <2>2, GrantsTyped DEF CTyped, operation
<1>10. CASE Stray
  <2>1. UNCHANGED <<service, total, peer, refund, wstep, renewal, worker>>
    BY <1>10 DEF Stray
  <2>2. cplan' \in PlanType
    BY <1>10, PlanSpent DEF Stray, May
  <2>3. pstep' \in PppType
    BY <1>0, <1>10 DEF Stray, PppType
  <2> QED
    BY <2>1, <2>2, <2>3 DEF CTyped, service
<1>11. CASE GivesUp \/ AskRenewal \/ RenewService
  <2>1. UNCHANGED <<service, total, peer, operation>>
    BY <1>11 DEF GivesUp, AskRenewal, RenewService
  <2>2. cplan' \in PlanType
    BY <1>0, <1>11, PlanSpent DEF GivesUp, AskRenewal, RenewService, May
  <2>3. worker' \in RunType /\ renewal' \in {"none", "asked", "done"}
    BY <1>11, RunRefused DEF GivesUp, AskRenewal, RenewService, CTyped
  <2> QED
    BY <2>1, <2>2, <2>3 DEF CTyped, service, operation
<1>12. CASE UNCHANGED cancelvars
  BY <1>12 DEF cancelvars, CTyped
<1> QED
  BY <1>1, <1>2, <1>3, <1>4, <1>5, <1>6, <1>7, <1>8, <1>9, <1>10, <1>11, <1>12 DEF CancelNext, Executes, Looks

-----------------------------------------------------------------------------
(* What is counted *)

LEMMA SumsTyped ==
    ASSUME CTyped
    PROVE  /\ AllMoved \in Nat /\ AllCounted \in Nat
           /\ \A s \in Sids : MovedBy[s] \in Nat /\ CountedBy[s] \in Nat
<1>1. \A s \in Sids : MovedBy[s] \in Nat /\ CountedBy[s] \in Nat
  BY DEF CTyped, MovedBy, CountedBy, GrantType
<1>2. IsFiniteSet(Sids) /\ \A s \in Sids : MovedBy[s] \in Int /\ CountedBy[s] \in Int
  BY <1>1, CancelAssumption
<1> QED
  BY <1>1, <1>2, SumOfNumbers DEF AllMoved, AllCounted

\* No more is counted than was moved, and all of it when every grant is in full.
LEMMA CountedWasMoved ==
    ASSUME CTyped
    PROVE  /\ (\A s \in Sids : grant[s].high <= session[s].moved) => AllCounted <= AllMoved
           /\ (\A s \in Sids : grant[s].high = session[s].moved) => AllCounted = AllMoved
<1>1. IsFiniteSet(Sids) /\ \A s \in Sids : MovedBy[s] \in Int /\ CountedBy[s] \in Int
  BY SumsTyped, CancelAssumption
<1>2. \A s \in Sids : MovedBy[s] = session[s].moved /\ CountedBy[s] = grant[s].high
  BY DEF MovedBy, CountedBy
<1>3. /\ (\A s \in Sids : CountedBy[s] <= MovedBy[s]) => AllCounted <= AllMoved
      /\ (\A s \in Sids : CountedBy[s] = MovedBy[s]) => AllCounted = AllMoved
  BY <1>1, SumsCompare DEF AllMoved, AllCounted
<1> QED
  BY <1>2, <1>3

LEMMA NoneMoved ==
    ASSUME \A s \in Sids : session'[s].moved = session[s].moved
    PROVE  AllMoved' = AllMoved
<1>1. MovedBy' = MovedBy
  BY DEF MovedBy
<1> QED
  BY <1>1 DEF AllMoved

LEMMA NoneCounted ==
    ASSUME \A s \in Sids : grant'[s].high = grant[s].high
    PROVE  AllCounted' = AllCounted
<1>1. CountedBy' = CountedBy
  BY DEF CountedBy
<1> QED
  BY <1>1 DEF AllCounted

LEMMA OneMoved ==
    ASSUME CTyped, CTyped', NEW s \in Sids, Moves(s)
    PROVE  AllMoved' = AllMoved + 1
<1>1. session'[s].moved = session[s].moved + 1 /\ \A t \in Sids \ {s} : session'[t] = session[t]
  BY DEF CTyped, Moves
<1>2. \A t \in Sids : MovedBy[t] \in Int /\ MovedBy'[t] \in Int
  BY DEF CTyped, MovedBy
<1>3. MovedBy'[s] = MovedBy[s] + 1 /\ \A t \in Sids \ {s} : MovedBy'[t] = MovedBy[t]
  BY <1>1 DEF MovedBy
<1>4. SumFunctionOnSet(MovedBy', Sids) = SumFunctionOnSet(MovedBy, Sids) + (MovedBy'[s] - MovedBy[s])
  BY <1>2, <1>3, CancelAssumption, SumChanges
<1>5. AllMoved' = AllMoved + (MovedBy'[s] - MovedBy[s])
  BY <1>4 DEF AllMoved
<1> QED
  BY <1>2, <1>3, <1>5, SumsTyped

LEMMA OneCounted ==
    ASSUME CTyped, CTyped', NEW s \in Sids, \A t \in Sids \ {s} : grant'[t] = grant[t]
    PROVE  AllCounted' = AllCounted + (grant'[s].high - grant[s].high)
<1>2. \A t \in Sids : CountedBy[t] \in Int /\ CountedBy'[t] \in Int
  BY DEF CTyped, CountedBy, GrantType
<1>3. CountedBy'[s] = grant'[s].high /\ CountedBy[s] = grant[s].high /\ \A t \in Sids \ {s} : CountedBy'[t] = CountedBy[t]
  BY DEF CountedBy
<1>4. SumFunctionOnSet(CountedBy', Sids) = SumFunctionOnSet(CountedBy, Sids) + (CountedBy'[s] - CountedBy[s])
  BY <1>2, <1>3, CancelAssumption, SumChanges
<1> QED
  BY <1>3, <1>4 DEF AllCounted

Accounting == GrantsFollow /\ ReportsTell /\ CountsAdd

LEMMA AccountingFrame ==
    ASSUME Accounting, UNCHANGED <<session, packets, grant>>, total'.ppp = total.ppp,
           pstep'.blocked = pstep.blocked, pstep'.final = pstep.final
    PROVE  Accounting'
<1>1. AllCounted' = AllCounted
  BY NoneCounted
<1> QED
  BY <1>1 DEF Accounting, GrantsFollow, ReportsTell, CountsAdd

\* The steps the accounting does not see.
LEMMA AccountingUnseen ==
    ASSUME CTyped, Accounting,
           \/ Looks \/ Prepare \/ StartMutation \/ WgStop \/ WgCapture \/ Observe \/ WgRemove \/ WgVerify
           \/ LastLook \/ Settle \/ GivesUp
           \/ Stray \/ PeerMoves \/ PollReads \/ PollPeer \/ AskRenewal \/ RenewService \/ UNCHANGED cancelvars
    PROVE  Accounting'
<1>0. pstep \in PppType /\ total \in [ppp: Nat, wg: Nat]
  BY DEF CTyped
<1>1. UNCHANGED <<session, packets, grant>>
  <2>1. CASE Looks
    BY <2>1, LooksOn DEF Stays, service
  <2> QED
    BY <2>1 DEF Prepare, StartMutation, WgStop, WgCapture, Observe, WgRemove, WgVerify, LastLook, Settle, GivesUp,
                Stray, PeerMoves, PollReads, PollPeer, AskRenewal, RenewService, cancelvars, service
<1>2. total'.ppp = total.ppp
  <2>1. CASE Looks
    BY <2>1, LooksOn DEF Stays
  <2>2. CASE PollPeer
    BY <1>0, <2>2 DEF PollPeer
  <2> QED
    BY <2>1, <2>2 DEF Prepare, StartMutation, WgStop, WgCapture, Observe, WgRemove, WgVerify, LastLook, Settle, GivesUp,
                Stray, PeerMoves, PollReads, AskRenewal, RenewService, cancelvars
<1>3. pstep'.blocked = pstep.blocked /\ pstep'.final = pstep.final
  <2>1. CASE Looks
    BY <2>1, LooksOn DEF Stays, operation
  <2>2. CASE Observe \/ LastLook \/ Stray
    BY <1>0, <2>2 DEF Observe, LastLook, Stray, PppType
  <2> QED
    BY <2>1, <2>2 DEF Prepare, StartMutation, WgStop, WgCapture, WgRemove, WgVerify, Settle, GivesUp,
                PeerMoves, PollReads, PollPeer, AskRenewal, RenewService, cancelvars, operation
<1> QED
  BY <1>1, <1>2, <1>3, AccountingFrame

\* A session that comes up, ends or reports: its grant has been there, and what
\* it says is what it moved.
LEMMA AccountingSends ==
    ASSUME CTyped, Accounting, Sends
    PROVE  Accounting'
<1>0. UNCHANGED <<grant, total, pstep>>
  BY DEF Sends, ComesUp, HangsUp, Interim, Mangled, Reboot, Kick, operation
<1>1. /\ \A s \in Sids : /\ session'[s].moved = session[s].moved
                         /\ \/ session'[s].at = session[s].at
                            \/ session[s].at = "asked" /\ session'[s].at = "up"
                            \/ session[s].at = "up" /\ session'[s].at = "ended"
      /\ packets' \subseteq PacketType
      /\ \A p \in packets' \ packets :
             /\ session'[p.s].at \in {"up", "ended"} \/ \E q \in packets : q.s = p.s
             /\ p.n <= session'[p.s].moved
             /\ p.type = "Stop" => \/ session'[p.s].at = "ended" /\ p.n = session'[p.s].moved
                                   \/ p.n = None /\ \E q \in packets : q.s = p.s /\ q.type = "Stop"
  BY SendsReports
<1>2. GrantsFollow'
  BY <1>0, <1>1 DEF Accounting, GrantsFollow
<1>3. ReportsTell'
  <2>1. \A p \in packets' : p.s \in Sids
    BY <1>1 DEF PacketType
  <2>2. ASSUME NEW p \in packets
        PROVE  /\ p.s \in Sids /\ session'[p.s].at \in {"up", "ended"} /\ p.n <= session'[p.s].moved
               /\ p.type = "Stop" => session'[p.s].at = "ended" /\ p.n \in {None, session'[p.s].moved}
    <3>1. p.s \in Sids
      BY DEF CTyped, PacketType
    <3> QED
      BY <1>1, <3>1 DEF Accounting, ReportsTell
  <2>3. ASSUME NEW p \in packets' \ packets
        PROVE  /\ session'[p.s].at \in {"up", "ended"} /\ p.n <= session'[p.s].moved
               /\ p.type = "Stop" => session'[p.s].at = "ended" /\ p.n \in {None, session'[p.s].moved}
    BY <1>1, <2>2
  <2> QED
    BY <2>2, <2>3 DEF ReportsTell
<1>4. CountsAdd'
  <2>1. AllCounted' = AllCounted
    BY <1>0, NoneCounted
  <2> QED
    BY <1>0, <1>1, <2>1 DEF Accounting, CountsAdd
<1> QED
  BY <1>2, <1>3, <1>4 DEF Accounting

\* A login is decided and answered: neither once the block is in place.
LEMMA AccountingLogins ==
    ASSUME CTyped, OrderKept, Accounting, NEW s \in Sids, Decide(s) \/ Answer(s)
    PROVE  Accounting'
<1>0. /\ session \in [Sids -> [at: {"none", "deciding", "asked", "up", "ended"}, moved: Nat]]
      /\ grant \in [Sids -> GrantType] /\ packets \subseteq PacketType /\ refund \in RefundType
      /\ UNCHANGED <<packets, total, pstep>>
  BY DEF CTyped, Decide, Answer, operation
<1>1. /\ \A t \in Sids : session'[t].moved = session[t].moved /\ (t # s => session'[t].at = session[t].at)
      /\ \/ Decide(s) /\ session[s].at = "none" /\ session'[s].at = "deciding"
         \/ Answer(s) /\ session[s].at = "deciding" /\ session'[s].at = "asked"
  BY <1>0 DEF Decide, Answer
<1>2. \A t \in Sids : /\ grant'[t].high = grant[t].high
                      /\ t # s => grant'[t].state = grant[t].state
                      /\ grant'[s].state = IF Answer(s) THEN "granted" ELSE grant[s].state
  <2>1. CASE Answer(s)
    BY <1>0, <2>1 DEF Answer, GrantType
  <2>2. CASE ~Answer(s)
    BY <2>2 DEF Decide
  <2> QED
    BY <2>1, <2>2
<1>3. (~pstep.blocked /\ ~Answer(s)) \/ (Answer(s) /\ session[s].at = "deciding")
  <2>1. Decide(s) => ~pstep.blocked /\ session[s].at = "none"
    BY <1>0 DEF Decide, Blocked, Pending, OrderKept, RefundType
  <2>2. Answer(s) => session[s].at = "deciding"
    BY DEF Answer
  <2> QED
    BY <2>1, <2>2
<1>4. GrantsFollow'
  BY <1>0, <1>1, <1>2, <1>3 DEF Accounting, GrantsFollow
<1>5. ReportsTell'
  <2> SUFFICES ASSUME NEW p \in packets
               PROVE  /\ session'[p.s].at \in {"up", "ended"} /\ p.n <= session'[p.s].moved
                      /\ p.type = "Stop" => session'[p.s].at = "ended" /\ p.n \in {None, session'[p.s].moved}
    BY <1>0 DEF ReportsTell
  <2>1. p.s \in Sids
    BY <1>0 DEF PacketType
  <2> QED
    BY <1>1, <2>1 DEF Accounting, ReportsTell
<1>6. CountsAdd'
  <2>1. AllCounted' = AllCounted
    BY <1>2, NoneCounted
  <2>2. pstep.final = None
    BY <1>3 DEF Accounting, CountsAdd
  <2> QED
    BY <1>0, <2>1, <2>2 DEF Accounting, CountsAdd
<1> QED
  BY <1>4, <1>5, <1>6 DEF Accounting

\* A session moves an octet: it is up, so none of its reports is a Stop.
LEMMA AccountingMoves ==
    ASSUME CTyped, Accounting, NEW s \in Sids, Moves(s)
    PROVE  Accounting'
<1>0. /\ session \in [Sids -> [at: {"none", "deciding", "asked", "up", "ended"}, moved: Nat]]
      /\ grant \in [Sids -> GrantType] /\ packets \subseteq PacketType
      /\ UNCHANGED <<packets, grant, total, pstep>>
  BY DEF CTyped, Moves, operation
<1>1. /\ \A t \in Sids : session'[t].at = session[t].at /\ session[t].moved \in Nat /\ grant[t].high \in Nat
      /\ \A t \in Sids \ {s} : session'[t].moved = session[t].moved
      /\ session'[s].moved = session[s].moved + 1 /\ session[s].at = "up"
  BY <1>0 DEF Moves, GrantType
<1>2. GrantsFollow'
  BY <1>0, <1>1 DEF Accounting, GrantsFollow
<1>3. ReportsTell'
  <2> SUFFICES ASSUME NEW p \in packets
               PROVE  /\ session'[p.s].at \in {"up", "ended"} /\ p.n <= session'[p.s].moved
                      /\ p.type = "Stop" => session'[p.s].at = "ended" /\ p.n \in {None, session'[p.s].moved}
    BY <1>0 DEF ReportsTell
  <2>1. p.s \in Sids /\ p.n \in Int
    BY <1>0 DEF PacketType, Count, None
  <2> QED
    BY <1>1, <2>1 DEF Accounting, ReportsTell
<1>4. CountsAdd'
  <2>1. AllCounted' = AllCounted
    BY <1>0, NoneCounted
  <2> QED
    BY <1>0, <1>1, <2>1 DEF Accounting, CountsAdd
<1> QED
  BY <1>2, <1>3, <1>4 DEF Accounting

\* A report is counted once, whatever came before it: by as much as it says more
\* than the grant had heard.
LEMMA AccountingDelivers ==
    ASSUME CTyped, CTyped', Accounting, NEW p \in packets, Deliver(p)
    PROVE  Accounting'
<1> DEFINE s == p.s
<1>0. UNCHANGED <<session, packets, pstep>>
  BY DEF Deliver, operation
<1>1. /\ p \in PacketType /\ s \in Sids /\ grant[s].state \in {"granted", "open"}
      /\ \A t \in Sids \ {s} : grant'[t] = grant[t]
      /\ \/ /\ ProvesNothing(grant[s], p) /\ total'.ppp = total.ppp
            /\ grant'[s].state = grant[s].state /\ grant'[s].high = grant[s].high
         \/ /\ ~ProvesNothing(grant[s], p)
            /\ grant'[s].state = IF p.type = "Stop" THEN "stopped" ELSE "open"
            /\ grant'[s].high = IF p.n > grant[s].high THEN p.n ELSE grant[s].high
            /\ total'.ppp = total.ppp + (grant'[s].high - grant[s].high)
  BY Delivered
<1>2. /\ p.n \in Int /\ grant[s].high \in Nat /\ session[s].moved \in Nat /\ p.n <= session[s].moved
      /\ p.type = "Stop" => session[s].at = "ended" /\ p.n \in {None, session[s].moved}
      /\ session[s].at \in {"up", "ended"}
  BY <1>1 DEF CTyped, PacketType, GrantType, Count, None, Accounting, ReportsTell
<1>3. pstep.final = None
  BY <1>1 DEF Accounting, CountsAdd
<1>4. /\ grant'[s].state \in {"granted", "open", "stopped"} /\ grant'[s].high <= session[s].moved
      /\ grant'[s].state = "stopped" => session[s].at = "ended" /\ grant'[s].high = session[s].moved
  <2>1. grant[s].high <= session[s].moved
    BY <1>1 DEF Accounting, GrantsFollow
  <2>2. CASE ProvesNothing(grant[s], p)
    BY <1>1, <2>1, <2>2
  <2>3. CASE ~ProvesNothing(grant[s], p)
    <3>1. p.type = "Stop" => p.n # None /\ p.n = session[s].moved
      BY <1>2, <2>3 DEF ProvesNothing
    <3> QED
      BY <1>1, <1>2, <2>1, <2>3, <3>1
  <2> QED
    BY <2>2, <2>3
<1>5. GrantsFollow'
  <2> SUFFICES ASSUME NEW t \in Sids
               PROVE  /\ grant'[t].state = "none" <=> session[t].at \in {"none", "deciding"}
                      /\ session[t].at \in {"none", "deciding"} => session[t].moved = 0
                      /\ grant'[t].high <= session[t].moved
                      /\ grant'[t].state = "stopped" => session[t].at = "ended" /\ grant'[t].high = session[t].moved
                      /\ pstep.blocked => session[t].at # "deciding"
    BY <1>0 DEF GrantsFollow
  <2>1. CASE t = s
    BY <1>1, <1>2, <1>4, <2>1 DEF Accounting, GrantsFollow
  <2>2. CASE t # s
    BY <1>1, <2>2 DEF Accounting, GrantsFollow
  <2> QED
    BY <2>1, <2>2
<1>6. CountsAdd'
  <2>1. AllCounted' = AllCounted + (grant'[s].high - grant[s].high)
    BY <1>1, OneCounted
  <2>2. AllCounted \in Nat /\ total'.ppp \in Nat /\ total.ppp \in Nat /\ grant'[s].high \in Nat
    BY <1>1, SumsTyped DEF CTyped, GrantType
  <2>3. total'.ppp = AllCounted'
    BY <1>1, <1>2, <2>1, <2>2 DEF Accounting, CountsAdd
  <2> QED
    BY <1>0, <1>3, <2>3 DEF CountsAdd
<1> QED
  BY <1>0, <1>5, <1>6 DEF Accounting, ReportsTell

\* The block waits for the decisions under way, and the capture for every grant.
LEMMA AccountingCaptures ==
    ASSUME CTyped, OrderKept, Accounting, BlockPpp \/ CapturePpp
    PROVE  Accounting'
<1>0. /\ pstep \in PppType /\ worker \in RunType /\ grant \in [Sids -> GrantType] /\ total \in [ppp: Nat, wg: Nat]
      /\ session \in [Sids -> [at: {"none", "deciding", "asked", "up", "ended"}, moved: Nat]]
      /\ UNCHANGED <<session, packets, grant, total>>
  BY DEF CTyped, BlockPpp, CapturePpp, service
<1>1. AllCounted' = AllCounted
  BY <1>0, NoneCounted
<1>2. CASE BlockPpp
  <2>1. pstep'.blocked /\ pstep'.final = pstep.final
    BY <1>0, <1>2 DEF BlockPpp, PppType
  <2>2. \A s \in Sids : session[s].at # "deciding"
    BY <1>2 DEF BlockPpp, DecisionsAnswered
  <2> QED
    BY <1>0, <1>1, <2>1, <2>2 DEF Accounting, GrantsFollow, ReportsTell, CountsAdd
<1>3. CASE CapturePpp
  <2>1. pstep.blocked
    BY <1>3 DEF CapturePpp, At, OrderKept, Late, Stopped
  <2>2. pstep'.blocked = pstep.blocked /\ pstep'.final = total.ppp
    BY <1>0, <1>3 DEF CapturePpp, PppType
  <2>3. ASSUME NEW s \in Sids
        PROVE  session[s].at \in {"none", "ended"} /\ grant[s].state \in {"none", "stopped"}
    <3>1. grant[s].state \in {"none", "stopped"}
      BY <1>0, <1>3 DEF CapturePpp, Missing, GrantType
    <3> QED
      BY <1>0, <2>1, <3>1 DEF Accounting, GrantsFollow
  <2> QED
    BY <1>0, <1>1, <2>1, <2>2, <2>3 DEF Accounting, GrantsFollow, ReportsTell, CountsAdd
<1> QED
  BY <1>2, <1>3

LEMMA AccountingNext ==
    ASSUME CTyped, CTyped', OrderKept, Accounting, [CancelNext]_cancelvars
    PROVE  Accounting'
<1>1. CASE RestartHeard
  <2>1. /\ UNCHANGED <<session, packets, total, pstep>>
        /\ \A s \in Sids : grant'[s].high = grant[s].high /\ grant'[s].state = grant[s].state
    <3>1. \A s \in Sids : grant'[s].high = grant[s].high
      BY <1>1, GrantsTyped
    <3>2. \A s \in Sids : grant'[s].state = grant[s].state
      BY <1>1 DEF RestartHeard, CTyped, GrantType
    <3> QED
      BY <1>1, <3>1, <3>2 DEF RestartHeard, operation
  <2>2. AllCounted' = AllCounted
    BY <2>1, NoneCounted
  <2> QED
    BY <2>1, <2>2 DEF Accounting, GrantsFollow, ReportsTell, CountsAdd
<1> QED
  BY <1>1, AccountingUnseen, AccountingSends, AccountingLogins, AccountingMoves, AccountingDelivers, AccountingCaptures
     DEF CancelNext, Executes, Looks, Sends

-----------------------------------------------------------------------------
(* The order of an operation *)

\* What the customer, his reports and the nodes do.
Ambient == \/ \E s \in Sids : Decide(s) \/ Answer(s) \/ ComesUp(s) \/ HangsUp(s) \/ Interim(s) \/ Moves(s)
           \/ \E p \in packets : Deliver(p) \/ Mangled(p)
           \/ RestartHeard \/ Stray \/ PeerMoves \/ Reboot \/ PollReads \/ PollPeer \/ UNCHANGED cancelvars

LEMMA AmbientOrder ==
    ASSUME CTyped, Ambient
    PROVE  /\ UNCHANGED <<refund, wstep, renewal, worker>>
           /\ pstep'.blocked = pstep.blocked /\ pstep'.final = pstep.final
           /\ cplan'.wg = cplan.wg /\ peer'.here = peer.here /\ peer'.on = peer.on
<1>0. pstep \in PppType /\ cplan \in PlanType /\ peer \in PeerType
  BY DEF CTyped
<1>1. UNCHANGED <<refund, wstep, renewal, worker>>
  BY DEF Ambient, Decide, Answer, ComesUp, HangsUp, Interim, Moves, Deliver, Mangled, RestartHeard, Stray, PeerMoves,
         Reboot, PollReads, PollPeer, cancelvars, operation
<1>2. pstep' = pstep \/ pstep' = [pstep EXCEPT !.unverified = TRUE]
  BY DEF Ambient, Decide, Answer, ComesUp, HangsUp, Interim, Moves, Deliver, Mangled, RestartHeard, Stray, PeerMoves,
         Reboot, PollReads, PollPeer, cancelvars, operation
<1>3. cplan' = cplan \/ cplan' = Spent \/ cplan' = [cplan EXCEPT !.units = cplan.units - 1]
  BY DEF Ambient, Decide, Answer, ComesUp, HangsUp, Interim, Moves, Deliver, Mangled, RestartHeard, Stray, PeerMoves,
         Reboot, PollReads, PollPeer, cancelvars
<1>4. \/ peer' = peer \/ peer' = [peer EXCEPT !.moved = peer.moved + 1]
      \/ peer' = [peer EXCEPT !.moved = 0, !.rebooted = TRUE]
      \/ peer' = [peer EXCEPT !.polled = peer.moved]
      \/ peer' = [peer EXCEPT !.seen = peer.polled, !.polled = None]
  BY DEF Ambient, Decide, Answer, ComesUp, HangsUp, Interim, Moves, Deliver, Mangled, RestartHeard, Stray, PeerMoves,
         Reboot, PollReads, PollPeer, cancelvars
<1>5. pstep'.blocked = pstep.blocked /\ pstep'.final = pstep.final
  BY <1>0, <1>2 DEF PppType
<1>6. cplan'.wg = cplan.wg
  BY <1>0, <1>3 DEF PlanType, Spent
<1>7. peer'.here = peer.here /\ peer'.on = peer.on
  BY <1>0, <1>4 DEF PeerType
<1> QED
  BY <1>1, <1>5, <1>6, <1>7

\* A renewal finds no operation begun, and an operation that is to begin finds no renewal.
LEMMA OrderRenewals ==
    ASSUME CTyped, OrderKept, AskRenewal \/ RenewService \/ StartMutation
    PROVE  OrderKept'
<1>0. refund \in RefundType /\ pstep \in PppType /\ worker \in RunType /\ cplan \in PlanType
  BY DEF CTyped
<1>1. CASE AskRenewal
  <2>1. /\ UNCHANGED <<peer, refund, pstep, wstep, worker>> /\ ~Holding /\ refund.state # "completed" /\ worker.pc = "idle"
    BY <1>1 DEF AskRenewal, operation
  <2>2. cplan'.wg = cplan.wg
    BY <1>0, <1>1 DEF AskRenewal, Spent, PlanType
  <2>3. ~refund.started
    BY <1>0, <2>1 DEF Holding, Pending, OrderKept, RefundType
  <2> QED
    BY <2>1, <2>2, <2>3 DEF OrderKept
<1>2. CASE RenewService
  <2>1. UNCHANGED <<cplan, peer, refund, pstep, wstep, worker>> /\ renewal # "none"
    BY <1>2 DEF RenewService, operation
  <2> QED
    BY <2>1 DEF OrderKept
<1>3. CASE StartMutation
  <2>1. UNCHANGED <<cplan, peer, pstep, wstep, renewal>> /\ worker.pc = "start"
    BY <1>3 DEF StartMutation, At
  <2>2. CASE Refused /\ UNCHANGED refund
    BY <2>1, <2>2, RunRefused DEF OrderKept, Early, Late, Stopped, Ending
  <2>3. CASE ~(~Entitled \/ (Held /\ ~Holding)) /\ GoesTo("block") /\ refund' = [refund EXCEPT !.started = TRUE]
    <3>1. worker'.pc = "block"
      BY <2>3, RunGoes DEF Pcs
    <3>2. refund'.state = refund.state /\ refund'.started
      BY <1>0, <2>3 DEF RefundType
    <3>3. refund.started \/ renewal = "none"
      <4>1. ASSUME ~refund.started PROVE ~Holding
        BY <4>1 DEF OrderKept, Holding
      <4> QED
        BY <2>3, <4>1 DEF Entitled, Held, CTyped
    <3> QED
      BY <1>0, <2>1, <3>1, <3>2, <3>3 DEF OrderKept, Late, Stopped, Ending, Early, RefundType
  <2> QED
    BY <1>3, <2>2, <2>3 DEF StartMutation
<1> QED
  BY <1>1, <1>2, <1>3

LEMMA OrderNext ==
    ASSUME CTyped, CTyped', OrderKept, CountsAdd, [CancelNext]_cancelvars
    PROVE  OrderKept'
<1> USE DEF At
<1>0. /\ refund \in RefundType /\ pstep \in PppType /\ wstep \in WgType /\ worker \in RunType /\ cplan \in PlanType
      /\ peer \in PeerType /\ total \in [ppp: Nat, wg: Nat]
  BY DEF CTyped
<1>1. CASE Ambient
  BY <1>1, AmbientOrder DEF OrderKept
<1>2. CASE AskRenewal \/ RenewService \/ StartMutation
  BY <1>2, OrderRenewals
<1>3. CASE Looks
  <2>1. UNCHANGED <<cplan, peer, refund, pstep, wstep, renewal>>
    BY <1>3, LooksOn DEF Stays, operation
  <2>2. \/ worker'.pc = "idle"
        \/ worker'.pc \in {"look", "compare", "elsewhere", "prepare"} /\ refund.state # "completed"
        \/ worker'.pc \in {"compare", "elsewhere", "prepare"} /\ worker.pc \in Early \ {"idle"}
        \/ worker.pc = "ppp" /\ worker'.pc \in {"observe", "wait"}
        \/ worker.pc = "ppp" /\ worker'.pc = "remove" /\ pstep.final # None
    BY <1>3, LooksOn
  <2> QED
    BY <2>1, <2>2 DEF OrderKept, Early, Late, Stopped, Ending
<1>4. CASE GivesUp
  <2>1. UNCHANGED <<peer, refund, pstep, wstep, renewal>> /\ worker'.pc = "idle" /\ cplan'.wg = cplan.wg
    BY <1>0, <1>4, RunRefused DEF GivesUp, operation, Spent, PlanType
  <2> QED
    BY <2>1 DEF OrderKept, Early, Late, Stopped, Ending
<1>5. CASE Prepare
  <2>1. UNCHANGED <<cplan, peer, pstep, wstep, renewal>> /\ worker.pc = "prepare"
    BY <1>5 DEF Prepare
  <2>2. CASE Refused /\ UNCHANGED refund
    BY <2>1, <2>2, RunRefused DEF OrderKept, Early, Late, Stopped, Ending
  <2>3. CASE GoesTo("start") /\ refund' = IF Pending THEN refund ELSE [refund EXCEPT !.state = "pending", !.base = total]
    <3>1. worker'.pc = "start"
      BY <2>3, RunGoes DEF Pcs, Early
    <3>2. refund'.state = "pending" /\ refund'.started = refund.started
      BY <1>0, <2>3 DEF RefundType, Pending
    <3> QED
      BY <1>0, <2>1, <3>1, <3>2 DEF OrderKept, Late, Stopped, Ending, Early
  <2> QED
    BY <1>5, <2>2, <2>3 DEF Prepare
<1>6. CASE BlockPpp
  <2>1. UNCHANGED <<cplan, peer, refund, wstep, renewal>> /\ worker.pc = "block"
    BY <1>6 DEF BlockPpp
  <2>2. worker'.pc = "stop" /\ pstep'.blocked /\ pstep'.final = pstep.final
    BY <1>0, <1>6, RunGoes DEF BlockPpp, PppType, Pcs, Late
  <2> QED
    BY <2>1, <2>2 DEF OrderKept, Late, Stopped, Ending, Early
<1>7. CASE WgStop \/ WgCapture \/ Observe \/ Kick \/ CapturePpp \/ WgRemove \/ WgVerify \/ LastLook
  <2>1. UNCHANGED <<cplan, refund, renewal>> /\ worker.pc \in Late
    BY <1>7 DEF WgStop, WgCapture, Observe, Kick, CapturePpp, WgRemove, WgVerify, LastLook, Late, Stopped, Ending, operation
  <2>2. refund.started /\ pstep.blocked /\ refund.state # "completed" /\ refund.state # "none"
    BY <2>1 DEF OrderKept, Late, Stopped, Ending, Early
  <2>3. pstep'.blocked
    BY <1>0, <1>7, <2>2 DEF WgStop, WgCapture, Observe, Kick, CapturePpp, WgRemove, WgVerify, LastLook, operation, PppType
  <2>4. worker'.pc \in Ending => pstep'.final # None
    <3>1. CASE WgStop \/ WgCapture \/ Observe \/ Kick
      <4>1. /\ \/ Refused \/ GoesTo("ppp") \/ GoesTo("kick")
               \/ worker' = [worker EXCEPT !.pc = IF peer.here THEN "capture" ELSE "ppp",
                                           !.measured = IF peer.here THEN peer.moved ELSE wstep.counter]
               \/ worker' = [worker EXCEPT !.pc = "ppp", !.kicks = worker.kicks + 1]
        BY <3>1 DEF WgStop, WgCapture, Observe, Kick
      <4>2. worker'.pc \in {"idle", "ppp", "kick", "capture"}
        BY <1>0, <4>1, RunRefused DEF RunType, GoesTo
      <4> QED
        BY <4>2 DEF Ending
    <3>2. CASE CapturePpp
      <4>1. pstep'.final = total.ppp
        BY <1>0, <3>2 DEF CapturePpp, PppType
      <4> QED
        BY <1>0, <4>1 DEF None
    <3>3. CASE WgRemove \/ WgVerify \/ LastLook
      <4>1. pstep'.final = pstep.final /\ worker.pc \in Ending
        BY <1>0, <3>3 DEF WgRemove, WgVerify, LastLook, operation, PppType, Ending
      <4> QED
        BY <4>1 DEF OrderKept
    <3> QED
      BY <1>7, <3>1, <3>2, <3>3
  <2> QED
    BY <2>1, <2>2, <2>3, <2>4 DEF OrderKept
<1>8. CASE Settle
  <2>1. UNCHANGED <<cplan, peer, pstep, wstep, renewal>> /\ worker.pc = "settle" /\ worker'.pc = "idle"
    BY <1>8, RunRefused DEF Settle
  <2>2. refund.started /\ refund'.started = refund.started /\ refund'.state # "none"
    <3>1. refund.started /\ refund.state # "none"
      BY <2>1 DEF OrderKept, Late, Ending, Stopped, Early
    <3>2. \/ refund' = refund
          \/ \E v : refund' = [refund EXCEPT !.state = "completed", !.final = v]
      BY <1>8 DEF Settle
    <3> QED
      BY <1>0, <3>1, <3>2 DEF RefundType
  <2> QED
    BY <2>1, <2>2 DEF OrderKept, Late, Stopped, Ending
<1> QED
  BY <1>1, <1>2, <1>3, <1>4, <1>5, <1>6, <1>7, <1>8 DEF CancelNext, Executes, Ambient, Looks

-----------------------------------------------------------------------------
(* The peer's part *)

Wire == PeerCounts /\ CaptureHolds /\ RunMeasures

\* Where a run may go without the peer being looked at.
GoesUnseen ==
    \/ worker'.pc \notin Stopped \cup Ending
    \/ worker'.pc = worker.pc /\ worker'.measured = worker.measured
    \/ /\ worker.pc \in Stopped \ {"capture"} /\ worker'.pc \in Stopped \ {"capture"}
       /\ worker'.measured = worker.measured
    \/ worker.pc \in Ending \ {"remove"} /\ worker'.pc \in Ending \ {"remove"}

LEMMA WireFrame ==
    ASSUME Wire, peer' = peer, cplan'.wg = cplan.wg, consumed' = consumed, AllMoved' = AllMoved,
           total'.wg = total.wg, wstep'.final = wstep.final, wstep'.counter = wstep.counter, GoesUnseen
    PROVE  Wire'
<1>1. Gain' = Gain
  BY DEF Gain, Gained
<1>2. PeerCounts' /\ CaptureHolds'
  BY DEF Wire, PeerCounts, CaptureHolds
<1>3. RunMeasures'
  <2>1. CASE worker'.pc \notin Stopped \cup Ending
    BY <2>1 DEF RunMeasures, Stopped
  <2>2. CASE worker'.pc = worker.pc /\ worker'.measured = worker.measured
    BY <1>1, <2>2 DEF Wire, RunMeasures
  <2>3. CASE /\ worker.pc \in Stopped \ {"capture"} /\ worker'.pc \in Stopped \ {"capture"}
             /\ worker'.measured = worker.measured
    BY <1>1, <2>3 DEF Wire, RunMeasures, Stopped, Ending
  <2>4. CASE worker.pc \in Ending \ {"remove"} /\ worker'.pc \in Ending \ {"remove"}
    BY <2>4 DEF Wire, RunMeasures, Stopped, Ending
  <2> QED
    BY <2>1, <2>2, <2>3, <2>4 DEF GoesUnseen
<1> QED
  BY <1>2, <1>3 DEF Wire

LEMMA WireUnseen ==
    ASSUME CTyped, Wire,
           \/ Looks \/ Prepare \/ StartMutation \/ BlockPpp \/ Observe \/ Kick \/ CapturePpp
           \/ WgVerify \/ LastLook \/ Settle \/ GivesUp
           \/ \E s \in Sids : Decide(s) \/ Answer(s) \/ ComesUp(s) \/ HangsUp(s) \/ Interim(s)
           \/ \E p \in packets : Deliver(p) \/ Mangled(p)
           \/ RestartHeard \/ Stray \/ AskRenewal \/ RenewService \/ UNCHANGED cancelvars
    PROVE  Wire'
<1> USE DEF At
<1>0. /\ cplan \in PlanType /\ total \in [ppp: Nat, wg: Nat] /\ wstep \in WgType /\ worker \in RunType
      /\ session \in [Sids -> [at: {"none", "deciding", "asked", "up", "ended"}, moved: Nat]]
  BY DEF CTyped
<1>1. UNCHANGED <<peer, consumed>>
  <2>1. CASE Looks
    BY <2>1, LooksOn DEF Stays, service
  <2> QED
    BY <2>1 DEF Prepare, StartMutation, BlockPpp, Observe, Kick, CapturePpp, WgVerify, LastLook, Settle, GivesUp, Decide,
                Answer, ComesUp, HangsUp, Interim, Deliver, Mangled, RestartHeard, Stray, AskRenewal, RenewService,
                cancelvars, service
<1>2. cplan'.wg = cplan.wg
  <2>1. CASE Looks
    BY <2>1, LooksOn DEF Stays
  <2>2. cplan' = cplan \/ cplan' = Spent \/ Looks
    BY DEF Prepare, StartMutation, BlockPpp, Observe, Kick, CapturePpp, WgVerify, LastLook, Settle, GivesUp, Decide,
           Answer, ComesUp, HangsUp, Interim, Deliver, Mangled, RestartHeard, Stray, AskRenewal, RenewService, cancelvars
  <2> QED
    BY <1>0, <2>1, <2>2 DEF PlanType, Spent
<1>3. total'.wg = total.wg
  <2>1. CASE Looks
    BY <2>1, LooksOn DEF Stays
  <2>2. CASE \E p \in packets : Deliver(p)
    BY <2>2, Delivered
  <2> QED
    BY <2>1, <2>2 DEF Prepare, StartMutation, BlockPpp, Observe, Kick, CapturePpp, WgVerify, LastLook, Settle, GivesUp,
           Decide, Answer, ComesUp, HangsUp, Interim, Mangled, RestartHeard, Stray, AskRenewal, RenewService, cancelvars
<1>4. wstep'.final = wstep.final /\ wstep'.counter = wstep.counter
  <2>1. CASE Looks
    BY <2>1, LooksOn DEF Stays, operation
  <2>2. CASE WgVerify
    BY <1>0, <2>2 DEF WgVerify, WgType
  <2> QED
    BY <2>1, <2>2 DEF Prepare, StartMutation, BlockPpp, Observe, Kick, CapturePpp, LastLook, Settle, GivesUp, Decide,
           Answer, ComesUp, HangsUp, Interim, Deliver, Mangled, RestartHeard, Stray, AskRenewal, RenewService,
           cancelvars, operation
<1>5. AllMoved' = AllMoved
  <2>1. CASE Looks
    BY <2>1, LooksOn, NoneMoved DEF Stays, service
  <2>2. CASE Sends
    BY <2>2, SendsReports, NoneMoved
  <2>3. CASE \E s \in Sids : Decide(s) \/ Answer(s)
    <3>1. \A s \in Sids : session'[s].moved = session[s].moved
      BY <1>0, <2>3 DEF Decide, Answer
    <3> QED
      BY <3>1, NoneMoved
  <2>4. CASE ~Looks /\ ~Sends /\ ~(\E s \in Sids : Decide(s) \/ Answer(s))
    <3>1. session' = session
      BY <2>4 DEF Prepare, StartMutation, BlockPpp, Observe, CapturePpp, WgVerify, LastLook, Settle, GivesUp, Sends,
             Deliver, RestartHeard, Stray, AskRenewal, RenewService, cancelvars, service
    <3> QED
      BY <3>1, NoneMoved
  <2> QED
    BY <2>1, <2>2, <2>3, <2>4
<1>6. GoesUnseen
  <2>1. CASE Looks
    BY <2>1, LooksOn DEF GoesUnseen, Early, Stopped, Ending
  <2>2. CASE Prepare \/ StartMutation \/ BlockPpp \/ Settle \/ GivesUp
    <3>1. GoesTo("start") \/ GoesTo("block") \/ GoesTo("stop") \/ Refused
      BY <2>2 DEF Prepare, StartMutation, BlockPpp, Settle, GivesUp
    <3>2. worker'.pc \in {"start", "block", "stop", "idle"}
      BY <1>0, <3>1, RunRefused DEF RunType, GoesTo
    <3> QED
      BY <3>2 DEF GoesUnseen, Stopped, Ending
  <2>3. CASE Observe \/ Kick \/ CapturePpp
    <3>1. /\ worker.pc \in {"observe", "kick", "wait"} /\ worker'.pc \in {"kick", "ppp", "remove"}
          /\ worker'.measured = worker.measured
      BY <1>0, <2>3 DEF Observe, Kick, CapturePpp, RunType, GoesTo
    <3> QED
      BY <3>1 DEF GoesUnseen, Stopped
  <2>4. CASE WgVerify \/ LastLook
    <3>1. worker.pc \in {"verify", "last"} /\ worker'.pc \in {"last", "settle", "idle"}
      BY <1>0, <2>4, RunRefused DEF WgVerify, LastLook, RunType, GoesTo
    <3> QED
      BY <3>1 DEF GoesUnseen, Stopped, Ending
  <2>5. CASE ~Looks /\ ~(Prepare \/ StartMutation \/ BlockPpp \/ Settle \/ GivesUp) /\ ~(Observe \/ Kick \/ CapturePpp)
             /\ ~(WgVerify \/ LastLook)
    BY <2>5 DEF Decide, Answer, ComesUp, HangsUp, Interim, Deliver, Mangled, RestartHeard, Stray, AskRenewal,
           RenewService, cancelvars, GoesUnseen
  <2> QED
    BY <2>1, <2>2, <2>3, <2>4, <2>5
<1> QED
  BY <1>1, <1>2, <1>3, <1>4, <1>5, <1>6, WireFrame

\* An octet moved by a session or by the peer.
LEMMA WireMoves ==
    ASSUME CTyped, CTyped', Wire, PeerMoves \/ \E s \in Sids : Moves(s)
    PROVE  Wire'
<1>0. /\ cplan \in PlanType /\ peer \in PeerType /\ worker \in RunType /\ wstep \in WgType /\ consumed \in Nat
      /\ AllMoved \in Nat /\ total \in [ppp: Nat, wg: Nat]
  BY SumsTyped DEF CTyped
<1>1. UNCHANGED <<total, wstep, worker>> /\ cplan'.wg = cplan.wg /\ consumed' = consumed + 1
  BY <1>0 DEF PeerMoves, Moves, operation, PlanType
<1>2. CASE PeerMoves
  <2>1. AllMoved' = AllMoved
    BY <1>2, NoneMoved DEF PeerMoves
  <2>2. /\ peer.here /\ peer.on /\ peer'.moved = peer.moved + 1 /\ peer'.here /\ peer'.seen = peer.seen
        /\ peer'.polled = peer.polled /\ peer'.rebooted = peer.rebooted
    BY <1>0, <1>2 DEF PeerMoves, PeerType
  <2>3. worker.pc \notin Stopped
    BY <2>2 DEF Wire, RunMeasures
  <2>4. PeerCounts'
    BY <1>0, <1>1, <2>1, <2>2 DEF Wire, PeerCounts, PeerType, Count, None
  <2>5. CaptureHolds' /\ RunMeasures'
    BY <1>1, <2>2, <2>3 DEF Wire, CaptureHolds, RunMeasures, Stopped, Ending
  <2> QED
    BY <2>4, <2>5 DEF Wire
<1>3. CASE \E s \in Sids : Moves(s)
  <2>1. AllMoved' = AllMoved + 1
    BY <1>3, OneMoved
  <2>2. peer' = peer
    BY <1>3 DEF Moves
  <2>3. PeerCounts'
    BY <1>0, <1>1, <2>1, <2>2 DEF Wire, PeerCounts, PeerType
  <2>4. CaptureHolds'
    BY <1>0, <1>1, <2>1, <2>2 DEF Wire, CaptureHolds, WgType, Count, None
  <2>5. RunMeasures'
    <3>1. Gain' = Gain
      BY <2>2 DEF Gain, Gained
    <3>2. worker.measured \in Int
      BY <1>0 DEF RunType, Count, None
    <3> QED
      BY <1>0, <1>1, <2>1, <2>2, <3>1, <3>2 DEF Wire, RunMeasures
  <2> QED
    BY <2>3, <2>4, <2>5 DEF Wire
<1> QED
  BY <1>2, <1>3

\* A poll counts what the peer moved since the last one, and after a restart
\* no more than it had moved before.
LEMMA WirePolls ==
    ASSUME CTyped, CTyped', Wire, PollReads \/ PollPeer \/ Reboot
    PROVE  Wire'
<1>0. /\ peer \in PeerType /\ total \in [ppp: Nat, wg: Nat] /\ wstep \in WgType /\ worker \in RunType /\ cplan \in PlanType
  BY DEF CTyped
<1>1. UNCHANGED <<wstep, worker, consumed>> /\ cplan'.wg = cplan.wg
  BY <1>0 DEF PollReads, PollPeer, Reboot, service, operation, PlanType, Spent
<1>2. AllMoved' = AllMoved
  <2>1. CASE Reboot
    BY <2>1, SendsReports, NoneMoved DEF Sends
  <2> QED
    BY <2>1, NoneMoved DEF PollReads, PollPeer, service
<1>3. /\ peer.moved \in Nat /\ peer.seen \in Nat /\ peer.polled \in Int /\ total.wg \in Nat /\ worker.measured \in Int
      /\ peer.polled >= -1
  BY <1>0 DEF PeerType, RunType, Count, None
<1>4. CASE PollReads
  <2>1. /\ peer'.here = peer.here /\ peer'.on = peer.on /\ peer'.moved = peer.moved /\ peer'.seen = peer.seen
        /\ peer'.rebooted = peer.rebooted /\ peer'.polled = peer.moved /\ peer.polled = None /\ total' = total
    BY <1>0, <1>4 DEF PollReads, PeerType
  <2>2. Gain' = IF peer.moved >= peer.seen THEN peer.moved - peer.seen ELSE peer.moved
    BY <1>3, <2>1 DEF Gain, Gained, None
  <2>3. PeerCounts' /\ CaptureHolds'
    BY <1>1, <1>2, <1>3, <2>1 DEF Wire, PeerCounts, CaptureHolds
  <2>4. RunMeasures'
    <3>1. ASSUME worker.pc \in Stopped, peer.here
          PROVE  total.wg + Gain' <= worker.measured
      <4>1. peer.moved = (IF peer.rebooted THEN 0 ELSE worker.measured) /\ total.wg <= worker.measured
        BY <3>1 DEF Wire, RunMeasures
      <4>2. ~peer.rebooted => total.wg = peer.seen /\ peer.seen <= peer.moved
        BY DEF Wire, PeerCounts
      <4> QED
        BY <1>3, <2>2, <4>1, <4>2
    <3> QED
      BY <1>1, <1>2, <2>1, <3>1 DEF Wire, RunMeasures
  <2> QED
    BY <2>3, <2>4 DEF Wire
<1>5. CASE PollPeer
  <2>1. /\ peer'.here = peer.here /\ peer'.on = peer.on /\ peer'.moved = peer.moved /\ peer'.seen = peer.polled
        /\ peer'.rebooted = peer.rebooted /\ peer'.polled = None /\ peer.polled # None /\ total'.wg = total.wg + Gained
    BY <1>0, <1>5 DEF PollPeer, PeerType
  <2>2. Gain' = 0 /\ Gain = Gained /\ Gained \in Nat
    BY <2>1, GainCounted DEF Gain
  <2>3. PeerCounts' /\ CaptureHolds'
    BY <1>1, <1>2, <1>3, <2>1 DEF Wire, PeerCounts, CaptureHolds, Gained
  <2>4. RunMeasures'
    BY <1>1, <1>2, <1>3, <2>1, <2>2 DEF Wire, RunMeasures
  <2> QED
    BY <2>3, <2>4 DEF Wire
<1>6. CASE Reboot
  <2>1. /\ peer'.here = peer.here /\ peer'.on = peer.on /\ peer'.moved = 0 /\ peer'.seen = peer.seen
        /\ peer'.rebooted /\ peer'.polled = peer.polled /\ total' = total
    BY <1>0, <1>6 DEF Reboot, PeerType
  <2>2. Gain' = Gain
    BY <2>1 DEF Gain, Gained
  <2>3. PeerCounts'
    BY <1>1, <1>2, <1>3, <2>1 DEF Wire, PeerCounts
  <2>4. CaptureHolds'
    BY <1>1, <1>2, <1>3, <2>1 DEF Wire, CaptureHolds
  <2>5. RunMeasures'
    <3>1. ASSUME worker.pc \in Stopped, peer.here, wstep.final # None
          PROVE  wstep.final = worker.measured \/ worker.measured > 0
      BY <3>1 DEF Wire, RunMeasures
    <3> QED
      BY <1>1, <1>2, <1>3, <2>1, <2>2, <3>1 DEF Wire, RunMeasures
  <2> QED
    BY <2>3, <2>4, <2>5 DEF Wire
<1> QED
  BY <1>4, <1>5, <1>6

\* The run stops the peer, writes its counter down and removes it: what it wrote
\* is what the peer moved.
LEMMA WireStops ==
    ASSUME CTyped, CTyped', Wire, WgStop \/ WgCapture \/ WgRemove
    PROVE  Wire'
<1> USE DEF At
<1>0. /\ peer \in PeerType /\ total \in [ppp: Nat, wg: Nat] /\ wstep \in WgType /\ worker \in RunType /\ cplan \in PlanType
  BY DEF CTyped
<1>1. UNCHANGED <<cplan, session, consumed, total>>
  BY DEF WgStop, WgCapture, WgRemove, service
<1>2. AllMoved' = AllMoved
  BY <1>1, NoneMoved
<1>3. /\ peer.moved \in Nat /\ peer.seen \in Nat /\ peer.polled \in Int /\ total.wg \in Nat /\ worker.measured \in Int
      /\ peer.polled >= -1 /\ wstep.final \in Int /\ wstep.counter \in Int
  BY <1>0 DEF PeerType, RunType, WgType, Count, None
<1>4. CASE WgStop
  <2>1. /\ peer'.here = peer.here /\ peer'.moved = peer.moved /\ peer'.seen = peer.seen
        /\ peer'.rebooted = peer.rebooted /\ peer'.polled = peer.polled /\ wstep' = wstep
        /\ peer'.on => peer.on
        /\ cplan.wg /\ peer.here => ~peer'.on
    <3>1. peer' = peer \/ peer' = [peer EXCEPT !.on = FALSE]
      BY <1>4 DEF WgStop
    <3>2. cplan.wg /\ peer.here => peer' = [peer EXCEPT !.on = FALSE]
      BY <1>4 DEF WgStop, Answers
    <3>3. wstep' = wstep
      BY <1>4 DEF WgStop, operation
    <3> QED
      BY <1>0, <3>1, <3>2, <3>3 DEF PeerType
  <2>2. Gain' = Gain
    BY <2>1 DEF Gain, Gained
  <2>3. PeerCounts' /\ CaptureHolds'
    BY <1>1, <1>2, <2>1 DEF Wire, PeerCounts, CaptureHolds
  <2>4. \/ worker'.pc = "idle"
        \/ worker'.pc = "ppp" /\ ~peer.here
        \/ /\ cplan.wg /\ peer.here /\ worker'.pc = "capture" /\ worker'.measured = peer.moved
           /\ ~peer.rebooted /\ (wstep.final # None => peer.moved = wstep.counter)
    <3>1. CASE ~cplan.wg
      <4>1. worker'.pc = "ppp"
        BY <1>4, <3>1, RunGoes DEF WgStop, Pcs, Late, Stopped
      <4> QED
        BY <3>1, <4>1 DEF Wire, PeerCounts
    <3>2. CASE cplan.wg
      <4>1. \/ Refused
            \/ /\ ~(peer.here /\ (peer.rebooted \/ (wstep.final # None /\ peer.moved # wstep.counter)))
               /\ worker' = [worker EXCEPT !.pc = IF peer.here THEN "capture" ELSE "ppp",
                                           !.measured = IF peer.here THEN peer.moved ELSE wstep.counter]
        BY <1>4, <3>2 DEF WgStop
      <4> QED
        BY <1>0, <3>2, <4>1, RunRefused DEF RunType
    <3> QED
      BY <3>1, <3>2
  <2>5. RunMeasures'
    <3>1. CASE worker'.pc = "idle"
      BY <3>1 DEF RunMeasures, Stopped, Ending
    <3>2. CASE worker'.pc = "ppp" /\ ~peer.here
      BY <2>1, <3>2 DEF RunMeasures, Stopped, Ending
    <3>3. CASE /\ cplan.wg /\ peer.here /\ worker'.pc = "capture" /\ worker'.measured = peer.moved
               /\ ~peer.rebooted /\ (wstep.final # None => peer.moved = wstep.counter)
      <4>1. /\ consumed = AllMoved + peer.moved /\ total.wg = peer.seen /\ peer.seen <= peer.moved
            /\ peer.polled # None => peer.seen <= peer.polled /\ peer.polled <= peer.moved
            /\ wstep.final # None => wstep.final = peer.moved
        BY <3>3 DEF Wire, PeerCounts, CaptureHolds
      <4>2. total.wg + Gain <= peer.moved
        BY <1>3, <4>1 DEF Gain, Gained
      <4>3. worker'.measured # None
        BY <1>3, <3>3 DEF None
      <4> QED
        BY <1>1, <1>2, <1>3, <2>1, <2>2, <3>3, <4>1, <4>2, <4>3 DEF RunMeasures, Stopped, Ending
    <3> QED
      BY <2>4, <3>1, <3>2, <3>3
  <2> QED
    BY <2>3, <2>5 DEF Wire
<1>5. CASE WgCapture
  <2>1. peer' = peer /\ worker.pc = "capture" /\ peer.here
    BY <1>5 DEF WgCapture, Wire, RunMeasures
  <2>2. Gain' = Gain
    BY <2>1 DEF Gain, Gained
  <2>3. /\ ~peer.on /\ worker.measured # None /\ consumed = AllMoved + worker.measured
        /\ peer.moved = IF peer.rebooted THEN 0 ELSE worker.measured
        /\ total.wg <= worker.measured /\ total.wg + Gain <= worker.measured
        /\ wstep.final # None => wstep.final = worker.measured \/ (peer.rebooted /\ worker.measured > 0)
    BY <2>1 DEF Wire, RunMeasures, Stopped
  <2>4. cplan.wg
    BY <2>1 DEF Wire, PeerCounts
  <2>5. CASE wstep' = wstep /\ Refused
    <3>1. worker'.pc = "idle"
      BY <2>5, RunRefused
    <3> QED
      BY <1>1, <1>2, <2>1, <2>5, <3>1 DEF Wire, PeerCounts, CaptureHolds, RunMeasures, Stopped, Ending
  <2>6. CASE wstep' = wstep /\ wstep.final # None /\ GoesTo("ppp")
    <3>1. worker'.pc = "ppp" /\ worker'.measured = worker.measured
      BY <2>6, RunGoes DEF Pcs, Late, Stopped
    <3> QED
      BY <1>1, <1>2, <2>1, <2>2, <2>3, <2>6, <3>1 DEF Wire, PeerCounts, CaptureHolds, RunMeasures, Stopped, Ending
  <2>7. CASE /\ wstep.final = None /\ worker.measured >= peer.seen /\ GoesTo("ppp")
             /\ wstep' = [wstep EXCEPT !.final = total.wg + worker.measured - peer.seen, !.counter = worker.measured]
    <3>1. worker'.pc = "ppp" /\ worker'.measured = worker.measured
      BY <2>7, RunGoes DEF Pcs, Late, Stopped
    <3>2. wstep'.final = total.wg + worker.measured - peer.seen /\ wstep'.counter = worker.measured
      BY <1>0, <2>7 DEF WgType
    <3>3. wstep'.final # None
      BY <1>3, <2>7, <3>2 DEF None
    <3>4. ~peer.rebooted => total.wg = peer.seen
      BY DEF Wire, PeerCounts
    <3>5. wstep'.final = worker.measured \/ (peer.rebooted /\ worker.measured > 0)
      BY <1>3, <2>3, <2>7, <3>2, <3>4
    <3>6. PeerCounts'
      BY <1>1, <1>2, <2>1 DEF Wire, PeerCounts
    <3>7. CaptureHolds'
      BY <1>1, <1>2, <2>1, <2>3, <2>4, <3>2, <3>3, <3>5 DEF CaptureHolds
    <3>8. RunMeasures'
      BY <1>1, <1>2, <2>1, <2>2, <2>3, <3>1, <3>3, <3>5 DEF RunMeasures, Stopped, Ending
    <3> QED
      BY <3>6, <3>7, <3>8 DEF Wire
  <2>8. \/ wstep' = wstep /\ Refused
        \/ wstep' = wstep /\ wstep.final # None /\ GoesTo("ppp")
        \/ /\ wstep.final = None /\ worker.measured >= peer.seen /\ GoesTo("ppp")
           /\ wstep' = [wstep EXCEPT !.final = total.wg + worker.measured - peer.seen, !.counter = worker.measured]
    BY <1>3, <1>5 DEF WgCapture
  <2> QED
    BY <2>5, <2>6, <2>7, <2>8
<1>6. CASE WgRemove
  <2>1. UNCHANGED wstep /\ worker.pc = "remove"
    BY <1>6 DEF WgRemove, operation
  <2>2. CASE Refused /\ peer' = peer
    <3>1. worker'.pc = "idle"
      BY <2>2, RunRefused
    <3> QED
      BY <1>1, <1>2, <2>1, <2>2, <3>1 DEF Wire, PeerCounts, CaptureHolds, RunMeasures, Stopped, Ending
  <2>3. CASE /\ ~(cplan.wg /\ peer.here /\ (peer.on \/ peer.moved # worker.measured))
             /\ GoesTo("verify") /\ peer' = [peer EXCEPT !.here = FALSE]
    <3>1. worker'.pc = "verify"
      BY <2>3, RunGoes DEF Pcs, Late, Ending
    <3>2. /\ ~peer'.here /\ peer'.on = peer.on /\ peer'.moved = peer.moved /\ peer'.seen = peer.seen
          /\ peer'.rebooted = peer.rebooted /\ peer'.polled = peer.polled
      BY <1>0, <2>3 DEF PeerType
    <3>3. PeerCounts'
      BY <1>1, <1>2, <3>2 DEF Wire, PeerCounts
    <3>4. cplan.wg => wstep.final # None /\ consumed = AllMoved + wstep.final
      <4>1. CASE ~peer.here
        BY <4>1 DEF Wire, CaptureHolds
      <4>2. CASE peer.here /\ cplan.wg
        <5>1. /\ consumed = AllMoved + worker.measured /\ wstep.final # None
              /\ peer.moved = IF peer.rebooted THEN 0 ELSE worker.measured
              /\ wstep.final = worker.measured \/ (peer.rebooted /\ worker.measured > 0)
          BY <2>1, <4>2 DEF Wire, RunMeasures, Stopped
        <5> QED
          BY <1>3, <2>3, <4>2, <5>1
      <4> QED
        BY <4>1, <4>2
    <3>5. CaptureHolds'
      BY <1>1, <1>2, <2>1, <3>2, <3>4 DEF Wire, CaptureHolds
    <3>6. RunMeasures'
      BY <3>1, <3>2 DEF RunMeasures, Stopped, Ending
    <3> QED
      BY <3>3, <3>5, <3>6 DEF Wire
  <2> QED
    BY <1>6, <2>2, <2>3 DEF WgRemove
<1> QED
  BY <1>4, <1>5, <1>6

LEMMA WireNext ==
    ASSUME CTyped, CTyped', Wire, [CancelNext]_cancelvars
    PROVE  Wire'
BY WireUnseen, WireMoves, WirePolls, WireStops DEF CancelNext, Executes, Looks

-----------------------------------------------------------------------------
(* What is settled *)

\* When a cancellation is settled, everything it refunds for has been counted:
\* the sessions by their own Stops, the peer by the counter it stopped at.
LEMMA SettlesWhole ==
    ASSUME CTyped, OrderKept, Accounting, Wire, SettledWhole, Settle
    PROVE  SettledWhole'
<1> DEFINE proven == refund.base.ppp + refund.base.wg + (Final.ppp - refund.base.ppp) + (Final.wg - refund.base.wg)
<1>0. /\ refund \in RefundType /\ pstep \in PppType /\ wstep \in WgType /\ worker \in RunType /\ cplan \in PlanType
      /\ peer \in PeerType /\ total \in [ppp: Nat, wg: Nat]
  BY DEF CTyped
<1>1. UNCHANGED <<consumed, peer, pstep>> /\ worker.pc = "settle"
  BY DEF Settle, At, service
<1>2. refund.state # "completed" /\ pstep.final # None /\ ~peer.here
  BY <1>1 DEF OrderKept, Wire, RunMeasures, Ending
<1>3. CASE refund' = refund
  BY <1>2, <1>3 DEF SettledWhole
<1>4. CASE /\ ~(total.ppp > Final.ppp \/ total.wg > Final.wg)
           /\ refund' = [refund EXCEPT !.state = "completed", !.final = IF Used > proven THEN Used ELSE proven]
  <2>1. Final.ppp = pstep.final /\ Final.wg = (IF cplan.wg THEN wstep.final ELSE 0)
    BY DEF Final
  <2>2. /\ Final.ppp \in Int /\ Final.wg \in Int /\ refund.base.ppp \in Nat /\ refund.base.wg \in Nat
        /\ total.ppp \in Nat /\ total.wg \in Nat /\ AllMoved \in Nat /\ peer.moved \in Nat
    BY <1>0, <2>1, SumsTyped DEF PppType, WgType, Count, None, RefundType, PeerType
  <2>3. AllMoved = Final.ppp
    <3>1. \A s \in Sids : grant[s].high = session[s].moved
      <4> SUFFICES ASSUME NEW s \in Sids PROVE grant[s].high = session[s].moved
        OBVIOUS
      <4>1. /\ session[s].at \in {"none", "ended"} /\ grant[s].state \in {"none", "stopped"}
            /\ grant[s].high \in Nat /\ session[s].moved \in Nat
        BY <1>2 DEF Accounting, CountsAdd, CTyped, GrantType
      <4> QED
        BY <4>1 DEF Accounting, GrantsFollow
    <3>2. AllCounted = AllMoved
      BY <3>1, CountedWasMoved
    <3> QED
      BY <1>2, <2>1, <3>2 DEF Accounting, CountsAdd
  <2>4. consumed = AllMoved + Final.wg
    <3>1. CASE cplan.wg
      BY <1>2, <2>1, <3>1 DEF Wire, CaptureHolds
    <3>2. CASE ~cplan.wg
      BY <2>1, <2>2, <3>2 DEF Wire, PeerCounts
    <3> QED
      BY <1>0, <3>1, <3>2 DEF PlanType
  <2>5. proven = Final.ppp + Final.wg
    BY <2>2
  <2>6. ~(Used > proven)
    BY <1>4, <2>2, <2>5 DEF Used
  <2>7. refund'.final = proven
    <3> HIDE DEF proven
    <3> QED
      BY <1>0, <1>4, <2>6 DEF RefundType
  <2> QED
    BY <1>1, <1>2, <2>3, <2>4, <2>5, <2>7 DEF SettledWhole
<1> QED
  BY <1>3, <1>4 DEF Settle

LEMMA SettledNext ==
    ASSUME CTyped, CTyped', OrderKept, Accounting, Wire, SettledWhole, [CancelNext]_cancelvars
    PROVE  SettledWhole'
<1>0. refund \in RefundType
  BY DEF CTyped
<1>1. CASE Settle
  BY <1>1, SettlesWhole
<1>2. CASE refund.state = "completed" /\ ~Settle
  <2>1. worker.pc = "idle" /\ pstep.final # None /\ ~peer.here /\ refund.final = consumed
    BY <1>2 DEF OrderKept, SettledWhole
  <2>2. Ambient
    BY <1>2, <2>1 DEF CancelNext, Executes, Ambient, BeginRun, Look, Compare, Elsewhere, Prepare, StartMutation, BlockPpp,
                     BlockTimesOut, WgStop, WgCapture, ReadPpp, RecheckPpp, Observe, Kick, WaitsInVain, CapturePpp,
                     WgRemove, WgVerify, LastLook, GivesUp, AskRenewal, RenewService, At
  <2>3. UNCHANGED refund /\ pstep'.final = pstep.final /\ peer'.here = peer.here
    BY <2>2, AmbientOrder
  <2>4. \A s \in Sids : session[s].at # "up"
    BY <2>1 DEF Accounting, CountsAdd
  <2>5. consumed' = consumed
    BY <2>1, <2>2, <2>4 DEF Ambient, Decide, Answer, ComesUp, HangsUp, Interim, Moves, Deliver, Mangled, RestartHeard, Stray,
                     PeerMoves, Reboot, PollReads, PollPeer, cancelvars, service
  <2> QED
    BY <2>1, <2>3, <2>5 DEF SettledWhole
<1>3. CASE refund.state # "completed" /\ ~Settle
  <2>1. refund'.state # "completed"
    <3>1. CASE Ambient
      BY <1>3, <3>1, AmbientOrder
    <3>2. CASE Looks
      BY <1>3, <3>2, LooksOn DEF Stays, operation
    <3>3. CASE ~Ambient /\ ~Looks
      <4>1. \/ refund' = refund \/ refund' = [refund EXCEPT !.state = "pending", !.base = total]
            \/ refund' = [refund EXCEPT !.started = TRUE]
        BY <1>3, <3>3 DEF CancelNext, Executes, Ambient, Looks, Prepare, StartMutation, BlockPpp,
                     WgStop, WgCapture, Observe, Kick, CapturePpp,
                     WgRemove, WgVerify, LastLook, GivesUp, AskRenewal, RenewService, operation
      <4> QED
        BY <1>0, <1>3, <4>1 DEF RefundType
    <3> QED
      BY <3>1, <3>2, <3>3
  <2> QED
    BY <2>1 DEF SettledWhole
<1> QED
  BY <1>1, <1>2, <1>3

-----------------------------------------------------------------------------
(* Theorems *)

LEMMA CancelStarts == CancelInit => CancelIInv
<1> SUFFICES ASSUME CancelInit PROVE CancelIInv
  OBVIOUS
<1>0. cplan \in PlanType
  BY CancelAssumption DEF CancelInit, PlanType
<1>1. CTyped
  <2>1. grant \in [Sids -> GrantType] /\ session \in [Sids -> [at: {"none", "deciding", "asked", "up", "ended"}, moved: Nat]]
    BY DEF CancelInit, GrantType
  <2>2. peer \in PeerType /\ refund \in RefundType /\ total \in [ppp: Nat, wg: Nat]
    BY <1>0 DEF CancelInit, PeerType, RefundType, PlanType, Count, None
  <2>3. pstep \in PppType /\ wstep \in WgType /\ worker \in RunType
    BY DEF CancelInit, PppType, WgType, RunType, Pcs, Early, Count, None
  <2> QED
    BY <1>0, <2>1, <2>2, <2>3 DEF CTyped, CancelInit
<1>2. OrderKept
  BY <1>0 DEF CancelInit, OrderKept, Early, Late, Stopped, Ending, PlanType
<1>3. GrantsFollow /\ ReportsTell
  BY DEF CancelInit, GrantsFollow, ReportsTell
<1>4. AllCounted = 0 /\ AllMoved = 0
  <2> DEFINE zero == [s \in Sids |-> 0]
  <2>1. MovedBy = zero /\ CountedBy = zero
    BY DEF CancelInit, MovedBy, CountedBy
  <2>2. SumFunctionOnSet(zero, Sids) = 0
    <3>1. \A s \in Sids : zero[s] \in Int /\ zero[s] = 0
      OBVIOUS
    <3> HIDE DEF zero
    <3> QED
      BY <3>1, SumOfZeros, CancelAssumption
  <2> QED
    BY <2>1, <2>2 DEF AllCounted, AllMoved
<1>5. CountsAdd
  BY <1>4 DEF CancelInit, CountsAdd
<1>6. PeerCounts /\ CaptureHolds /\ RunMeasures
  BY <1>0, <1>4 DEF CancelInit, PeerCounts, CaptureHolds, RunMeasures, Stopped, Ending, PlanType, None
<1>7. SettledWhole
  BY DEF CancelInit, SettledWhole
<1> QED
  BY <1>1, <1>2, <1>3, <1>5, <1>6, <1>7 DEF CancelIInv

\* The inductive invariant of a cancellation: what its run may have done, what
\* each grant and report says of its session, what the two totals and the two
\* captures say of what was moved.
THEOREM CancellationInductive == CancelSpec => []CancelIInv
<1>1. CancelInit => CancelIInv
  BY CancelStarts
<1>2. CancelIInv /\ [CancelNext]_cancelvars => CancelIInv'
  <2> SUFFICES ASSUME CancelIInv, [CancelNext]_cancelvars PROVE CancelIInv'
    OBVIOUS
  <2>1. CTyped /\ OrderKept /\ Accounting /\ Wire /\ SettledWhole /\ CountsAdd
    BY DEF CancelIInv, Accounting, Wire
  <2>2. CTyped'
    BY <2>1, TypedNext
  <2>3. OrderKept'
    BY <2>1, <2>2, OrderNext
  <2>4. Accounting'
    BY <2>1, <2>2, AccountingNext
  <2>5. Wire'
    BY <2>1, <2>2, WireNext
  <2>6. SettledWhole'
    BY <2>1, <2>2, SettledNext
  <2> QED
    BY <2>2, <2>3, <2>4, <2>5, <2>6 DEF CancelIInv, Accounting, Wire
<1> QED
  BY <1>1, <1>2, PTL DEF CancelSpec

\* For any sessions, faults and reports in any order: what a settled refund calls
\* used is what was used, nothing of a cancelled service lives on, accounting
\* counts every octet once, and a renewed service is left whole.
THEOREM CancellationHolds == CancelSpec => []CancelInv
<1>1. CancelIInv => CancelInv
  <2> SUFFICES ASSUME CancelIInv PROVE CancelInv
    OBVIOUS
  <2>1. CTyped /\ OrderKept /\ GrantsFollow /\ CountsAdd /\ SettledWhole
    BY DEF CancelIInv
  <2>2. CancelTypeOK
    <3>1. session \in [Sids -> [at: {"none", "deciding", "asked", "up", "ended"}, moved: Nat]] /\ total \in [ppp: Nat, wg: Nat]
      BY <2>1 DEF CTyped
    <3>2. packets \subseteq [s: Sids, type: {"Start", "Interim", "Stop"}, n: Nat \cup {None}]
      BY <2>1 DEF CTyped, PacketType, Count
    <3>3. grant \in [Sids -> [state: {"none", "granted", "open", "stopped"}, high: Nat, unverified: BOOLEAN,
                              regressed: BOOLEAN, restarted: BOOLEAN]]
      BY <2>1 DEF CTyped, GrantType
    <3>4. /\ refund.state \in {"none", "pending", "completed"}
          /\ pstep.seen \subseteq Sids /\ {pstep.final, wstep.final, wstep.counter} \subseteq Nat \cup {None}
      BY <2>1 DEF CTyped, RefundType, PppType, WgType, Count
    <3> QED
      BY <3>1, <3>2, <3>3, <3>4 DEF CancelTypeOK
  <2>3. SettledForWhatWasUsed /\ NothingLivesOn
    BY <2>1 DEF SettledForWhatWasUsed, NothingLivesOn, SettledWhole, CountsAdd
  <2>4. BilledOnceHoweverDelivered
    <3>1. AllCounted <= AllMoved
      BY <2>1, CountedWasMoved DEF GrantsFollow
    <3>2. total.ppp <= SumFunctionOnSet([s \in Sids |-> session[s].moved], Sids)
      BY <2>1, <3>1 DEF CountsAdd, AllMoved, MovedBy
    <3> QED
      BY <2>1, <3>2 DEF BilledOnceHoweverDelivered, GrantsFollow
  <2>5. RenewedStaysWhole
    BY <2>1 DEF RenewedStaysWhole, OrderKept
  <2> QED
    BY <2>2, <2>3, <2>4, <2>5 DEF CancelInv
<1> QED
  BY <1>1, CancellationInductive, PTL
=============================================================================
