# usermanager: verification project

The panel sells VPN accounts on remote nodes. Its hard part is the set of durable
operations: sales, deletions, cancellations, receipt approvals and voids that hold
money, change routers over the network, and must survive dead processes, expired
leases, lost answers and administrators who change things meanwhile. This directory
holds TLA+ models of that machinery, the TLC instances that check them, and TLAPS
proofs.

| module | models | checked by | proved in |
|---|---|---|---|
| `ResourceLeases` | `resource_leases.py` | `MCRecovery` | `Recovery_proofs` |
| `FencedWrites` | what a lease promises (abstract) | refined by `ResourceLeases` | refinement proved |
| `DueRecovery` | `recover_due`, the worker that finds unfinished operations | `MCRecovery` | `Recovery_proofs` |
| `Provisioning` | the sale saga: T1, worker, dispatch, child, result, T_final, T_comp, operator | `MCProvisioning` (3 runs) | `Provisioning_proofs` |
| `AtomicSale` | what the saga promises of a sale (abstract) | refined by `Provisioning` | refinement proved |
| `Deletion` | the durable deletion of a connection, a purchase or a customer | `MCDeletion` | `Deletion_proofs` |
| `NodeGate` | the gate mode, the transport guard, the owner of the installation, the children of legacy writers | `MCNodes` | `Nodes_proofs` |
| `SafeUpdate` | the update of the panel by itself: queue, container, runner, resolution | `MCNodes` | `Nodes_proofs` |
| `WalletLots` | credit, hold, capture, release, refund, void and rebind of the lot wallet | `MCAccounts` | `Accounts_proofs` (voids and balances) |
| `WalletPosition` | what the wallet promises an identity (abstract) | refined by `WalletLots` | model-checked |
| `ResellerCredit` | what resellers hold: charges, refunds, top-ups, transfers, the billing of metered traffic | `MCAccounts` (2 runs) | `Accounts_proofs` |
| `TopupApproval` | one top-up receipt, from the bot's claim to the closed approval | `MCReceipts` | `Receipts_proofs` |
| `SaleApproval` | one sale or renewal paid by receipt: the binding of its operation to its approval | `MCReceipts` (2 runs) | `Receipts_proofs` |
| `ReceiptVoid` | the void of a receipt: claim, ordered steps, retries, operator | `MCReceipts` | `Receipts_proofs` |
| `PaymentCards` | a pool of cards: totals, rotation, event log | `MCAccounts` | `Accounts_proofs` |
| `QuotaEnforcement` | the poll cycle against logins, reports, renewals and switches | `MCService` | `Service_proofs` |
| `RenewalHistory` | queued renewals, their consumption and their void | `MCService` (2 runs) | `Service_proofs` |
| `Licensing` | the licence: check-ins with the vendor's server, the verdict, the cut and the restoration of services | `MCService` | `Service_proofs` |
| `Cancellation` | the cancellation of an unpaid service against RADIUS accounting | `MCRecovery` | `Recovery_proofs` |

Paths below are relative to `src/backend/app/services/` unless they start with `src/`.

## 1. Inventory

### Modelled, wholly or in part

**Resource leases** (`resource_leases.py`). State: one row per key with owner,
fencing epoch and deadline by the database clock. Operations: acquire, renew,
release, revalidate, take over a deployment hold, `begin_business`. Used by every
durable worker. Hard: a lease that expires between two transactions, colliding
owner strings, rollback of a grant, the instant of the deadline, a clock set back.
Correct if an epoch has one holder, a revalidated token is the newest grant until
the commit, and an unexpired lease is not stolen.

**Recovery worker** (`provisioning_durable.py`, `provisioning_due_operations.py`,
`provisioning_due_deletions.py`). State: a cursor, a budget, a selection. Called by
the scheduler (`src/backend/app/main.py`). Hard: operations become due, are leased
or end between two selections; one that raises ends the loop.

**Durable sale saga** (`provisioning_preparation.py`, `provisioning_transitions.py`,
`provisioning_operation_worker.py`, `provisioning_parent_dispatch.py`,
`provisioning_runner_results.py`, `provisioning_finalization.py`,
`provisioning_compensation.py`, `provisioning_claims.py`, `provisioning_operator.py`).
State: the operation and step rows, reservations, one-time claims. Operations:
prepare (T1), one worker iteration (reacquire, tick, dispatch, run the child,
record, release), completion (T_final), refund (T_comp), the operator's retry and
force. Hard: everything between two transactions. Correct if money, step rows and
remote resources agree at the end and no late process spoils the end.

**Remote runner and child guard** (`remote_runner*.py`, `provisioning_child_*.py`,
`gate_locks.py`). State: the process, its node lock. Operations: take the gate,
check the dispatch, read the node, authorise and send each write, verify. Called by
the saga through one request and one answer. Hard: the parent's lease is lost while
the child waits or writes; the child is killed after its request took effect.

**Payment reservations** (`payment_reservations.py`) and **wallet cutover**
(`wallet_cutover.py`), as sales see them: reserve, capture and release of the
customer wallet's and the reseller's holds, each bound to a wallet epoch, and the
change of that epoch under operations in flight.

**Durable deletion** (`provisioning_delete_preparation.py`,
`provisioning_deletion*.py`, `provisioning_removal_payload.py`). State: an operation
with a frozen scope of connections and their fingerprints, one removal step each,
the customer's lease beside the operation's. Operations: prepare, reacquire, tick,
dispatch, look up and remove on the node, record, finish, retry, force, abandon.
Hard: a death between the remote removal and the finaliser; two deletions with
overlapping scopes; edits, sales and the quota poller meanwhile. Correct if no
record goes before its client, rows go only as whole scopes, and every deletion ends.

**Node gate and ownership** (`node_gate.py`, `transport_guard.py`, `gate_locks.py`,
`legacy_remote*.py`, `provisioning_ownership.py`, `provisioning_control.py`,
`provisioning_host*.py`). State: one row with the mode and the owner, each with an
epoch; a lock file and an epoch file on each host; each process's cached copy.
Operations: enter and leave a passage, write, dispatch a child, change the mode,
claim, drain, release, reclaim and take over the installation. Hard: the cached
mode against a change in another process, a crash between the epoch file and the
commit, two hosts. Correct if nothing reaches a node under a mode that is not the
persisted one, and a former owner sends at most the request it was just allowed.

**Wallet lots** (`wallet_lots.py`, `wallet_void.py`, `wallet_identity.py`,
`wallet_policy.py`). State: credit sources, their applications, lots, debit events,
their allocations and reversals, debts, write-offs, the cached balance, the identity
of each account. Operations: credit, hold, capture, release, refund, void of a
source, rebind. Each is one transaction that locks what it reads; what is hard is
their order. Correct if the cache is the lots, every unit is accounted for, money of
a fraudulent receipt never becomes spendable again, and only its customer owes what
was spent.

**Reseller credit** (`admin_billing.py`, `usage_billing.py`, the credit endpoints of
`src/backend/app/routers/admins.py`). State: a reseller's balance and volume, the
counter of metered and not yet billed traffic, the logs. Operations: charge a sale,
refund a failed one, top up, transfer down the tree, meter, settle, switch the billing
mode. Hard: a charge and its refund are transactions of their own with the creation
between them; an endpoint writes what it computed from a row it read. Correct if the
logs add up to what the rows say and credit is moved, never made.

**Receipt approvals** (`receipt_approval_*.py`, `src/backend/app/telegram_bot/`).
State: the bot's pending row, the approval with its key, approver and version, the
effects recorded for it, the runtime's mode, the wallet's phase. Operations:
register, retry, take over, credit or sell, record the card, finish, fail, activate,
decide a recovery. Hard: calls that time out at the bot and run at the panel much later; two approvers; a
mode, a key or a manifest that changes in between; effects that cannot be recorded.
Correct if a receipt is credited or sold once, through its approval, its row tells so,
and an operation that lost its approval is undone or decided by the superadmin.

**Receipt void** (`receipt_void_*.py`). State: the operation with the confirmed
fingerprint, its ordered steps, the deletion it orders, four kinds of flags.
Operations: preview, claim, advance (one step per transaction under leases), fail,
mirror the deletion, retry, force. Hard: a scope that moves after the preview, a
worker that lost its leases, a step that failed after others reversed money.
Correct if each effect is reversed once and in order, or the operator is asked.

**Payment cards** (`payment_cards.py`, `payment_card_events.py`). State: a total per
card, the active card, the pool's event log and baseline. Operations: record a
payment, capture a baseline, revert to legacy, void an event, create, delete and
activate a card. Hard: two payments that read one total; a void after resets.
Correct if the total is what the log says, and a void takes its own payment only.

**Quota enforcement** (`quota_manager.py`, `session_cap_rule.py`, parts of
`radius_server.py` and `user_ops.py`). State: quota, usage, expiry and status of the
account and of each purchase; each connection's switches; the counters and switches
on the nodes. Operations: one poll cycle (read the nodes, judge purchases and
accounts, caps, reconcile, commit), login, report, renewal, manual switches. Hard: a
cycle commits over minutes what it judged at the start; remote calls that fail;
counters that restart. Correct if nobody pays for what was not carried and
everything comes to rest on what the limits say.

**Renewals** (`reservation_transition.py`, `receipt_void_renewal.py`, parts of
`user_ops.py`). State: the running term, the queue, two sequence numbers, the
history of contributions and starts. Operations: renew, consume the queue (poller,
RADIUS), hold and void a payment. Hard: two consumers on one queue, or a consumer
and a void. Correct if each payment's right is used once, or taken back once.

**Cancellation** (`reseller_refund*.py`, `adapter_mikrotik_wg_refund.py`, the grants
of `radius_server.py`). State: grants and their counters, the operation with its
captured and final counters, the process barrier. Operations: preview, prepare,
block, stop, capture, verify, settle. Hard: reports that come late, twice or never;
an accepted login that is not a session yet; a restarted router. Correct if the
refund calls used exactly what was used and nothing of the service lives on.

**Safe update** (`panel_safe_update.py`, `self_update.py`,
`src/backend/scripts/panel_update_runner.py`, the lock of `src/update.sh`). State: a
folder per job with its state, the active job, the daemon's containers, the lock
shared with SSH. Operations: queue, dispatch, read the status, resolve; the runner
verifies, deploys, is stopped, writes its end. Hard: the deployment restarts the
backend that dispatched it; the daemon's answers are lost and its actions late.
Correct if a result that is shown is final and true.

**Licensing** (`license_state.py`, `licensing.py`, `license_fence.py`,
`quota_manager.py:684-1052`, `src/backend/app/routers/license.py`, `src/license_server/`).
State: the server's row of each key, the panel's key, its state file and cached verdict,
a suspension marker on each connection. Operations: check in, install a key, revoke,
forget, recompute; the pass that stops or restores each connection. Hard: two check-ins
and a change of the key overlap; clocks go back and files are lost; a verdict changes
while a node is being told. Correct if a key is revoked by its own replies only, terms
never grow, and services end as the last decision and their own limits say.

### Planned

| component | state and operations | hard behaviour | correct if |
|---|---|---|---|
| WireGuard pool (`provisioning_wireguard_pool.py`) | addresses under the pool lease | two sales on one pool | an address is given once |
| wallet service, accounts, cutover backfill (`wallet_service.py`, `wallet_accounts.py`, `wallet_cutover.py`) | the legacy balance, accounts of deleted users, operation rows | replays under one key, the phase read first | one generation writes at a time |
| cap mode change (`session_cap_mode.py`, `session_cap_backfill.py`) | the mode, backfilled caps | logins during the change | no account loses its cap |

### Not modelled

Protocol adapters and node clients are request formats: their verdicts (absent,
present, conflict, partly written) are in `Verdict`, `AfterWrite` and `LookUp`.
Accounting, hierarchy, discounts and loyalty are single-transaction bookkeeping in
the transactions of others. Node contracts appear as the configuration an operation
was prepared for. Backup, HA, TLS, monitoring, the API routers, most of the telegram
bot and the frontend are input and output. `PROJECT.json` lists every component with
its files.

Known limits of the code that no property covers: `provisioning_durable.py:300`
gives both loops of a recovery pass one budget of 50, so more than 50 operations
with low ids that are due in every pass keep the later ones, and all deletions,
waiting. A wallet rollback can strand an operation in flight (finding 6).

## 2. How the modules correspond to the code

A transaction that locks what it reads is one action; one that does not is split at its
reads. A remote call is a step of its own with its outcomes: it took effect and was
answered, took effect and the answer was lost, or did not take effect.

### `ResourceLeases`

A worker opens a transaction (`Begin`), locks the lease rows it touches and sees its
own changes in `work`; `Commit` publishes them to `row`, `Rollback` and `Crash` drop
them. Tokens granted inside a transaction (`got`) are kept (`held`) only by its
commit. `Acquire`, `TakeOverDeploymentHold`, `Renew`, `Release` and `Revalidate` are
the functions of that name, with the deadline and epoch tests as guards; `Write` is
the caller's business write. Row locks are MariaDB's: SQLite's single writer allows
fewer interleavings. `Tick` moves the database clock, backwards too when
`MonotoneClock` is FALSE.

### `DueRecovery`

A pass is `StartPass`, then `Select` / `Attempt...` until `NothingDue`, `BudgetSpent`
or `AttemptRaises` ends the loop, for the creations and then for the deletions; the
requests, leases and backoffs of the rest of the system are `BecomeDue`, `TakeLease`,
`FreeLease`, `Refuse` and `Accept`. `waiting` and `cut` are history variables.

### `Provisioning`

`opst`, `step`, `res`, `claim` are the tables; `wk` is each worker's memory and the
phase of its child; `gate` is the node lock; `remote` is what a step's name denotes
on its node. Each transaction is one action:

- `Prepare` is T1. `Reacquire`, the `Tick...` actions, `Dispatch`, `Record` and
  `Release` are one iteration of `start_once` / `resume_one`; `DispatchRefused`,
  `Refused` and `TransientConflict` are its early ends. `TickCompletes` and
  `TickCompensates` are T_final and T_comp.
- `TakeGate`, `Enter`, `ReadNode`, `Authorise`, `WriteNode`, `Verify` are the child's
  steps, `ChildRefused` its refusals and timeouts, `ChildDies` its death.
- `Retry` and `ForceStep` are the operator's. The last group (`Expire...`,
  `PassDeadline`, `Due`, `NodeDown`, `NodeUp`, `ToggleEnabled`, `MoveEndpoint`,
  `ToggleDrain`, `WalletCutover`, `WalletRollback`) is time, nodes, administrators.
  The constant `Events` says which of them an instance includes.

What is abstracted, and the assumptions that come with it:

- Leases are the interface that `ResourceLeases` proves: `lease` names the newest
  grant and `live` whether it is unexpired. A worker holds at most one token, so it
  stands for its token. The identity and pool leases are taken with the operation's.
- Row versions and fencing epochs only decide whether what a worker saw is still
  current. `fresh` is that comparison; every write of a row clears it for the others
  (`Written`, `StepWritten`).
- `mark_remote_complete` and `finish` share a transaction in the operations
  modelled, so `remote_complete` is never a committed state here.
- `window` is "the forward deadline has not passed and the target user exists".
  A refusal of T_final because customer or package changed is a `TickLeaves`.
- `endpoint` stands for all of a node's configuration an operation was prepared
  for, contract readiness included.
- A request of a killed child that has not reached the node when its locks are freed
  is assumed never to arrive. The code assumes the same: it gives the child a hard
  deadline and binds requests to its process.
- Nobody else changes the names a step uses: whether a name is taken by a foreign
  resource is chosen in `Init` for the steps in `Conflicting`. `delete_idempotently_absent`
  counts as `verified_absent`.

### `Deletion`

`dop` is the operation, `frozen` what T1 froze, `rem` the removal steps, `conn`, `sold`
and `cust` the rows of the scope, `wire` the client on its node, `dw` a worker with its
child. T1, reacquire, tick, dispatch, the child's look-up and removal, the record and
T_final are one action each; so are retry, force and abandon. Everybody else is one
disjunct each: edits, sales of a connection, another deletion, the poller's push of
"enabled". One customer is modelled, because a scope never spans two. `SelfHealing` names the connections
whose push of "enabled" creates a client that is missing; it is empty in the run,
because on such a node the code does leave clients without records (finding 11).

### `NodeGate`

`row` is the singleton of the database, `modeFile` and `exclusive` are the files of each
host, `cache` each process's copy. A writer goes through `Enter` / `TakeModeLock` /
`Write` / `PermitRead` / `PermitFence` / `Sent` (passage and transport guard), or
`Dispatch` and the `Child...` steps in enforced mode; a change of mode through
`StartChange`, `LockExclusive`, `MarkChanging`, `CommitChange`, `PublishEpoch`. A child
holds two locks of the node: the lock file of its host, which goes with the process, and
the `GET_LOCK` of its database session (`adv`), which goes with the session. `LoseSession`
ends a session at any time while its child is at the node, as a broken connection or a
restart of the database does; another host's child can then take the lock, and the first
one notices at its next `ChildCheck` (`ADVISORY_CHECK`), so that the two may overlap for
the one write that was authorised before. The model has the `GET_LOCK` on every database;
on SQLite, where there is one host, the lock file does its work. `Provisioning` has one
host as well: there the lock file alone keeps its children apart, and a lost session is one
more way in which a child ends without having written. One
remote node is modelled: the mode is the same for all. The heartbeat, the
installation's identity and the verification of the lock directory are left out.

### `SafeUpdate`

`state` is each job's `state.json`, `request` the request that holds the queue lock,
`docker` and `inflight` the daemon with what it may still execute, `runner` the process
in the container, `deploy` (a history variable) what became of `update.sh`. The status
that the panel shows is the operator `Shown`, as in `_status`. `"not_started"` is the
code's `failed` with the error code of a run that never started. A status that cannot be
decided because the daemon does not answer changes nothing and is left out. Two timing
assumptions: a container is not started, run to its end and removed by itself between
the look at it and the request to remove it (`NotWithinARemoval`; the code would take
the 404 for its own removal), and no signal arrives between the start of `update.sh` and
the assignment that remembers it (finding 18).

### `WalletLots`

`book` holds the tables (a sequence of records for each, numbered by insertion) and
the cached balances. `Credit`, `Hold`, `Capture`, `Release`, `Refund` are the
functions of that name; `Distribute` is `_distribute`, `RefundVoided` is R2
(`refund_voided_allocation`), `VoidSource` is `void_source`. `BlockVoid` and
`WalletReversal` are the two steps of a receipt void that matter here, with anything
between them; `Rebind` is `wallet_identity._change`. `Storable` states the CHECKs and
unique keys: an action whose rows break one is not enabled, as the transaction would
be rolled back.

- One transaction is one action: every function locks the rows it reads, and the
  version tests behind these locks never fail.
- Rows are taken in insertion order; the code orders by `(created_at, id)`.
- A request repeated with its key finds its row and changes nothing: a stutter.
- The purchase lock that a void sets can be lifted by an administrator, so it bounds
  nothing here; the refusal of a sale over open debt is kept.
- The claim and the block of a void are one step, because the block refuses when the
  customer's Telegram or owner changed in between.
- An application's key stands for the lot's key too: both are made of the same parts.
- `refund` has no caller in this commit but `wallet_service.refund_debit`, an
  operation the wallet offers and its tests exercise.
- Not modelled: accounts of deleted users, the rewards that the loyalty step voids
  (same `void_source`), quotas of top-ups, the operation rows.

### `ResellerCredit`

`acct` is the reseller's row, `books` the sums of its logs, `sale` one sale made without
the durable saga. `Charge` and `RefundCharge` are relative UPDATEs, as in
`admin_billing`; `Ask` and `Apply` are the read and the absolute write of a top-up or
transfer. A reseller may move what it holds to its own sellers and take back to their
floor, which is the limit for credit and zero for volume. The owner gives to and takes
from any reseller without a floor (a negative top-up is its correction), sets a balance
directly, which is the difference to the balance read, and sets the limit, to less than
is owed already if it likes (`SetLimit`). `Create` adds an account with its initial
balance or volume. So a balance below `-limit` is reachable, and what is claimed is that
nobody but the owner brings it about. Two history variables say so: `grants.lent` is the
deepest debt the owner has left a reseller in, `grants.taken` what was taken from it in
all. A takeback that has made its check goes by the limit it read then. A charge reads the
limit earlier in its request as well; a cut in between can be ordered after it, because
what passes a low limit passes a higher one. `Meter` is `_apply_delta`; `Settlement`, `ReadMeter` and `PriceIt` are the
daily job. The `Undisturbed` guards keep other writers of a row out of the gap between
`Ask` and `Apply`, except in plans with the event `"race"` (finding 2). An initial balance
that a reseller gives is in plans with the event `"gift"` only (finding 4). Prices are
constant, and sales and switches of the billing mode are in different plans. An account
keeps its parent and is not deleted (`reparent_admin` and `delete_admin` are left out),
own prices and receivables are not modelled, and what vouchers, settlements of receipts
and the durable saga write to a reseller's balance belongs to their modules.

### `TopupApproval`

`calls` are the bot's calls on their way; each is executed by the panel at any time
after it was made, or lost, whatever the bot concluded (`TimesOut`). `BeginReads` and
`BeginInserts` are the two halves of a registration, whose unique key decides a race.
`Credit` and `RecordCard` carry the execution token; `Finalize` closes. `Activate`,
`Deactivate`, `SetMode`, `EnforceWallet`, `RollbackWallet`, `KeysChange` are the
superadmin's. `ready` is whether the API keys of the bot are identified.

### `SaleApproval`

It extends `TopupApproval`: the same calls, attempts and versions, whose production call
is now `Sell` (T1, with `Executable` its token check and `Mismatch` the comparison of the
manifest). `op` is the durable operation of the approval's current version, moved by
`Tick`; `live` are the enabled keys; `recovery` is the one `approval_recovery` of the
approval, decided by `AcceptRecorded` and `Decide`. Each transaction of the operation asks
for `Bound`; `PutAside` is what a lost binding does.

- One remote object stands for all steps, and the child's last check and its write are one
  step: what lies between them is `Provisioning`'s subject. A plain durable sale, without
  an approval, is one action.
- A uuid and its versions are one number; `cust.from` is the first version of the uuid.
- An approval that changed hands and runs again is a new version, whose operation is new.

### `ReceiptVoid`

`StepKeys` is the ordered plan of a scope, `ClosedBy` which effects a step reverses.
A worker's pass is `BeginPass`, `PickStep`, `AcquireSet`, then `RunStep`,
`StepAlreadyOver`, `LeaseLost`, or `StepRaises` and `RecordFailure`; the deletion it
orders is `CheckDeletion`, `StartDeletion`, `MirrorDeletion`. The deletion's own machine
is reduced to its outcome per connection (`ProvAbsent`, `ProvUnverified`,
`ProvFinishes`, `ProvRetried`), which is what `Deletion` ends in.

### `PaymentCards`

`PayReads` and `PayCommits` are the two halves of a payment, because MariaDB answers
plain reads from the first snapshot. `Accumulator` folds the event log as
`payment_card_events.accumulator` does. Ids of deleted cards come back, as SQLite gives
them out again.

### `QuotaEnforcement`

`poll.base` is what a cycle has read, `poll.work` what it has changed since; the commit
writes only the columns that differ, as the ORM does. A cycle is a sequence of steps,
one per remote call. Logins, accounting reports, renewals, and switches of a connection or
of the account are transactions between them. `peer.moved` is a counter that starts
again when the node does. PPP sessions are their accounting rows; the two clean-ups of
lost sessions are left out (finding 15).

### `RenewalHistory`

The limits of a service are abstracted to the payments they are made of: `term` and
`queue` are sets of payments, each worth one unit. `LoadService`, `Recheck`, `Commit`
are a consumer's read, its second read and its flush; `Confirm`, `Block`, `ApplyVoid`
the renewal part of a receipt's void. `PlanOf` is the reconstruction from the history.
The plan's `locked` says whether a consumer holds the row from its second read, as on
MariaDB.

### `Cancellation`

`session` is what the customer's devices and the NAS know, `packets` the reports ever
sent (a set: each may be received any number of times, in any order, or never), `grant`
the row a login leaves, `peer` the WireGuard peer. The run of the operation
(`worker.pc`) holds the exclusive barrier from the block on; `refund`, `pstep`, `wstep`
are what it commits, step by step. Sessions without a cookie only leave their mark
(`stray`). Ledger entries are the two counters `base` and `final`.

### `Licensing`

`install` is the server, `key`, `file`, `verdict` the panel; `beat` are the check-ins of
the scheduler and of the operator, `Ask` / `Answer` / `TakeReply` / `ApplyReply` each.
`InstallKey` and `SetLicenseKey` are two steps, because the key is assigned outside the
lock under which the file is cleared. `Recomputed` ends every change of the file, as
`refresh` does. A pass is `StartPass`, then for each connection the cut (`CutMarks`,
`CutStands` or `CutSends`, `CutRecords`) or the restoration (`RestoreReads`,
`RestoreSends`, `RestoreJudges`, `RestoreCommits`, or `RestoreUndoes` and
`RestoreRecords`), then `EndPass`. `FenceFree` is the shared fence of everybody else's
transactions. A connection is a peer, which a call switches, or a PPP service, which RADIUS
admits. The operator's restoration of one connection takes the steps of the pass. Left out: HA
and the master install, whose verdict is constant.

### Composition

`ResourceLeases` implements `FencedWrites`; `Provisioning` and `Deletion` take the lease
at that level. `Provisioning` implements `AtomicSale`, `WalletLots` implements
`WalletPosition`. `DueRecovery` takes an iteration of `Provisioning` as one step;
conversely the fairness of `Provisioning` is what `DueRecovery` provides when no
operation raises. `ReceiptVoid` takes the outcomes of `Deletion`, the two wallet steps
of `WalletLots`, the card step of `PaymentCards` and the renewal step of
`RenewalHistory` as single steps; those modules have the other side of each.

Several runs check modules that share no state side by side: the MC module has a
variable (`part` or `half`) that says of which module a behaviour is one, and that never
changes. This is a sum of state spaces, not a product, and asserts nothing about
interactions. `MCRecovery` joins leases, recovery passes and the cancellation,
`MCAccounts` wallet, reseller credit and cards, `MCNodes` the gate and the updates,
`MCReceipts` void, top-up and sale approvals, `MCService` quotas, renewals and the licence.

## 3. Runs

| run | instance | what it shows |
|---|---|---|
| `recovery` | leases: 1 key, 2 workers with one owner string and the updater, monotone clock; passes over creations 1 and 3 and deletion 2 with budget 3; 6 plans of a cancellation with a peer and a session, or two sessions | a revalidated token is newest until the commit, live leases are not stolen, writes are fenced; no pass misses an operation, and blocked ones hold up no others unless they raise; the refund calls used what was used, nothing lives on, a provable cancellation settles |
| `provisioning` | 1 sale, 2 steps on 1 node, 2 payers, 2 workers, every accident but node moves and cutover | money, step rows and remote resources agree |
| `provisioning_two_sales` | 3 orders: two of one one-time package, one never payable; a PPP step; a foreign name; cutover and rollback | exclusive claims; every sale implements `AtomicSale` |
| `provisioning_liveness` | 1 step, 2 workers, 2 node configurations, accidents | once accidents stop, an operation ends or asks the operator |
| `accounts` | wallet: 1 account, 2 approvals, 3 sources, 2 debits, and 2 accounts of one identity with an old balance and a rebind; credit: a reseller and its seller, 2 sales, 2 changes, 4 plans with corrections by the owner, a new account, a cut limit; 3 plans of a pool with 2 cards and 3 payments | every unit is accounted for; voided money never returns; the wallet implements `WalletPosition`; credit is moved, traffic is billed once, a batch costs what it made; totals are what the log says |
| `nodes` | 2 processes on 1 host, with lock faults, and on 2 hosts, with a restart or with a mode lowered and raised again and the ownership there and back; 3 update jobs with 2 faults | passages act on the persisted mode, one child with the advisory lock and one of each host, a child that was cut off writes once; the result of an update that is shown is final and true |
| `deletion` | 2 deletions of connection, purchase and customer, 2 workers, six combinations of accidents | no record before its client, whole scopes only, removal under a committed marker, every deletion ends |
| `receipts` | 8 plans of a void, 6 of a top-up and 10 of a sale or renewal with 2 attempts | a void is complete or asks, blocks what was confirmed, and ends; a receipt is credited once, by its approver; a receipt is sold once, under the binding of its T1, and its operation ends or is put aside for a decision |
| `service` | 8 plans of 2 connections over two allotments; 4 plans of up to 3 renewals with voids; 10 plans of a licence with 2 keys and a peer and a PPP service | nothing is over-metered, everything comes to rest on what the limits say; each renewal is used once and a queue starts; services follow the last decision about the licence, lifted only when free to run |
| `nobody_is_asked` | 1 sale in shadow, 2 keys, one revoked | finding 3 |
| `renewal_cut_short` | 2 payments, 1 consumer, no row lock (SQLite) | finding 1 |
| `credit_overwritten` | 1 seller, a top-up between a charge's read and write | finding 2 |

The invariants of the table are conjunctions of named parts:

- `LeaseInv`, `SaleInv`: the inductive invariants of section 4. `SaleInv` is the
  agreement of workers, rows and nodes; money is `MoneySettles`. The `TypeOK` of
  `Provisioning` is proved with `SaleInv` and is no invariant of a run.
- `BooksBalance`: `TypeOK`, `CacheIsTheLots`, `SourceIsAccountedFor`,
  `DebitIsAccountedFor`, `DebtIsWhatWasSpent`, `NothingMadeNothingLost`.
  `VoidsAreFinal`: `VoidedMoneyIsGone`, `OnlyTheCustomerOwes`.
- `CreditInv`: `BooksAgree`, `MeteredIsBilled`, `PaidForWhatWasMade`,
  `CreditIsMovedNotMade` (`WithinWhatWasLent`, `OwnerPutsIn`, `HandsOnWhatItGot`).
- `HoldersInv`: `CreditInv` and `PoolInv` (`TotalIsTheLog`).
- `GateInv`: `OneChildOnTheNode`, `CutOffWritesOnce`, `EnforcedHasOwner`.
  `UpdateInv`: `ShownIsOver`, `ShownIsTrue`.
- `DeletionInv`: `GoneFromTheNode`, `AsksWhileDirty`.
- `VoidInv`: `ApprovalFollowsVoid`, `FailedVoidTookNothing`, `ClaimedVoidHasWorker`,
  `MoneyAfterResources`, `VoidedIsComplete`. `TopupInv`: `CreditedOnce`,
  `StateTellsTheMoney`. `CreditedByTheRules`: `RequiredNeverLegacy`,
  `CreditedByItsApprover`. `SaleApprovalInv`: `SoldOnce`, `OpenMeansUntouched`,
  `AsideWasAsked`.
- `ServiceInv`: `QuotaInv` (`NeverOverMetered`), `RenewalInv`
  (`HistoryExplainsService`, `EachRightOnce`, `HeldVoidApplies`) and `LicenceInv`
  (`RevokedByItsKey`, `AppliedIsOff`). `LicenceSteps`: `LiftedIfAllowed`,
  `TermOnlyShortens`. `ServiceSettles`: `ServicesSettle` (`RowsSettle`, `NodesSettle`,
  `KicksSettle`), `QueueStarts` and `LicenceSettles`. `CancelInv`: `NothingLivesOn`,
  `BilledOnceHoweverDelivered`, `RenewedStaysWhole`, `SettledForWhatWasUsed`.

**Bounds.** `MaxEpoch` caps the grants of a key, `Times` and `TTLs` the clock:
an old token, its successor and a third grant are enough for a token to be stale and
for its epoch to be granted again after a rollback. Two workers are one that lost
its lease and one that took it; the gate orders whole children, so a third meets
only situations that two already produce. Two steps with one order each give a tick
every mixture of untouched, called, finished and removed steps. Prices differ so that a
hold captured from the wrong payer shows. The budget is the number of operations in
`recovery`; in the code it is 50 for both loops.

In the wallet, `MaxSources` and `MaxDebits` bound rows, the scene the rebinds, the kinds
of debits and the amounts. Three sources are one voided early, one that settles the debt
it left, and one that settles the debt of both when the second is voided too; two debits
are two debts, so that money freed from one can go to the other, be split, or remain.
Amounts 1 and 2 make a settlement partial and a refund smaller than what was settled.

The newer modules choose a plan in their initial state: who takes part, which kinds of
event may happen (`events`) and how many of them in all (`left`). Plans replace a product
of all events, which no instance could exhaust, by the combinations that interact; each
disjunct of every next-state relation is enabled in some plan. Events that lead to a
finding are in no passing plan, and are named: `"race"` in `ResellerCredit` and
`RenewalHistory`, `"gift"` in `ResellerCredit`, `"overlap"` (the two payments of one queued batch voided while both
voids are under way) in `RenewalHistory`, connections in `SelfHealing` in `Deletion`, a
kind in `Openers` together with a fault of the node in `QuotaEnforcement`, `"torn"` (a
restart inside a restoration or the installation of a key) in `Licensing`. Of the voids in
which a worker may stall past its leases (`"expire"`), `FailedVoidTookNothing` says nothing
(finding 13); every other part of `VoidInv` holds of them.
`MaxAttempts` of a void is 2 (5 in the code): one failure that is retried and one that
is the last. Each deployment of the gate bounds its own changes (`epochs`, `owned`): up
to 2 give a change and its reverse, a takeover, or the reclaim after a restart; up to 3
from an enforced gate on two hosts let the mode be lowered and raised again under a
process that read it in between, which is what the proof of `ActsOnPersistedMode` asked
for (finding 10). `UpdateFaults` of 2 gives two of three jobs a
fault, or one job two.

`SYMMETRY` permutes workers or approvals that no property names and is not used with
liveness. `CHECK_DEADLOCK FALSE` is set where the system really stops (a sale, a
deletion, a void or a cancellation that has ended) or where the bounds stop it (wallet,
credit, plans, update jobs). Operations that stop before their end are what the
liveness properties look for.

In the plans with a clock the two licence keys run for 2 days and 1, and `LastDay` is 3: a key
expires, its successor is installed and expires too.

**Fairness.** Each worker's own steps are weakly fair: the scheduler of
`src/backend/app/main.py` starts the recovery job, the void worker and the poll cycle at
an interval with `max_instances=1`, each pass attempts an iteration of every due
operation, and a child has a hard deadline, so that no step of a worker or child waits for
ever. Leases end, backoffs and deadlines arrive, because they are comparisons with the
clock. A call that reached the panel is executed or lost (`Panel`). RADIUS judges at
every login. A node answers again fairly in `provisioning_liveness` and `deletion`, where
the properties are conditional on accidents ending: `EndsWhenQuiet`, `DeletionSettles`.
`EndsWhenQuiet` also assumes that the panel does not drain for ever and that a moved node
gets its old configuration back. The licence's job, its pass and the polls
are weakly fair; whoever waits for the lock of the state file gets it in the end (strong
fairness of `Refresh`, `SetLicenseKey`, `TakeReply`), because check-ins are hours apart and
hold it for an instant. The operator's own check-in is assumed nothing of but that it gives the
lock back. `VoidSettles` excuses a void whose worker is switched
off and one whose scope an administrator changed (`Stray`). `CancellationSettles` assumes
that the operator starts a refused or dead run again, which is how the code resumes it,
and only concerns cancellations that can be proved: every session has ended with its own
Stop and the router did not restart.

## 4. What is proved

All theorems hold for every value of the constants that satisfies the named
assumptions of the module (finite operations, nodes and steps of the right types,
null values distinct; nothing bounds their number), and for every interleaving.

**Leases** (`Recovery_proofs`). `LeaseInv` ties tokens, locks and rows: epochs
of tokens never exceed their row's, a grant in an open transaction belongs to who has
locked the row, no token of a rolled-back grant survives. `LeaseSafety` proves it
inductive; `TypeCorrect`, `EpochsAreUnique` and `RevalidationHolds` follow;
`ImplementsFencing` maps every step to a step or stutter of `FencedWrites`; `NoTheft`
proves the action property that an unexpired lease is lost only by its holder's own
commit, and only this one assumes a monotone clock.

**Sales** (`Provisioning_proofs`). None of the properties is inductive alone: that a
removal's verified absence is final depends on which child may still write, which
depends on what its marker says of rows that others may have changed since. `SaleInv`
adds what they need of one another:

- `WorkersServe`, `StepsFollow`: whom a worker serves; which step states an
  operation's state allows.
- `FreshIsCurrent`: a marker that no write has made stale still describes the row.
  This is where the version checks before each write enter.
- `CallsAreMarked`: a child exists only after its attempt was committed, a removal
  only once the sale was given up. This makes an unmarked step safe to drop.
- `GateIsHeld`: whoever is at a node is alone there, so that what it has read stays
  true until it leaves.
- `ResultsHold`, `RowsHold`: what a child reports, and what rows record, is still
  true of the node.

The proof has one lemma per group of actions (`SalePicks` ... `SaleRecords`), each
with one step per conjunct the action can disturb; `SaleNext` combines them, and
`SaleInvariant` concludes
`Spec => [](TypeOK /\ SaleInv)`. `TypesHold`, `ChecksHold`,
`UnmarkedUntouched`, `AbsenceStays`, `PaidDelivered` and `RefundedGone` are its
consequences.

On it rest two results about what a customer sees. `LedgerFollows` says that claims and
reservations are made by T1 and follow their operation from then on; with it,
`ClaimsHold` concludes `OneTimeClaim` (and that each payer's hold is settled as
its operation is, the first part of `MoneySettles`). `SaleIsAtomic` is the
refinement `SaleSpec`: `StepsOfTheSale` shows that every step but five is invisible to
`AtomicSale`, and the five map to `Begin`, `Work`, `Deliver`, `Refund` and `GiveUp`. The
delicate one is `SaleWorks`: a child that is still authorised after its sale has ended
finds the part as it would leave it, so that its request changes nothing. Since `Begin`
and `Refund` take and return exactly the price, no step of the saga makes or
loses money. `MoneyAddsUp` concludes `MoneySettles`, that each payer's credit is its
balance, the holds of the operations in flight and the prices of those that ended sold,
summed over any finite set of operations.

**Recovery** (`Recovery_proofs`). `PassInvariant` proves that what a pass still
has to visit lies after its cursor and its selection, `NothingMissed` the action
property that follows.

**The gate** (`Nodes_proofs`). `GateIInv` adds to `GateInv`: whose epochs anybody may
know (`EpochsKnown`: the row's only grow), who holds the host's lock while it writes
(`LocksHeld`), that a child whose epochs are still the row's belongs to the active owner
(`ChildKnows`: a drain waits for the child's lock, every other change raises an epoch),
that after its late write a child's epochs are not the row's or its session is lost
(`LateStops`), that one session has the advisory lock and one child of a host its lock
file (`OneAtTheNode`), what a change
that is to be committed was allowed for (`ChangeAllowed`), and that on one host the
mode-state file is ahead of the row (`FileAhead`). A writer's fifteen actions are shown
by what they leave in its record (`Fits`, `WritersFit`, `FittingMove`), the changes of the
owner by `OwnerChangeKeeps`. `GateHolds` and `PersistedMode` conclude `GateInv` and
`ActsOnPersistedMode` for any hosts, processes, deployments and bounds, and for either
`CHECK` of the table (`SupportsRelease`).

**Updates** (`Nodes_proofs`). What is shown of a job follows from its file, but the
file lags behind its runner, the runner behind the daemon, and the daemon behind requests
that were given up. `UpdateIInv` says how far: a container exists as its runner does
(`ContainerOfRunner`), what a runner did to `update.sh` (`RunnerTellsDeploy`), what the
file may still say (`FileFollows`), that a start is in the mail only for what was created
(`StartsWhatExists`), what a request may rely on while it holds the queue lock
(`RequestHolds`), and that only the active job may run (`OnlyActiveRuns`). `ResultsHold`
concludes `UpdateInv` for any number of jobs and mishaps.

**Deletions** (`Deletion_proofs`). `DelIInv` rests on the order of the removals: every
worker of a deletion carries the first connection of its scope that is not removed
(`CarriesNext`), so two workers that are not yet done are at the same one
(`SameRemoval`). A fresh worker sees the marker of its own dispatch (`FreshSees`), a child
that passed the node's gate holds it (`HoldsGate`), and while a child is about to write,
a worker that could record a result of the same removal has lost the operation's lease,
unless its result says that nothing is known (`WritesUnderMarker`). That last part is
what makes the marker of a call that is no longer fresh stay until the call is made.
`MarkerFirst` and `ScopeGoesWhole` conclude the two action properties. `DeletionHolds`
adds `StaysAway`, that what a child found absent is not there again, and concludes
`DeletionInv` under one hypothesis, `PollerCreatesNothing`: where the poller acts, a push
of "enabled" creates no client of the connections that are deleted. Finding 10 is what
happens without it; the other theorems do not need it.

**Top-ups** (`Receipts_proofs`). `TopIInv` says that an attempt's token is the row's
and names the authority that gave it, that the card is recorded only after the credit,
that what the row records follows the money, and that `required` comes with an enforced
wallet. `CreditsOnce` concludes `TopupInv`, `CreditsByTheRules` the action property, for
any attempts, keys, approvers and events. `ApAssumption` is that a plan starts
in a state the actions keep: `required` is turned on only with the wallet enforced
(`loyalty_activation._activate_once`), and `wallet_cutover.rollback` refuses while it is
on.

**Voids** (`Receipts_proofs`). `VoidIInv` rests on the order of the steps. `Planned` is
proved of every plan `StepKeys` makes, for any set of connections: the block comes first,
and what pays back comes after the end of the deletion. From it `DeletedFirst` says that a
worker which is at a step after the deletion, however late it runs it, is there because
the account is gone; `MoneyFollows` ties the refund to the closed effects. `BlockFirst` is
what a failed void needs: nothing goes past a block that is not done, and a block that
raised stays open until its failure is recorded, because who raised it still holds the
newest lease set (`HoldsSet`). That part is conditional on leases that do not run out under
a stalled worker (`Steady`): the attempt to prove it without showed the behaviour that
finding 13 ends with. `VoidHolds` concludes `VoidInv`, and `ConfirmedOnly` the action
property `BlocksWhatWasConfirmed`, for any workers, connections, attempts and plans.

**Sale approvals** (`Receipts_proofs`). `SaleIInv` ties the row of the approval, the
operation and the effects at the node: what the operation has come to, the row tells and
the other way round (`OperationOfRow`); money and effects are those of a completed
operation, all of them where it is strict (`EffectsOfOperation`); a card is counted only
of a sale that was answered completed (`CardOfSale`). `SellsOnceOrNotAtAll` concludes
`SaleApprovalInv`, `CommitsUnderTheBinding` the action property `OnlyUnderTheBinding`.
`SaleAssumption` is that the plans are of the form `TopupApproval` expects.

**Cancellations** (`Recovery_proofs`). What is refunded is a difference of counters read
at different moments. `CancelIInv` says what each of them may still miss: a grant's
counter never exceeds what its session moved and equals it after its own Stop
(`GrantsFollow`), a report in the mail says what its session had moved (`ReportsTell`),
totals are the sums of the grants (`CountsAdd`, over any finite set of sessions), a
captured counter stays true while the barrier stands (`CaptureHolds`), and what a run
measured bounds what it settles (`RunMeasures`, `SettledWhole`). `OrderKept` says what
of the operation is done where its run is. `CancellationHolds` concludes `CancelInv`.

**Resellers** (`Accounts_proofs`). `CreditIInv` holds of every calm plan: what a change has
read of its rows is still what they hold when it writes them (`PendingFit`), the payments
of a reseller's sales are what its log spent less what it got back (`SalesAgree`), a
settlement bills no more than is metered (`BillFits`), and nobody owes more than it was
let, which is never less than its limit (`Floors`): a sale or a takeback that respects a
limit respects what was lent, and a correction or a cut of the limit by the owner raises
what was lent to the debt it leaves. `Calm` leaves out another write between the read and
the write of a row, and an initial balance that a reseller gives (findings 2 and 4), and a change of the billing mode by somebody who sells, because a
refund reads the mode again. `CreditIsKept` concludes `CreditInv` for any tree, sales and
changes; that credit is moved and never made is a sum over all resellers.

**Cards** (`Accounts_proofs`). `PoolIInv` adds one thing to what is checked: nothing counts for a card that is
gone (`NothingLeft`), so that an id that comes back starts at zero.
`Accumulator` is a fold over the log; `TotalRuns` turns it into a run, one number for each
event, and `SameTotal`, `TotalWithOneMore` and `TotalWithoutOne` say what a change of the log
does to the end of that run. `PoolHolds` concludes `PoolInv` and `VoidIsExact` the action property
`VoidTakesItsPayment`. `HoldersKeepTheirLogs` states both for the behaviours of
`MCAccounts`.

**Renewals** (`Service_proofs`). The row of a service is explained by its history because
the starts that no void took back form a chain: each begins where the one before it ended,
and the last one's term is the running one (`Chain`, `TermIsLast`). The queue is the open
batch (`QueueIsOpenBatch`), the log grows in order (`LogInOrder`), and a held void still
plans what was confirmed (`VoidFits`). A consumer's copy is what the row says when it
writes (`ReaderFits`), which is where `Serial` is needed: it leaves out the events `"race"`
(a renewal between a consumer's second read and its flush, finding 1) and `"overlap"`
(two voids at once, finding 9), which no passing plan has. `TermsAreLivedOut` is the action property
`TermsLiveOut` under the same condition.

**The licence** (`Service_proofs`). `LInv` adds to `LicenceInv` what an answer on its way
may still do: a reply being applied is of the installed key, unless the key is being
changed (`KeyFits`). `Untorn` leaves out a restart inside a restoration or inside the
installation of a key, which loses one half of two writes; the types and the action
property `LicenceSteps` (`LicenceStepsHold`) need no such condition.

**Metering and limits** (`Service_proofs`). `QInv` says that what the poll cycle holds is a
part of the rows, whatever has happened to them since it was read (`Polls`), that its
switches are connections with a side, and the inductive form of `NeverOverMetered`
(`Meter`): what is billed and what the counters of the nodes would still add is not more
than what was carried. A pass over some counters moves exactly their part from one to
the other (`SumParts`); a counter that starts again only loses. Switching any list of
connections, with any outcomes of the nodes, touches no counter (`SetAllIs`, an induction
over the fold of the list). `ServicesKeepTheirWord` puts the three together for the
behaviours of `MCService`; its part about metering, `NeverBilledTwice`, holds in every plan.

**The wallet** (`Accounts_proofs`). `WalletIInv` says of the tables what one transaction
after the other keeps: every row refers to rows that exist and a lot is of its source's
account (`Linked`), nothing is left of a voided source and nothing can be spent of a voided
lot (`Gone`), and each debt is of a lot whose cause is under void and is owed by the identity
that void was claimed for (`Blamed`); with `CacheAgrees`, that every cached balance is the
sum of the account's lots. The transactions are folds of row operations (`Each`), so `Fits`
is also what each row operation keeps: `SpreadKeeps` for a distribution, `ReapplyKeeps` and
`RefundMade` for what a refund over a voided lot frees, `GiveBackKeeps` for one over a live
lot, `SourceVoided` for the void of a source; `EachReapplied`, `EachReversed` and
`EachVoided` lift them to the fold. Within a transaction a balance may be behind its lots
for one account, the one whose balance is written at its end (`CacheBut`); the accounts of
the sources a refund frees are written on the way. `VoidsStayFinal` is that no later refund
brings voided money back, and that who owes does not move with a rebind.

**Sums and folds** (`Sums_proofs`). No theorem of the library that takes an operator can be
used, so the two inductions put what they prove into a set: `EveryPart` (a set of parts of
a finite set that has each part all of whose smaller parts it has, has them all) and
`EveryNatural`. From them follow what a sum over a finite set is after one term changed or
was added, and that the folds of the community modules, which choose their order, are runs
over a sequence (`FolderRuns`).

Only model-checked: the liveness properties (fairness and ENABLED are outside what
the prover handles), `AttemptedUnlessSomeRaise` among them, a liveness property of passes; and of the lot
wallet the sums over its rows: `BooksBalance` but for the balances, `NoLotOverDebt` and the
refinement of `WalletPosition`.

## 5. Findings

What the models made visible in the code as it stands. The first three have runs that
show them; the others are outside the passing instances, each by a named exclusion, or
were seen while the code was translated. They are statements about correctness, read
against the code's own comments, tests and documents.

1. **A renewal replaced before it was used up** (run `renewal_cut_short`,
   `reservation_transition.py:331`). On SQLite, the default database, the consumer's
   second read locks nothing, and its flush writes a row that a renewal has changed
   since: the term of that renewal is worth nothing. A whole void between the second
   read and the flush ends the same way: the queued right of the voided payment is
   committed again. `_maybe_activate_reserved_renewal` of an account (`user_ops.py`)
   takes no lock on any database: two threads may both activate.
2. **Credit overwritten** (run `credit_overwritten`,
   `src/backend/app/routers/admins.py:137`). A top-up or a transfer writes a sum that it
   computed from an earlier read; a charge in between is lost from the balance. Two
   transfers of one giver both pass the check of `_transfer_balance`. Of the same kind:
   a volume top-up (`_apply_volume_change`) overwrites traffic metered meanwhile by
   `_atomic_increment`. Also seen here: `refund_for_package` reads the price and the
   billing mode again; a crash between charge and refund keeps the charge; the renew and
   reset endpoints do not refund when they fail; deleting a reseller drops its unbilled
   usage and its balance; a switch from usage to flat leaves the unbilled counter
   waiting for the switch back; a bulk creation that raises partway refunds all of it
   while committed customers stay (documented in `users.py`).
3. **Nobody is asked** (run `nobody_is_asked`, `provisioning_approval_final.py:289`). A sale
   in shadow whose effects do not validate opens the approval's recovery, and closes the
   running ones in the same commit. When the superadmin had already decided "continue"
   about the same approval, that is one row: the approval stays `mutating` and nothing can
   be decided, against lines 15-18. A row that an earlier version completed is returned in
   the same way: the operation of a later version that loses its binding waits, `decide`
   answers 409 `approval_recovery_not_open`, the operator's retry 409
   `approval_recovery_required`. Also: "continue" is offered for 30 days but does not
   extend the deadline of ten minutes, so that the next tick compensates. When the answer
   to a new customer's sale is lost, the retry registers as `existing_user` and is refused
   as `intent_changed`: under `required` the delivered receipt can only be rejected, in
   shadow the bot goes on without the approval and sells a second package.
4. **Credit from nothing** (`src/backend/app/routers/admins.py:507`). A level-2 Admin who creates a Seller gives it
   an initial balance, or an initial volume, that its own does not pay for: `create_admin`
   applies `initial_balance` for every caller. The top-up next to it was changed to a
   transfer for this reason and says that money enters the tree there, by the superadmin,
   and nowhere else (lines 669-670). A plan with the event `"gift"` violates
   `OwnerPutsIn` at the first such account; it is in no run.
5. **One operation ends a recovery pass** (`provisioning_durable.py:308`, against `:306`
   "one operation never stops the worker"): an exception of one attempt leaves the loop.
   `AttemptedUnlessSomeRaise` is conditional on that.
6. **Wallet rollback under an operation** (`wallet_cutover.py:231`,
   `payment_reservations.py:37-38`). The cutover waits for operations in flight
   (`wallet_cutover.py:85-88`), the rollback does not: an operation of the old epoch is
   answered 409 `wallet_epoch_changed` for ever, by completion and compensation alike.
7. **A removal that stays unknown is retried without limit**
   (`provisioning_runner_results.py:110-115`), where
   `docs/lifecycle-provisioning-design-2026-10-01.md:655,1495` caps it and asks the
   operator. On a dead node such an operation never ends by itself.
8. **Wallet.** `wallet_void.py:175`: a second settlement of one source within one refund
   has the key of the first, so that the unique key refuses the transaction and the debit
   can never be released or refunded, against `wallet_lots.py:19-20`.
   `wallet_void.py:108`: a rebind between the block and the reversal makes the customer's
   own consumption that of a third party and writes it off, against
   `wallet_void.py:9-11`. `wallet_void.py:90` and `:181` differ from the design's lines
   1399 and 1727. A debt that is forgiven (`wallet_void.py:141`) breaks the identity the
   design states between made and spent money; `Forgiven` is its term here.
9. **A second void stranded** (`receipt_void_renewal.py:268`). Two voids of two payments
   that were queued in one batch: the second answers `renewal_state_changed` for ever and
   its purchases stay locked, against `receipt_void_renewal.py:271-274`. Excluded as
   `"overlap"`.
10. **Gate.** `provisioning_control.py:301`: after the commit the row has expired and is
   read again, so that the epoch file gets the persisted epoch plus one, against
   `gate_locks.write_mode_state:72-76`. On one host the number is never that of a copy, so
   that the file proves nothing and every passage reads the database. On two hosts it can
   be that of a later change elsewhere: the file of the first owner names epoch 2, the
   mode is lowered (epoch 2), a process of that host reads it, the second host takes over
   and enforces (3), the first takes the ownership back, and the process, whose database
   reads now fail, trusts its copy and writes by itself in enforced. The attempt to prove
   `ActsOnPersistedMode` without the exception `FileProves` showed this. In mode off an unusable lock file means a write
   without any lock (`transport_guard.permit`, against its docstring). Lowering the mode
   needs no ownership.
11. **A client without a record** (`quota_manager.py:1132`). On panels where a push of
   "enabled" creates a missing client, the poller may create it between its verified
   removal and the deletion of its record; nobody finds it again, against
   `provisioning_requests.py:85`. Excluded by `SelfHealing = {}`.
12. **Deletion.** The same push, followed by a poller's commit, makes the finaliser answer
    409 `provisioning_deletion_not_disabled` for ever. A `delete_connection` that ends
    inside a pending deletion of its purchase or customer makes that one answer
    `scope_changed` for ever; after a customer is gone, the customer's other operations
    cannot be reacquired. Edits of a connection do not look for pending deletions and
    change the fingerprint, which refuses the deletion for good.
13. **Receipt void.** `receipt_void_engine.py:292`: a block that failed twice over a scope
    that shrank answers 409 `receipt_void_not_retryable` for ever, against
    `receipt_void_engine.py:15`. A stale worker runs the block of a void that has failed,
    because `_local_once` does not look at the operation's state: the account is held by a
    void that "failed". `_fail` checks no lease and does not read the step's state again: a
    worker that stalls past its leases between the rollback of a block and the record of
    its failure ends a void that another worker has advanced, so that the approval is
    `completed` again while its money is being taken back, against
    `receipt_void_runner.py:183-185` ("nothing applied, approval completed"). The operator's retry reads the worker flag in an earlier
    transaction, against `receipt_void_flags.py:11-13`. Between the check and the start
    of the ordered deletion, an added connection is deleted unconfirmed and a removed one
    leaves steps pending for ever. `VoidSettles` excuses the last as `Stray`.
14. **Top-ups and cards.** A required top-up paid to a card of an event-logged pool never
    completes (`receipt_approval_intent.py:397-402` against
    `src/backend/app/routers/bot.py:764`). A late `add_balance` credits a receipt that
    was rejected. A lost answer of the registration outside mode required leads to a
    credit without an approval. A bot that dies leaves its row `processing` for ever;
    `ClaimReleased` assumes a bot that runs. Cards: a void after the pool went back to
    legacy takes later payments too (`receipt_void_steps.py:270`, against
    `payment_card_events.py:7`); the read and write of a legacy pool lose payments
    (`payment_cards.py:140`); the void of an event from before a newer baseline changes
    no total and is marked as reversed.
15. **RADIUS without a cookie.** A late Interim of a closed session whose id is used again
    is counted twice. A row deleted by `_reconcile_ppp_sessions` or the cleanup of 15
    minutes before a delayed Stop makes the Stop count the whole session again, against
    `quota_manager.py:1211-1213`.
16. **Re-opened services.** A disabled account's connections of a purchase (WireGuard,
    Xray, SoftEther) are enabled again by the next reconcile (`user_ops.py:741-742`);
    renewals and the switches of panel and bot call `_set_connection_enabled` directly
    and so re-open a kicked connection, uncounted, against the docstring of
    `_apply_enabled_state`; the bot enables connections of purchases that have ended; a
    PPP account switched off by hand while the poller enables it stays on.
17. **Left running, left off.** A failed kick is never repeated (`user_ops.py:722-724`). A
    disable whose answer was lost, followed by a renewal, leaves the row on and the peer
    off, and nobody pushes again. An enable between the poller's push of "disabled" and
    its commit leaves the row off and the peer running (`quota_manager.py:1068-1071`); a
    manual switch-off during a reconcile ends the same way. `NodesSettle` is conditional
    on none of these openers.
18. **Safe update.** A SIGTERM between the fork of `update.sh` and the assignment of
    `process` (`src/backend/scripts/panel_update_runner.py:242`) is recorded as failed
    though the deployment was started, against the docstring's "never as failed" (13-16).
    A container that is started, runs to its end and removes itself between the panel's
    look and its request counts as removed before it ran (`panel_safe_update.py:370`).

19. **Licence.** A crash between the remote enable and the commit of a restoration leaves
    `license_cut_applied` set on a running peer; when the licence is cut again, the pass
    skips it (`quota_manager.py:847,902`). A PPP session accepted after the licence
    recovered and before its restoration (`radius_server.py:427` asks the verdict, not the
    marker) survives the next cut in the same way; `AppliedIsOff` counts such sessions
    apart (`readmitted`). A suspended connection whose customer is renamed or handed over,
    or whose node moves, is never restored: its target differs for ever and nothing else
    clears the marker; `LicenceSettled` leaves these out (`target`).
    `_license_restore_snapshot` does not read `admin_disabled`: a service that was switched
    off by hand while suspended is opened by the restoration, until the next reconcile,
    against the comment at `quota_manager.py:737-738`. A restart between the assignment of
    a new key and the cleared file leaves it revoked until the next check-in
    (`src/backend/app/routers/license.py:156-158`). The console reads `revoked` and then deletes
    the row, so that a key revoked in between is removed, and with it unlocked, against
    the docstring of `forget` (`src/license_server/app.py:370-372`); `Forget` takes the two
    as one step.

## 6. Plan

What is left, in order:

1. The change of the session cap mode beside `QuotaEnforcement`.
2. The WireGuard address pool under its lease, as a third kind of step of
   `Provisioning`.
3. The wallet's service layer, accounts of deleted users and the cutover's backfill; the
   lot wallet as a payer inside `Provisioning`.
4. Proofs: the sums of the lot wallet (`BooksBalance`, `NoLotOverDebt`).
