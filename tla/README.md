# Verification of proxmox-proxy

`proxmox-proxy` (also called Proxcy-API) is an Express service between a
customer portal and a Proxmox VE cluster. It authenticates the portal's users,
finds out on which node a VM is, forwards reads, power actions and consoles,
and keeps a table of VMs and nodes up to date. This directory holds TLA+ models
of the parts of it that are concurrent or time-dependent, the TLC configurations
that check them, and TLAPS proofs about them.

Contents: 1 the system, 2 the modules, 3 the runs, 4 the fairness, 5 the
proofs, 6 where the code and its documents disagree, 7 what is not modelled,
8 the plan.

## 1. The system

One Node.js process. Whatever runs between two `await`s is atomic; anything may
happen at an `await`. Nothing but the database survives a restart.

| Component | State | Operations | What makes it correct |
| --- | --- | --- | --- |
| Proxmox client, `proxmoxClient.js` | `consecutiveFailures`, `circuitOpenUntil`, shared by all callers | request interceptor (reject or pass), response interceptor (success, error) | the circuit opens after failures only, is not kept open for ever by late answers, recovers when Proxmox does |
| Node failover, `utils/nodeFailover.js`, `utils/resolveNode.js` | the locals of each request; the row `vm_ownership.node` | run on the cached node, look the VM up, run again, heal the row | nothing is carried out twice, the reported node is the one that did it, "not found" means that the cluster said so, rows converge |
| VM routes, `routes/vms.js` | none of their own | list, page (two parallel calls), stats, 7 power actions, delete, console, task, credentials; each by vmid and by record | every request is answered |
| Authorization, `middleware/authorizeVm*.js` | reads `vm_ownership`, `team_members` | resolve the row and the node of a request, by vmid or by the row's id, for customers and for staff | all lanes lead to the same node; that node may be stale by the time it is used |
| Status sync, `jobs/syncVmStatus.js` | `running`, `consecutiveFailures`, the retry loop's locals | cron tick, attempt, backoff, update of all rows | no overlap, never the last run, recovers |
| Console sessions, `vncSessions.js`, `wsConsoleProxy.js` | the Map of tokens; a pair of websockets per console | create, take, sweep; upgrade, socket events | a token is good once and for a limited time, the store is emptied, the two sockets end together |
| Admin bindings, `routes/admin.js` | rows of `vms`, `vm_ownership`, `vm_action_audit` | a chain of database calls without a transaction | one row per VM, record and row agree, nobody owns what was not bound to them |
| Audit log, `middleware/auditLog.js` | rows of `vm_action_audit` | one insert per answer | every action leaves a row, and the row is true |
| Password backfill, `scripts/backfill-vm-passwords.js` | rows of `vms` | list, then fetch, encrypt and clear each | exit 0 means no plaintext is left; never replaces a newer password |
| Rate limiters, roles, `/health`, id parsing | none, or the library's | stateless checks | — |

How they interact:

* Requests, the sync job and the admin lookups share the one breaker. A failure
  of any of them counts, and an open circuit rejects all of them.
* Requests and the sync job share `vm_ownership.node`. The sync job is meant to
  correct it every two minutes; the failover heals it in between.
* Bindings write the rows that authorization reads and that the failover heals;
  bindings and the backfill write the same password columns. The database's
  constraints are the only thing that they have in common.
* The audit log reads, in the turn that answers a request, what authorization
  and the failover left in `req.params`.
* The console routes put a session into the store; the HTTP server's `upgrade`
  event takes it out; an interval sweeps what is left.

What is hard: answers of old calls that come after the state they were sent in
has gone; two requests that learn of different migrations; retries of actions
that are not idempotent; an answer of a call whose request has already gone on;
guards that must be cleared on every path; sockets that end in any order; a chain
of database calls any of which may fail, or take effect and then fail, while
other chains, heals and a script write the same rows.
`PROJECT.json` lists these hazards at their lines.

## 2. The modules

| Module | Models | Extends |
| --- | --- | --- |
| `CircuitBreaker` | the breaker's two variables and what a success, a failure and a unit of time do to them | |
| `ProxmoxClient` | the interceptors under concurrent callers, timeouts, an unreliable Proxmox | `CircuitBreaker` |
| `ThreeStateBreaker` | the breaker as the comment in `proxmoxClient.js:25-38` describes it, with neither clock nor calls | |
| `NodeFailover` | requests, `withNodeFailover`, rows, breaker, a cluster whose VMs move | `CircuitBreaker` |
| `VmRouter` | what a caller of the VM routes is promised, with neither rows, breaker, calls nor retries | |
| `AuditTrail` | the audit row of each request of `NodeFailover` | `NodeFailover` |
| `Bindings` | the bindings, the two tables, heals and the backfill script | |
| `SyncVmStatus` | cron, guard, retry loop, breaker | `CircuitBreaker` |
| `VmLedger` | what the bindings promise: an account of who holds a VM and where, with neither calls, rows nor passwords | |
| `ConsoleSessions` | token store, sweeper, socket pairs | |
| `ConsoleTickets` | what a console promises, with neither clock, store nor sockets | |
| `MC...` | values for TLC | the module they check |
| `...Proofs` | theorems | the module they prove about |

The breaker is composed with its users by `EXTENDS`: its operators are conjuncts
of their actions, so that an answer changes the breaker and the request in one
step, as the interceptor and the code behind the `await` do.

**CircuitBreaker.** The code compares `Date.now()` with `circuitOpenUntil`; the
model keeps the difference, `cooldownLeft`. `RecordSuccess` and `RecordFailure`
are the two handlers of the response interceptor, `CircuitIsOpen` is
`circuitIsOpen()`. `lastFailureMessage` is only text and left out. `Mode` and
`Strikes` map the two variables to `ThreeStateBreaker`; `ActsAsThreeStateBreaker`
is stated here and proved of each module that uses the breaker (section 5). TLC
checks it once, with its fairness, as `ImplementsThreeStateBreaker` of the client.

**ProxmoxClient.** `Send` and `Reject` are the two outcomes of the request
interceptor; `AnswerOk`, `Fails` and `TimesOut` run the response interceptor;
`Lose` is a call whose answer will never come; `Tick` is the clock, which does
not pass the instant of a due timeout. `openFor` is a history variable: how
long the circuit has been rejecting without a break.

**NodeFailover.** A request goes through the stages *authorized* (its row was
read), *first* (`run(node)`), *resolve* (`resolveNodeForVmid`), *retry*
(`run(freshNode)`), *heal* (the row's update) and *done*. The twenty-two routes
that use `withNodeFailover` differ, for these properties, in how many calls
`run` makes and whether they change anything, so they are four kinds: `read`
(the VM's page, two parallel calls), `stat` (statistics, and each row of the
list), `act` (power actions, console tickets) and `delete`. The handlers of one kind have
the same body but for the path of the Proxmox call. `wire` counts the calls
without an answer per leg: when one of two parallel calls fails, the other one's
answer still arrives later, changes the breaker and nothing else. `CallFails` is
the `catch` of `withNodeFailover` together with the interceptor: the lookup's own
request interceptor runs in the same turn, so it sees the circuit as that very
failure left it. `ResolveOk` is a lookup that succeeds: either with the cluster's
list (`Listed`), or without one, which is an empty body that the interceptor has
made `{data: null}` or a body that is not JSON. `resolveNode.js:8` takes the latter
for an empty list, so the request goes on (`GoesOnAt`) as if the VM did not exist.
`Finish` is the answer of the route or the error handler. Cluster
behaviour is external: a VM may migrate at any time, a node may go offline with
its VMs or without, and a node that is offline may or may not answer with the
text that the code recognises. `execs`, `ranAt` and `blank` (the lookup was answered
without a list) are history variables.

**VmRouter.** The abstract specification of the VM routes: a job is open until it
is answered; it is served on the node where its VM is at that moment, at most
once if it changes anything; the answer is "ok" with the node that served it,
"missing" if the VM is gone or the cluster gave no list to find it in (which the
job remembers as `blank`), or a failure, which says nothing about what was
done. `NodeFailover` maps each request to a job (`JobOf`: the stages between
authorization and the answer are all "open", the kinds become reads, changes and
removals, the outcomes four answers) and implements it
(`ImplementsRouter`): stale rows, breaker, lookup, second run, stray answers and
heals are invisible to the caller, but for failures.

**AuditTrail.** `auditLog` wraps `res.json`: `ResJson` is the part that it adds to
each step of a request. The step that answers reads `req.params.node` and sends
an insert, which the database stores, loses, or refuses because the node is
NULL. Routes put the node that served into `req.params` before they answer. The
error handler is mounted on the application; by then Express has put back the
parameters of the outer path, so `ParamsNode` is nothing for a failure. What the
table then holds is two-sided: a stored row is true (`AuditNamesServer`), and a
success is missing only if the database lost its insert (`SuccessesAreRecorded`);
for failures no such thing holds (section 6).

**Bindings.** One action per database call of the handler in `admin.js`, with the
code up to the next one: `Start` (validation and the read of the record),
`UpdateRecord`, `SetPassword` (if the request has a password), `FindOwnership`,
`WriteOwnership`, `AuditAndAnswer`. `Call` is a call that takes effect or fails; an answer that is
lost after the call took effect looks to the handler like a failure. `rows` is
`vm_ownership` under its `unique (node, vmid)`: two rows of one VM on different
nodes are allowed, and `maybeSingle` then fails for good. `Heal` is the failover's
update by vmid, from any request. The script goes through `BackfillList`, one
`BackfillFetch` and `BackfillEncrypt` per record, and `BackfillExit`, and may be
stopped anywhere and run again; `set_vm_password` of the database is external.
The lanes of the other routes are operators over the tables: `OwnLane` and
`StaffLane` (`authorizeVm` for customers and staff), `RecordLane`
(`authorizeVmByRecord`), `MaySeeNode` (`GET /nodes/:node`). `raced`, `bound`, `alone` and `overtaken` are
history: which VMs had two bindings that found no row together, what was ever
bound to what, whether anything interfered with a binding, whether a binding has
stored a password since the script fetched the older one.

**VmLedger.** The abstract specification of the bindings: a VM is vacant, held or
torn. A record is assigned a VM and a node at once; a VM is granted as a whole to
the customer of a record that has named it; a move changes the node and never the
owner; and only what nobody held can be torn. `Bindings` maps its tables to the
ledger (`HolderOf`, `AssignmentOf`) and implements it (`ImplementsLedger`): of its
calls only four are entries of the ledger, the update of the record (`Assign`), the
write of the row (`Grant`), a heal (`Relocate`), and the look of a second handler
that finds no row either (`Tear`). A binding is thus not one atomic entry but two,
in this order, with anything in between; `BoundWhenAlone` says when the two are as
good as one.

**SyncVmStatus.** A run is a slot with the loop's attempt number and the time
left to its timeout or the end of its sleep. There are two slots although the
code never uses two: they are what an overlap would need. A successful fetch
goes straight to the `catch` of `runGuarded`, because the condition of line 58
throws; the lines after it are unreachable, which is why the model has no update
of the rows and why `NodeFailover` has none by the sync job either.

**ConsoleSessions.** `CreateSession` is what the console routes do with a
ticket, `TakeSession` and `Sweep` are those of the store, `Upgrade` is
`handleConsoleUpgrade`, and the other actions are the events for which
`wsConsoleProxy.js` installs handlers, each with `CloseBoth`.

**ConsoleTickets.** The abstract specification of consoles: a ticket is issued and
then lapses or opens one console; a console dials, pipes and is over, or is
abandoned while it dials, and then over or an orphan. `TicketOf` maps a token that
is stored and not expired to a valid ticket, so an expired one that the sweeper has
not removed yet is already void; `PhaseOf` maps the states of two sockets to one
phase. No move leads back, so no late socket event revives a console.

Operators commented "A plausible bug" are not part of a specification: they are
wrong versions of an operator that `PROJECT.json` lists as mutants, one for
each property, and TLC finds the property violated with them.

## 3. The runs

| Run | Bounds | What it shows |
| --- | --- | --- |
| `client` | 3 callers, threshold 3, unit 5 s: cooldown 4, timeouts 3, 3 and 9 | type invariant; the circuit is open only after failures; what is on the wire while it is open predates it; it rejects for at most cooldown + longest timeout; it recovers; it implements `ThreeStateBreaker!FairSpec` |
| `client_cooldown` | the same | *violation*: the cooldown is not always served (section 6) |
| `failover_safety` | 1 VM, 3 nodes, 2 requests, 2 migrations, 1 fault; kinds read, act, delete | type invariant; at most one execution; the reported node is the one that served; a 404 is the cluster's own answer; rows only learn nodes on which the VM ran; a stored audit row is true, and no success is without one but for a lost insert; it implements `VmRouter!Spec` |
| `audit_lost` | 1 VM, 1 node, 1 request, 1 fault | *violation*: an action that was carried out leaves no audit row (section 6) |
| `bindings` | 2 records of 2 customers, 2 VMs, 2 nodes, 2 handlers, 3 bindings | type invariant with the unique constraint; only a race makes a second row; an undisturbed binding leaves record, row and lanes in agreement; owners have a record; exit 0 means no plaintext; the backfill loses only one race; it implements `VmLedger!Spec` |
| `failover_live` | 1 VM, 2 nodes, 2 requests, 2 migrations, 1 fault; kinds read, act | no request waits for a call that is not there; each of its steps brings it nearer to its end; so every request is answered; rows converge, an older heal that comes last included |
| `failover_lockout`, `failover_heal`, `failover_offline` | the smallest instances that have the behaviour | *violations* (section 6) |
| `sync` | 2 slots, unit 5 s: timeout 9, backoffs 1, 1, 2, cron period 24, cooldown 4 | runs do not overlap; never two ticks skipped in a row; there is always another run, whatever the portal's calls do to the breaker in between |
| `sync_recovers` | the same | *violation* (section 6) |
| `console` | 2 tokens, 2 consoles, unit 15 s: TTL 4, sweep 2 | single use; the store forgets; orphans have one cause; the ends of a console follow each other; it implements `ConsoleTickets!Spec` |

Bounds and why they are enough:

* `MaxFailures` saturates the counter. The code only compares it with the
  threshold, so a larger counter adds no behaviour.
* Time units keep the ratios of the code's constants. A cooldown of 4 lies
  between the two timeouts (3 and 9), so calls can time out while the circuit
  is open, after it closed, and across several openings. In `NodeFailover` the
  cooldown is one unit: only "open" and "not open" matter there.
* Backoffs are rounded up to whole units, which makes runs of the sync job
  longer than in the code and `AtMostOneTickSkipped` harder to satisfy.
* `MaxMoves` 2 lets a VM move while a lookup, a retry or a heal is on its way
  and move back, so that a heal for the first migration can come after that for the
  second. `MaxFaults` bounds timeouts, database errors, lookups that fail or have no
  list, and node failures together. With one fault and two calls on the wire, one
  request can time out after it was carried out while the VM moves, which is
  the case that a careless retry would execute twice.
* Two requests are what the races about one row need: all of them are between
  the writes of two requests. Slots are reused, so sequences of requests occur.
* Two handlers, two records and two VMs give every pair of bindings: of the same
  record, of the same VM, of both, of neither. `MaxBindings` 3 lets a third one
  follow after two that raced, failed or moved a record on. Failed calls, lost
  answers, heals and runs of the script are not bounded.
* `MaxStreak` saturates the sync job's failure streak; the property only
  distinguishes zero from more. The history variables `openFor` and `skipped`
  stop counting beyond the values their properties forbid.
* Two tokens and two consoles distinguish "this session" from "another one".
  A third of either would only repeat the pair, as no action relates three.

`failover_live` compares states by the `VIEW` `Future` of `MCNodeFailover`: without
the history variables, which no guard reads and none of its properties names, and,
of a request that is over with nothing on the wire, only that it is, since
`Authorize` overwrites the rest. Two states with the same view have the same steps
up to the view, and every formula of the run has one value on them.

Symmetry is used where no liveness is checked. In `failover_safety` the requests
and the nodes are interchangeable; in `bindings` the VMs, the nodes, the handlers,
and the two records if their customers are exchanged with them. The temporal
formulas of these runs are an action property each and refinements of
specifications without fairness, which treat all that is exchanged alike.

`CHECK_DEADLOCK` is nowhere disabled: the systems never stop.

## 4. Fairness

* `ProxmoxClient`: time passes; callers poll (the portal does, every few
  seconds); axios settles a call it has sent, at the latest by its timeout.
  Nothing is assumed about Proxmox; `Recovery` names its hypothesis.
* `NodeFailover`: time passes; a call is settled and the process goes on with
  it; and each VM is asked for again and again. The last one is strong fairness
  because the polls of a VM compete with others for the model's slots. Neither
  migrations nor faults are assumed to happen, nor that other traffic exists
  that could close the circuit. `CacheConverges` has two hypotheses, and fails
  without either: that the circuit eventually stays closed (`CircuitStaysClosed`;
  without it, `failover_lockout`), and that the node which the row names is not
  offline for good (`RowsNodeAnswers`; without it, `failover_offline`).
* `VmRouter`, `AuditTrail`, `Bindings`, `VmLedger` and `ConsoleTickets` state safety
  only. A binding has nothing
  that must happen: the operator sees the answer and decides.
* `SyncVmStatus`: time passes, cron fires, sleeps end, fetches are settled by
  their timeout at the latest.
* `ConsoleSessions`: only that a socket that is closing closes; the `ws` library
  destroys it after a timeout. No fairness for a socket that is connecting: the
  code sets no handshake timeout, so it may stay so for as long as TCP lets it.

## 5. The proofs

All theorems hold for every value of the constants that satisfies the `ASSUME`s
of the modules (TLC evaluates those in each run): any number of callers, VMs,
nodes and requests, any threshold, cooldown and timeouts.

`CircuitBreakerProofs`: `CountOutlivesCooldown` and `BreakerIsThreeState` are about
the breaker alone, driven by any sequence of successes, failures and units of time
(`BreakerSpec`). That an open circuit has the threshold's count is inductive, and
is what makes the end of a cooldown lead to half-open and not to closed. A user of
the breaker only has to show that each of its steps is a step of `BreakerSpec` or
none: `ClientUsesBreaker`, `FailoverUsesBreaker` and `SyncUsesBreaker` do, for
interceptors that run in the same turn as the code behind the `await`. So
`ClientRefinesThreeStateBreaker`, `FailoverSharesThreeStateBreaker` and
`SyncSharesThreeStateBreaker` have one proof, and it covers what no test of one
caller reaches: lookups that are rejected in the turn of the failure before them,
answers of calls that nobody awaits any more, and two subsystems on one breaker.

`ProxmoxClientProofs`:

* `ClientTypeOK`, `OpensOnlyAfterFailures`, `NothingSentWhileOpen`,
  `OutagesAreBounded`. The inductive invariant is the conjunction of the four
  invariants, which the run `client` checks too. The bound on an outage is not
  inductive without the third one: an open circuit's cooldown is started afresh
  only by a call on the wire; that call is at least as old as the outage, and no
  call is older than its timeout, so the outage is no longer than the longest
  timeout at that moment; from then on elapsed time and cooldown only trade
  places.

`NodeFailoverProofs`:

* `FailoverTypeOK`, `NothingRunsTwice`, `ReportedNodeIsTheServer`,
  `MissingIsTheClustersAnswer`, and the action property `RowsLearnTheTruth`.
* The inductive invariant adds four facts about each request to the type
  invariant. `WireInv`: which legs can have calls on the wire in which stage (a
  first run's strays may survive into every later stage, a retry's only into the
  end). `OnceInv`: what has been executed plus what may still be executed is at
  most one, for requests that change something; this rests on "wrong node"
  answers proving that the first run did nothing, and on such requests making one
  call per run. `NodeInv`: once the awaited run has had a success, `ranAt` is the
  node that will be reported. `GoneInv`: after "not found" the VM is nowhere, and
  the cluster never gets it back, unless the request's lookup was answered without
  a list (`blank`).
* The proof of the step splits into the request that acts (one lemma per action)
  and all the others, for which one lemma (`Bystander`) suffices: a step of
  another request changes none of their variables, except that it may remove a VM.

* `WaitersAreServed` and `RequestsEnd` are the part of `EveryRequestIsAnswered` that
  needs no fairness: a request that waits has a call under way, and every step of a
  request lowers `Work`, which is at most fifteen. `Work` weighs the waits that can
  still follow (`StagesAhead`) by three, one more than the calls a run can put on
  the wire, and adds the calls under way, strays included; a new run is thus always
  paid for by the wait that ended. One clause is added to the invariant
  (`AwaitInv`), and again only the request that acts is examined (`GoesOn`).

`VmRouterProofs`: `FailoverImplementsRouter`, that is `Spec => Router!Spec`. To the
invariant above it adds `MapInv` (reads have no effects, an open request names no
node). Each action is reduced to what it does to the place of a VM and to `JobOf`
of a request: a call's fate is `Serve`, with or without the answer in the same
step, `Answer`, or invisible; a lookup that ends the request is `AnswerMissing` or
`Answer`; the
environment is `Move` or invisible. `Serve` asks that a change has no effect yet,
which is where `OnceInv` is needed.

`AuditTrailProofs`:

* `TrailIsTrue`. `DoneInv` says that an answered success of a change was executed
  once, on the node it names, and stays so, as nothing of it is left on the wire;
  `EntryInv` ties the stored row to that answer.
* `SuccessesReachTheTrail`. The insert is refused when its row has no node, so the
  argument is that a success names its server (`ServedInv`, one lemma per step that
  can answer), that the routes put it where `ParamsNode` reads it, and that the entry
  stays until the slot is used again (`RecordedInv`).
* Every step of `AuditedSpec` is a step of `Spec` with a conjunct about `entry`, so
  what is proved of the failover holds of the audited one, by construction.

`BindingsProofs`: `BindingsTypeOK`, `OnlyRacesDuplicate`,
`OwnershipFollowsTheRecord`, `CleanExitIsClean`, `BackfillLosesOnlyTheRace`,
`UndisturbedBindingsHold`, `BindingsImplementLedger`.

* The tables only grow: no row is deleted, and a row keeps its VM. So what a
  waiting handler knows stays true (`LocalInv`), and a step has to be examined for
  the handler that takes it.
* `SoloInv`: a VM without a race has one row at most, and a handler that found
  none is alone and still right. It is what `DuplicatesNeedARace` leaves out: that
  between the look and the insert nobody else inserts.
* `PasswordInv`: a plaintext password was never encrypted; the script has it on
  its list or in hand, unless a row failed; what it has in hand is the newest
  unless it was overtaken.
* `AloneInv`, for `UndisturbedBindingsHold`: nobody else works on the record or
  the VM of an undisturbed binding; what it has written so far is still there; and
  the row it found is the only one.
* `BindingsImplementLedger` takes one lemma per entry of the ledger
  (`UpdateRecordIsAssign`, `FindOwnershipIsTear`, `WriteOwnershipIsGrant`,
  `HealIsRelocate`), one for all other steps, and `HolderKept`: who holds a VM does
  not change with the rows of other VMs. `Grant` needs `SoloInv` (the row that is
  written is the only one, whether inserted or updated) and `LocalInv` (the record
  names the VM by then); `Tear` needs that a handler at the write has looked in
  vain, so that the VM is still vacant.

`SyncVmStatusProofs`: `SyncTypeOK`, `GuardIsTrue`, `RunsEndInTime` and
`ThreeRetriesEndInTime`. Every way in which an attempt
begins or fails leaves its slot idle with the guard cleared, or active with the
guard as it was (`Settles`); `AttemptInv` keeps the attempts within the table of
backoffs. `RunsEndInTime` holds for constants with a table `Within` that bounds the
rest of a run at each attempt and starts below two cron periods; in units of 5 s the
code's own are 40, 30, 20 and 9 against 24. `ThreeRetriesEndInTime` gives that
table for the code's three retries, so that the only hypothesis left is on the
sums of timeouts and backoffs. `BudgetInv` says that what a run may
still take is less than the time to the tick that it must not miss.

`ConsoleSessionsProofs`: `ConsoleTypeOK`, `TokensAreSingleUse`,
`StoreIsSwept`, `OnlyEarlyLeaversOrphan`,
`ConsolesImplementTickets`. A token in use is
drawn and spent, so it is neither taken nor drawn again (`SpentInv`); an expiry is
no longer past than the last sweep (`SweptInv`), whatever the relation of TTL and
period; and a client that leaves while the upstream connects is remembered as
early before the upstream can open (`EarlyInv`). For the refinement,
`SocketEventAdvances` shows that each of the six events, with the `closeBoth` that
its handler calls, keeps the console's phase or takes it one move on; this needs
that the two sockets come into being together (`Paired`). Everything else that
happens to the store, from the sweeper to the clock, is a lapse of a set of tickets
(`LapsesOnly`).

Only model-checked: the liveness properties and the fairness part of the
refinement of `ThreeStateBreaker`, which TLAPS cannot prove. Of the failover's
`EveryRequestIsAnswered` the safety half is proved (above); that a step of a
request that waits is enabled, and is taken, is left to TLC. The violations of section 6 are
counterexamples of TLC.

## 6. Where the code and its documents disagree

* `syncVmStatus.js:58` reads `status`, which is declared nowhere. Every
  successful fetch ends in a `ReferenceError`; the streak of failures climbs for
  ever on a healthy cluster and no row is ever updated (`sync_recovers`).
* The README says the circuit stays open for 20 s. A success of a call sent
  before it opened closes it at once (`client_cooldown`).
* Wrong-node answers count as failures of Proxmox (`proxmoxClient.js:112-114`):
  three migrated VMs in one list open the circuit in a cluster where nothing failed.
  Once it is open, a trial for a migrated VM opens it again, and the lookup that
  would repair the row is rejected in the same turn. The row stays wrong for as long
  as no other call succeeds between the end of a cooldown and that trial
  (`failover_lockout`): with other traffic this is soon over, with one VM polled
  it is not.
* `docs/architecture/dynamic-multi-node.md:129-131` and
  `docs/testing/node-failure-testing.md:39-54` say that a VM whose node went offline
  and which was moved elsewhere is picked up like any migrated one. Only an answer
  with the text of a wrong node leads to the lookup; a transport error is rethrown
  (`nodeFailover.js:48`), so every request for the VM fails and its row names the
  dead node for as long as that is down (`failover_offline`). For a VM that stays on
  the dead node, the same line gives the plain error and not the 503 with
  `nodeUnreachable` that these pages describe.
* `nodeFailover.js:37-38` says that "not found" is a VM that "isn't in
  /cluster/resources at all anymore". `resolveNode.js:8` reads `data.data || []`, so
  a lookup that succeeds without a list (an empty body, which
  `proxmoxClient.js:76-79` makes `{data: null}`, or one that is not JSON, which
  `:15-22` leaves as it is) gives the 404 to a VM that exists. The sync job guards
  against just that answer (`syncVmStatus.js:63-67`). The model has it, as the second
  disjunct of `ResolveOk`, and `NotFoundIsTheClustersAnswer` says that it is the
  only way to a wrong 404.
* A heal overtaken by a second migration writes an outdated node
  (`failover_heal`). The next request repairs it.
* The README (line 262) says that every power action, deletion and console is
  recorded with user, vmid, node, action and result. A failure is answered by the
  error handler, where `req.params` has neither vmid nor node, and
  `vm_action_audit.node` is NOT NULL: the insert is refused and the refusal only
  logged. So failures are not recorded, and one of them may be an action that was
  carried out and whose call timed out (`audit_lost`).
* `admin.js:14-15` calls vmid "unique per the schema"; `schema.sql:17` has
  `unique (node, vmid)`. Hence the races of `Bindings`: two bindings of one vmid to
  two nodes can leave two rows (`DuplicatesNeedARace`).
* `admin.js:115-123` inserts `performed_by_role` into `vm_action_audit`, a column
  that `schema.sql:33-42` does not have, and does not read the error. By that schema
  no binding leaves the audit row that `src/README.md:161-163` describes. No run
  shows it, as the step has no alternatives to explore: `AuditAndAnswer` only
  answers.

## 7. What is not modelled

* The text of errors, logs and answers; request validation; HTTP wiring;
  `/health`; the checks of the environment.
* Authentication and the roles: stateless reads of the identity provider and of
  `team_members`, before anything else happens. What a role decides is in the
  models: which lane a request takes.
* The cluster lookup of `authorizeVm` for staff when a VM has no row: it is one
  more call whose outcome only the breaker sees (`OtherCall`), followed by the same
  `withNodeFailover`.
* The rate limiters: their counters are the library's.
* Frames on a console: the handlers forward each to an open peer or drop it.
* Task status: the node comes from the task's identifier and no state changes.
  `nodeFromUpid` and `cleanVmid` are string functions with unit tests.
* `vmActionCooldown.js`, `checkCustomerEntitlement.js` and the export
  `authorizeByRecord` are used by no route.
* The audit row of a binding: the insert changes none of the tables of `Bindings`
  and its outcome is not read, so `AuditAndAnswer` is only the answer (section 6
  says what becomes of the row).
* The lookup of a credential reveal (`vms.js:378-388`): it reads one record by vmid
  and changes nothing.
* Hazards without a property: the sync's last attempt after three failures meets
  the open circuit, which the model has and no document speaks of; a record that is
  bound to a second vmid leaves the row of the first with its customer, and a VM that
  is bound to a second record is then refused to a credential reveal, where no
  document says what should happen; and the audit row of a binding (above).

## 8. Plan

1. *(done)* `CircuitBreaker`, `ProxmoxClient`, `ThreeStateBreaker`,
   `NodeFailover`, `SyncVmStatus`, `ConsoleSessions`; proofs about the client and
   the failover.
2. *(done)* `Bindings` with the backfill and the lanes; `AuditTrail`; `VmRouter`
   and the refinement; proofs about these, the guard of the sync job and the
   console's store.
3. *(done)* The breaker's refinement for all its users; both sides of the audit
   trail; `VmLedger` and `ConsoleTickets` with their refinements; the safety half of
   "every request is answered".
4. Left: a binding as one atomic entry of the ledger where nothing interferes with
   it, as a refinement rather than by its outcome (`BoundWhenAlone`).
