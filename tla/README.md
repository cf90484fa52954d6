# TLA+ models of Proxy Control

Proxy Control is a panel (Rust, `panel/crates/`) that issues proxy accesses on one server and, as the
*central* of a fleet, on linked servers; an installer (`installer/`) that puts the panel and the proxy
runtimes on a host; a version agent, host managers and an MCP server beside them. This directory holds
TLA+ modules of the parts where the order of steps, a crash or a lost call decides whether the result is
right, TLC configurations for them, and TLAPS proofs about every one of these parts.

All paths below are relative to the root of the repository; `PROJECT.json` maps every definition that
models code to its lines.

## 1. Inventory

### Components, their state and how they interact

| Component | State it keeps | Operations | Talks to |
|---|---|---|---|
| Publisher and pusher (`fleet-central/src/{generations,pusher}.rs`) | `desired_generations`, `observed_generations`, `node_links.config_dirty` / `acknowledged_generation`; in memory one mutex, a backoff and a withheld counter per node | publish, sync (adopt, decide, push, resync, poll, capture, absorb), backoff | node endpoints over HTTP; provisioning (`remote_applied`); secret store |
| Node endpoints (`fleet/src/node/service.rs`) | none of its own | accept a generation, apply with a deadline, report, capture credentials, unlink | reconciler, managed store |
| Reconciler and managed store (`fleet/src/node/{reconcile,managed}.rs`) | `managed_generations`, `managed_resources`, the reconcile lock | apply, apply_latest, apply_protocol, apply_resource, lanes, relay, egress, run_pending, unlink | protocol managers; the panel's own writers through the guard |
| Writer guard (`clients/src/managed.rs`, `fleet/src/node/guard.rs`) | reads `managed_resources` | require_unmanaged | every local writer |
| Access enforcer (`clients/src/enforcement.rs`) | in-memory schedule | the tick: local grants, then `run_pending` | lifecycle, reconciler |
| Provisioning (`clients/src/provisioning.rs`) | `provisioning_operations` with `steps_json`, `access_grants`, `secret_versions` | start, reserve, run, advance, compensate, remote_applied, withdraw_remote | adapters; pusher |
| Grant lifecycle and facade (`clients/src/{lifecycle,facade,service}.rs`) | `clients`, `access_grants` | enable, disable, delete, rotate, windows | adapters, guard, publisher |
| Protocol adapters (`protocols/src/*`) | none | discover, create, rotate, switch, delete | managers over Unix sockets |
| Routing (`routing/src/*`) | policies, lanes, exits, relays | compile, apply, roll back, attach and detach the service, lanes on and off | adapters, publisher |
| Secrets (`secrets/`), metrics, subscriptions, node registry, web shell, CLI | their tables | envelope encryption, collection, rendering, HTTP routes | all of the above |
| Installer engine (`installer/src/{engine,model,store}.rs`) | `state.json`, `plan.json`, `ownership.json`, `report.json`, host lock | apply, resume, repair, uninstall, roll back | adapters (`adapter.rs`, `core.rs`, ...) |
| Installer handoff and migration (`installer/src/handoff.rs`, ...) | the rebased journal | hand an installation to a new release | engine, version agent |
| Version agent (`version_agent/`) | its state file with the records and markers, `backups/`, the operation lock | update of components and of the panel itself, rebuild of managers, recovery at start | handoff, Compose, systemd |
| Xray-router manager (`xray_router_manager/`) | generation files, `current.json`, `journal.json`, `state.json`, `lanes.json`, one Xray process | apply, roll back, lane accounts, watchdog, bootstrap with recovery | routing and the node's reconciler over a socket |
| Mieru manager (`mieru_manager/`) | `state.json`, `journal.json` with its backup; the mita daemon and the lane slots | users, quotas, egress, lanes, lifecycle; bootstrap with recovery | mita's command line; adapters and lanes over a socket |
| Other host managers, MCP server, probe, deployment files | a configuration each | write, validate, reload, roll back | runtimes |

`PROJECT.json` lists all of them under `components` with what is modelled and why the rest is not.

### The hard behaviours

`PROJECT.json` lists the hazards at their lines. In short:

* **Fleet.** A push whose answer is lost is sent again; the answer may arrive after the central gave up;
  a report can be read before and absorbed after a newer publish; the node may be applying an older
  generation or restart between accepting and applying; the central's database may be restored from a
  backup and reuse numbers; a credential that a manager chose travels in an answer that may be lost.
* **Node.** A call of a manager may fail after it took effect; the process may stop between a call and
  the row that records it; the inventory is read once and used after calls; the panel's own writers do
  not take the reconcile lock; validity windows end on their own.
* **Provisioning.** Every checkpoint is a transaction of its own; the request, a resume, the pusher and
  an operator's delete interleave between them; compensation itself may be interrupted.
* **Installer.** A crash falls between any two of the three files of the journal, or between the host
  and the journal; a rollback may fail half-way; owned files may be edited between the commands.
* **Update.** The agent replaces trees, image, container and database one after the other and may be
  killed at any of them, also by its own last step; the installer's journal has to follow the trees.
* **Routing.** Requests hold no lock across the reads of two managers; a call given up after 8 seconds
  may still be made; the router's manager may die between swapping the process and saying so.
* **Access.** The pages write to the manager before the database, passes read back and take a note, and
  the tick believes the note.
* **Mieru.** A change is several calls of a daemon, each of which may do its work and lose its answer;
  its undoing may fail too, and the slots follow after the commit.

### What makes each modelled part correct

* Delivery: a link shown as clean is a node that converged on what the central wants now, with every
  credential in escrow; the node never goes back to an older generation; every change arrives.
* Node: a generation reported as converged is what runs; an account of the central's always has the row
  that owns it; neither the apply nor the local writers touch the other side's accounts.
* Provisioning: `succeeded` is whole, `compensated` is clean, a purged grant has no live credential,
  every operation ends. Section 3 lists the grants of which the code does not keep this.
* Installer: the journal knows of everything on the host at every instant; a settled journal means an
  empty host; a removal ends as it began; kept data and edited files survive.
* Update: a panel recorded as ready is one whole release with a journal that describes it; of everything
  an update replaces a whole copy is left, also where the agent dies in it, until another update begins on
  what is left; a component's verdict names what runs; one operation runs Compose at a time.
* Routing and its router: what runs is what `current.json` says; a service is handed to the router only
  when its policy runs there; applying one lane takes no other lane back.
* Access: an account is on exactly while client, grant and window say so; a note is what the account is.
* Mieru: mita serves what `state.json` records, or the journal says which change it holds; a slot serves
  the enabled users of its lane.

## 2. Modules

| Module | What it is |
|---|---|
| `FleetGenerations` | the promise of ADR 002 (`docs/adr/002-declarative-generations.md`): publish, hold, converge, acknowledge |
| `FleetDelivery` | central and node of one link, HTTP between them; implements `FleetGenerations` |
| `FleetDeliveryProofs` | theorems about `FleetDelivery` |
| `FleetNode` | the reconciler of one protocol, its rows, the runtime's accounts, the local writers |
| `FleetNodeProofs` | theorems about `FleetNode` |
| `Provisioning` | one provisioning operation with several grants |
| `ProvisioningProofs` | theorems about `Provisioning` |
| `InstallerTransaction` | the installer's checkpointed transaction |
| `InstallerTransactionProofs` | theorems about `InstallerTransaction` |
| `VersionAgent` | the panel's self-update with the ownership handoff, the rebuild of a manager, the update of a component |
| `VersionAgentProofs` | theorems about `VersionAgent` |
| `RouterManager` | the Xray-router manager: one operation at a time, its files and its process |
| `EgressRouting` | the routing service's requests and the node's egress sections, composed with `RouterManager` |
| `EgressRoutingProofs` | theorems about `EgressRouting` and `RouterManager` |
| `ClientAccess` | local grants, their accounts, the passes of `reconcile_access` and the requests beside them |
| `ClientAccessProofs` | theorems about `ClientAccess` |
| `MieruManager` | the Mieru manager, the mita daemon and the lane slots |
| `MieruManagerProofs` | theorems about `MieruManager` |
| `MC*` | values of the constants for TLC |

Definitions that are used by no action (`ReceivedIsReported`, `NoPlaceholder`, `OldestFirst`, ...) stand
beside the one they deviate from: they are plausible mistakes in it, which `PROJECT.json` lists under
`mutants` with the property that each of them breaks. They show that the properties can fail.

### FleetDelivery

A generation document is its number, the content it asks for, and the lineage (`epoch`) of the central
database that issued it, so two documents are equal exactly when their digests are. `latest`, `pushed`,
`dirty`, `ack`, `seen` and `escrow` are the central's rows; `sess` is the one sync that the per-node
mutex admits, and carries what `sync_client` read before it let the database go; `req`, `reply` and
`late` are the HTTP call and the requests the central gave up on but the node may still read; `nodeDoc`,
`nodeState`, `jobs` and `running` are the node's latest generation, the applies that wait for the
reconcile lock and the one that holds it. `issued`, `done` and `started` are history for the properties.

One action per database transaction or network event: `Publish`, `SyncStart`, `Adopt`, `Decide`,
`PushAccepted` / `PushRejected` / `PushUnanswered`, `GetObserved` / `GetUnanswered`, `Reissue`,
`Capture`, `Absorb`, `NodeAccept`, `NodeAcceptLate`, `ApplyDeadline`, `RunPending`, `ApplyStart`,
`ApplyEnd`, `ApplyError`, `Unlink`, the two crashes, `Backup` and `Restore`. What an apply does to the
runtimes is one outcome here and a module of its own (`FleetNode`).

`Restore` waits for the sync in progress and for requests on their way: the procedure in
`docs/BACKUP_RESTORE.en.md` stops the panel first. A restore of the empty backup is also what removing
a link and adding it again leaves.

### FleetNode

`latest` is the latest row of `managed_generations`, `rows` is `managed_resources`, `account` the
manager's accounts with a history field that says whose each one is, `job` the apply that holds the
reconcile lock with its copies of the document, the rows and the inventory, `local` a writer of the
panel that passed the guard and has not called the manager yet. A document maps a runtime name to a
reference, a version of its credential and a desired state, and the versions of a name only go up, because the
central makes a new version for each rotation and names it in `credential_ref` (`generations.rs:404`).
The steps of `apply_latest`,
`apply_protocol` and `apply_resource` are actions in the code's order: `start` (which drops stale
missing rows), `Discover`, per resource `Collision`, `Adopt`, `Withdraw`, `Placeholder`, `Keep`,
`Create`, `Rotate`, `Delete`, `Switch`, `Record`, `Fail`, then `Readback`, `OrphanDelete`,
`OrphanForget`, `Lanes`, `Relay`, `Egress`, `Finish`. A manager's call succeeds, fails, or takes effect
and loses its answer; what an apply reads back of an account it keeps may fail (`DetailFails`). A local writer
asks the guard and writes in two steps, with any step of an apply between them. Two variables are history:
`overtaken`, an apply recorded the writer's name after the writer had asked, and `crossed`, the names that a
writer wrote behind an apply's back or that an apply recorded without having read the inventory.

Left out: protocol options, learned facts, revisions, the "drifted" report and duplicate names inside a
document. Lanes, relay and egress appear with their outcome, and lanes with the rows they fail. A
database error in an apply is a `Restart` without the budgets of the other work: in both, what is
durable stays and the job is gone.

### Provisioning

`op` and `step` are the journal, `row` and `secret` the grants and their secret versions, `account` the
runtime's account of each name and whose it is, `run` where each `run()` is and the copy of the steps it
works from, `del` a deletion by an operator. Every database transaction and every manager call is a step
of its own. Adapters differ in two respects: a manager that chooses the credential (`Chosen`) has no
secret before its create, and one without idempotency keys (`Unkeyed`: Telemt) cannot replay a create.
`reconcile_access`, which confirms an account before it counts, is one step (`Confirm`). The node's side
is `NodeApplies`, external to this module: `FleetNode` and `FleetDelivery` model it. `marks` is history: what came
to a grant besides its own run (`Marks` says what each mark means).

### InstallerTransaction

What an action puts on the host is one owned file, whose bytes are the plan that wrote it, and data that
is kept on an uninstall unless it is purged. `state`, `plan` and `owned` are the three files of the
journal, `proc` is the process under the host lock with its in-memory `TransactionState`. `persist` is
the sequence of the engine: the state file, then what is derived from it, with a failure before or after
the first write and a crash between the two. An adapter may stop half-way (`MutatePartly`,
`RemoveFile`). Owned files are edited between commands only: an edit in the few instructions between a
digest check and the removal it allows is not excluded by the engine and not modelled.

### VersionAgent

The bytes of a tree, a file, an image or a database are the number of the release they come from; 0 is
missing, `Torn` half written. `trees`, `backup`, `db`, `snap`, `image`, `box` are the host, `journal` and
`owned` the installer's two files, `panel` and `comp` the records of the agent's state file, `w`, `rb`
and `c` the three threads. The panel update is `Download`, `Lock`, `Prepare`, then the steps of `Swap`
(per entry of `PANEL_SYNC` a `Move` and a `Copy`, then tag, build, stop, snapshot, up, check, the
handoff's two writes) or those of `Restore`, and `Verdict`. `Crash` leaves of the step it interrupts what
a kill would (`debris`); `Start` is `recover_interrupted`. A component's update writes its verdict in a step of
its own (`RecordComponent`), after the new build or the old one runs, and the write may fail. `torn` is history:
which of panel and component were left half updated, or without a verdict, with no success since, and `"again"`
for an update of the panel that was begun on such a one.

### RouterManager and EgressRouting

`RouterManager` is the manager under its lock: `current`, `files`, `history`, `state`, `accounts` are its
files, `process` what runs, `op` the operation with one step per durable effect (render, stop, start,
`current.json`, journal and state). `EgressRouting` extends it with its callers: `policy` and `own` are
the panel's tables, `native` the service's own manager, `req` the request of each caller between its
reads and its writes, `late` the calls given up that still wait for the lock, `section` and `egress` the
node's side of a central's generation. Applying one lane compiles all lanes of the service, as the code
does. Enabling a lane issues its account, writes the grant (`Mark`), has the router issue the other lanes'
accounts again one by one and tells the service's manager (`Push`, `Reissue`), and adds a policy if there is none
(`Draft`); disabling begins with the grant, and both undo the grant when the manager could not be told (`Unmark`).
Whoever gives a call up, panel or node, may leave it behind in `late`. Two variables are history: `misled`, what a
late call on a node has made untrue (the reading of the router by the pass under way, the last report), and
`bare`, the lanes that had no policy or no lane on their grant at some moment since the router's last generation.
On a node under a central the model has no lanes; `lanes.rs` does not ask whether one is there.

### ClientAccess

`row` is `access_grants` by account name, `secrets` the states of each grant's versions, `account` the
runtime, `pass` the pass that holds the access lock with what it planned and read, `req` each request
between its transactions and its manager call. The protocol of a name (`mtproxy`, `naive`, `mieru`)
decides what its page does with an account that has no row. `doubt` is history: names whose account the
panel took for granted (a rotation that adopts it without reading its state), whose answer it never had,
or whose account a deleted issue made; a pass that confirms the account ends it. The properties are about the
others.

### MieruManager

`disk` and `journal` are the two files, `mita` and `slots` the daemons (what each was given, what it has
loaded, whether it runs), `m` and `memory` the manager and the state its request works with, `at` the
slot of a sync. Every call of a daemon is a step that succeeds, fails, or does its work and loses its
answer, and every write of a file is a step of its own. A start is `Bootstrap` (the verdict of `recover`), `Check`,
`Mirror`. `strayed` is history: slots that a failed or interrupted sync left running an old
configuration, and 0 for a lanes request that ended before its record.

## 3. Runs

Deadlock is not checked where the system may stop: in the two provisioning runs (a start that finds the
name taken is refused) and in `update`, `egress`, `access` and `mieru`, whose requests are used up by
their budgets.

| Run | Bounds | Shows |
|---|---|---|
| `delivery` | 2 contents with windows (symmetric), 2 generations, 1 restart of either panel or unlink | `CleanIsConverged`, `NoOlderGenerationApplied`, and that the protocol implements `FleetGenerations` |
| `delivery_live` | 1 content with a manager-chosen credential, 1 generation by operators; a backup taken at any moment and put back at any later one | `CleanHoldsCredential` with numbers reused; `EventuallyClean` |
| `node` | 1 name, 3 references (one imported, one windowed), 2 credential versions, 3 generations, a failed or lost call, an unreadable inventory, a restart, a local writer at any moment | `ConvergedIsApplied`, `OwnedHasRow`, `ForeignUntouched`, `CentralIsOnlyWriter` |
| `node_live` | 2 names of a manager that chooses its credentials, 2 generations, a window, a failure, an outage, a restart, an unlink | `Converges` |
| `provisioning` | a Telemt, a manager-chosen and a remote grant; a restart, a refusal, a lost reply, a deletion, a foreign account | `SucceededIsWhole`, `CompensatedIsClean`, `OthersUntouched`, `RevokedWithGrant`, `Settles` |
| `installer` | 3 actions (one keeps data), 2 plans, 3 crashes, 3 errors, 2 edits | `JournalCoversHost`, `LayeredOnVerified`, `Resumable`, `RemovalEndsAsBegun`, `OperatorsIsKept`, `Recovers` |
| `update` | 3 releases (the second changes the manager's tree), 2 builds of a component, 2 mishaps of which 1 may be the agent's death | `VerifiedIsWhole`, `NothingIsLost`, `OneOperation`, `VerdictNamesWhatRuns`, `UpdateSettles` |
| `egress` | 2 callers, the service and 1 lane, 2 bodies, 2 requests of the panel or 3 passes of the node, 1 saved policy, 2 sections, 2 mishaps of which 1 may be a death; calls that either has given up may be made late | `RunsCurrent`, `ConvergedSectionRuns`, `OthersNeverTakenBack`, `DetachedBeforeWithdrawn`, `HandedToItsPolicy`, `RouterSettles` |
| `access` | 1 name of each of 3 protocols in turn, 2 callers, 2 requests, 1 tick of the clock, 1 failed or lost call or restart | `ObservedIsReal`, `LiveNamesLive`, `EnforcedInTheEnd` |
| `mieru` | 2 users, 2 lanes, 2 slots, 2 requests, 2 calls that fail or lose their answer, 1 death of the manager or of mita, 1 rotation of the router's credential | `RunsWhatIsCommitted` (with `DivergenceIsJournaled`), `SlotsFollow`, `ServesAgain` |

The type invariants of `FleetDelivery` and `FleetNode` are invariants of their runs. Each other module
states one too. All of them are proved (section 4); to model-check one, add `TypeOK` to the invariants
of the module's configuration.

Why these bounds: two generations are what it takes for one to supersede the other, for a late request
to be older than the document held and for a report to be about a document that is no longer the latest;
one restart or lost call at any step puts a failure between any two steps, and the same step is reached
again by the retry. On the node three generations grant a name, delete it and grant it to another
reference, and two credential versions let the central name a second one while the first is on its way. Two names are enough for a partial failure because the loop treats a name without looking
at the others. Three grants put a step before and one after the one that fails, one of each kind the code
treats differently, and three installer actions likewise; three crashes interrupt an apply, its rollback and the resumed rollback.
`WithheldTicks` is 1 where the code has 4 (`pusher.rs:42`): only whether the count has been reached
matters. `delivery_live` has one content and one generation of the operators,
because temporal checking and backups at every moment make the state space grow; resyncs add
generations of their own.

An update goes from one release to the next or skips one, so three releases show an update over an
update and one that leaves the manager alone; the second mishap interrupts the restore of the first. In
`egress` two requests of different callers are enough for one to read before and write after the other;
a node's third pass comes after one that was given up and one that a late call of the first has
misled; the two lanes are the one that is applied and the one that must not be taken back; `HistoryLimit` is 2
where the code has more, and only whether the stack is full matters. In `access` the passes treat names
alike and protocols one by one, so one name with two requests beside a pass is the race; one tick opens
or ends a window. In `mieru` the second fault breaks the undoing of the first; two users and two lanes
put a slot before and one after the one that fails; two requests are one that leaves a trace behind and
one that meets it.

### What the failing runs show

These runs check what a document and a comment of the repository say and find it violated by the code.
The quoted lines and the trace in words are in `PROJECT.json` under `findings`.

| Run | Property | What happens |
|---|---|---|
| `node_outage` | `NoForeignTaken` | an unreadable inventory leaves `failed` rows for names the node never owned, and a failed row owns the account |
| `provisioning_resumed` | `EveryAccessExists` | a run resumed in the middle of a compensation marks the operation applying, passes over the steps that were taken back and ends as `succeeded` |

### What the properties except

Where the code does not keep a property in every case, the property names the case and nothing wider, through a
history variable, and the run contains that case. Each row is a counterexample that TLC finds in the
configuration of the run once the exception is taken out of the property (where it says two runners, with
`Runners = {"issue", "resume"}`, two local grants and no deletions and foreign accounts):

| Property | Exception | What the code does |
|---|---|---|
| `SucceededIsWhole` | `deleted` | an operator deletes a grant of the operation, before or after its end |
| | `undone` | `provisioning_resumed` above (`provisioning.rs:613`) |
| | `early` | a report of the linked panel between `reserve` and `run()` settles the operation as `succeeded` while a local step is pending (`provisioning.rs:949`) |
| | `left` | two runners: one leaves a step to a person, the other, which read the journal before, goes on and ends the operation as `succeeded` |
| `CompensatedIsClean` | `unheard` | a create that lost both its replies counts as "nothing reached the manager" (`naive.rs:101`), and one whose run died before the checkpoint is passed over: its account survives the compensation |
| | `deleted`, `left`, `early` | a deletion purges a grant whose account is being created, and the compensation passes over it; an account that could not be removed is left to a person, and after a restart the resumed compensation passes over it; a withdrawal of the remote grant ends the operation before a local step is done |
| | `met` | two runners: one compensates while the other is still creating |
| `OthersUntouched` | `undone` | a compensation removes the account, dies before it can record that, somebody else creates one of that name, and the resumed compensation removes it |
| | `deleted` | the operator's deletion goes by name |
| `RevokedWithGrant` | `caught`, `Chosen` | the grant is purged while its account is being created; the credential that the manager chose is stored afterwards and stays pending (`provisioning.rs:537`) |
| `Settles` | a grant that is gone | after an interrupted compensation purged a grant, every resume fails on the missing row (`provisioning.rs:652`) |
| `CentralIsOnlyWriter` | `overtaken` | a local writer asks before the placeholder is written and deletes after the create: the central's account goes (`facade.rs:77`) |
| `ForeignUntouched`, `ConvergedIsApplied` | `crossed` | `node_outage` above; and without an outage, a local account made after the inventory was read meets the placeholder or the readback's failed row, and the next apply takes it over (`reconcile.rs:537`, `713`), or a local deletion comes after the readback |
| `NothingIsLost` | `again` | an update begun on a panel that the agent's death left half updated empties the backups and snapshots the database it finds |
| `VerdictNamesWhatRuns` | `component` | an update whose verdict was not written leaves the record behind what runs, and the next one's rollback is recorded under it (`version_agent/src/service.rs:768`, `779`, `809`) |
| `HandedToItsPolicy`, `ConvergedSectionRuns` | `misled` | a late call of the node's own (section 5) |
| `OthersNeverTakenBack` | `bare` | a lane that was off when another's apply compiled, and is on again when that is carried out, is dropped (section 5) |

One property is narrower than its run could be: `delivery` has no restores. With
`Mishaps = {"backup", "restore"}` and `CleanIsConverged` alone, TLC shows: a backup is taken while the node
applies; the node goes on to the next generation, the backup is put back, and a poll reads the report of that
generation after an operator published another one under its number. The report acknowledges it, because
`absorb` compares numbers and not digests (`pusher.rs:874`; `docs/adr/002-declarative-generations.md:23`).

Three more are visible in the model without a property: with two runners a resume beside the running
request writes an older checkpoint over a newer one (`provisioning.rs:680`), a report between `run()`'s last look at the steps
and its last write leaves `pending_remote` with nothing to wait for until the operation is resumed
(`provisioning.rs:646`), and `operations-resume` does nothing for `manual_intervention_required`, for
which `docs/guides/PANEL.en.md:309` names it, because `Read` treats that status as terminal.

### Fairness

* `NodeFairness`: the enforcer's tick calls `run_pending`, and the tokio mutex of the
  reconciler is first in, first out, so each kind of waiting apply gets the lock (strong fairness,
  because other applies hold it in between). An apply that keeps being retried succeeds in the end;
  `EventuallyClean` is claimed for runtimes that recover.
* `PusherFairness`: the pusher ticks, a sync is one task that runs to its end, and an answered call is
  read: `REQUEST_TIMEOUT`, 30 s (`fleet/src/central.rs:29`), is longer than `APPLY_DEADLINE`, 25 s
  (`fleet/src/node/service.rs:32`); the same timeout ends a call that a restarted node will never answer
  (`unanswerable`). Losing a call stays possible: `EventuallyClean` speaks of behaviours
  in which `Fault` steps stop.
* `FleetNode!FairSpec`: an apply goes on and the tick retries; failures are bounded by budgets, so they
  stop. No fairness for the central, the clock or the local writers.
* `Provisioning!FairSpec`: a run goes on, the operator resumes an operation that is shown as
  unfinished (`operations-resume`, or the button of the panel), the linked panel applies and reports.
* `InstallerTransaction!FairSpec`: a command goes on, the operator resumes an interrupted transaction.
* `VersionAgent!Fairness`: the three threads go on and an agent that stopped is started again, by
  systemd. No fairness for the operator, and mishaps are bounded.
* `EgressRouting!FairSpec`: the router's manager, a call that was given up and each caller go on.
* `ClientAccess!FairSpec`: the enforcer ticks (every 15 s), a pass goes on to its end, and a caller that
  waits for the access lock gets it, because a tokio mutex is first in, first out.
* `MieruManager!FairSpec`: a request goes on to its answer, and a container that stopped is started
  again (`compose.mieru.yaml:9`, `restart: unless-stopped`). Nothing makes a request come.

## 4. Proofs

Each of the eight component models has a module of proofs, for every value of its constants: any number
of names, grants, actions, callers, lanes or slots, and every bound on failures. The assumptions on
constants are the named `ASSUME`s of the modules (sets are finite where the code counts them, reserved
names are not among the others, bounds are natural numbers), which TLC evaluates on the runs. Only two theorems need
more and state it as a hypothesis, `CleanLinkIsConverged` and `DeliveryRefinesGenerations` (no restores).
Each proof goes the same way: an invariant that `Init` implies
and every action keeps, one lemma or step per action and under it one per conjunct the action can
disturb, and the properties as consequences.

### The fleet

`FleetDeliveryProofs` proves for every set of contents and all values of the bounds, from
`ContentsAssumption` and `BoundsAssumption`:

* `TypeCorrect`: `TypeOK` always holds. It is not inductive alone: a session past its decision could
  have no document, and a job without one could run. `Shape` says that neither happens, and that a
  request on its way belongs to a push.
* `CleanLinkIsConverged`: if `"restore"` is not among the `Mishaps`, `CleanIsConverged` always holds. The
  inductive invariant `LineageInv` adds `OneLineage` (two documents of the same number are the same
  document, because there is a single lineage), `Issued` (every document anywhere, in a session, in a
  request, on the node, in a report, was issued by the central), and `Truthful` (a report that says
  converged is about a document that some apply brought there). These are needed because `absorb`
  compares numbers: only with `OneLineage` does the number of a truthful report identify the document.
  Without the hypothesis the statement is false: section 3 has the trace.
* `NodeNeverGoesBack`: `NoOlderGenerationApplied`, in every case, also after restores and unlinks. The
  argument: an apply re-reads the latest generation under the lock and `accept` takes no lower number.
* `DeliveryRefinesGenerations`: without restores, each step is a step of `FleetGenerations` or changes
  nothing there, under `published <- latest, held <- nodeDoc, converged <- done, clean <- ~dirty`.
  `LineageInv` supplies what the abstract `Acknowledge` demands of a step that clears the dirty flag.
* `CleanLinkHoldsCredential`: a clean link holds the manager-chosen credential, also across restores;
  the invariant says the same of the backup.

`FleetNodeProofs` proves for any number of names, any references and all bounds, from the three
assumptions of `FleetNode`:

* `NodeTypeCorrect`: `TypeOK` always holds. Its `Shape` says that the loop over resources stands at a
  name of the document and the loop over orphans at a name with a row, and that the rows are those the
  apply read until it has the inventory; without it a failed row could be written for a name that has no
  reference. `AfterIsNext` (a loop goes to a chosen name or to its end) rests on the least number of a
  set, from the library's well-founded orders.
* `CentralIsRecorded`: `OwnedHasRow` always holds, with local writers in the middle of an apply too. The
  strengthening `Owned` covers the three places where a row goes away. A create stands under a failed
  row; a record of a deletion and a forgotten orphan come after an account that is not the central's.
  The last two need that an account which the inventory did not show, under a name the document does
  not ask for, cannot become the central's later in the same apply, and that a missing row never covers
  an account of the central's.
* `OneWriterPerAccount`: `CentralIsOnlyWriter`. A writer that passed the guard keeps a name which is not the
  central's until it writes, or an apply recorded the name meanwhile and the writer is `overtaken` (`Unguarded`).
* `OthersAccountsAreKept` and `ConvergedMeansApplied`: `ForeignUntouched` and `ConvergedIsApplied`, with outages
  and with local writers at any moment. The invariant `Sound` says what an apply may rely on at each of its
  steps, of the names that are not `crossed`. `Foreign`: a row that owns a name never covers an account of the
  panel's or a person's, in the store or in the copies the apply works from. `Unread`: what was read of a name is
  so until the loop is there. `Behind` and `Withdrawn`: every name the loop has passed without a failure is as the
  document says. `Numbered` and `Credited`: an account with another credential than its row names has a later
  one named since, which the next apply brings; this is where the order of the versions is needed. That the
  exceptions are needed is shown by the table of section 3.

### The installer

`InstallerTransactionProofs`, for any number of actions and plans. `Consistent` proves the invariant, from
which follow `TypeCorrect`, `HostIsCovered` (`JournalCoversHost`), `ActionsAreLayered`
(`LayeredOnVerified`), `JournalIsResumable` (`Resumable`), `RemovalKeepsItsEnd` (`RemovalEndsAsBegun`)
and `OperatorsThingsAreKept` (`OperatorsIsKept`). `Sound` is what can be said of a journal beside the host
(layered, covering, every status with the phases it allows) and `Follows` of the process beside the
journal: what it holds in memory is what is in `state.json`, except in a rollback that stopped, whose memory
may be one write ahead and is `Sound` itself. `Sound` of both is what makes a failed
write harmless: either of them can be the one the next command finds.

### Provisioning

`ProvisioningProofs`, for any number of grants of any kind and any number of runners:

* `TypedThroughout` and `TypeCorrect`.
* `CredentialsGoWithGrants` (`RevokedWithGrant`), with `Caught`: a run that creates an account for a row that
  went has marked the grant.
* `JournalHolds` and from it `SuccessIsWhole` (`SucceededIsWhole`). `Held` says for each state of a step, in the
  journal and in the copy a run works from, what is on the host, unless a mark of the grant excepts it (`Steps`,
  by `Fits`), and the same of the step that a run has in hand (`Carried`): a copy that was read before another run
  or a restart says less than the journal, never more.
* `OthersAreLeft` (`OthersUntouched`), from the same invariant: only a step that created the account is undone.
* `CompensationIsClean` (`CompensatedIsClean`). As long as no two runs have met, one run is at work (`Single`),
  every account of the operation has its step and its row or is being made (`Recorded`), and `Course` says which
  steps the run has yet to take back.

### Version agent

`VersionAgentProofs`, for any releases and builds, with and without an ownership journal: `Consistent`,
`TypeCorrect`, `OperationsAreExclusive` (`OneOperation`), `VerdictsAreTrue` (`VerdictNamesWhatRuns`),
`ReadyPanelsAreWhole` (`VerifiedIsWhole`), `CopiesAreKept` (`NothingIsLost`). `Forward` says that what
an update has done so far is of its release; `Return`, which holds unless `"panel"` is in `torn`, that the way
back finds the previous trees in the backup up to `synced` and in place after it, and the previous database, image
and journal; `Rest` that the panel is whole between updates. `Copies` holds until an update begins on a `torn`
panel: each tree is whole in one of its two places and so is the database, whatever the agent died in, and an update
that cannot be whole any more has its entries in the backup and has not touched the database (`Halved`). `Writing` and `Recorded` are the same for a
component: what its update has replaced so far, and that a record without a verdict counts as `torn`. The proof of
`Rest` failed where the verdict of a failed rollback cannot be written: the record stays `updating`, and the next
start reads the mixed state back like any other; such a panel now counts as `torn`.

### Routing

`EgressRoutingProofs`, for any callers, lanes and bodies:

* `Sound`, `TypeCorrect` and `RouterRunsCurrent` (`RunsCurrent`): `Swapping` says which file, process and
  `current.json` an operation may leave at each step, `Backed` that every lane of the current document has an
  account or gets it back when a forget fails.
* `WithdrawnAfterDetach` (`DetachedBeforeWithdrawn`) from `Agreed`: each attach and detach has an id of its own
  (`Stamped`), and before the service can be handed to the router again, the router has moved on from what a
  detach that still has to withdraw has read (`Overtaken`).
* `ConvergedSectionsRun` and `HandedOnlyToItsPolicy` (`ConvergedSectionRuns`, `HandedToItsPolicy`) from
  `CentralRules`: under a central only sections change the router, one pass at a time; what a pass delivered is
  what the router runs (`Delivered`) and so is what was reported (`Converged`), unless a late call has misled
  the pass or the report; and no late call is of a generation that is yet to come (`Lately`).
* `OthersKept` (`OthersNeverTakenBack`) from `LanesKept`: a document that an apply has compiled, is about to send or
  has left behind covers every lane that the router runs under the revision the apply read (`Covered`, `Spared`),
  but for the lanes that were bare since (`Noticed`); any other revision refuses it.

### Client access

`ClientAccessProofs`, for any names, any number of callers and faults, `Consistent` and from it `TypeCorrect`,
`GrantsNameLiveCredentials` (`LiveNamesLive`) and `NotesAreTrue` (`ObservedIsReal`). For the credentials: a
row has a number of its own given out before, and no two requests are given the same. For the notes: a wrong note
is not an error as long as somebody will see to it, and the invariant says who: a page that has the account under
way (`Minded`, also for what a pass is about to note or switch: `ReadAgain`, `Switched`), a pass that has yet to come
to the grant, or, before the panel serves, the first pass, which comes to every grant (`Starting`).

### Mieru manager

`MieruManagerProofs`, for any users, lanes and slots: `Consistent`, `TypeCorrect`, `MitaRunsWhatIsCommitted`
(`RunsWhatIsCommitted`), `SlotsMirrorTheirLanes` (`SlotsFollow`). `Transaction` says of each step whether the
journal is open (its backup is `state.json`, and mita has one of the two configurations), done or absent;
`Mirroring` which slots already follow their lanes at each step of a sync.

### What the proofs changed in the models

Four attempts failed for a good reason, and the model was changed before they went through:

* `VersionAgent`: the lost verdict above, which `VerifiedIsWhole` did not except.
* `FleetNode`: the central could name a credential again that it had replaced; `ConvergedIsApplied` failed
  in TLC too with four generations. The code cannot do it (section 2), so the versions are now in order.
* `RouterManager` and `EgressRouting`: arms of a `CASE` overlapped, where TLC takes the first and TLA+ any.
* `ClientAccess`: a deletion during an issue (section 5), which TLC confirms with three requests. The code does
  it, so the name is in `doubt` until a pass confirms the account.

### Only model-checked

* Liveness, because fairness is out of the proof system's reach: `EventuallyClean`, `Converges`, `Settles`,
  `Recovers`, `UpdateSettles`, `RouterSettles`, `EnforcedInTheEnd`, `ServesAgain`.
* `CleanIsConverged` and the refinement beyond the hypothesis: there they are false (section 3).

## 5. Where the code and what is written about it disagree

Besides the two failing runs and the table of section 3, modelling led to these. The models follow the code; the properties of the runs are
stated so that they hold beside them (a history variable or an exception that the module names), and
each item says where. None of them is a run of its own.

Version agent (`VersionAgent`, exceptions through `torn`):

* An entry that is moved away only in part is not yet in `progress.synced` (`panel.rs:650`), so a failure
  there restores the other entries and the record ends as `ready` on a torn tree. The header says "on any
  failure the files, the database and the image come back" (`panel.rs:5`).
* A restore that is interrupted and followed by a retry is read back through `VERSION`, which belongs to
  a bind-mounted tree and not to the image: `ready` may stand for a mixed state.
* A crash while the database comes back, followed by another update, snapshots the half-restored database
  over the only whole copy (the exception `"again"` of `NothingIsLost`).
* A component's update that succeeded and could not write its verdict (`service.rs:809`) leaves the old version in
  the record; a later update that is rolled back is then recorded as `rolled_back` on that version, while the
  other one runs (the exception `"component"` of `VerdictNamesWhatRuns`).
* An update begun while a manager still waits for its rebuild drops `pending_rebuild` (`panel.rs:88`),
  where `docs/UPGRADING.md:165` takes a manager off the list only when it was rebuilt.

Routing and the router (`EgressRouting`, `RouterManager`):

* A router call given up after 8 s (`managers/src/xray_router.rs:36`) may be carried out later, after
  the next one; the node's client has the same deadline as the panel's. In the run `egress`, without the exception
  `misled`, TLC violates `HandedToItsPolicy`: a pass waits for the router's lock with the first section and
  its panel dies or gives up; the pass of the second section reads the router and finds it as it should be; the
  late call of the first changes it; and the service is handed to a router that runs the first section. The same
  after the report violates `ConvergedSectionRuns`. The comment at `reconcile.rs:804` says "so the service is never
  handed to a router that does not run its policy yet". The panel's own late calls can
  take back the lane they were made for, never another one (`OthersKept`).
* A lane that is turned off and on again while another lane's apply is between its compile and its call
  (two requests: a `disable` whose push failed and was undone, and an apply) is dropped from the router, because
  neither changes the router's revision; this is the exception `bare` of
  `OthersNeverTakenBack`. The record of that apply marks every row of `lane_policies`, which it queries again, as
  applied (`service.rs:1284`), the lane it dropped among them.
* A lane whose `enable` ended in a runtime failure of a manager keeps `routing_lane='own'` and an account, without a
  policy (`lanes.rs:581`); one whose `disable` did keeps its policy, which `for_change` still applies.
* A detach that found the service detached withdraws what a later attach put on the router; two attaches
  beside the rollback of a lane can withdraw the policy of an attached service; a re-attach through the
  central lacks the `router_attached` guard of the local path.
* "Applied" is a revision the panel recorded, not what runs (`docs/ROUTING.en.md:70`): two applies may be
  recorded in the opposite order, and other lanes are marked at a revision saved after the compile.
* A death between `current.json` and `journal.json` makes a later rollback skip one generation.
* `lane_forget` writes `lanes.json` before the commit; its comment says after it
  (`xray_router_manager/src/service.rs:686`).

Client access (`ClientAccess`, exceptions through `doubt`):

* A page's call whose answer is lost leaves the note different from the account until a restart forces a
  tick, although `facade.rs` says that a page "cannot bypass a client's access window".
* Rotating a disabled account that has no row adopts it as enabled, and the forced tick of the next start
  turns it on.
* Two rotations that overlap, or a rotation during an issue, leave two active versions and an escrow that
  names the older one.
* A grant that is deleted while it is being issued leaves an account: `advance` reads the grant once,
  before `adapter.create` (`provisioning.rs:651`), and `delete` purges a grant that is still being issued
  (`lifecycle.rs:293`). With a third request the account meets a row of the same name that a rotation adopted or
  another issue made, whose note says otherwise. The run has two requests, in which it did not show; the
  proof of `NotesAreTrue` did.
* A toggle beside a delete writes to a row that is going away and leaves it pending; a delete that found
  no row beside an adoption leaves a row without an account; two deletes with a new issue between them
  remove the new account and leave its row deleted.

Mieru manager (`MieruManager`; `known_refusal` lists the journals that are refused, `strayed` the
slots):

* A disable, enable or delete that was interrupted after mita took it is never recovered: `next_revision`
  was computed with the new lists of disabled and deleted users and is compared with the old ones
  (`service.rs:1111`, `910`), and the manager does not start. `docs/guides/MIERU.en.md:108` promises
  "durable backup/journal recovery"; the test at `tests.rs:599` covers a change of the
  configuration only.
* A death between the undoing and the phase that records it, with phase `applied`, is refused too
  (`service.rs:1083`).
* A death between the apply of a slot and its restart is passed over by the next sync, which compares the
  applied configuration (`service.rs:1508`); the comment at 993 says the slot "is marked and brought back
  at the next lanes request or start".
* `set_lanes` that fails at a later slot, or dies before `write_state`, leaves slots that serve users
  `state.json` does not name (`service.rs:1611`).
* After an undoing that failed, a later transaction that only reloads commits and clears the journal
  while mita still runs the other egress; and while mita holds the new configuration every request fails
  until the manager is restarted.
* A rollback of the egress restores the section word for word, with an old credential of the router, and
  the refresh leaves it alone because the document is null (`service.rs:1209`).
* `lanes_stale` is cleared by `set_lanes` only, so lanes that a start synced are still reported stale.
* A reload that failed on a stopped mita turns it on through its undoing.

## 6. Not modelled

* Encryption, password hashing, QR codes, link and configuration formats, subscription rendering,
  validation of input, the installer's planner, wizard and audit: computation on data, without
  interleavings. Most of the repository's lines are of this kind, or are pages, routes, command-line
  parsing and tests, which is why the map covers a small share of them.
* Metrics and event streams: telemetry, nothing depends on it but pages.
* Web shell, command line, MCP server, probe: requests routed to the services above.
* Deployment files, scripts, the browser client.
* Of routing: policies of native backends and what the compiler makes of rules, deletion of a policy,
  the hand-over of users between lanes, policies of linked panels, relay accounts.
* Of client access: deletion and archiving of a client, names and labels, remote grants, options, the
  importer, credentials a manager chooses, several grants of one protocol.
* Of the Mieru manager: failing writes of files, deaths of the daemon of a slot, the first creation of
  `state.json`. The header of each module says what it leaves out.
* The managers of Naive, AmneziaWG and TrustTunnel.
* The components of the plan below, until their modules exist.

## 7. Plan

Built so far, each with its proofs: the delivery protocol with its abstract specification; the node's
reconciler; the installer's transaction; provisioning; the panel's self-update with the handoff; routing with its
router; the access of local clients; the Mieru manager. Next:

1. `FleetLinks`: adding, disabling, deleting and importing on the central, composed with `FleetDelivery`
   (a deletion that races a push).
2. Deletion of a client and of its grants, as an extension of `ClientAccess`, and the subscription token.
3. The hand-over of a user between lanes (`routing/src/lanes.rs`), composed with `MieruManager`.
4. The other host managers; operators checked against a reference: counter resets and ring edges of the
   metrics.
5. Theorems: the hypothesis of `CleanLinkIsConverged` as a history variable, as in the other modules.
