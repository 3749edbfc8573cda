# DayZ-MCP: the coordination core in TLA+

DayZ-MCP lets several MCP sessions share one Windows box on which a DayZ client
and server run.  A Python daemon (`src/tools/dayz_mcp`) owns the box: it queues
the sessions, grants a write lease, sends commands to a mod inside the game
(`src/addon`) that polls for them, and starts, watches and reaps runs.  This
directory holds TLA+ models of its coordination core, TLC runs over small
instances, and TLAPS proofs for every instance.  `PROJECT.json` maps each
definition to the lines it translates.  Python files named below without a
directory are those of `src/tools/dayz_mcp`, documents are under `src`; SC is
`session_coordination.py`, LC `process_lifecycle.py`, LB `loopback.py`, SV
`server.py`, DM `daemon.py`, RS `runtime_state.py`.

## Inventory

| component | state | operations | what is hard | correct when | modelled in |
|---|---|---|---|---|---|
| box FIFO (SC, `_box_*`) | queue, tombstones, claim | join, touch, claim, leave, sweep, lapse, reap | a claim outliving its ticket, a dead ticket coming back, a table without a check of its own | the claim is the head's; dead tickets stay dead; tables bounded | BoxQueue |
| box waits (SV, `execute_wait_for_box`, `dayz_test_run`) | ticket, claim heartbeat, `tool_lock` | poll, sweep, claim, launch, release | lost requests and answers, cancellation between any two awaits, siblings behind one lock | nothing is left in the FIFO but by a loss; the claim is used; a wait ends | BoxWait, in part |
| lease write-ahead protocol (SC, `runtime_state.py`, LB, DM) | lease fields, marker, snapshot, audit ledger | grant, release, expire, compensate, persist, repair, recover | the condition is dropped around every file I/O; failed I/O; a crash between two writes | one lease at a time; what the ledger grants is recoverable | SessionLease, WriteLease, in part |
| lease queue and grace (SC) | tickets, reservations, operation tombstones, grace | acquire, enqueue, wait, cancel, lapse, reacquire | FIFO against the former owner's precedence; cancels under a grant in flight | order is kept; nothing cancelled is granted; whoever waits is served | LeaseQueue, in part |
| lease-end rounds, cleanup workers (SC, `lease_supervisor.py`) | rows a retired lease owes; worker slots | open, owe, report; clean up, time out | saturated workers, late reports | a lease's run is released before, or reported | RunOwner (the workers only) |
| command authority (SC, LB) | reservations, committed commands, expiry pins | authorize, commit, dispatch, finish | the lease ends between two of them | no command handed to a game without its lease; nothing pins a lease for ever | CommandQueue |
| bridge command queue (LB, `core.py`) | queue, rows, seals, results | enqueue, poll, deliver, result, abandon, reap | late and repeated results, replaced instances, a daemon restart | what was dropped never ran; answers come from who got the command | CommandQueue, in part |
| process lifecycle (LC, DM) | row of the manifest, launch intent, adoption marker, recovery fault | start, adopt, stop, acknowledge, reap, release, repair, recover | leases end and input arrives inside a call; failed writes; crashes | a run that obeys an owner has a lease, a cleanup or a reported failure behind it | RunOwner, in part |
| idle warden (`idle_warden.py`, its half of LC) | ticket, token, marks, anchors, armed retirement | wait, adopt, warn, count down, close, fall back, release | a person coming back at any step; switch, lease and processes changing under a close | no window closed over a reaction; a client that was there is warned; the lease is let go | IdleWarden, in part |
| orphan guard (`orphan_guard.py`) | orphans seen | scan, stop | process identity reuse | no owned process stopped | no |
| MCP client and supervisor (`mcp_supervisor.py`, `control_client.py`, `session_handoff.py`) | child process, request in flight | reload, relay, hand off | a request in flight at a reload | each request answered once | no |
| daemon credential and transport (`daemon_credential.py`, `accredited_*.py`) | socket, proof | accredit, send, retry | a retry of what was already done | retried only if never sent | its effect only: lost requests in BoxWait |
| registry and file locks (`registry_lock.py`, `foreground_lock.py`) | operating-system locks | take, release | waiting for a holder | mutual exclusion | no |
| test runs (`dayz_test_tool.py`, `dayz_test_worker.py`, `dayz_test_storage.py`) | worker, journal, storage | launch, progress, stop, prune | worker death, cancellation | evidence is kept until its run ends | no |
| native launcher (`native_launcher_*.py`) | transaction | stage, apply, roll back | failure half way | all or nothing | no |
| MCP tools, game mod, host checks | - | argument checks, engine calls, reads of the host | - | - | no |

How they interact.  A tool call in `server.py` goes over HTTP to `loopback.py`,
which calls the `SessionCoordinator` and, at the end of a session call, persists
its snapshot.  A command is authorized by the coordinator, queued in
`ServerState`, polled by the game and answered by it.  `process_lifecycle.py`
asks the coordinator whether a claim blocks a start, commits each call under its
lease, and tells it when a run was reaped.  The coordinator is given callbacks for
the audit, the marker, the snapshot and the cleanup of a released lease, and calls
them with its condition dropped.  `daemon.py` recovers intent, runs, marker and
snapshot before it serves anything.

The modules meet at narrow places, and each takes the others' side of it as an
action of its environment: `BoxWait` contains `BoxQueue` and the box that runs
occupy; `LeaseQueue` has the stages of a grant that `SessionLease` details;
`CommandQueue` and `RunOwner` have a lease that is granted, ends and is cleaned
up, as `SessionLease` and `WriteLease` have it; `IdleWarden` has the lease and the row of
the run as `RunOwner` leaves them between two calls.

## Modules

| module | what | proofs | instance for TLC |
|---|---|---|---|
| `BoxQueue` | the box FIFO | `BoxQueueProofs` | (through `BoxWait`) |
| `BoxWait` | its clients | `BoxWaitProofs` | `MCBoxWait` |
| `WriteLease` | what a write lease promises | | |
| `SessionLease` | the write-ahead protocol of the lease | `SessionLeaseProofs` | `MCSessionLease` |
| `LeaseRefinement` | `SessionLease` implements `WriteLease` | `LeaseRefinementProofs` | `MCSessionLease` |
| `LeaseQueue` | who gets the lease next | `LeaseQueueProofs` | `MCLeaseQueue` |
| `CommandQueue` | a command from authorization to result | `CommandQueueProofs` | `MCCommandQueue` |
| `RunOwner` | the run of the box and who commands it | `RunOwnerProofs` | `MCRunOwner` |
| `IdleWarden` | the thread that closes a run nobody uses | `IdleWardenProofs` | `MCIdleWarden` |

**BoxQueue.**  Each public method of the coordinator that touches the FIFO holds
the condition throughout, so each is one action: `Join` and `Touch`
(`box_wait_touch`), `Done`, `DoneUnseen` (leave with and without a ticket),
`RunReaped` (`note_run_reaped`), `Purge` (every reading call), `Tick` (time).  The
purge every call begins with is part of each.  The list is a function from ticket
numbers to records: it is only appended to and filtered.

**BoxWait** extends it with the clients: where each wait stands in
`execute_wait_for_box` and in the launch around it, the run in the box, and
requests that are dropped or whose answers are not seen.  The daemon's half of a
request is the `BoxQueue` action; `PollJoin`, `PollTouch`, `Sweep`, `AskClaim`,
`TakeLock`, `Launch`, `Leaves`, `GiveUp`, `Heartbeat` are the client's steps.  A
launch is one start request: takeover, client extension and the re-queue after a
refusal are left out.  So is a request that certainly was not sent
(`daemon_unavailable`): it changes nothing.

**SessionLease.**  An action is one file I/O with everything the code does between
taking the condition back and dropping it for the next I/O; what the I/O will write
was captured by the action before.  `job` says where each request thread and each
release-audit worker is, `mem` is the coordinator's fields, `disk` the marker and
the snapshot, `ledger` the leases that stand granted in the audit.

| actions | code |
|---|---|
| `BeginGrant`, `TakeGate`, `ArmGrant`, `AuditGrant` | `acquire`, `_claim_head_from_wait_locked` |
| `FinishMark`, `FinishSnapshot`, `FinishCompleted`, `FinishClear`, `ClearPending` | `_finish_wal_after_publish_locked` |
| `ArmCompensation`, `MarkCompensation`, `Revoke`, `RevokeBroken` | `_compensate_provisional_grant_locked` and the refusals of the callers |
| `LatchFault`, `FaultSaved` | `_latch_wal_fault_locked` |
| `BeginRelease`, `ArmRelease`, `CleanUp`, `FencedCleanUp`, `AuditRelease`, `ReleaseSaved` | `_release_active_locked`, its watcher and its worker |
| `RepairLifecycle` | `complete_lifecycle_recovery_fault` over a lease whose cleanup was not safe |
| `BeginHeartbeat`, `Heartbeat`, `GiveUp`, `Lapse`, `Enqueue`, `CancelGrant`, `CancelTicket` | `heartbeat`, `_expire_due`, the queue's calls |
| `BeginPersist`, `Persist` | `_persist_coordination` |
| `Reconcile`, `BeginRepair`, `RepairSaved`, `RepairCleared`, `RepairFailed` | the operator's audit repair |
| `Crash`, `Recover`, `Consume`, `Attribute` | restart |

Tickets are counted here, not ordered (`LeaseQueue` orders them); the lease-end rows
and the lifecycle fault, which only delay a grant, are not there; a batch of audits
is one step that may fail after it ended the lease; a repair moves the marker and
writes its compensation in one step, and repairs do not overlap.

Two variables are history.  `lost` takes the leases out of `ledger` that a startup left
standing there with no name: the snapshot is replaced before they are audited (DM:706), and
a crash or a failed audit in between forgets them for good.  `amiss` says which of two
overlaps, both of which the code allows, has happened: `"release"`, a release was overtaken
by another of the same lease while it armed its marker (SC:2916-2930), or `"repair"`, an
operator's repair ran while a release worker was alive (SC:3255).  No action looks at
either; every interleaving goes on after them.

**WriteLease** is the abstract lease: issued, granted, held, ending, over, one after
the other, the set of leases the ledger holds as granted, and those stranded there by a
startup.  `LeaseRefinement`
maps `SessionLease` to it: the latest lease is in the phase its place in the ledger,
in `_active` and among the grants under way tell.

**LeaseQueue.**  One action is what a thread does between two points at which it
drops the condition (an audit, a WAL step, a wait).  A grant has two stages, the
audits before the lease is active and the WAL afterwards, and is taken back when the
revision it captured has moved; then it may leave a fault (SC:4171), and a cleanup may end
unsafe (SC:3044): either bars new grants until an operator's repair, which nobody has to
make.  A ticket and the lease it becomes are one claim.

| actions | code |
|---|---|
| `Acquire`, `AwaitOver`, `Enqueue`, `JoinQueue`, `ReservationFails` | `acquire`: admission, the wait for a release, the reservation and its audit |
| `Wait`, `WaitClaims`, `WaitReturns` | `wait`, `_claim_head_from_wait_locked` |
| `GrantRefused`, `Publish`, `Settle`, `NotExact`, `Compensate` | the grant, its publication, and its compensation |
| `Release`, `Expire`, `CleanedUp`, `EndsUnsafe`, `HandedOff`, `GraceEnds` | `release`, `_expire_due`, the cleanup's and the worker's end, the reacquire grace |
| `Repair` | `complete_lifecycle_recovery_fault`, `finalize_audit_repair` |
| `CancelOperation`, `CancelTicket`, `TombstoneExpires`, `TicketExpires` | both cancels, `_remove_expired_tickets_locked` |

**CommandQueue.**  Two locks, the queue's and the coordinator's; an action is what a
thread does holding the first, the calls it makes of the second included.

| actions | code |
|---|---|
| `BeginAuthorize`, `Authorize`, `Publish` | authorization, its reservation, `enqueue_command` with its commit |
| `ReserveExec`, `PublishExec`, `AbortReservation` | the same for `exec_enforce`, whose audit runs without the lock |
| `BeginPoll`, `Deliver` | `poll`: the snapshot, the expiry between, the delivery |
| `StoreResult`, `FinishOperation`, `TakeResult` | `result`, the finish it owes the coordinator, the caller's answer |
| `CallerAbandons`, `Reap`, `Age` | abandonment with its registered release, the reaper, deadlines |
| `Bind`, `RetireInstance`, `Restart` | a game instance replaces another, is retired; the daemon restarts |
| `Grant`, `Retire`, `CleanUp` | the lease begins, ends, and its commands are discarded |

Left out: holds, camera paths, bot stops, the legacy queue, the gates of version,
profile and capability.

**RunOwner.**  `op` is `_operation_lock`, which a lifecycle call holds from its first
look at the row to its last write; between two of its steps others act under other
locks.  `run` is the row of the manifest (state, owner, acknowledged, processes).

| actions | code |
|---|---|
| `Enter`, `Judge*`, `Refuse`, `Commit`, `CommitRefused` | a call takes the lock, looks, and commits under its lease |
| `WriteAdopt`, `ConfirmAdopt`, `UndoAdopt`, `Retry` (within other calls) | `adopt_run`, its confirmation, `_retry_adoption_reverts` |
| `WriteStarting`, `WriteIntent`, `Popen`, `Register`, `StartFails` | `start_run` |
| `WriteStopping`, `StopEnds`, `StopMeetsUnknown`, `WriteAck` | `stop_run`, the acknowledgement |
| `EndLease`, `EndWithoutCleanup`, `CleanupTimesOut`, `BeginRelease`, `FinishRelease` | the end of a lease and the cleanup worker (`begin_release_owner`) |
| `Repair`, `Reap`, `Crash`, `RecoverIntent`, `RecoverUnacknowledged`, `RecoverOwners` | fault repair, reap, restart |
| `Grant`, `Input`, `LauncherAsks`, `GoesQuiet`, `ProcessDies` | the environment |

The one row of one box is modelled; an instance identity was minted, so that every
launch has an intent.  Lease ids are recycled once nothing names them, so `LeaseId`
needs to hold only as many as can be named at once.

**IdleWarden.**  One thread, whose place is `pc`, and everything that moves beside it.
An action is a check with what follows it up to the next point where a reaction, a switch
or a process may change what it saw; between the check of an effect and the effect there
is none (`close_run` names that instant as its residual window).

| actions | code |
|---|---|
| `CycleOff`, `CycleRelease`, `CycleBegins`, `CycleCancels` | `_cycle`, `_begin`, `_continue` |
| `Wait`, `Recheck`, `Adopt`, `Mark`, `Check` | `_after_enqueue`, `_own` |
| `Warn`, `Count` | `_warn`, `_countdown` |
| `Close`, `Gate`, `Arm`, `Last`, `Guard` | `_close`, `_destruction_guard`, `idle_close_gate` |
| `Enter`, `List`, `Post`, `Posted`, `Reread` | `close_run`, `_close_with_idle_guard` |
| `Await`, `Stop`, `EnterStop`, `Kill`, `Killed` | `_after_close` and the guarded half of `stop_run` |
| `Leave` | `_abort`, `_fail`, `_warning_failed`, `_switch_off`, `_finish`, with `_release` and `_cancel_ticket` |
| `Flip`, `Input`, `LauncherWaits`, `LauncherLeaves`, `Cut`, `Retry` | switch file, input sampler, launcher, clocks |
| `ProcessChanges`, `ReadAgain`, `ScanFails`, `ScanWorks` | what the process guard and the scans say |
| `CensusDrops`, `CensusFinds` | what the diag scan lists, from which `_client_liveness` tells whether a player may be there |
| `OthersGrant`, `OthersAdopt`, `OthersExtend`, `OthersStop`, `OthersRelease`, `Expires`, `CleanupEnds`, `Reaper` | the other clients, the coordinator and the reaper |

Two looks at the processes are kept apart: `proc` is what the guard says of each registered
process, `listed` what the diag scan names.  The census follows the guard late, and a scan
may miss a process that lives (a fault).  `_dead` is read from the census with the candidate
and used, unread, until the cycle ends.  `OthersExtend` is the extension of a run by its
owner, with a client or a new one in the old one's place (LC:3979-3998, 4190-4228).  It needs
the lease, so a warden whose lease expired under it meets the new client, and its own checks
of lease and owner end the cycle; a ticket left from before such an owner is older than its
TTL once the run has been quiet for the cut (600 s against 120 s), which `Cut` says.

`doubt`, `told` and `seen` are history: whether input came since the adoption and a check was
still to see it, whether this cycle's countdown ran out, and whether the census listed a
client when the run was chosen.

Each module also defines a few operators that no action uses, named in its header:
deliberate mistakes (a dropped guard, a forgotten reset, a swapped order), one for
each property, put in place of the right definition to see that the property notices.

## Runs

| run | instance | shows |
|---|---|---|
| `box_wait` | waits a, b of one session, c of another, again and again, 4 tickets, capacities 2 and 1, TTL 1 (claim 2), 1 loss, others may start runs | `ClaimedTicketIsHead`, `NotRevived`, `Footprint` of the FIFO under its clients; `OrphansAreLosses`: a place nobody knows was left by a loss; `ClaimIsUsed`: without loss a claim is that of a wait that knows it |
| `box_served` | a and b of one session, 8 tickets, 2 losses, fair | `Served`: a wait gets the box or ends |
| `lease` | 2 threads, 2 workers, 2 leases, 1 failed I/O, crashes | `PublishedIsDurable`, through overtaken releases and overlapping repairs too; up to the first of them `GrantIsRecoverable` and `ImplementsWriteLease`: the refinement, so that no two leases stand granted in the ledger |
| `lease_live` | 2 threads, 1 worker, 1 lease, 1 failed I/O, fair | `GrantSettles`, `ReleaseSettles`: a grant, a release and a handoff end or say that they failed |
| `lease_queue` | 3 threads for 2 clients (one has two calls at once), capacity 1 | `CancelHolds`: nothing cancelled is queued or granted again; `RoomKept` |
| `lease_served` | a thread for each of 2 clients, b faithful, plain tickets too, fair | `PreferenceBounded`, `OrderKept`: what FIFO means beside the grace; `Served`: b gets the lease, or a fault is left, or a grace ran out late |
| `command_queue` | 2 commands (one an `exec_enforce`, fenced, its result posted twice), 2 instances, 2 leases, a restart, queue of 1 | `CommittedIsTracked`, `DroppedNeverRan`, `RoomKept`, `DeliveredUnderLease`, `AnswerFromReceiver` |
| `commands_live` | the same with a deadline on the `exec_enforce`, 1 lease, no restart, fair | `SilenceEnds`: no silent game keeps a row or a lease |
| `run_owner` | 2 sessions, 2 lease ids, 2 faults, 1 launch, fair | `OwnerIsBacked`, `LaunchIsTraced`, `UnconfirmedServesNothing`, `NoAdoptionOverInput`, `HandoffEnds` |
| `idle_warden` | a server alone or with a client, two events of 1 input, 1 write of the switch and 1 fault, fair | `EffectAuthorized`: the warden acts on its own run only; `SeenReactionAborts`; `WarnedBeforeClose`: nobody the census saw is closed on unwarned; `LetsGo`: the warden's lease ends; `AbandonedIsClosed`: an unused run is closed, unless half of it is gone or the lease hangs in its cleanup |
| `lease_completed`, `run_handoff` | as `lease` and `run_owner`, no faults | one violated property each, see Findings |

### Bounds

- *Box.*  A claim needs two sessions to be in the way of; a head that leaves needs
  someone behind it; capacities of 2 and 1 are reached with tickets to spare, and
  four tickets let a wait join again after its first one died.  `box_served` has no
  capacity to run into: there a wait could end only by the bound.
- *Lease.*  Two leases are the smallest number in which one ends and another begins;
  a second worker lets one finish a WAL while another audits.  `MaxRev` limits only
  calls that touch the revision and nothing else (heartbeat, enqueue, cancel); the
  protocol's own steps raise it freely.  `MaxFaults` 1 covers each single failure at
  each I/O: two failures in one path are only reached by raising it.  The run goes on
  after an overtaken release or an overlapping repair: one property survives both.
- *Lease queue.*  Capacity 1 is where a compensated ticket meets another that took
  its place; `MaxTomb` and `MaxPref` 1 reach their limits at the first cancel and the
  first return; a client with two threads can cancel under its own grant.
- *Commands.*  A queue of 1 has every enqueue meet the limit and the slot promised to
  `exec_enforce`; the restart makes the second daemon's command 1 meet the first's
  answer; two instances are an old and a new one.
- *Run.*  Two sessions are an owner and a stranger.  `MaxFaults` counts failed writes,
  crashes and cleanups that cannot start, together; two of them are needed for a
  revert that fails and is lost.  `MaxRuns` 1 counts launches after the run that may be
  there at the start.
- *Idle warden.*  A server alone and a server with a client are the two shapes on which
  the checks differ; one input is enough as no property counts them; the
  switch begins on or off and is written once; `MaxFaults` counts failed calls and reads,
  unasked exits, scans that miss a process and expiries of the lease, together, and
  `MaxEvents` 2 lets any two of the three kinds meet in one behaviour (the launcher's ticket
  comes on top).  The safety properties are proved for every bound.

Every bound is a guard of the model, named in its `CONSTANTS`.  Deadlock is not
checked where a system that is at rest is legitimate: once the leases, commands or
faults of the bound are used up, an idle daemon or one with a latched fault remains
(`lease_live`, `lease_queue`, `lease_served`, the command runs), and a fault that
cannot be repaired really stops the box (`run_*`); a closed run leaves the warden nothing
to do (`idle_warden`).

No constant keeps an interleaving of the code out of a run.  Where the code breaks what a
property would say, the model has the case, the property names it as an exception, and
"Seen while modelling" says what the code then does: `GrantIsRecoverable` and the refinement
leave out what a startup lost and what follows an overlap (`lost`, `amiss`),
`PreferenceBounded` a grace that ran out under an owner on its way back (`streak.late`),
`ReleaseSettles` a cleanup that ended unsafe, `WarnedBeforeClose` a client that the census
missed when the run was chosen (`seen`), `AbandonedIsClosed` a run half of which is gone
(`Halved`) and a lease that never ends its cleanup.
`Barging` (BoxWait) is the one assumption on clients; see Fairness.

### Fairness

- `BoxWait`: waits and heartbeats go on (one event loop), runs end and are reaped, time
  passes.  `Prompt` says that a wait that may poll does so within its ticket's TTL: it
  polls every second (`BOX_WAIT_POLL_S`) and the heartbeat comes every 30 s against TTLs
  of 120 s and 600 s.  A wait behind a sibling's launch may not poll, and may lapse.
  `Barging` is FALSE there: a session that starts without waiting, whenever nothing is
  claimed, could start for ever between two polls; the code gives waits no precedence.
- `SessionLease`: every thread and worker that has started a step goes on (they are
  threads of one process, and each I/O returns or raises), the fenced cleanup's watcher
  runs once the lifecycle ends, safely or not, and a daemon that is down is started.  After
  an unsafe end nobody watches (`FencedCleanUp` needs `~unsafe`), and `RepairLifecycle` is
  under no fairness.  No client has to
  ask anything.
- `LeaseQueue`: threads go on, leases, tickets, tombstones and graces run out, a cleanup
  ends safely or not and a handoff ends, and a `Faithful` client waits again whenever its wait returned.  That a
  grant is not refused, nor its WAL disturbed by another call, every single time is
  strong fairness: neither is under anybody's control.  Nobody has to repair a fault.
- `CommandQueue`: a call that started goes on, and time passes.  Nothing in the daemon
  runs the reaper or the expiry by itself; the weak fairness of `Reap` and `Retire`
  assumes that somebody calls (any poll, await or status call for the first, any session
  call, enqueue or poll for the second).  No instance has to poll or answer.
- `RunOwner`: calls, recovery and cleanup workers go on: they are threads that wait for
  nothing but the operation lock.  No session, player or process has to do anything.
- `IdleWarden`: the thread runs (one cycle after another, every call returns), the idle
  clocks pass their cut and the block of a failed warning ends, a scan or a process that
  could not be read is read again, the census drops what is gone and finds what lives, and
  the daemon reaps.  Nobody has to end a cleanup answered 202, release a lease, come back or
  go away: `AbandonedIsClosed` assumes that in the end the switch stays on and others leave
  the box alone (`Settled`), and has two ways out, a run of which one process is gone and
  another lives (`Halved`) and a cleanup of the warden's lease that never
  ends (`lease = "ending"`).

## Proofs

TLAPS checks the following for every value of the constants, from the modules' named
assumptions on them and nothing else.

**BoxQueueProofs.**  `BoxSafety` (with `BoxTypes`, `NoRevival`): `TypeOK`,
`ClaimedTicketIsHead` and `NotRevived` are inductive together.  All departures are
instances of `Leave`, so one lemma serves them: the tickets that stay keep their order,
and the claim goes when its ticket does.  The second needs the first (ticket numbers do
not exceed `issued`, so a join is behind everyone); the third needs it as well (a new
number is in no tombstone).  `BoxFootprint`: only a join adds a row, and it finds room in
both tables; every other step moves rows from one to the other or drops them.

**BoxWaitProofs.**  `WaitsUseTheQueue`: `BoxWait` implements `BoxQueue`, so all of the
above holds of the FIFO under its clients.  `WaitTypes`, `ClaimUsed` and `OrphansPaid`:
the inductive invariant adds that a wait only knows tickets of its own session (`Named`)
and none while its join is in doubt (`Blank`).  Without `Named` a ticket that a touch
finds dead might stand in the queue for another session, and forgetting it would leave an
orphan nobody lost.  Every step makes at most one orphan, and only with a loss
(`PaidFor`); nearly all of them are one wait moving on while tickets at most leave, which
is one lemma (`MovesOn`).

**SessionLeaseProofs.**  `LeaseTypeOK`: the type invariant is not inductive alone, as cancelling a grant in flight takes its
ticket from the count, which must not be zero then.  `HeadWaits` says so; it needs that no
two threads grant from the queue for the same lease (`OneGranter`), and this that every
granter's lease was created (`GrantsIssued`).  `HeadKept` states the two for their own
sake.  It speaks of tickets with an operation: a plain ticket cancelled while its grant
is in flight is counted again by the compensation (see below).

**LeaseRefinementProofs.**  `Implements`, `Recoverable`, `Published`: the refinement of
`WriteLease`, step by step, and the two properties of durability, for any number of threads,
workers, leases, failures, crashes and startups that lose a name.  Each holds up to the first
overtaken release or overlapping repair: the invariant is `amiss = {} => Inv`, and a step
that makes `amiss` non-empty owes nothing.  The exception is in the properties, not in a
hypothesis on the constants; what the code does beyond it is under "Seen while
modelling", and the run `lease` checks the third property there too.  The inductive
invariant has two halves.

- `Core` is about the present.  `Whole`: coordinator, marker and ledger agree; in
  particular a lease that anything names is the latest one (`Last`), the coordinator's
  marker is the one on disk or a fault is latched (`Twin`), a marker belongs to the lease
  that is named (`Owned`), a lease being released is not active as well (`Retiring`), and one
  that is active and published stands in the ledger with no marker left (`Held`).
  `Each`: where a thread stands tells the state of the marker it works on, for every point
  at which it dropped the condition (`Where`, one conjunct per stage).  `Apart`: what two
  jobs exclude of each other.  One grant of the latest lease is under way at a time, one
  worker ends it, one cleanup and one repair run.  The least obvious is `PRace`: a
  compensation may be about to arm a marker while a release of the same lease is under
  way only if it is bound to find the release's marker there and be refused.
- `Durable` is about what a crash leaves.  A snapshot, on disk or captured and not yet
  written, is older than the coordinator or names what it names (`Fresher`); a lease that
  stands in the ledger without a marker is named by the snapshot on disk and by every one
  still to be written (`Safe`, `Covered`); and a publication past its snapshot is covered
  before the marker goes (`Seal`).  The revision counter carries it: a stale snapshot that
  would un-name the lease is refused by its revision.

An action is first shown to have one of a few effects on the shared state (`Shared`: a
marker turned, cleared, armed, a lease audited, revoked, dropped, ended), and each effect
to leave every *other* job its facts (`...Spares`), so that the pairs of actions need no
case of their own.

**LeaseQueueProofs.**  `QueueTyped`, `QueueRoom`: the invariant says which claim each call
is about and where that claim is not (`Coming`, `Flies`), that one grant is under way
(`Alone`) and whose a reservation is (`Backed`).  `RoomKept` is inductive only with the ticket
that has left the queue for its grant counted in, because the compensation puts it back.
`InOrder` states `OrderKept`.  `CancelsHold` is `CancelHolds`
without plain tickets (`~Plain`): a plain one does come back (SC:1065-1098, below).
`PreferenceHolds` is `PreferenceBounded` with one thread for each client.  That is needed:
with two calls of one client a second ticket of the client is granted
without its grace, which clears the count of its returns, and TLC finds a streak past the
bound; the run `lease_served`, where the property is checked, has one thread for each.
The invariant follows the streak of grants past the same tickets: the count keeps up with
it (`Bounds`), as whoever is ahead of them, queued or on its way, got there within its
grace (`Ahead`), or that grace has run out and the streak is `late`.

**CommandQueueProofs.**  `Tracked`, `UnderLease`, `FromReceiver`.  The invariant is the
shape of the state (`Shape`), the broker's books agreeing with one another (`BooksOK`),
which command may still be authorized by which lease (`Authority`), `CommittedIsTracked`
itself, and where answers on the wire come from (`Posts`).  `QueueTyped`, `NeverRan`, `Room`
are about the contents of the queue: `QInv` adds to it the type, that a row which is
queued was not handed out (`Life`), and the two properties.  They rest on what taking
entries out of a sequence leaves of it.  `Without` is a recursive function, whose facts
(its length, its elements, that it commutes with appending) are shown by a least
counterexample in a set of naturals, which needs no induction scheme.

**RunOwnerProofs.**  `RunTypeOK`, `OwnerBacked`, `AdoptionConfirmed`.  `OwnerIsBacked` is
not inductive: a call writes its owner some steps after it was let in, and a failed launch
writes back the owner it read.  What carries it is that whoever holds the operation lock is
backed itself (`CallBacked`), because only a worker takes a backing away and a worker
needs the lock, and that between its first look and its last write a call's row is its own
(`Owning`, `Launching`, `Written`); `Doubted` says what a spoilt confirmation token means,
`BootLeft` what recovery has left to do.

In the same module, over that invariant: `LaunchTraced`: a launch begins
only over a box without a game nobody names (`BoxClear`) and writes its intent before the
game (`IntentFirst`), so every game of a STARTING row is the present launch's.  The attempt
to prove it gave the second way out of the property, the armed fault: see "Seen while
modelling".  `UnconfirmedFenced`: the run an owner was taken from was idle, and an idle run
is fenced (`IdleFenced`, `WrittenFenced`, `RevertFenced`, `FoundIdle`); `Costs` counts the
failure each exception to that took, so that the one the property allows is spent by then.

**IdleWardenProofs.**  `TypeCorrect`, `Authorized`, `ReactionAborts`, `CountdownFirst`.
The three are about one step, so the invariant says what the thread still knows when it
takes it.  While a call holds the operation lock the warden holds the lease and owns the
run (`Commanding`): expiry, adoption and the reaper all need the lock, and only the
thread's own steps end the call.  Up to the first effect, input that a check is still to
see has moved the stamp past the mark, or past the anchors once they were read
(`Noticed`), so the check at the effect finds it.  A thread on its way to a close has seen
its countdown run out, or goes by `_dead` (`Warned`); and `_dead` was read from the census in
the step that set `seen`, so the two exclude each other for as long as the cycle lasts,
whatever census, guard and others do to the run meanwhile.

Only model-checked: everything under fairness (`Served`, `GrantSettles`, `ReleaseSettles`,
`SilenceEnds`, `HandoffEnds`, `LetsGo`, `AbandonedIsClosed`), because liveness and ENABLED
are beyond the prover, and the violations.  Every invariant and every action property
of a run is stated by a theorem, under the hypotheses named above.

## Findings

Each with the run that shows it; `PROJECT.json` quotes what the sources say.

- `lease_completed` (LB:9858): a request's snapshot of the same revision keeps the WAL's
  own from being written; a restart then finds a completed marker that the snapshot does
  not match.
- `run_handoff` (SC:3019): the cleanup of an ended lease waits for the operation lock past
  the release's timeout, and the next lease is granted over an unacknowledged launch.

### Seen while modelling, not run

Where code and text differ, or an assumption of a module says so.  The first eight are
steps of the models, which the properties of the runs name as exceptions; plan is
`plans/2026-07-22-bug046-lease-queue-liveness-plan.md`:

- DM:706-712 against plan:271 ("No existe ventana “grant en ledger, WAL limpio, lease no
  atribuible”"): a startup replaces the snapshot before it audits the end of the leases it
  names, and does not look at the outcome; a crash or a failed audit leaves a grant in the
  ledger with no name anywhere (`lost`).
- SC:3255 against the same line: a release worker that outlives an operator's repair
  finishes whatever marker it finds.  The release of the next lease gets no worker while
  the old one holds the slot (SC:3189); its marker is then completed and cleared though
  the end of that lease was never audited (`amiss`, "repair").
- SC:2919 against plan:258 ("Ninguna ruta libera lease ajeno."): a release that waited to
  arm its marker (SC:4032-4039) retires the lease it had read, which another release has
  ended meanwhile, and drops the one granted since (`amiss`, "release").
- SC:3044 against `plans/2026-07-22-bug046-h9-native-launcher-plan.md:143`: a cleanup that
  ended unsafe starts no watcher, the watcher of a late one returns too (SC:3127), and the
  lease stays in `_releasing`; if the manifest could not be written (DM:102-118) there is no
  fault to repair either, until a restart.
- SC:4171 against plan:18 and `tools/tests/test_coordination_authority_fence.py:242`: a
  request that changes the revision while a grant's marker is completed has it withdrawn
  with the phase `coordination_changed`, which the store refuses there (RS:187), and an
  audit fault is latched though no I/O failed; the test's stub takes the transition.
- SC:2829 against `docs/plan-0ab2.md:18`: `_consume_expiry_grace_locked` first purges a
  grace that has run out (SC:2742-2748) and then takes the grant it allowed for one without
  preference: it clears `_pref_used`, and the owner may pass those who wait once more.
- `idle_warden.py:229` against `ARCHITECTURE-DECISIONS.md:51` ("With no way to warn, a live
  client is not cut."): `_dead` is read once, from the census (LC:870-885); a scan that
  misses a living client then makes its run close without a warning, though guard and
  census both name the client by the time of the close.
- `idle_warden.py:645` against line 10 there and `product-spec.md:150`: `_drift` takes the
  exit of a client for a change of process; a run whose client exited is adopted, found
  changed and released, for ever, and its server stays (`Halved`).
- LC:8342 against `plans/2026-07-22-bug046-h9-native-launcher-plan.md:146`: a fault armed
  for a run that is later reaped names a row its repair does not accept any more, and
  grants stay banned, also after a restart.
- LC:7819-7849 against LC:3708: after two failed writes, a run whose revert is retried is
  RUNNING_IDLE without its fence, and the next adoption is served before it is confirmed.
- LC:3979-3998 against LC:7856-7858: an extension by `start_run` never calls
  `_refuse_unconfirmed_owner`.
- LC:8230: a restart that could not match a live game, arms a fault and dies before it is
  done leaves a STARTING row whose game the next restart finds no intent for; the fault
  bars new leases (two crashes, so it takes `MaxFaults` above 2 to see).
- LC:5836 and 7099-7107: a stop that falls back and is refused late restores RUNNING, but
  its bindings are already retired.
- LC:8230 and DM:121-160: at boot an unacknowledged STARTING row without processes is
  retired as EXITED while the game it could not match lives on.
- SC:2984-2988: saturated cleanup workers leave a run RUNNING with a dead owner, and so do failed writes in STOPPING and UNRECONCILED.
- SV:5625 against SV:5480: the answer to a claim with a dead ticket is taken for a claim.
- SC:821 against SC:1013: an acquire that dropped the condition after its look at the
  tombstones may queue its ticket beside the tombstone; it is never granted.
- SC:1065-1098 and 3399-3415: a plain ticket cancelled while its grant is in flight comes
  back with the compensation, after the cancel was answered.
- SC:1424 against `product-spec.md:139`: after an expiry whose WAL could not be armed, the
  same heartbeat renews the expired lease; and an expiry that began before a renewal ends
  the renewed lease (SC:2873).
- SC:4243, SC:3259: a completed marker that cannot be removed is not tried again, and
  `handoff_audit_failed` without a fault has no repair.
- SC:3755: the sweep after a join that never arrived takes a sibling's ticket.
- SC: with two calls of one client a ticket moved to the front by the grace stays there.
- LB:6058: `exec_enforce` refused by a late fence stays committed and pinned (`stranded`).
- LB:6507 against LB:5992: the close of a lease is queued without a look at `MAX_QUEUE`.
- LB:7785-7800: a result that comes after its own retry and the deadline deletes the
  stored one nobody has read yet.
- `idle_warden.py:306`, 408, against LC:6348 and `product-spec.md:150`: input between the
  warden's last look at reactions and the anchors of its destruction guard, or between the
  adoption and its marks, is taken for what was there before, and the windows are closed
  over it.
- `idle_warden.py:414`, against line 6: a switch that reads off inside `close_run` and on
  again in the cycle ends that cycle with lease and armed retirement; the retirement
  outlives the release and labels a later reap.
- `idle_warden.py:235-241`, 272: a failed enqueue or wait forgets a ticket that may still be
  in the queue.
- LC:7350-7361: a partial close after a reaction leaves a server with a gone client, and so
  that loop (`idle_warden.py:645`).
- LC:5966-5983: a process that exits between its classification and its kill is refused or
  counted as left untouched when the warden stops the run (partial, UNRECONCILED); for
  every other caller it is gone.

## Plan

Done: the box, the lease's protocol, queue and refinement, commands, the run and its
owner, the idle warden, each with its runs; eight modules of proofs, which state every
safety property of the runs.  What is left, in order of worth:

1. The order in which `LeaseQueue` serves and `SessionLease` grants are two models; that
   `LeaseQueue`'s stages of a grant are those of `SessionLease` is argued, not proved.
2. `RunOwner` with role replacement, takeover and the manifest's quarantine.
3. Holds and camera paths in `CommandQueue`; the reload of the MCP client.
