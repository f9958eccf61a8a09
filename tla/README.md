# WSL Distro Manager: a verification development

TLA+ models of the parts of WSL Distro Manager that are hard to test: the
places where several asynchronous calls, child processes, timers, files and
crashes meet. Each module is translated from the Dart (or JavaScript) it names;
TLC checks it on small instances and TLAPS proves the most important properties
for every value of the constants.

## The system

The program is a Flutter desktop application (`src/lib`). It has one Dart
isolate: code between two `await`s runs without interruption, and everything
concurrent is an asynchronous call that waits for a child process (`wsl.exe`,
`ssh`, `powershell`, `docker`, `vmctl`), a file, a socket or a timer. So a step
of a model is the code between two `await`s, and the interleavings are those of
the calls in progress.

| Part | Where | State | Operations |
|---|---|---|---|
| Execution broker | `lib/api/execution/broker.dart` | audit log, calls in flight, their children | `run`, `runStream`, `startPersistent`, `clearAuditLog`, timeouts with escalation |
| WSL instances | `lib/api/wsl.dart` | registered instances, disks, `Path_*` and `MoveOp_*` preferences | list, start, stop, create, copy, move, export, import, remove, cleanup, configuration writes |
| AI workspace | `lib/api/ai_workspace/` | status, error and install log of every tool, keep-alive process, local forwards | install, start, stop, uninstall, refresh, dashboard |
| AI assistant | `lib/api/ai_service.dart` and neighbours | sessions, to-do lists, recorded runs | tool loop with confirmation and cancellation |
| MCP server, terminals, tunnel | `lib/api/mcp/` | the listening server, open shells, the tunnel's child | start, stop, enable; one handler per tool |
| Licensing | `lib/api/license_manager.dart`, `n8n/licensing/seat_check.js` | stored key, entitlement, its age; seats per key | activate, revalidate, sign out; claim and prune seats |
| Backups | `lib/api/backup_service.dart` | archives and a manifest in a folder | back up, inspect, restore, cancel |
| Hosts file | `lib/api/hosts_file_service.dart` | a managed block of the hosts file, a timer | sync, clear, automatic sync |
| Mounts | `lib/api/mount_service.dart`, `volume_mounts.dart` | mounted disks, fstab lines | mount, unmount |
| Updater | `lib/api/updater.dart` | downloaded installer | check, download, install |
| Sync and list | `lib/components/sync.dart`, `list.dart` | an HTTP server, the last known list | serve, download, list with grace |
| Cloud, provisioning, Kubernetes, containers, sandbox, file transfer | `lib/api/...` | jobs in progress | one long command sequence each |
| macOS machines | `lib/api/apple`, `macos/vmctl` | a directory per machine, its process | create, run, stop, resize, mount |
| Docker images | `lib/api/docker_images.dart` and neighbours | layers on disk | pull, unpack |
| Cancellation | `lib/api/cancellation.dart` | listeners of one signal | cancel, listen, remove |

Hard behaviours: calls that overlap on shared state (the audit log, the export
file, the status of a tool, one configuration file), state read before an
`await` and used after it, timeouts that race the answer, children that outlive
their call, destructive sequences that fail or crash half way.

Not modelled yet, and why: see "Left out" and "Plan". `PROJECT.json` lists every
part with its status, every modelled definition with its source lines (`map`),
and every hazard with the property that covers it.

## How the code becomes steps

One action is one stretch of Dart between two `await`s, with every assignment,
save and early return on it. An `await` on something outside the isolate (a
child, a server, the user at a dialog) is where the models interleave; its
outcome is chosen when it comes back: success, each failure the code tells
apart, or a timer. A `Future` that is already complete does not give a step of
its own. What a user can do on a page is an action guarded the way the page
guards its buttons. Timers that only compare ages (days, offline grace) are
counted in periods.

Definitions that carry the word "Mutant(s)" in their comment are plausible bugs
next to the definition they would replace. They take part in no specification.

| Module | Code | State | Actions |
|---|---|---|---|
| `ExecutionBroker` | `broker.dart` | `log` is `_auditLog`, `pc` where each request stands, `child` its process, `events` what a stream has delivered | `Submit` checks the policy and adds the pending line, `Starts` is the spawn, `Timeout` the kill and its escalation, `Ends` the rewriting of "the last line", `ClearAuditLog` |
| `DistroMove` | `wsl.dart` 2340-2540, the start-up dialog of `nav/init.dart` | `place`/`holds`: the registered instances and whose data is on their disk; `tar`: export files, whole or torn; `markD`, `markP`: the two `MoveOp_*` preferences | `Move` and one action per awaited step (export, size check, two marker writes, unregister, import, clean-up), `Crash`, `Start`, `Dismiss` |
| `AiWorkspace` | `ai_workspace/service.dart`, `ai_workspace_screen.dart` | `card` (the tool's state), `cache` (persisted status), `world` (the tool itself), `installing`, `calls` in progress, `page` (busy flags and two timers) | the buttons, the three timers, the probe in two steps (asked, told), install with its abandon and cancel, `Restart` |
| `Licensing` | `license_manager.dart`, `n8n/licensing` (`seat_check.js` and its workflow) | `row` of one key, `reqs` with the workflow's copy of the row, `apps` (each PC's process and record) | `Enter`, `Load`, `Quit`; `FindLicence`, `SeatCheck`, `StoreDevices`, `Answer` are the nodes of the workflow; `Revoke`, `Tick` |
| `LicenseManager` | `license_manager.dart` 360-520 | `prefs` on the disk, `process` (the record in memory), `calls` (checks that are out) | `EnterKey`, `LoadRecord` and the re-check with one step per group of preference writes, `Crash` between them |
| `StoreEntitlement` | `license_manager.dart` 60-400, `nav/init.dart`, `nav/root_screen.dart`, `main.dart` | `world` (the listing, the instant), `account`, `disk`, `app` | releases, purchases, updates, sign-outs; the start of an old and of a new build, the Store's answer, the written grant |
| `AtomicConfig`, `WslConf` | `wsl.dart` 2590-2720, `settings_dialog.dart`, the MCP tool that edits the same file | `text` of the file, `edit` (read-modify-write cycles), `tail` of the per-file chain, the dialog and its draft | `Cycle` (wait, read, write, end), `ToolCall`, `OpenDialog`, `EditDraft`, `Save` and its `FlushStep`s, `Cancel`, and `Escape`, which leaves a flush running with a draft of its own |
| `HostsSync` | `hosts_file_service.dart`, `hosts_settings_section.dart` | `file` (the block, and of every foreign line whether it is UTF-8), the stored switch, `timer`, `lastBlock`, `job` (ticks and button presses that are out), `line` (the chain of writes), `staged` | `Tick`, `Look` (collecting), `Turn` (the head of the chain writes or finds nothing to do), `Answer` (approved or refused), the two buttons, `Switch` and what follows when it is stored, `LeavePage`, `Restart` |
| `Backups` | `backup_service.dart`, `backup_dialog.dart` | `folder`, `listing` and `entry`: the archives and the manifest; `world`: the registered instances and whose data they hold; `run`: the backups and restores that are out (what is left, which files were used, what was made) | `BeginBackup`, `Turn` (the next instance and its file), `Stopped`, `Exported`, `Failed` with its deletion, `EndBackup` with the manifest; `BeginRestore`, `NextArchive`, `Imported`, `ImportFails`, `EndRestore`; `Unregister` and `Kill` from outside |
| `McpEndpoint` | `mcp/wsl_mcp_service.dart`, `wsl_terminal_manager.dart`, `cloudflare_tunnel_service.dart`, the switches of `settings_screen.dart` | `server`, `manager`, `mcp`, `moved` are the static fields, `listening` whether the port is held; `call` the starts and stops that are out, `shell` the sessions, `tunnel`, `up` and `pull` the map of tunnels, the processes and the starts of one | `SwitchOn`, `Bound`, `BindFails`; `SwitchOff`, `Closed`, `ShellsClosed`; `Request`, `RequestThrows`, `FlipFeature`; `ShellStarts`, `ShellEnds`; `TunnelOn`, `Spawned`, `UrlSeen`, `UrlTimeout`, `TunnelOff`, `LeavePage` |

Modules do not share variables: the parts above meet only through what their
modules represent explicitly (the broker's children and timers appear in the
others as calls that end, fail or are abandoned). `Licensing` sees the service
from inside with one key, `LicenseManager` one install with several keys, and
`StoreEntitlement` the Store's side of the same entitlement. The last two share no
preference, and a copy that a key unlocks asks the Store nothing
(`_storeQuestionOpen`), so `MC_Entitlement` puts their behaviours side by side in one run
and does not interleave them.

`AtomicConfig` is the abstract specification of configuration writes: an edit
that was asked for is made in one step, in the order asked, or given up;
`WslConf` is shown to implement it, by TLC for two calls and by TLAPS for any
number.

## What the runs check

Every property is stated in the module, above the `====`, with the code it is
about.

| Run | Configuration | Bounds | What it shows |
|---|---|---|---|
| `broker` | `ExecutionBroker.cfg` | 2 captured calls, 1 stream, 1 refused request, the log cleared once | However the requests overlap the log keeps one line each (`OneLinePerAttempt`); an outcome disappears only by an overlap that ends later (`OutcomeKeptUntilOverlapEnds`); a call that has returned left no child alive (`NoChildOutlivesItsCall`); a stream ends with one terminal event; every call returns |
| `move` | `DistroMove.cfg` | 2 instances, 3 folders, 2 moves at a time and 3 in all, every kind of host | No failure or crash at any step loses contents or mixes them up; after a first move that went wrong the user is told or the marker names the file |
| `move_shared_folder` | `DistroMoveShared.cfg` | as above, one move at a time, old local host | A second move into a folder that holds the only copy of an instance destroys it (finding) |
| `workspace` | `AiWorkspace.cfg` | 2 calls, one containerised tool | One installer at a time; a failure and a running install are overwritten only by calls that were already out; every install ends |
| `seats` | `Licensing.cfg` | 1 seat, 2 installs, 2 requests out, limits 0/1/2/3 periods, one request at a time in the service (`Serial`) | Of the installs with Pro on a record within the grace, those nobody pushed out are no more than the seats (`SeatsRespected`); a denial is deserved; a re-check changes no holder; once a licence has been revoked for longer than the grace nobody gains Pro by it, and whoever loads its record loses it (`RevokedStops`) |
| `seats_overlap` | `LicensingOverlap.cfg` | the same, requests overlapping in the service | Of two activations that overlap the one that was entered last may be answered valid and hold no seat (finding) |
| `entitlement` | `Entitlement.cfg` | 2 keys (one with an e-mail address), 2 checks out, 2 keys entered, 1 lost answer, 1 kill; 3 kills, 2 sign-outs on the Store's side | Whatever mixture of two keys a kill or an overlap leaves, a good stored key unlocks Pro in the end, and a refused one is marked so, on the disk and in memory, for good; Pro that was shown stays, a free copy never gets it, a buyer on a fresh PC gets it back |
| `record_entered` | `LicenseManagerEntered.cfg` | as on the key's side | When every check has ended, the key entered last may be switched off or replaced: by the answer to a re-check of an old key that was out when it was entered (finding) |
| `config` | `WslConf.cfg` | 2 keys, 1 value, 2 calls, 1 press of Save, 3 edits | The queued cycles implement `AtomicConfig`; a cycle that fails does not hold up the next; Save loses no edit made before it, however the dialog is edited, cancelled or left with Escape meanwhile |
| `hosts` | `HostsSync.cfg` | 1 instance, 2 foreign lines (each missing, in UTF-8 or not), 2 jobs out | The staged file is never pulled from under an elevated copy; foreign lines stay as they are, but for what decoding makes of one that is not UTF-8; a refused write releases the chain; a refused block is remembered; what waits in the chain when the sync is switched off is cleared behind it (`OffStaysOff`) |
| `backup` | `Backups.cfg` | 2 instances whose names clean to one file name, 2 runs out, 3 in all | What a run reported as made stays whole and listed under its instance's name, whatever runs, failures, kills and torn manifests follow, until a run turns to the same file (`PromisesHold`); a manifest names finished archives of the right instance only (`ListedIsKept`); a restore makes what was backed up under that name although it read the manifest long before (`RestoredIsKept`) |
| `endpoint` | `McpEndpoint.cfg` | 3 presses of the switch out, 3 managers, 1 shell, 2 tunnel processes, 2 starts of a tunnel | Off and at rest nothing is left running, if the switch was never thrown early (`OffLeavesNothing`); however it was thrown, nothing is served then (`OffServesNothing`); off and on again mends what earlier presses left (`OffOnMends`) |

### Why the bounds are enough

The failures these properties are about need two overlapping calls and one thing
that goes wrong between two of their steps; every run has both. Two captured
calls and a stream are the smallest set in which a line of the log is replaced
by a request that neither wrote it nor overlaps its writer's start. Two
instances with a third folder let moves collide, swap places, and reuse a folder
after a failure; the third move follows a pair that overlapped. One seat and two
installs is the tightest contention, and four different limits make every
comparison of `seat_check.js` decide something. In `config` the third edit
is asked for while one cycle runs and one waits. In `hosts` one job may be at the
prompt while another collects or waits; no property tells more than two blocks apart
(what was refused and what was found, what is staged and what was asked for), which one
instance makes, and of two foreign lines one may change while the other must not. In `backup` two names that clean to one are
the smallest set in which a file name does not tell whose archive it holds, and the
third run follows a pair that overlapped. In `endpoint` three presses let a start and
a stop overlap and a further press come before either has ended, and three managers
keep those of the tools, of `stop()` and of a shell apart. What `MaxKills`, `MaxCrashes`, `MaxLost`, `MaxEnters`,
`MaxSignOuts`, `MaxClears`, `MaxEdits`, `MaxRuns` and `MaxMoves` bound are
events from outside; the code counts none of them. `Calls`, `Requests`, `Jobs`, `Moves`,
`Presses`, `Runs`, `Managers`, `Shells`, `Procs` and `Pulls` bound the overlap only: an entry is used again when its call has
ended (but for the broker's, which are used once). The theorems below drop these
bounds for what they prove. Symmetry is used in `seats` (installs and requests), `backup` (runs)
and `endpoint` (all but the one shell); the temporal properties of these runs are of the
form `[][A]_vars`, with `A` symmetric, so it is sound there.

`CHECK_DEADLOCK FALSE` is given where the system may rest: all requests
served, all moves made, the bounded events used up. `workspace`, `hosts` and
`endpoint` are checked for deadlock.

## Fairness, and why the code justifies it

- `broker`: the event loop runs what is ready and the timeout's timer fires. No
  child is assumed to exit.
- `workspace`: every call of the service has a timer of its own (probe 40 s,
  start and stop through the broker's timeout, install with a silence timer and a
  ceiling), and a child that was killed dies.
- `entitlement`: an application that was left is started again, and ended
  again, days pass, a request that is out is answered (or, as often as the
  bound says, lost), and a Store asked time and again answers. Nothing is assumed
  of what the user enters, buys or signs out of.
- `config`: each `wsl.exe` call has a 60 s timer; what waits for one goes on. Nothing is
  assumed of the dialog or of its flush.
- `hosts`: asking an instance has a 20 s timer, the chain moves on by itself, a
  prompt is answered or times out.
- `move`, `move_shared_folder`, `seats`, `seats_overlap`, `record_entered`, `backup`,
  `endpoint`: none; their properties are safety.

## What is proved

For every value of the constants, with `tlapm`, subject to the assumptions each
module names (`RequestAssumption`, `MoveAssumption`, `LimitAssumption`,
`SwitchAssumption`, `NoneAssumption`, `BoundAssumption`, `KeyAssumption`, `NothingAssumption`,
`ConfAssumption`, `HostsAssumption`, `BackupAssumption`, `EndpointAssumption`), which say no more than
that the sets are sets of the right kind, that `None` (`Nothing`) is not one of the things
it stands beside, and that the limits lie in the order the code's constants do.

- `ExecutionBroker_proofs`: `TypeCorrect`, `OutcomeKept`, `LinesCounted`, `NoOrphan` and
  `EventsInOrder`, for any number of overlapping requests. The outcome property is
  not inductive: a request that ends replaces the last line, so one needs that
  the line it replaces is not a final one still promised. `LogInv` says that a
  request that has not ended has no final line (`Unwritten`), that the requests
  recorded beside it have started (`BesideStarted`), and that a request that is in
  flight now and was not then has its own line behind the promised one, which
  is therefore not the last (`Kept`). A lemma on the log says what replacing the
  last line leaves. That the log has one line per request is inductive as it stands, given
  the types: only a submission adds a line, and only one that the policy let through.
  `ChildInv` says that a request has no child before it is spawned and no living one once it
  has returned; `EventsInv` what a stream has said by where it stands, and that one whose
  end threw had its line cleared under it.
- `DistroMove_proofs`: `TypeCorrect`, `ContentsKept`, `ContentsOwn` and `FirstMoveRecovers`,
  for any number of instances, folders and moves. `MoveInv`
  says that the moves in progress concern different instances and different files
  (`Apart`), what a move's file holds as far as the move has got (`FileFits`: whose
  it is, and that it is a whole export from the check on), and that every instance
  is registered or has a good export. `DialogInv` keeps moves and the recovery
  dialog apart. `ContentsKept` and `ContentsOwn` assume
  `Careless = FALSE`: no move is aimed at a folder whose export another one still
  needs. The run `move_shared_folder` shows that without it the property is
  false. `FirstMoveRecovers` assumes nothing of the folder: `FirstInv` follows the one call
  there has been (`FirstFits`: what its file and the marker say by how far it got) and says
  that an instance that is not registered is one the user has been told of or the marker
  leads to.
- `AiWorkspace_proofs`: `TypeCorrect`, `InstallerAlone`, `FailureStays` and `InstallStays`,
  for any number of calls in progress and both kinds of tool. None of the last three is
  inductive. `FitsInv` says which kinds of call get where; `InstallInv` that the service
  knows of the one install there is, from the press of the button until the hook has
  returned; `OldInv` that whatever is out beside an install or beside a sticky failure has
  been out since before: a probe gives way to both, a button to an install, and it clears
  the failure. A lemma (`WhoWrites`) says once who changes the card: a call
  that was out, a user who takes a failure away, or a restart.
- `Licensing_proofs`: `TypeCorrect`; `RevocationReaches`, with no condition: however long
  processes stay up and however requests overlap; `Fair`, `RecheckHolds` and `SeatsKept`
  (assuming `Serial`: the service handles one request at a time, which the workflow
  itself does not ensure). Under the same assumption `LastHolds` says that what the run
  `seats_overlap` refutes has no other cause. `LapseInv` says that once
  the row is revoked for a period no valid answer is on its way, that a record that
  still says valid is at least as old as the revocation, and that Pro is on only in a
  process that is up and on a valid record; `FairInv` says that in the row, and in the one copy
  a request works on, the devices that activated after another are among those that
  took a seat since it did. The seats themselves need two invariants. `OrderInv` says that
  the dates of activation order the known devices, in the row and in every copy; with the
  library's well-foundedness of finite sets it follows that any set of devices has an
  earliest one (`Earliest`), which all others of the set activated after, so that there are
  never more holders than seats (`HoldersBounded`). `SeatInv` says that while no request is
  decided the row is as it should be, that every device nobody displaced and that is still
  in the in the window holds a seat, that an install with a valid record was seen no longer ago than
  its record is old, and that nobody activated after the device that took a seat last; and
  that while one is, its copy is, and will be the row. It counts on `OfflineGrace <=
  SeatWindow`: an install whose Pro lasts is still in the window.
  Three theorems about `seat_check.js` need neither: `SeatsInUse` (the row has exactly as many
  holders as seats, or every device seen within the window is one: of those that are not,
  the one that activated last, `Latest`, has as many holders ahead of it as there are seats),
  `NewestWins` (an activation is never answered `seat_taken`: nobody is ahead of it) and
  `OneDisplaced` (a decision puts at most one more device ahead of another, `OneMoreAhead`,
  so a loser had just one seat to spare; of two devices the one that activated earlier has
  more ahead of it, `FurtherBehind`, so only one can lose). The first holds of the row, the others
  of the copy a request works on, however the requests overlap; which device holds a seat in
  the row then is another matter, and `Serial` is needed for it.
  The same module proves the two others about licences. Of `StoreEntitlement` (which it
  extends, hence the names `StoreInit`, `StoreSpec`, ... there): `StoreTypes`,
  `ShownIsKept` and `FreeIsFree`. `GrantInv` is the argument of the code's
  order: a grant in memory is on the disk once `init()` has returned, or about to be, so
  that the version of a paid-era build is overwritten only when the grant it justified no
  longer needs it. `FreeInv` says that a free download comes after the instant and finds no
  paid-era build to run. Of `LicenseManager` (which it extends too, hence
  `RecordSpec`, `process`, ... there): `RecordKeyed`, its types with the claim that a
  record is never valid without a key. `KeyFirst` is the order of the writes: a check that
  is past its first one has left a key, and none takes a key away. And `EnteredStays`: the
  property the run `record_entered` refutes holds of every behaviour in which no other check
  is out while an entered key is being activated (`EnteredAlone`, which nothing in the code
  ensures), so the finding has no other cause. `EnteredInv` says that every check that is
  out asks about the entered key and turns it away only when the service no longer takes it,
  that the record is that key's once its activation is over (`InPlace`), and until then what
  the activation has written so far (`PutInPlace`).
- `WslConf_proofs`: `TypeCorrect`, `Refines` (`Spec => EditsAreAtomic`) and
  `SaveSaves`. The step that matters is the write: it is an atomic edit only if
  the file has not changed since the cycle's read, so `FileOK` says that
  what a cycle has read is the file and that only a cycle with nothing before it is
  there. It follows from `LineOK` (the live cycles stand in one line, each waiting
  for the one asked for just before it) and `TailOK` (the map's entry is the end of
  that line). `DraftOK` and `UnsavedOK` relate the draft to what a flush has still to
  hand over; a flush whose dialog was left with Escape keeps what is left of its draft.
- `HostsSync_proofs`: `TypeCorrect`, `OneStaged`, `BlockOnly`, `AskedOnce` and `OffIsOff`,
  for any number of jobs that are out at once. `LineInv` says that a job is in the line once and
  that only the first may have a prompt open, so what is staged is its own; `StagedInv`
  that the staged file differs from the file as it is read in the block only, unless
  somebody edited it meanwhile (a lemma, `Reading`, says that decoding once is enough);
  `BlockOnly` then says line by line that a write changes a foreign line only where the
  reading did; `RefusedInv` that a refused block is the one the timer remembers; `LateInv` that while
  the switch is off the ticks that still collect are the late ones, so that no other joins
  the line behind the clear.
- `Backups_proofs`: `TypeCorrect`, `PromisesKept`, `ListedKept` and `RestoredKept`, for
  any instances, files and overlapping runs. `OwnInv` says that the file a run has taken is
  nobody else's and not promised yet, `TurnInv` that no file is promised while a run is at
  it, `RestoreInv` that what a restore still wants was promised when the manifest was read
  and no run has turned to it since.
- `McpEndpoint_proofs`: `TypeCorrect`, `OffLeaves`, `OffServes` and `OffOn`, for any
  number of presses, managers, shells and tunnels. None of the three is inductive.
  `ManagerInv` says whose shells there can be: the current manager's, those a stop is
  closing, or late ones; `ToolsInv` that tools are there without the server's switch only
  while a start or a stop is out or a request revived them; `TunnelInv` that a running
  process is the one entered, one whose start is late, or a stray; `FreshInv` and
  `CleanInv` what holds while the switch was thrown only at rest. What the end of `stop()`
  does is stated once, in `AfterServerEffect` and `SwitchOffEffect`, since it is reached
  from two actions.

Each invariant was first checked by TLC on the run's own instance, those of the first
moves with `Careless = TRUE`. Model-checked only: the liveness properties (`CallsReturn`,
`InstallsEnd`, `GoodKeyHeals`, `BadKeyFades`, `BuyerRestored`, `EveryEditTried`,
`WritesGoOn`), since fairness and `ENABLED` are beyond the prover. Every safety property a
passing run checks is a theorem; the properties the three runs with a counterexample refute
are theorems under the condition they lack (`ContentsKept`, `EnteredStays`, `LastHolds`).

## Findings

Three runs end in a counterexample that contradicts a comment or message of the
code; `PROJECT.json` quotes each.

1. `move_shared_folder`: the local export is always `<folder>/export.ext4`
   (`wsl.dart:2447`). After a failed import the user is told that the data is safe
   in that file; a later move into the same folder overwrites or deletes it.
2. `record_entered`: a re-check writes its answer without looking whether the
   record still holds the key it asked about (`license_manager.dart:499`).
3. `seats_overlap`: the workflow reads the licence's row and writes the whole column of
   devices back two nodes later (`wsl-manager-licensing.workflow.json:466`, `:908`), and
   nothing orders its executions. Of two activations that overlap both are answered valid
   and the second write takes back what the first stored, so that the device that entered
   the key last may hold no seat (a re-check that writes second does the same), where `seat_check.js:10` says that "whoever entered it
   last has Pro".

Other points where the code does less than a reader may expect; they are in the
models (as an exception a property names, or as an assumption) without a run of their
own:

- The audit log is called append-only (`broker.dart:37`) but its last line is replaced
  (`broker.dart:236`): overlapping requests lose lines.
- A second move overwrites the recovery marker of an interrupted first one
  (`wsl.dart:2483`, comment at 2410); hence `started = 1` in `ToldOrMarked`.
- A call that was out when an action failed, or when an install began, writes over
  the card (`service.dart:525`, `1459`); a cancelled install says "not installed"
  without asking (`service.dart:1024`).
- A process that stays up looks at the grace when it loads its record and never again
  (`license_manager.dart:400`): it keeps Pro on a lapsed or revoked licence until it is
  started again or the licence page is opened. `SeatsRespected` does not count it and
  `RevokedStops` says what stops all the same. A re-check after more
  than the 90-day window takes a seat like an activation. A key without an e-mail
  address keeps the address of the key before it
  (`license_manager.dart:475`).
- Only the page that issued a call polls a "starting" tool
  (`ai_workspace_screen.dart:363`): a "starting" written by another call stays on an open
  page "with Start, Stop and the dashboard all disabled until the user happens to click
  something", as the comment at line 158 says it would without the poll.
- A tick compares its block with what earlier ticks have finished, not with what they
  wait for, so that ticks that looked while a prompt was open ask again for the block
  just refused (`hosts_file_service.dart:482`, comment at 488).
- A tick that is collecting when the sync is switched off writes its block after
  the clear (`hosts_settings_section.dart:85`); and when the page is left, or another button
  is pressed, while the switch is being stored, the block is not cleared at all (lines 79
  and 49). Both are the late ticks that `OffStaysOff` leaves out.
- A hosts file that is not UTF-8 is read with U+FFFD for each odd byte and written back
  whole (`hosts_file_service.dart:303-307`, `:397`), so that the first write changes
  foreign lines in an old code page for good, where the comments at 67 and 226 say
  "untouched" and "byte for byte". The comment at 303 accepts it; `OthersKept` names it as
  its exception. What another program writes while the prompt is open is lost.
- What is edited in the settings dialog while Save is running is dropped
  (`settings_dialog.dart:644`). Escape closes the dialog while a flush goes on
  (`settings_dialog.dart:75`, dismissed like any dialog); the flush, when it ends, pops
  whatever is open by then (`:115`), a dialog opened since with its draft, or a page.
- Backups: the names of one run are kept apart, not those of different runs, so a later
  run may overwrite another instance's archive (`backup_service.dart:554`). A failure
  deletes the target, also when only the stop failed and the file is a good archive of an
  earlier run, where the comment at 318 speaks of what an export truncated. Which instances
  run is read once (`:256`), so one started meanwhile is exported while it runs. The dialog
  may be closed over its run with Escape and a second run started beside it. A kill before
  the manifest is written leaves file names to go by, and one in the middle of writing it
  leaves a manifest that cannot be read.
- Endpoint: a second start whose bind fails because the first has the port forgets the
  handle of the first (`wsl_mcp_service.dart:176`), and the server then listens until the
  application ends, without tools; a stop does not see a `cloudflared` whose start has not
  entered it yet (`cloudflare_tunnel_service.dart:142`), nor a shell that is being started;
  a request that meets a switched experimental feature while a stop closes the shells builds
  the tools again (`wsl_mcp_service.dart:205`).

## Left out of the modelled parts

- `ExecutionBroker`: decoding of output, and `startPersistent`, which checks the
  policy and hands the process to its caller.
- `DistroMove`: the other instance operations; the wording of the dialog.
- `AiWorkspace`: the keep-alive session, port forwards and the dashboard; several
  tools at once; the set-up of the environment.
- `Licensing`: requests without a device id, the caps on the devices column, key
  issuing and the AI quota.
- `StoreEntitlement`: the moment between telling the listeners and writing the grant, and
  unstamped builds, to which the rule grants nothing (`license_manager.dart:131`). Every
  build the Store has is stamped (`releaser.yml:66`, `:235`), and `init()` reads the stamped
  constant before `main()` replaces it by the package's version (`main.dart:143`, `:224`).
- `WslConf`: layout of the file, the preferences that mirror it (a flush reads an entry before
  it awaits the preference, `settings_dialog.dart:602`; the model hands over in one step), the
  second route of the default user, `.wslconfig`, the page an orphaned flush pops.
- `HostsSync`: layout and suffix, remote hosts, a prompt that outlives the
  application, a second press of the switch before the first is stored.
- `Backups`: progress reports and sizes, the extension of an archive, the warning about
  the other backend's archives. That an instance was running when the run began is the
  model's choice at each turn.
- `McpEndpoint`: tokens and authorisation, what tools do besides opening shells, the
  download of `cloudflared`, a tunnel process that dies by itself.

### Hazards no property covers

`PROJECT.json` lists the hazards. Some of them have no property: the models take the steps
that make them, the code does not prevent them, and the property next to each names it as
its exception. They are a stream whose end throws, a second move over the marker of an
interrupted first, the "not installed" of a cancelled install, a process that outlives the
grace, a key edited again while Save runs, ticks queued behind a prompt that is then refused,
a hosts file edited under the prompt, a later backup over another instance's archive, shells
and tunnels being started when the endpoint stops, and a request that revives its tools.
These are real too, and no module has them:


- Two starts at once both find no keep-alive session; the exit of the first process then
  forgets the handle of the second (`ai_workspace/service.dart:738-745`).
- The devices column is capped at 50 entries (`seat_check.js:93`): holders must not be
  among those dropped. 50 live devices on one key are beyond the bounds.
- The redirection of a write of `wsl.conf` empties the file first (`wsl.dart:2610`); a write
  its timer kills leaves it empty. `EditsAreAtomic` allows it (`BreakOff`): the code promises
  nothing else.
- `.wslconfig` has other writers and no queue (`wsl.dart:887`), and the settings page
  writes back the whole model it loaded.
- The default user is set by two routes one after the other, the second outside the
  queue (`default_user_service.dart:189`).
- `clearLicense()` while a check is out (`license_manager.dart:515`; nothing calls it), and
  a page opened while the Store's grant is being written (`:369`).
- A "starting" card on an open page (see above).

## Not modelled

The screens and dialogs appear only as far as they drive a modelled service. Command
lines, parsing, formatting, the catalogues and the configuration formats have no state
whose order could go wrong. `doc/api` is generated documentation, with the scripts of the
documentation generator (`docs.dart.js`, `highlight.pack.js`); nothing of it is part of
the program. The remaining parts (cloud deployment, `vmctl`, provisioning, Docker images, the
updater, file transfer, sync and list) are long command sequences for one user, each with
its own small state; they are listed with their reasons in `PROJECT.json` and in the plan.

## Plan

Done: (1) the execution broker, the boundary every command goes through; (2) moving
an instance, the one operation that can destroy user data; (3) the AI workspace,
the component with most overlapping operations; (4) licensing and the seat server;
(5) configuration writes against their abstract specification; (6) the hosts file; (7) backups; (8) the MCP
endpoint with its shells and its tunnel; (9) proofs of the safety properties of all of
them.

Next, in this order:

10. The default user's second route and `.wslconfig` as an unqueued counterpart of
    `WslConf`; the keep-alive session and the forwards of the AI workspace, a handle
    replaced while the old one's exit is awaited, as in `McpEndpoint`.
11. Cancellation, mounts and fstab, the updater, sync and the grace list.
12. Chat sessions, cloud deployment, vmctl, web dashboard, provisioning, Docker
    images.

The set of runs stays one per question: a new part takes the place of properties that say
less.
