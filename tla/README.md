# A TLA+ verification of imaged

imaged captures disk images from PXE-booted machines and writes them back, one
machine at a time or by multicast. A server keeps hosts, images and tasks in
SQLite, serves a dashboard and an agent API; an agent on every machine connects
by websocket, is told its current task, does it, and reports by HTTP.

The interesting part is that nobody queues work for an agent. A handler changes
a row in one place and rings a bell in another; a stream looks up what is
current and says it; the agent reconciles itself with what it hears, and asks
when it becomes idle. Rows, bells, questions, answers and reports travel on
different paths and must not miss each other. Images have the second hard part:
a database row and a directory that cannot be changed together, written by
handlers that interleave and that may stop between any two steps.

## Files

| file | what it is |
|---|---|
| `TaskRows`, `TaskLife` | one host's `task_hosts` rows, one operator per SQL statement; the abstract life of a row |
| `Delivery` | one host end to end: rows, UI requests, multicast worker, event streams, websocket, agent, its HTTP calls |
| `Registry` | `HostRegistry`, the connection feed of a browser, the progress board |
| `MulticastSession`, `MulticastPorts` | the multicast worker over several hosts; the groups and ports of its transfers |
| `ImageStore`, `Archive` | one image: row, partition rows, directory, capture, import, deploy, delete; the archive it is exported to and imported from |
| `DiskImaging`, `SystemMount` | the disks of a machine under capture and restore; mounting what was restored |
| `ScriptStore`, `ScriptRuns` | the script library, what images carry, what deployments are accepted with; running scripts and keeping their output |
| `DeployForm`, `ImageSetup`, `ScriptEditor` | the dashboard's forms for scripts: a deployment's inputs, an image's setup, a script |
| `TaskPage`, `OutputPanel`, `Inventory` | the dashboard's list of tasks, its output panel, hosts and groups with the dialogs that act on them |
| `AgentConsole` | the agent's own screen, keys and reboots |
| `Proxy`, `Server`, `Boot`, `Pack` | the script proxy, the server process, network boot, the image packer |
| `MC*.tla`, `*.cfg` | the instances TLC checks |
| `DeliveryProofs`, `RegistryProofs`, `SessionProofs`, `MachineProofs`, `ServicesProofs`, `DashboardProofs`, `ScriptsProofs`, `LibraryProofs` | theorems and their TLAPS proofs |

`Delivery` extends `TaskRows` and instantiates `TaskLife`; `DeployForm`
instantiates `ScriptStore`, whose acceptance it is compared with; the proof
modules extend what they are about: a component's module, or the MC module that
joins several, whose constants stay parameters there and get values only in the
`.cfg`. `MCScripts`, `MCMachine`, `MCServices` and
`MCDashboard` instantiate several components that share no state: a behaviour is
one of the component that `part` names, the variables of the others are off, and
each property speaks of its own part. Definitions named in a comment starting
with "mutant" are faulty variants of the definition that follows them; they show
that each property can fail and are used by no specification.

## Inventory

| component | state | operations | interacts with |
|---|---|---|---|
| task rows (`core/repository/task.rs`, `core/domain/task.rs`) | a state per task and host | create, start, mark_finished, mark_failed, cancel, retry, fail_running, get_next | every handler |
| event stream (`api/agent/event.rs`) | per connection: the task last sent | register and greet, wait for a frame or a dispatch, look up, answer | registry, rows, agent |
| host registry (`core/registry.rs`) | newest connection per host, generation counter, broadcast | register, drop, deregister, disconnect_all, dispatch, watch | streams, UI handlers, worker, browsers |
| progress board (`core/progress.rs`) | latest progress per host | report, forget | streams, reports, browsers |
| agent (`agent/connection.rs`, `task.rs`, `server.rs`, `task/implementations`) | current task, its cancellation, idle watch | connect, reconcile, run, cancel, report with retries, reboot | stream, agent API |
| agent API (`api/agent/task.rs`, `capture.rs`) | none | started, finished, failed, upload | rows, images |
| UI (`api/ui`) | none | deploy, reboot, multicast, capture, cancel, kick, retry, delete, import | rows, images, registry, worker |
| multicast manager (`core/multicast.rs`, `multicast/session.rs`) | the session | claim, announce, send, settle, fail orphans at start | rows, registry |
| image store (`core/service/image.rs`, `core/repository/image.rs`) | row, partition rows, directory | create, start_capture, store, mark_finished, mark_faulted, delete | agent API, UI, archive |
| archive (`core/service/archive.rs`, `archive`) | staging directory | import, discard, export, recovery at start | image store |
| scripts (`core/repository/script.rs`, `api/agent/scripts.rs`, `agent/task/post_install.rs`) | library, script lists, stored inputs, runs and their output | create, edit, delete, attach, import, resolve inputs, plan, run, upload output | images, tasks, agent, dashboard |
| hosts and groups (`core/repository/host.rs`, `group.rs`, `api/ui/hosts.rs`) | hosts with their disk's partitions, members | register, report, rename, delete, set members, plan a deploy | agent API, dialogs |
| the machine's disks (`agent/sys`, `disk`) | tables, filesystems, mounts | choose a disk, capture, erase, write, grow, mount by fstab, release | agent's tasks |
| server process (`server/lib.rs`, `core/listener.rs`) | claim on the address, listeners, connections | open, serve, stop, drop | everything served |
| boot services (`boot`) | none | TFTP names, boot script, files | firmware, iPXE |
| script proxy (`proxy`) | slots, sessions | accept, resolve, connect, tunnel, forward, time out | scripts, the internet |
| packer (`pack`) | partial output | extract, check, shrink, write, rename | archive |
| dashboard (`web`) | loaded copies, drafts, open dialogs | poll, page, filter, edit, confirm, send | UI API |
| agent screen (`agent/ui`, `status.rs`, `reboot.rs`) | status of the task, countdown, log window | report, draw, keys, reboot | runner, server |

What is hard: any two handlers interleave at their `await`s, and most of them
check first and write later; dispatches coalesce in a channel of one; answers and
connections get lost, and reports are repeated; the server and the machines stop
at any point; connections overlap, because a dead one is noticed late; a browser
falls behind the broadcast channel; a dialog acts on a copy that was loaded long
ago; tools fail with a disk half written; a peer stops talking and keeps what it
holds. `PROJECT.json` lists each hazard at its line
together with the properties that would catch it.

What makes each component correct: rows follow their life whoever writes
(`RowsLive`); nothing that was announced is missed (`NoLostWakeup`,
`WorksOnCurrent`, `EveryTaskServed`); nothing is done twice (`NoRedo`); multicast
rows are started by the worker alone and do not stay running
(`ManagerStartsMulticasts`, `MulticastsEnd`); the newest connection of a host is
the registered one and browsers see it (`NewestIsRegistered`, `EntriesAreServed`,
`FeedAgrees`, `FeedCatchesUp`); a ready image can be deployed and a rejected one
leaves nothing (`ReadyIsWhole`, `ImportsEnd`). The properties of the other
components are named with their runs below.

## The models

### TaskRows and TaskLife

`rows[t]` is the host's row of task `t`; ids grow in the order of creation. Each
operator is one statement with its `WHERE`: only an active row is started,
finished, failed or cancelled (`IfActive`), only a failed or cancelled one is
reopened. `GetNext` is the `ORDER BY` of `get_next`: running before pending, then
oldest. `TaskLife` is what somebody who only watches the rows may rely on.

### Delivery

One host with its server, agent and users. State and code:

* `ui`, `owed`: a UI handler between its check and its write, and between its
  write and its `registry.dispatch`. `reboot`, `deploy` and `create_image` only
  write and dispatch.
* `mgr`: `Worker::run` as this host sees it. `MgrTakes`, `MgrClaims`, `MgrWrites`
  are `get_next_multicast` and the two halves of `claim`; `MgrAnnounces` the
  dispatch of `session`; `MgrEnds` the outcome and the `connected_hosts` of
  `settle`; `MgrSettles` and `MgrFails` its read and its write.
* `reg`, `token`, `srv`, `current`, `asked`: the registry entry, the dispatch
  channel of capacity one and `HostStream`. `Accept` registers, `Greet` looks up
  and sends, `RecvIdle`/`RecvDispatch` are the `select!`, `Respond` the lookup and
  the conditional send. `FailUndoable` is the branch of `current_task` in which
  `work()` fails.
* `link`, `conn`, `down`, `up`: the agent's websocket. `Connected` is
  `Connection::new`, which forgets a due Idle. Frames of a connection the agent
  left are dropped: an Idle among them could only be answered to nobody.
* `task`, `phase`, `cancel`, `idle`: `ClientState`, `run_task` and the idle watch.
* `await`, `calls`: the agent's HTTP calls with their handlers as look and write.
  A cancelled run leaves its call behind, whose handler goes on or is dropped
  anywhere (`Abandoned`).
* Faults: `StreamFails`, `LinkLost`, `AnswerLost`, `Crash`, `Restart`.

Assumptions beyond the code: UI handlers run to their end unless the server
stops (the web framework runs them on its own pool); a handler whose answer the
agent gave up on, or whose machine crashed, has ended by the time the agent
repeats the call or the machine is up again. A reboot asked for on the console is in
`AgentConsole`.

### Registry

`entry[h]` is the generation registered for host `h`; a stream is a record that
lives until it has dropped its registration and forgotten the progress. `ended`
is a history variable: generations displaced by a newer one or deregistered. The
broadcast channel is external: `updates` is what one receiver has yet to get, and
a receiver more than `Capacity` behind learns so on its next receive. `view` is
what the browser shows.

### ImageStore

One disk image. `dir[n]` names the run (agent run or import) that wrote file `n`;
`synced` is the set of files that survive a power cut, names included. Capture,
import, cancel, retry, deploy and delete are the sequences of statements and file
operations the handlers make, interleaved freely; `clear_image_data` removes two
directories and is two steps. An upload that is writing its temporary file when
the directory is removed cannot rename it (`Tear`).

Timing assumed (`ReportsOver`, `OrphansOver`): an upload or a started call that
nobody waits for is over before the next run has read a partition table and
starts to upload, and a report before the next run begins. Without it an upload
of the previous run could land among the files of the next. The host's other
tasks are left out: the capture's row is `get_next` whenever it is active.

### MulticastSession and MulticastPorts

`Delivery` sees the worker from one host; `MulticastSession` has several hosts
and several multicasts. `woken` is the watch channel of the wake-ups, `owed` the
handlers that wrote and have yet to ring. `ClaimLooks` and `ClaimWrites` are the
two statements of `claim`, `FollowWoken`, `FollowProgress`, `FollowEnds` the `select!` of `follow`,
which compares the rows with the receivers it sees and kicks by address. There are
three addresses of a host, and they may differ: `ip[h]` is the one in its row, which a
host that reconnects has rewritten (`HostChanges`, `upsert_host`); `targets[h]` is what
`Targets` read of the participants' rows, once, when the session began (`ReadTargets`);
`wire.at[h]` is the one the receiver joined from. The
transfer (scuttlecast) is external: `wire` gathers receivers until as many as
`expected` have joined or the window closes, sends, and need not ever end.
`MulticastPorts` is the arithmetic of `get_multicast_port` and `multicast_group`
over the files that are in the air.

### Archive, DiskImaging, SystemMount, Pack

`Archive` writes a manifest and its files and reads them back; in between a new
capture may replace the files, the stream may be cut or altered, and an archive
may be hand-made. Data stands for its own checksum; a manifest is as long as its
text and what it lists, and a reader takes none above `ManifestBytes` (`Fits`). `DiskImaging` has the disks
of a machine with tables, kernel views and contents; capture and restore are
sequences of tool calls, each of which may fail, and disks may be plugged in
while they run. A restore is given any ready image of its kind, an imported one
or the one just captured. What the kernel shows of a disk (`known`) is apart from
its table: it follows only when `partprobe` succeeds or the machine boots
(`Reread`), and all that finds, measures and writes partitions goes by it. What is in
a partition belongs to the sector it begins at (`Content`): a new table wipes no
filesystem, and a partition that begins where one lay shows it until it is written. Sectors
and bytes are small numbers, identifiers are folded where the code ignores case. `SystemMount` mounts a restored system by its fstab and
releases it, with processes left inside and a kernel table that may not be
readable. `Pack` is the command line tool, which may fail or be killed anywhere
and be run again.

### Scripts: ScriptStore, ScriptRuns and the forms

`ScriptStore` has the library, the lists of two images, an import that reuses,
replaces or renames scripts, and a deployment from the resolution of its inputs
to the plan an agent is given, with the two queries of `get_for_image` apart. A
name is a sequence of parts, so that a name that was made up can meet one that
was given. `ScriptRuns` runs a plan on one host: mount, run, stream the output,
unmount, report, with cancels, retries, crashes and broken uploads. Output is a
number of bytes, with offsets that fall inside a character (of at most `CharBytes`
bytes); a chunk is an interval of it, what a browser is shown a set of bytes, and
the lines the agent holds back are the offsets at which they begin. Timing assumed: a
broken upload is noticed before the host has restored the image again.
`DeployForm`, `ImageSetup` and `ScriptEditor` are what a dashboard shows and
sends, compared with what the server does with it.

### Dashboard and screen: TaskPage, OutputPanel, Inventory, AgentConsole

`TaskPage` has the poll with its answers under way, filters, cursors and the
dialogs; `steady` and `seen` are history variables for what paging owes. A page is
the set of tasks on it, and `ORDER BY id DESC LIMIT n` picks those with fewer than
`n` newer ones (`Newest`). The
output panel polls while the row it is shown with is open; row and output come
from two polls at their own pace. Each request of the agent looks at the row once
(`LookAtRow`); what it stores from then on (`Write`) it stores also when the row is
settled under it, and `settled` is a history variable: what was stored by then. `Inventory` has machines that register under
two spellings of an address, ids that are never given out again, and requests
that are planned and stored in two steps. `AgentConsole` has the status that
tasks write to, what is drawn from it, keys, the countdown and the two ways to
reboot. Every confirmed `y` begins a reboot of its own (`console`, at most
`MaxConfirmed`), which goes on whatever the others do. Timing assumed there: what a killed partclone had still printed is read
before the same task is at its partitions again.

### Services: Proxy, Server, Boot

`Proxy` is a session per client: a slot, the head, addresses and ports that are
refused, connecting in turn, tunnel or forward, and the timers. An address is the
form it is written in and the class of machine it leads to; a header is its name
and value, a name resolves to a set of addresses, and the head that is passed on is
the set of lines that are kept. `Server` has several callers of `serve`, the claim, listeners bound one
by one, connections that register agents, `stop` with its two grace periods and
the drop of a `Server`, which gives the claim back at once and only asks its
listeners to end: those (`aborted`) keep their addresses, and may accept, until the
runtime gets to them. `Boot` follows a machine from the name of its first file
to its agent, with a public URL that has no path of its own and ends in any number
of slashes.

## Runs

Passing runs, all exhaustive. Deadlock is checked in `registry`; the other models
legitimately end when their bounds are used up.

| run | instance | shows |
|---|---|---|
| `delivery` | 2 deploys, 2 connections, 2 calls at a time, 2 UI requests, or 1 and 1 fault | `NoLostWakeup`, `WorksOnCurrent`, `NoRedo` |
| `delivery_live` | capture, reboot, and a deploy the host cannot do; 1 request, 1 fault; fairness | `WorksOnCurrent`, `RowsLive` (implements `TaskLife`), `EveryTaskServed` |
| `multicast` | a multicast with 1 request or 1 fault, a deploy behind it when there is no request; fairness | `ManagerStartsMulticasts`, `MulticastsEnd` |
| `registry` | 2 hosts, 3 connections, capacity 2; fairness | `NewestIsRegistered`, `EntriesAreServed`, `FeedAgrees`, `FeedCatchesUp` |
| `session` | 2 hosts, 2 addresses that rows share, lose or have rewritten and receivers join from, 2 multicasts of 2 files, 1 request or act of a host, 1 fault; fairness | `AwaitedInStep`, `OnlyKickedAreEvicted`, `WorkerMovesOn` |
| `scripts` | library: 2 images, 4 archives, 4 requests; runs: 3 scripts on 2 roots, 9 bytes of output, 3 cancels, retries or crashes; form: 2 images, 2 hosts, 2 edits, 1 foreign change; setup: 2 scripts, 3 acts, 1 foreign change; editor: 2 edits | `LibraryIsSound`, `AcceptedRuns`, `ImportKeepsOthers`, `ScriptsRunOnce`, `OutputKept`, `FormsAreTaken`, `SetupIsKept` |
| `machine` | disks: 6 machines, 9 images, 4 tasks, crashes or plugs; store: 2 partitions, 2 calls, 2 runs, 2 requests, 1 fault; archive: 5 images (one with a script, one with a manifest too long to import), 15 manifests; ports: slots at the ends of the range | `CapturedIsWhole`, `RestoredIsImage`, `OthersUntouched`, `ReadyIsWhole`, `ImportsEnd`, `ArchiveIsFaithful`, `TrafficSeparate` |
| `services` | proxy: 2 clients, 1 slot, 2 reads; server: 2 callers, 2 connections, 2 serves, late listeners; heads of up to 2 lines; boot: 4 URLs; mounts: 4 fstabs; packer: 10 images, 7 commands, 2 runs; fairness | `ProxyIsStrict`, `StopsClean`, `BootsItself`, `MountsAreUndone`, `PackedIsWhole`, `SlotsComeBack` |
| `dashboard` | page: 2 hosts, up to 4 tasks, 1 task a page, 3 acts; panel: 2 attempts, 2 failures; inventory: 2 machines, 4 images, 3 acts; screen: a capture with a deploy behind it, a multicast, a reboot; 2 reboots confirmed | `PagesComplete`, `RetrySpares`, `RestsWhenWhole`, `MeantTarget`, `ScreenIsTrue` |

Where a property joins several statements of a component its comment in the MC
module says so and names them.

Why these bounds: two tasks are the least with which one can be handed out in
place of another, two connections the least with an old and a new one, two calls
the least with which one that the agent gave up on can be overtaken by the next;
two disturbances let every pair of them overlap with a running task; three
connections and capacity two let one host be replaced and a feed fall behind; two
runs let a late step of the first meet the second. Connections are never reused,
so a run with a fault and two connections includes one reconnect. Two files are
the least with one after the first, for which receivers are counted; two hosts
with one address the least that cannot be told apart, and with two addresses the
least of which one can be taken over. The output's limits are
three bytes of head and two of tail, so that nine bytes in lines of one or two
meet every boundary, also inside a character. One slot for two clients makes a
kept slot visible; one task a page makes every task a page's end. Disks are as
large as their tables need, and one sector smaller. The theorems below remove the
bounds where they exist.

`multicast` leaves out what its `CastNext` says: requests and a fault together,
and a queued deploy together with a request. Both are unfair actions, so nothing
that has to happen is kept from happening. `ManagerStartsMulticasts` is proved
without these limits.

Fairness is what the code drives by itself:

* `Delivery`: writes and dispatches of handlers, the worker, streams, the agent's
  connection and run. No UI request and no fault has to happen. `EveryTaskServed`
  and `MulticastsEnd` are conditional on a lasting connection (`Settled`), as an
  agent that is never connected is served by nobody. The agent's work and a session
  are assumed to end, one way or the other.
* `Registry`: the feed only; hosts come and go finitely often as connections are
  bounded.
* `MulticastSession`: UI handlers and the worker, and nothing of the transfer.
  `CancelEndsTransfer` therefore holds although the library may never return;
  `QueueIsDrained` is conditional on transfers that end.
* `Proxy`: its timers only (head, connect, idle, linger). Clients and servers need
  not do anything.

### Findings

Runs that find a disagreement between the code and what is said of it:

| run | property | what happens |
|---|---|---|
| `multicast_wakeup` | `NoLostWakeup` | a multicast retried after a restart, and the Idle that `Connection::new` swallows, leave a deploy undelivered (README: "an agent that becomes idle says so and gets the next task") |
| `image_cancel` | `DoneKeepsImage` | a cancel faults the image of a capture that finished in between |
| `script_inputs` | `StaleMeansChanged` | two scripts of an image that share an input's name with different kinds: an accepted deployment is refused to its agents as one that "no longer fits", though nothing changed |

### Findings without a run

The models show these too. The definitions named here are in the modules; none is
a property of a run.

* `WorksOnCurrent` on the instance of `multicast_wakeup` without requests: `settle`
  takes the connected hosts before it reads the rows (`core/multicast.rs:136`); a
  host that has just reconnected is failed as disconnected, is not told, and goes
  on writing (README.md:371: "a running task that is no longer current is
  cancelled").
* What `WorksOnCurrent` excepts: a started handler whose agent gave up between its
  look and its write may be overtaken by the start of a second task. It then leaves
  two running rows; the server lists the older one, the agent works on the other.
* `Registry!ProgressKept`: the end of a stale stream wipes the progress that the
  host's newer connection reported (`api/agent/event.rs:54`; README.md:122).
* `ImageStore!DeployKeepsImage`: deploy and delete both check before either writes,
  and a pending deploy is left with a deleted image (`api/ui/images.rs:91`;
  README.md:233).
* `AgentConsole!KeyCancelsReboot`: when the countdown is over the machine takes up to
  five seconds to tell the server (`agent/reboot.rs:41`), while the screen still
  says that any key cancels. A key makes it say "Reboot cancelled", and the machine
  reboots.
* `ScriptRuns!OpenRunsRun`: an upload of output that crosses the end of its task
  starts a run that nobody closes (`upload_script_output` checks, then starts).
* `follow` kicks by the addresses that `Targets` read when the session began
  (`core/multicast/session.rs:57`, `:128`): a participant that has restarted with the
  address another one had is evicted when that one is taken out, although it is still
  running and nobody asked for it. `OnlyKickedAreEvicted` excepts it.
* Output that is stored after cancel, kick or the manager settled its row
  (`append_script_output` asks only whether the run is over,
  `core/repository/task.rs:470`) is not fetched any more by a panel that has come to
  rest (`web/components/hooks.rs:88`). `RestsWhenWhole` asks for what was stored when
  the row was settled.
* Every `y` that confirms a reboot at the console begins one (`agent/ui/mod.rs:61`). The
  second finds no task running once the first has cancelled it, and takes the machine
  down while the first is still telling the server. And a task that begins after the
  look of `from_console` (`agent/reboot.rs:23`), in the up to ten seconds it takes
  leave, goes down running and unreported. `RebootIsReported` excepts both.
* README.md:297-301 has a program call `serve` again after `stop`. Dropping the
  `Server` gives the claim back before its aborted listeners have let go of their
  addresses (`server/lib.rs:91-97`, `:300`), so such a call may find an address in use
  (`BindFails`).
* `validate_public_url` (`server/lib.rs:329`) accepts a URL with a path, and the boot
  scripts use it as it is, but the routes are fixed (`boot/pxe.rs:137-143`): without a
  proxy that strips that path every file of the boot chain is a 404. `BootsItself`
  speaks of URLs without one.
* No filesystem is wiped when a table is taken away and loaded
  (`disk/partition_table.rs:70-78`): a partition that the image leaves unformatted shows
  what lay at its first sector, so a restored disk may have two filesystems of one
  identity, and a capture of it may take what was cut off along.
* What `ImageSetup!SetupIsKept` excepts: after Save is answered and before the list is
  loaded again, moving a script back makes the draft equal to the old list; the root
  pickers are enabled, and their position names another script on the server. A
  pick that fails sets the picker back to a value that was replaced meanwhile. A
  script that is detached takes its picker along and the request with it
  (`web/views/images.rs:646`): the server may take the root all the same, nobody loads
  the list again, and the page goes on with the old one.
* The script editor: what is typed while a save is under way is lost when the answer
  closes the editor; of two dashboards the last one to save wins. An empty choice,
  or one with a line break, which only the API or an import can store, does not
  survive the editor. In a deployment's form a field that is cleared is sent as its
  default.
* A whole-disk restore takes the table away before it compares the image's
  partition numbers with its table, so an imported image that disagrees with
  itself costs the disk's contents.
* When `partprobe` fails the disk has the new table and the kernel the old partitions,
  and a failed task does not reboot the machine. The README says that the restore
  fails then (README.md:85); what comes next is not refused. A partition that is
  restored is found where the old table had it, so "other partitions are untouched"
  (`crates/web/src/components/partitions.rs:214`) holds of the partitions the kernel
  has, not of those in the table; and a disk that is captured gives an image of the
  new table with the old partitions. `OthersUntouched` and `CapturedIsWhole` say
  which of the two they speak of.
* An export that a new capture overlaps may mix files of both; the importer's
  checksums notice it.
* Nothing limits the length of a script that is stored (`validate_script`), nor of one
  or of a manifest that is exported (`archive/write.rs:117-129`), but an import takes no
  script (`archive/read.rs:160`) and no manifest (`archive/manifest.rs:72`) of more than
  1 MiB: an image that carries such a script, or scripts with so many or such long
  inputs, can be exported and not imported. `Archive!ExportImports` excepts both.

## Theorems

All are proved for every value of the constants: any number of tasks, hosts,
connections, files, requests and faults. What the constants are assumed to be is
named in the modules and checked by TLC on the runs' values: ids are naturals, the
model values for "nothing" are none of the things they stand in for
(`DeliveryAssumption`, `TasksAssumption`, `NoTaskAssumption`, `SessionAssumption`,
`StoreAssumption`), hosts and clients are finitely many (`RegistryAssumption`,
`ServicesAssumption`), multicasts that run together have ids less than 2^18 apart
(`PortsAssumption`), the tasks table holds types and states that exist and a page
has room for a task (`PageAssumption`), and a disk's partitions have distinct
numbers and identities, a ready partition image has one source, and hosts are
stored once under their canonical address (`InventoryAssumption`), a machine has
finitely many devices, whose partitions are numbered from 1 on, and an image is a
record with a list of parts (`DevicesAssumption`), what is exported or listed in a
manifest is a list, a script has some length and a partition table is short enough
for an import (`ArchivesAssumption`), and a deployment has a script, lines are not
empty, a character has at most `CharBytes` bytes and the tail has room for one
(`RunsAssumption`), an image's scripts are attached once each (`SetupAssumption`),
names, inputs and archives are lists and a name has room for a character
(`LibraryAssumption`), fstabs are lists of paths that leave proc, sys and dev to the
system, and the host's own mounts are seen below them in the order they were made
(`FstabsArePlain`, `HostIsPlain`, assumed in `MCServices`), an image file to pack
lists its partitions, each no smaller than what is used of it, and without a table
has at most one (`FilesAssumption`), and a machine's tasks and
their partitions are lists, sizes and counts naturals (`ScreenAssumption`).

Delivery:

* `TypeCorrect` (`DeliveryProofs`): `Spec => []TypeOK`. Inductive invariant
  `Shape`: an agent has a task exactly when it is in a phase, a connection exactly
  when it is not off, and an awaited call is the one its phase makes, for its task.
* `DoneIsNotRedone` (`DeliveryProofs`): `NoRedo`. Only a finished report makes a
  row done; such a report is always the awaited one; and an awaited started call
  that passed its check is for a row that is not done (`RedoInv`).
* `NoWakeupLost` (`DeliveryProofs`): `NoLostWakeup` on a host without multicasts,
  which is exactly where it holds. `Posted`: a stream that said "nothing" while
  there is work has a bell rung or about to be. `HeardUp`, `HeardDialing`: an idle
  agent whose stream named a task has that event still to read, or a question on
  its way. When all is quiet, neither side can be wrong.
* `WorkIsListed` (`DeliveryProofs`): `WorksOnCurrent`, again without multicasts.
  `Told`: what the agent works on is what its stream last sent, or it was cancelled,
  or a message is on its way. `Announced`: from the check of `started` on, the task
  the stream last sent is listed, or a bell is on its way. `ReportsKept` and
  `DoableOnly` exclude that a report, or a task that cannot be done, settles the
  row unannounced.
* `RowsKeepTheirPromise` (`DeliveryProofs`): `Delivery` implements `TaskLife`, one
  lemma per actor.
* `MulticastsAreClaimed` (`DeliveryProofs`): `ManagerStartsMulticasts`, from
  `WritesOwnTask`: a started handler about to write has no multicast at hand.

Registry and multicast worker:

* `RegistrationsAreSafe` and `EntriesHaveStreams` (`RegistryProofs`):
  `NewestIsRegistered` and `EntriesAreServed`, from the uniqueness of generations.
* `FeedIsFaithful` (`RegistryProofs`): `FeedAgrees`, from `FeedInv`: for every host
  the last event not yet received, or else what is shown, tells the truth.
* `CountsAreEnough` and `KicksAreMeant` (`SessionProofs`): `AwaitedInStep` and
  `OnlyKickedAreEvicted`. Nobody but `claim` makes a row running, and the worker
  claims before its session begins; so the running rows only become fewer, and
  what was counted (`Awaited`) or read (`ReadCovers`) earlier is never too little.
  Whom an eviction is for is the one participant with the address the receiver joined
  from, by the list of the session, so a receiver at its own address there is it.
* `FilesKeepApart` (`MachineProofs`): `TrafficSeparate`. The inductive invariant
  only says that what is in the air are files of tasks (`Held`); the rest is
  arithmetic: the ports of slots in range are pairs that do not overlap and stay
  below the sentinel, and close ids differ modulo the number of groups.

Image store (`MachineProofs`):

* `ImagesAreWhole` and `ImportsComeToAnEnd`: `ReadyIsWhole` and `ImportsEnd`, from
  one invariant with a part for each way to get ready. `Imported` says how much of
  an import is on the disk at each of its steps, `Leftover` who has yet to remove
  what it left; `Uploads` that what a run need not upload any more is there and
  that no handler of an earlier run is left once it uploads; `Reports` and
  `Captured` that the row, the report and the image's status go together.

Disks (`MachineProofs`):

* `TasksKeepToTheirDisk`: `OthersUntouched`. `Chosen`: from the moment a task has its
  disk, that disk is a candidate the agent does not run from, and every other
  candidate was plugged in since; tools and writes leave what makes a candidate
  alone (`Altered`). `Aimed`: a partition's restore never gets to the tools that
  change a table, and its one target is a partition, as the kernel has it, with the
  identifier it was asked for. `Formed` says that devices, images and the task are
  records, and partitions numbered. The lemmas: `find_target_disk` answers with the
  only candidate (`TargetIsSole`), `BlockDevice::partition` with one that was asked
  for (`PartitionIsAsked`), and a step that changes one disk, or what one of its
  partitions holds, keeps the invariant (`StepKeeps`).

Archive (`MachineProofs`):

* `ArchivesAreFaithful`: `ArchiveIsFaithful`. `Receives`: what has been received so
  far is a part of what the manifest lists, each file once and with its checksum,
  so that an import that has as many files as are listed has all of them.
  `Written`: while an export is under way the stream is what was written so far,
  in order. `Untroubled`: a stream that nobody cut or altered is accepted if its manifest fits, up
  to the first script that is too long. The arithmetic is counting: lists with distinct
  entries and the same set of them are equally long (`CountOf`).

Services (`ServicesProofs`):

* `ProxyStaysStrict`: `ProxyIsStrict`. Sessions touch only what is theirs, so the
  invariant is a statement about each (`Session`) and the count of the slots. The
  lemmas are about the filter (an address that passes leads to a public machine)
  and about heads (the lines that frame a body are passed on unless the head is
  refused).
* `ServerStopsClean`: `StopsClean`, from who may hold the claim in which phase. A
  connection is of the current Server or cut off, wherever it was accepted, and a
  listener that is being ended keeps its address from the next Server.
* `MachinesBoot`: `BootsItself`, for URLs without a path, with lemmas on trimming the URL's slashes and on
  the names that TFTP accepts.
* `SystemsAreReleased`: `MountsAreUndone`, of `SystemMount`, from `MountInv`. While
  mounts are made (`Built`) what is mounted is never deeper than what fstab still
  asks for, and no path of fstab is below proc, sys or dev, so nothing is hidden.
  While they are taken down (`TakenDown`) the root is the last on the list, and
  detaching it takes everything along; with no process left and the kernel's table
  known the list is that table from its end, so the mount at hand is never busy.
* `ImagesArePacked`: `PackedIsWhole`, of `Pack`, from `PackInv`. Up to the partition a
  run is at, what it packed is every formatted one, each at the place its rank among
  them gives it (`PackedUpTo`), and what it found is every system (`SystemsUpTo`);
  ranks grow by one at each that counts (`OneMore`). OUT is only ever renamed from an
  archive that was finished in the same run, and a partial output that is left
  behind is an earlier run's (`PartialOk`).

Dashboard (`DashboardProofs`):

* `PanelIsWhole`: `RestsWhenWhole`. `LooksBack`: what is shown is of the past.
  `LooksTrue`: a row that was shown as settled for the attempt under way is
  settled, so what is fetched after such a look is at least what was stored then.
* `NothingIsPassedOver` and `DoneIsSpared`: `PagesComplete` and `RetrySpares`, from
  `PageInv`: what is fetched, shown or asked for names rows as they once were
  (`PastRows`), and a row that was done stays so unless its task is gone. The
  lemmas: the state of the view and that of `aggregate_state` agree for all rows
  (`StatesAgree`), and one task more than fits is enough to tell where the next
  page begins (`PageIsComplete`).
* `RequestsReachTheirMachine`: `MeantTarget`, from `InventoryInv`: rows are stored
  once per address, ids are never given out again, and whatever names an id was
  made when that id was given out. `DialogsAgree`: what a dialog calls fit is what
  the server accepts.
* `ScreensAreTrue`: `ScreenIsTrue`, of `AgentConsole`, from `ScreenInv`. Where
  `run_task` is says what the task on the screen looks like (`RunnerOk`,
  `OnScreen`); what is shown as done the server has as done, and it went through
  (`StandsAs`, as a row that is over stays so); a handle that is in use is that of
  a partition under way, or of a task that is no longer here (`ReportersOk`); and a
  reboot of the console that was answered named a task that is over (`ConsoleOk`). The
  lemmas are about the marks (`MarksInOrder`) and about the bar and the totals, which are
  sums: of shares of each partition that are at most the whole, and as large only if
  each is (`SumBelow`).

Scripts (`ScriptsProofs`), of `ScriptRuns`, from one invariant (`RunsInv`):

* `ScriptsAreRunOnce`: `ScriptsRunOnce`. `Together`: the runs shown are of one
  attempt. `InOrder`: while the row is running, those at positions the agent is
  done with are of its attempt, closed, and exited with 0, and none of its
  attempt is ahead of it. `Earlier`: what an attempt finds when it starts carries a
  smaller number, so it is never taken for its own; this is where it is used that
  a broken upload is gone before the next attempt starts.
* `OutputsAreKept`: `OutputKept`. `Stored`: chunks do not overlap; those of the head
  cover it, and those of the tail cover everything from a first one that begins no
  later than the tail has to. `Outputs` adds that a flush begins at a boundary of
  characters, which is what keeps a chunk from beginning inside one. The lemmas:
  one flush keeps `Stored` wherever it starts and ends (`AppendKeeps`, over the
  pieces of `KeptPieces`), what is assembled from such chunks is exact
  (`ShownIsWhole`), and a line is sent, held back or counted (`LineCounts`).

Scripts (`LibraryProofs`), of `ImageSetup`, from `SetupInv`:

* `SetupsAreKept`: `SetupIsKept`. While no request failed, crossed another or lost its
  picker (`clean`), what differs from the server is accounted for: a list or a root that was
  changed is about to be loaded (`ListComes`, `RootComes`), every choice a picker
  shows is on its way, set, or about to be loaded (`Shows`), and a script that an
  order on its way drops shows what was loaded (`Dropped`). With nothing on its way
  nothing can differ.

Scripts (`LibraryProofs`), of `ScriptStore`:

* `LibraryStaysSound` and `ImportsKeepOthers`: `LibraryIsSound` and
  `ImportKeepsOthers`, from `LibraryInv`: rows have legal names of their own and ids
  below the next, and an image carries rows that are there, each once. An import is
  followed script by script (`Progress`): what was written under an id stays until
  the id is written again, and rows that other images use stay as they are. That
  `import_script` finds a name in its attempts is the pigeonhole principle
  (`AttemptsEnd`): the names it makes up for different attempts differ, and there
  are fewer rows than attempts.
* `AcceptedDeploymentsRun`: `AcceptedRuns`, from `DeployInv`: the values stored with a
  task are those that were resolved for the scripts it saw, and they were
  acceptable. The lemma `ResolvedFits` carries it: as long as a name tells which
  input is meant, an input finds its own value, or its default, among the values
  stored under the names of all inputs.

Import and declaration go through lists of any length, so these need inductions.
The library's induction theorems cannot be instantiated, but a least position at
which a fact fails can be picked (`LeastNat`, from well-foundedness of the naturals)
and refuted, and this is how the recursive functions are shown to exist
(`ImportRunExists`, `DeclaredRunExists`) and what they compute is found.

Only model-checked:

* Liveness (`EveryTaskServed`, `MulticastsEnd`, `FeedCatchesUp`, `WorkerMovesOn`,
  `SlotsComeBack`): fairness is beyond the prover.
* Of the run `scripts`, `FormsAreTaken`: it compares folds over what was typed, with
  operators of the community modules that are parameters of one another, for which
  an induction would have to be done operator by operator.
* Of the run `machine`, `CapturedIsWhole` and `RestoredIsImage`: they compare whole
  disks with the image through every tool that writes one.
* `NoLostWakeup` and `WorksOnCurrent` with multicasts: they do not hold there.

## Not modelled

* Opening and migrating the database, parsing the configuration, logging, the
  wake-on-LAN packet: no state of their own, or plain I/O.
* Drawing: layout, wording, toasts, sorting for display, the multicast's statistics
  and their throttling.
* Of the dashboard: renaming an image, the capture and import forms, group dialogs;
  each is one request from one field. Membership of a group is written as a whole,
  and the last writer wins.
* The byte layout of GPT headers and their checksums, tar framing and compression,
  TFTP's packets and retransmissions, HTTP parsing: libraries or formats, taken as
  valid or not.
* partclone, sfdisk, e2fsck, resize2fs, mkswap, the kernel's mounts and scuttlecast are
  external: modelled by how they are called and by how they may fail.
* A dropped UI handler between its commit and its dispatch; a `Partitions` frame of
  an old stream that is stored after a newer registration.

## Plan

1. Proofs: `CapturedIsWhole`, then `RestoredIsImage`.
2. `MulticastSession` as an implementation of an abstract session.
3. TFTP transfers, if the library is ever replaced by code of the repository.
