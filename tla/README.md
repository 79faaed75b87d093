# Verification of p2box (podman-machine)

`podman-machine` creates and runs virtual machines that serve Podman. This
directory holds TLA+ models of its concurrent and failure-prone parts, the TLC
configurations that check them on small instances, and TLAPS proofs of the
safety results for instances of any size. `PROJECT.json` lists the runs,
mutants, findings, hazards and theorems, and maps every definition to the lines
of `src/` it stands for.

    tlc -config Filestore_refine.cfg Filestore     # one run
    tlapm Filestore_proofs.tla                     # one module of proofs

## 1. Inventory

| Part | State | Operations | Hard because |
|---|---|---|---|
| RPC client and factory (`libmachine/drivers/rpc/client_driver.go`) | opened drivers, one connection and heartbeat goroutine each | handshake, call, close all | a handshake may fail at each stage; unbuffered channels between goroutines |
| Plugin launcher (`drivers/plugin/localbinary`) | child process, address and stop channels | start, wait for the address, stop | the address races a timeout; the child may die |
| Plugin server (`rpc/server_driver.go`, `plugin/register_driver.go`) | driver, heartbeat timer | serve, Close, time out | must notice a dead client and never a slow one |
| File store (`persist/filestore.go`) and migration (`host/migrate.go`) | a directory per machine with `config.json`, a backup, temporary files | Save, Load, Remove, Exists, List | several processes without a lock; killed between system calls |
| `ls`, `active` (`commands/ls.go`, `active.go`) and the serial driver (`drivers/serial.go`) | a goroutine pair per host, one process-wide lock | query, time out, collect, filter, answer | late answers against timeouts; a hung hypervisor holds the lock |
| Host lifecycle (`libmachine.go`, `host/host.go`, `commands/*`) | host in memory, entry in the store | create, start, stop, kill, restart, upgrade, rm | store and hypervisor change in turn, and any step may be the last |
| VirtualBox driver (`drivers/virtualbox`) | SSH port in memory; VM and forwarding rule in VirtualBox; host-only networks and DHCP servers | CreateVM, Start, Stop, Kill, Restart, Remove, network setup, disk | acts on states read before; shared host resources |
| QEMU driver (`drivers/qemu`) | pid file, monitor socket, ports | the same | stale pid files, ports taken meanwhile |
| Provisioning (`libmachine/provision`) | files and services in the guest | detect, install, configure, wait | reruns after partial failures |
| Certificates (`libmachine/cert`) | CA and client key and certificate files | bootstrap, generate, check | crash between files, expiry |
| ISO cache (`mcnutils/b2p.go`) | cached ISO, copies per machine | download, update, copy | processes share the cache |
| SSH, logging, flags, shells, remaining commands | none of their own | wrappers, formatting | little |

Interaction: a command (one process) loads hosts from the **store**; each load
starts a **plugin** process and connects to it over the **RPC client**; the
command calls the **driver** through it, which runs VBoxManage; the command
saves the hosts and closes the drivers. Processes share the store's files and
the hypervisor, and nothing else coordinates them.

## 2. Modules

| Module | Models | Theorems in |
|---|---|---|
| `PluginHeartbeat` | the two heartbeat timers, in discrete time | `Plugin_proofs` |
| `PluginRPC` | one command over its plugins: main, Serve and heartbeat goroutines, plugin processes | `Plugin_proofs` |
| `StoreSpec` | what commands may rely on of the store: Save and Remove take effect atomically | |
| `Filestore` | the store in system calls; refines `StoreSpec` | `Filestore_proofs` |
| `LsCommand` | ls and active with their goroutines and the serial lock | `LsCommand_proofs` |
| `MachineLifecycle` | the machine commands, the VirtualBox driver call by call, VirtualBox | `MachineLifecycle_proofs` |
| `HostOnlyNetwork` (`MCHostOnlyNetwork`) | the network part of the VirtualBox driver's Start | `HostOnlyNetwork_proofs` |
| `QemuDriver` (`MCQemuDriver`) | the QEMU driver under the same commands, QEMU | `QemuDriver_proofs` |
| `IsoCache` | the boot2podman ISO: cache, download, copies | `IsoCache_proofs` |
| `Certificates` | CA, client and server certificates, and how provisioning uploads them | `Certificates_proofs` |

`MachineLifecycle` relies on the atomic store that `Filestore` implements, and
has as single steps what three other modules open up: the network setup
(`HostOnlyNetwork`), the ISO (`IsoCache`) and provisioning (`Certificates`).

### PluginHeartbeat

`client` and `server` are the two ends of a connection, `net` the one heartbeat
that may be on the wire, `clientT`, `netT`, `serverT` and `goneT` ages in ticks.
`Tick` cannot pass a deadline that the delays bound: `SetupBound` from the dial
to the first beat, `RpcLatency` per call. `SendHeartbeat`, `ServeHeartbeat` and
`HeartbeatReturns` are the loop of `client_driver.go:173-187`; `Expire` is
`register_driver.go:58-60`. The assumption `TimeoutCoversDelays` is the margin
that the code's 5 s and 10 s leave for delays.

### PluginRPC

`pc` is the main goroutine. For each machine `serve` is the goroutine of
`Plugin.Serve`, `hb` the heartbeat goroutine, `proc` the plugin process and
`work` the goroutine that runs the command. A send on an unbuffered channel is a
step it shares with its receiver: `CloseSend` needs `hb[cur]` in its select.
`opened` is `openedDrivers`, in its order. `faults`, one of `FaultSets`, is what
may go wrong in a behaviour; time is left to `PluginHeartbeat`, whose result is the guard of `ServerTimeout`
(`NobodyBeats`): a server times out only if nobody beats, or, under `slowsetup`,
before the first beat. Commands that stop at the first load error leave by
`osExit(1)` and never close (`exit1`); `ls` goes on and closes what it opened.

### Filestore and StoreSpec

A file is its data and the processes that have it open for writing. Data is the
kind of configuration and the number of the Save it comes from; a file that was
opened is empty until written, and mixed when writers overlapped. `Stat`,
`OpenInPlace`, `WriteInPlace`, `CreateTemp`, `WriteTemp`, `RemoveTarget` and
`Rename` are the calls of `saveToFile`; `ReadConfig` is `loadConfig`, whose
migration saves a backup and then the host through the same calls. `Remove` lists
the directory as `os.RemoveAll` does, `RemoveEntry` unlinks one listed entry,
`RemoveDir` the directory if nothing was added meanwhile. `Crash` leaves files as
they are and forgets the process. `saved` remembers the machines a command has
saved, which `OriginalKept` is no longer about.

`StoreSpec` is the promise. Under the mapping `Abstract`, a Save takes effect
when it opens a new file or removes the old one: from then on a Load fails or
finds the new configuration. A Remove erases between its call and its return, and
TLC found that it is not one step: it may also take what is saved meanwhile, and
a Save whose temporary file it took removes the old configuration and then fails.
`Erase` and the second case of `Install` allow exactly that.

### LsCommand

`query[h]` is `attemptGetHostState`, `wait[h]` is `getHostState`, `main` filters
and then collects. A call of a driver is two steps, `BeginCall` and its return,
with `stdLock` held in between for virtualbox hosts. `hung` are the hosts whose
hypervisor never answers in this behaviour. The timeout may fire whenever
`getHostState` waits.

### MachineLifecycle

Each process runs one command at a time as the list of steps it still has to
make (`todo`). `Script` is the command; a step that decides what follows puts
more steps in front (`Host.Start`, the driver's `Start`, the repair of a
corrupted network); an error ends the command, except for `rm -f`. `vm[m]` is
VirtualBox's view, `entry[m]` the store's, `port[p]` the `SSHPort` in the
driver's memory. `Vbm` is a VBoxManage call: VirtualBox refuses it in the wrong
state, and under the fault `vbm` for any reason; `faults` is one of `FaultSets`.
`GetState` has no name for a machine that VirtualBox is starting, stopping or
saving (`InTransit`) or that is stuck: `Start` takes it for "not in restartable
state", `Stop`'s loop takes it for no longer running, and `Remove` issues a Kill,
which VirtualBox refuses in transit. A guest that obeys its button stops and is
off one step later (`Settles`); a client killed inside `startvm` or `poweroff`
leaves the machine in transit, and so does the user. To the client that waits for
it such a call is one step. The
store is the atomic one that `Filestore` was shown to implement. The many calls
that configure a new machine are one step, as is provisioning. `UpgradeIso` is
the stop, copy and start of `boot2podman.go`. Under the fault `race` the machines
exist already and all processes give commands on one of them; otherwise one
command follows the other.

### HostOnlyNetwork

An address is its last byte, a CIDR the host's last byte and the mask's length,
so that `DHCPAddressRange` and `DHCPAddresses` are the code's arithmetic.
`adapter[a]`, `server[a]` and `guest[m]` are VirtualBox's adapters, DHCP servers
and machines; `at[p]` is where a process is in `Start`, and `seen`, `names` and
`ad` what it has listed or chosen and acts on later. `ListAdapters` to
`AttachMachine` are the calls of `setupHostOnlyNetwork`, `BootMachine`, `Recheck`
and `FixAdapter` those of `Start` after it. An adapter may be created and stay
`hidden` from lists for a while, be corrupted by a boot or removed by the user.
A guest that boots leases one of the first two or the last address of its
network's range, and any other free one when these are taken (`Leases`).

### QemuDriver

`qemu[q]` is the process with pid `q` (booting, up, paused, off, dead, or another
program that got the pid), `pidfile` the file and its lock, `fwd` forwarded
ports, `button` who was sent `system_powerdown`. An operation is again the list
of its steps; `GetState` is four of them (`StatPidfile`, `ReadPidfile`,
`CheckPid`, then `RemovePidfile` or `QueryStatus`), which is where the races are.
`Spawn` and `InitQemu` are the launch: the daemon locks its pidfile, binds its
ports and then writes its pid. `WaitForTCP` is the driver's unbounded dial,
`WaitForPodman` and the end of create go on over SSH: the bounded polls of
`WaitForSSH` and of podman's socket (`PollGuest`), and the commands of
`DetectProvisioner` and `Provision` in one step (`RunOnGuest`; `Certificates` has
their detail). The ssh program gives up a guest that does not answer
(`ConnectTimeout`, `ServerAliveInterval` in `ssh/client.go`); the native client
without these is not modelled. `raced` remembers a launch inside another
process's `GetState`, `overlap` that two commands were under way.

### IsoCache

A file holds nothing, a partial download, an error page, a release or some other
ISO. `at[p]` walks `UpdateISOCache`, `download` and `CopyFile` in the order of
the code, one request or system call each; `hand[p]` is what `p` read: a version,
a release, or the file it has open, which stays the same when the path is
removed or replaced. `since`, `floor` and `met` are history for the properties.

### Certificates

Key pairs are numbered as they are generated; a file is absent, empty, or holds
the certificate or key of a pair, and `issuer` says which CA signed it. `Bootstrap`
is `BootstrapCertificates`, `CreatePair` what creates a certificate and its key,
`ConfigureAuth` the copies, the server's pair and the uploads. A failing
`pem.Encode` leaves the file empty and goes unnoticed, as in the code. `mixed`
and `damaged` remember overlapping calls and what a crash or a full disk did.

## 3. Runs

Pass unless marked. Every property has a mutant, a plausible slip in one mapped
definition under which TLC refutes it.

| Run | Bounds | Shows |
|---|---|---|
| `heartbeat` | interval 4, timeout 8, setup 2, latency 1 (the code's ratio, 1 tick = 1.25 s) | a server times out only without its client (`NoFalseExpiry`), and an orphan ends in bounded time (`OrphanBounded`, `OrphanStops`) |
| `rpc` | 2 machines; once with the faults before the dial and errors of drivers, once with all faults | in the first case closing never blocks (`CloseCanFinish`), leaves no server (`CleanExitClosesServers`), and the command ends (`ClientEnds`); in both no heartbeat follows Close, and servers end after their client |
| `rpc_deadplugin` (violation) | plugin crash | the process that logs that it is exiting hangs |
| `filestore_refines_store` | 1 writer that also reads, 1 reader, 1 remover, 6 operations | the system calls implement `StoreSpec` |
| `filestore_crash` | 1 process, 5 operations, crashes, failing renames, an old configuration to migrate | the last acknowledged configuration is on the disk (`NeverLost`), and so is the original of a migrated one (`OriginalKept`) |
| `filestore_writers` | 2 writers, 1 reader, 5 operations | unlocked saves leave a whole file, and loads fail only meanwhile |
| `ls` | a serial host and another, either or both of which may hang, with and without a state filter | one item per host, one serial call at a time (`LsInv`), a right answer of `active`; without a state filter ls returns although the other host hangs, and has its item although the serial one does (`LsReturns`) |
| `lifecycle_commands` | 2 machines, 2 ports; 4 commands in turn under two mixtures of faults, 3 while the user meddles with the machines, or 3 commands of 2 processes on a created machine under all faults | `NoOrphanVM` (in `LifecycleInv`), `PortNeverStale`; in turn also `SuccessIsReal`, `CommandsEnd`, and `RmWorks` while VBoxManage does, unless the machine is going up or down when rm kills it |
| `host_only_network` | 2 processes, 2 machines on one network or two, narrow, refused and taken CIDRs, 3 adapters, 3 starts, 2 random DHCP addresses | duplicate adapters need two Starts at once (`NetInv`), a lone Start works (`AloneWorks`) and ends with a good network (`GoodNetwork`), DHCP servers in use stay (`ServersStay`), addresses on roomy networks do not clash (`NoAddressClash`) |
| `qemu` | 3 commands in turn under four sets of faults, or 2 of 2 processes on a created machine, 3 QEMU processes, port ranges of the least size and one too small | a living daemon keeps its pidfile (`QemuInv`), Stopped is said of machines that are off (`StoppedIsOff`), rm ends QEMU (`RemovedEnds`), commands end unless nobody answers at the port create, start or restart waits for (`CommandsEnd`) |
| `iso_cache` | 2 processes, 2 machines, 2 releases, 3 calls | no partial ISO in the cache (`IsoInv`), a success leaves a whole and fresh ISO (`FreshIso`), unexplained errors need a concurrent call (`AloneSucceeds`) |
| `certificates` | 2 processes, 2 machines, 5 pairs, 3 calls | key and certificate match (`CertInv`), bootstrap works unless a call was killed or could not write (`BootstrapWorks`), server and client certificates are trusted after a success (`ServerTrusted`, `ClientTrusted`) |

Why the bounds suffice. RPC: two machines are the least in which one is closed
and one is closing or being opened; the proofs cover any number.
Store: the operations do not depend on the number of machines, so one is
enough; five operations allow a Save over a Save, a crash, a restart and a Load.
Ls: two hosts have the lock held and unneeded at once; again the proofs of the
safety properties cover any number.
Lifecycle: four commands allow a create that fails, its rm, a second create and
a start; two ports for two machines make ports scarce. Network: three Starts are
one that leaves something behind and two that race over it; three adapters are
one more than two machines need, and the proofs cover any number of each. QEMU: create, a command that goes wrong and one
that meets what it left; each may launch one QEMU, and the proofs cover any
number. ISO: a release comes out
between any two of three calls, and two calls overlap a third; the proofs cover
any number. Certificates: two calls that leave something behind and one that
finds it; five pairs are enough for two full bootstraps and a server, or one
bootstrap, a renewed client certificate and two servers; the proofs cover any
number.

Where deadlock is not checked, a run ends because its bound of operations or
commands is reached, the process has ended, or a hung host stops it (in ls, a
serial host, or any host under a state filter).

## 4. Fairness

- `PluginHeartbeat`: time passes and a runtime serves a timer that fired.
- `PluginRPC`: weak fairness for each goroutine and process, as the Go scheduler
  and the operating system give; strong fairness for `CloseSend`, since the
  heartbeat goroutine comes back to its select after each beat and a pending
  sender on a channel is served in order. None for faults.
- `LsCommand`: weak fairness for goroutines and timers, strong for taking the
  lock (Go's mutex hands over to starving waiters), none for calls to a hung
  hypervisor.
- `MachineLifecycle`: commands make steps, and a guest obeys its power button.
  The second is an assumption on the guest; without it the driver's Stop, which
  has no bound, waits for ever.
- `QemuDriver`: a process goes on with its command, a guest that QEMU runs boots,
  and a QEMU that was told to quit or whose guest is off exits. Nothing makes a
  guest obey the power button: the wait for it is bounded in the host's code.
  `CommandsEnd` has no other assumption: it is checked with QEMUs that are killed,
  pause or turn off, with reused pids, with ports taken and with overlapping
  commands. It says that a command that never ends stands in
  `WaitForTCPWithDelay` with nobody at its port (`Unanswered`) again and again, so
  stop and rm always end (kill and status are made of the same steps).
- `Filestore`, `HostOnlyNetwork`, `IsoCache` and `Certificates` have only safety
  properties; their waits are bounded polls.

## 5. Proofs

All for any sets of machines, processes and hosts.

- `HeartbeatInvariant`, `LiveClientKeepsServer`, `OrphanIsBounded`. `NoFalseExpiry`
  is not inductive: `TimersAgree` bounds the server's timer by the client's place
  in its loop and the age of the call on the wire, so that the timer cannot reach
  the timeout before the next beat is served; `OrphanAge` does the same for the
  time since the client went. Assumptions: `TimesAreNatural`,
  `TimeoutCoversDelays`.
- `SafeInvariant`, `CloseAlwaysHasReceiver`, `CleanExitLeavesNoServer`, for
  behaviours whose `faults` are in `SafeFaults` (`SafeRun`). `SafeInv` says which
  machines are untouched, in handshake, ready or closed according to `pc` and
  `k`: every driver in
  `openedDrivers` from position `k` on has all the partners that `close` talks
  to, and every one before it is gone. Each excluded fault breaks it: without a
  finished version check there is no heartbeat goroutine to receive, without a
  finished configuration no plugin to close, and a plugin that crashes or times
  out (`slowsetup`) makes its heartbeat goroutine send to itself.
- `HeartbeatEndsBeforeClose`, with any faults. `BeatInv` adds that main calls
  Close only when the heartbeat goroutine of that connection is done, and opens
  no connection once it has begun to close.
- `StoreInvariant`, with crashes and failing renames: temporary files are whole
  before they replace a configuration and belong to a process at the right
  place, open descriptors belong to their writers, files lie in directories.
  The other results on the store have a hypothesis on who uses it, which the
  runs meet and without which TLC refutes them.
  - `SavedIsNeverLost` and `OriginalIsKept`, if one process at most changes the
    store (`OneChanger`), killed wherever and however often. `OneInv` names the
    witness: the file, the temporary file about to be renamed, or the one a crash
    left; and during a migration the original, or its backup once the host is
    being saved. A second writer could remove the first one's file.
  - `QuietStoreWhole` and `LoadErrorsPass`, for two writers without crashes
    (`TwoWriters`). `TwoInv`: `config.json` is whole, or empty and open, or about
    to be put in place by a process at its rename, and no two processes write
    one in place. Three writers could: one removes the file, a second sees none
    and opens it, as may a third.
  - `StoreImplemented`: every step of `Filestore` is a step of `StoreSpec` or
    none under `Abstract`, for one saver, one remover and any number that load
    (`OneEach`). `RefInv` says what a Remove has listed and, for the case in
    which it took the temporary file, that it is yet to unlink the old one.
- `NoMachineOrphaned`, `PortsAgree`, `RmSucceeds`, if create is not among the
  commands that race (a rm between create's Save and its createvm orphans the
  machine). `LifeInv` follows `todo`: create is at one of six lists of steps, rm
  at one of six, all other steps make or remove nothing (`Shape`); the entry is there
  before createvm and the machine gone before its entry is removed (`Promise`);
  store, VirtualBox and processes know the same port where they know one
  (`EntryPort`, `PortOf`).
- `SuccessMeansDone`, if in addition rm -f does not race. The lists of steps are
  not enumerated: `Leads` gives every step the stages between which it leads
  (anything; steady, that is not about to go down; off; up and reachable;
  saved), and `OnTrack` says that the steps left lead from a stage that holds now
  to the goal of the command. A step that puts others in front puts a list that
  leads where it would have led itself (`ThroughJoin`, `ThroughTail`, `Ways`), so
  that one lemma serves every nesting of Start in Restart in Upgrade. "Steady" is
  there for a power button that a killed stop has pressed: the guest may go down
  under a later command, and no stage "up" rests on a machine like that. `RmReal`
  does the same for the six lists of rm.
- `DuplicatesNeedAClash`, `ServersOfRunningMachinesStay`, `AddressesDiffer`, for
  all CIDRs and faults. `IInv`: before a clash no two adapters have one address
  and what a Start listed of its own CIDR is still so when it configures
  (`Settled`); where adapters stay, those a Start knows of are listed and none is
  an orphan (`NoOrphans`); servers of roomy networks are below 25, leases at
  100 and above (`RoomyLeases`). The last fails on narrow networks: TLC found two Starts
  on a new adapter, the range of one holding the server's address of the other,
  so that `NoAddressClash` says roomy.
- `LoneStartHasNetwork`, `LoneStartWorks`. `LoneInv`: two active Starts have met,
  and what one that met none (and no user) has found out is still so (`View`):
  the adapters it saw, that no other has its CIDR, whether its adapter has a
  server, and once it has passed there the server and the machine's card.
  Assumption: `NetworkAssumption`.
- `PidfileInductive`, `PidfileStays`, `StoppedMeansOff`, `RemovedMeansEnding`, for
  any number of processes, QEMUs and commands, all port ranges, networks and
  faults. `PidInv`: in every list of steps those of a GetState and of a launch
  that belong together are next to each other (`Orderly`), which concatenation
  keeps (`GoodJoin`); a new QEMU is that of one process about to see it
  initialised (`Launching`); before the first command there is nothing
  (`Unborn`); and unless raced, the pidfile is that of the QEMU there is, and
  who is about to judge or remove a pid looks at the only QEMU that can be there
  (`Known`). `RmInv` follows the steps of a rm that is alone (`Removing`).
  Assumption: `QemuAssumption`.
- `KeysMatchCertificates`, `BootstrapSucceeds`, `ServerIsTrusted`,
  `ClientIsTrusted`, for any faults and overlaps. `FilesInv` gives for each
  place in the list of steps (`MakeCA`, `MakeClient`, `Provide`) what the files
  hold: unless calls overlapped, the key is absent while a certificate is being
  replaced; as long as nothing was damaged, the pairs are whole or absent between
  their creation, and a current client certificate was signed by the CA of
  now; and a call that met no other finds what it has copied and read still true.
  A call that has met another is only followed through its steps. Assumption:
  `CertAssumption`.
- `LsInvariant`, `ActiveIsRight`: main and the goroutines agree on what was sent,
  each item has one source, calls of serial drivers exclude each other.
- `CacheIsWhole`, `AloneCallsSucceed`, `SuccessIsFresh`. `CacheWhole` needs that
  what is renamed to the cache is whole, which goes back through the temporary
  file to the release in hand (`WholeInv`). `AloneSucceeds` needs that two calls
  under way have met (first half of `AloneInv`), so that what a call that has met
  none saw of the directory, the old file and the cache is still so (second
  half). `FreshIso` needs what each place has in hand or has put into the cache
  to be no older than what the call, or one under way with it, began with
  (`FreshInv`), and that nobody's step makes the cache older than that for
  another (`Aside`). Assumption: `IsoAssumption`.

Every safety property that a passing run checks, invariant, action property or
refinement, is stated by a theorem. Only model-checked is liveness
(`OrphanStops`, `ClientEnds`, `ServersFollowClient`, `LsReturns` and the two
`CommandsEnd`), since the prover handles neither fairness nor ENABLED.

The proofs asked for some changes of form: `GoWith` of `Certificates` names the
list whose tail it takes and that of `QemuDriver` the record it goes on with, the
steps of provisioning carry `"vm"` where the others have a kind, `Abstract` is
given its call and answer by `CallOf` and `AnswerOf`, and the names of
`PluginHeartbeat` have a prefix, so that one module of proofs extends both modules
about plugins. One asked for a change of substance. With two machines it was
enough that guests lease the first two addresses of the DHCP range or the last;
for any number, a fourth guest of a roomy network found none left, and
`LoneStartWorks` was false. `Leases` now offers the rest of the range when these
are taken, and `AloneWorks` names the network whose range is used up.

## 6. Findings

A plugin that dies makes the heartbeat goroutine send to itself; the client does
not exit as it says (`rpc_deadplugin`).

Other places where comment and code disagree, which the models reproduce and no
run is spent on:

- `persist/filestore.go:129` saves a migrated host "so we don't have to do it
  again", but saves it without options, and the next load panics
  (`host/migrate.go:55`).
- `commands/ls.go:330` gives up "after a predetermined duration", but then calls
  the driver of the host once more, which for a hung virtualbox host waits for
  the lock that the unanswered call holds: ls does not return. The run `ls` has
  such a host, and `LsReturns` says what does hold: ls returns when only other
  hosts hang, and the items of the others arrive even then.
- `virtualbox.go:914` announces "falling back on an OS selected port";
  `getAvailableTCPPort` returns the error of the first `net.Listen`.
- `virtualbox.go:958` says the random address is "in the same
  subnet"; it is 1 to 24 in the last byte whatever the mask, outside of a narrow
  one.
- `commands/commands.go:301` says `--client-certs` will "Also regenerate client
  certificates and CA."; `BootstrapCertificates` renews only those that are out
  of date, and after renewing the CA keeps a client certificate that the old CA
  signed.

Limits met while modelling, which no document promises to exceed, are hazards
with a note in `PROJECT.json`: a driver that failed its version check blocks the
factory's `Close`, one that rejected its configuration makes it panic (both after
`ls`, which goes on when a machine fails to load); two migrating processes and a crash can lose the
original; a failed rename loses the last copy; rm during a create leaves a
machine the store does not know; a start during a create makes the stored port
stale; stop against a start of another process can wait without end; two Starts
can make two adapters with one address; a GetState that overlaps a launch can
remove the new QEMU's pidfile; a crash between certificate and key stops every
later bootstrap; an error page is cached as an ISO until the next call.

## 7. Not modelled, and the plan

Not modelled: formats, flags, logging, shell detection; the trivial drivers,
whose operations are an assignment or a constant error; SSH clients, wrappers
around a process or a library (the waits for SSH are in `MachineLifecycle` and
`Certificates`); the parsing of VBoxManage's output and of `/etc/os-release`; the
package and service commands of provisioners, each one SSH command whose error
is returned; output formats, sort and most filters of ls.

Next, in this order:

1. `create` as the nested command it is (`cmdCreateOuter` looks flags up in a
   plugin of its own) in `PluginRPC`.
2. Pure functions against reference definitions: the sort of ls, share folders,
   scp arguments.
