----------------------------- MODULE QemuDriver -----------------------------
(***************************************************************************)
(* One machine of the QEMU driver (drivers/qemu/qemu.go) under the host's  *)
(* operations (libmachine/host/host.go).  The machine is a daemon that the *)
(* driver launches and then knows only through files: the pidfile and the  *)
(* QMP socket.  QEMU itself is modelled from how the driver uses it.       *)
(*                                                                         *)
(* An operation is the sequence of steps it still has to make: a step that *)
(* finds out what comes next puts more in front, and an error ends the     *)
(* operation.                                                              *)
(***************************************************************************)
EXTENDS Integers, Sequences

CONSTANTS
    NumProcs,    \* podman-machine processes that run at the same time
    Commands,    \* the commands they give: a subset of AllCommands
    MaxCommands, \* bound: commands given in a run
    MaxPid,      \* bound: QEMU processes started in a run
    MaxAttempts, \* bound: polls of WaitFor, 60 in the code (10 for podman)
    Ranges,      \* values of --qemu-localports, as pairs <<min, max>>
    Networks,    \* values of --qemu-network: a subset of AllNetworks
    FaultSets    \* a set of subsets of AllFaults: which of them go together

AllCommands == {"create", "start", "stop", "kill", "restart", "rm", "status"}
AllNetworks == {"user", "tap"}

\* QEMU is killed; the user or an I/O error pauses the guest; the guest turns
\* itself off; the pid of a dead QEMU is given to another program; other
\* programs take ports; a file or an image cannot be written; commands overlap.
AllFaults == {"kill", "pause", "off", "pid", "ports", "disk", "race"}

ASSUME QemuAssumption ==
    /\ Commands \subseteq AllCommands
    /\ NumProcs \in Nat /\ MaxCommands \in Nat \ {0}
    /\ MaxPid \in Nat /\ MaxPid >= MaxCommands
    /\ MaxAttempts \in Nat \ {0}
    /\ Ranges \subseteq Nat \X Nat /\ Ranges # {}
    /\ Networks \subseteq AllNetworks
    /\ FaultSets \subseteq SUBSET AllFaults

Procs == 1..NumProcs
Pids == 1..MaxPid
Ports == UNION {r[1]..r[2] : r \in Ranges}

\* The SSHPort of a driver that has not picked one: QEMU cannot forward it.
SSHPort == 22

\* The pidfile is absent, empty, or holds the pid of the QEMU that wrote it.
NoFile == [by |-> 0, written |-> FALSE]

VARIABLES
    qemu,       \* qemu[q]: what the process with pid q is
    fwd,        \* fwd[q]: the port it forwards to the guest's SSH server, or 0
    button,     \* QEMU processes that were sent system_powerdown
    pidfile,    \* the machine's pidfile and the QEMU that has it locked
    disk,       \* the machine's disk image exists
    made,       \* the machine is in the store
    saved,      \* SSHPort in the machine's configuration
    range,      \* --qemu-localports
    net,        \* --qemu-network
    sshd,       \* an SSH server of the host itself answers at port 22
    busy,       \* ports other programs have
    op,         \* op[p]: the operation of process p: the command it runs, the
                \* steps still to make, the SSHPort of its driver, the state
                \* GetState returned, the pid it read there or the one of the
                \* QEMU it launched, and the polls of WaitFor so far
    outcome,    \* outcome[p]: how its last command ended
    given,      \* commands given so far
    faults,     \* what may go wrong in this run
    overlap,    \* history: two commands were under way at the same time
    raced       \* history: a QEMU was launched while a GetState had read the
                \* pid of an earlier one

world == <<qemu, fwd, button, pidfile, disk, busy>>
config == <<made, saved, range, net, sshd>>
admin == <<given, faults, overlap>>
vars == <<world, config, op, outcome, admin, raced>>

QemuStates == {"unused", "new", "boot", "up", "paused", "off", "ending", "dead", "other"}
States == {"Running", "Paused", "Stopped", "None", "Error"}
Steps == {"sshport", "engineport", "iso", "image", "spawn", "init", "wait",
          "stat", "read", "check", "unlink", "query", "c_running", "c_stopped",
          "w_running", "w_stopped", "powerdown", "quit", "h_restart", "h_restart2",
          "d_restart", "d_remove", "local", "save", "ssh", "guest", "podman"}

TypeOK ==
    /\ qemu \in [Pids -> QemuStates]
    /\ fwd \in [Pids -> Ports \cup {0}]
    /\ button \subseteq Pids
    /\ pidfile \in [by : Pids \cup {0}, written : BOOLEAN]
    /\ disk \in BOOLEAN
    /\ made \in BOOLEAN
    /\ saved \in Ports \cup {SSHPort}
    /\ range \in Ranges
    /\ net \in Networks
    /\ sshd \in BOOLEAN
    /\ busy \subseteq Ports
    /\ op \in [Procs -> [cmd : Commands \cup {"idle"}, todo : Seq(Steps),
                         port : Ports \cup {SSHPort}, seen : States,
                         pid : Pids \cup {0}, tries : 0..MaxAttempts]]
    /\ outcome \in [Procs -> {"none", "ok", "failed"}]
    /\ given \in 0..MaxCommands
    /\ faults \in FaultSets
    /\ overlap \in BOOLEAN
    /\ raced \in BOOLEAN

\* The ports getRandomPortNumberInRange picks from, {} for an invalid range.
ParsePortRange(r) == IF r[2] - r[1] < 2 THEN {} ELSE r[1]..(r[2] - 1)

NoOp == [cmd |-> "idle", todo |-> <<>>, port |-> SSHPort, seen |-> "None", pid |-> 0,
         tries |-> 0]

\* There is no machine yet, or, for commands that overlap, a machine that was
\* created and whose QEMU runs or has ended.  Ports and
\* sshd matter only to the networks that use them.
Init ==
    /\ faults \in FaultSets
    /\ net \in Networks
    /\ range \in IF net = "user" THEN Ranges ELSE {CHOOSE r \in Ranges : TRUE}
    /\ sshd \in IF net = "user" THEN {FALSE} ELSE BOOLEAN
    /\ \/ /\ "race" \notin faults
          /\ made = FALSE /\ disk = FALSE /\ given = 0
          /\ saved = SSHPort
          /\ qemu = [q \in Pids |-> "unused"]
          /\ pidfile = NoFile
       \/ /\ "race" \in faults
          /\ made = TRUE /\ disk = TRUE /\ given = 1
          /\ \/ net = "user" /\ saved = range[1] /\ ParsePortRange(range) # {}
             \/ net # "user" /\ saved = SSHPort
          /\ \E s \in {"up", "dead"} : qemu = [q \in Pids |-> IF q = 1 THEN s ELSE "unused"]
          /\ pidfile = [by |-> 1, written |-> TRUE]
    /\ fwd = [q \in Pids |-> IF qemu[q] = "up" /\ net = "user" THEN saved ELSE 0]
    /\ button = {}
    /\ busy = {}
    /\ op = [p \in Procs |-> NoOp]
    /\ outcome = [p \in Procs |-> "none"]
    /\ overlap = FALSE
    /\ raced = FALSE
-----------------------------------------------------------------------------
(* Commands and the way they go on.                                        *)

GetState == <<"stat">>
Launch == <<"spawn", "init", "wait">>

\* DetectProvisioner: WaitForSSH and a command on the guest; then the polls for
\* podman's socket.
WaitForPodman == <<"ssh", "guest", "podman">>

\* runActionForState: not in the state already, the action, and a WaitFor.
HostStart == GetState \o <<"c_running">> \o Launch \o GetState \o <<"w_running">>
                \o WaitForPodman
HostStop == GetState \o <<"c_stopped", "powerdown">> \o GetState \o <<"w_stopped">>

\* Create, Host.Start, Stop, Kill, Restart, and Remove with the removal of the
\* machine's directory; both Stop and Kill send system_powerdown.  create goes
\* on with DetectProvisioner and Provision, and is saved again at the end;
\* Restart waits for podman whatever it did before.
Script(c) ==
    CASE c = "create" -> <<"sshport", "engineport", "iso", "image">> \o Launch
                            \o <<"save">> \o GetState \o <<"w_running">>
                            \o <<"ssh", "guest", "save">>
      [] c = "start" -> HostStart \o <<"save">>
      [] c \in {"stop", "kill"} -> HostStop \o <<"save">>
      [] c = "restart" -> GetState \o <<"h_restart">> \o WaitForPodman \o <<"save">>
      [] c = "rm" -> GetState \o <<"d_remove", "local">>
      [] c = "status" -> GetState

Idle(p) == op[p].cmd = "idle"

\* The first command creates the machine, and saves it before it calls the
\* driver; a command for a machine that is not in the store ends at once.
\* Processes are interchangeable: the first that is free takes the command.
Give(p, c) ==
    /\ Idle(p) /\ \A q \in Procs : q < p => ~Idle(q)
    /\ "race" \in faults \/ \A q \in Procs : Idle(q)
    /\ given < MaxCommands
    /\ (c = "create") = (given = 0)
    /\ c # "create" => made
    /\ given' = given + 1
    /\ made' = TRUE
    /\ op' = [op EXCEPT ![p] = [NoOp EXCEPT !.cmd = c, !.todo = Script(c), !.port = saved]]
    /\ outcome' = [outcome EXCEPT ![p] = "none"]
    /\ overlap' = (overlap \/ \E q \in Procs : ~Idle(q))
    /\ UNCHANGED <<world, saved, range, net, sshd, faults, raced>>

At(p, s) == op[p].todo # <<>> /\ Head(op[p].todo) = s

\* The step is done, more come next, and the operation is r otherwise.
GoWith(p, more, r) ==
    /\ op' = [op EXCEPT ![p] = [r EXCEPT !.todo = more \o Tail(op[p].todo)]]
    /\ UNCHANGED <<outcome, admin>>

\* What GetState returned and the pid are used by the very next step only.
Forgets(p) == [op[p] EXCEPT !.seen = "None", !.pid = 0]

Go(p, more) == GoWith(p, more, Forgets(p))

End(p, o) ==
    /\ op' = [op EXCEPT ![p] = NoOp]
    /\ outcome' = [outcome EXCEPT ![p] = o]
    /\ UNCHANGED admin

Fail(p) == End(p, "failed")

Finish(p) ==
    /\ ~Idle(p) /\ op[p].todo = <<>>
    /\ End(p, "ok")
    /\ UNCHANGED <<world, config, raced>>
-----------------------------------------------------------------------------
(* QEMU.                                                                   *)

Alive(q) == qemu[q] \in {"new", "boot", "up", "paused", "off", "ending"}
Serving(q) == qemu[q] \in {"boot", "up", "paused", "off", "ending"}

\* The QEMU that has the image open and forwards the SSH port, and the one
\* that answers on the QMP socket in the machine's directory.
Daemon == {q \in Pids : Serving(q)}
Monitor == IF made THEN Daemon ELSE {}

\* The process is gone, and it may or may not have removed the pidfile.
Die(q, files) ==
    /\ qemu' = [qemu EXCEPT ![q] = "dead"]
    /\ pidfile' \in files

GuestBoots(q) ==
    /\ qemu[q] = "boot"
    /\ qemu' = [qemu EXCEPT ![q] = "up"]
    /\ UNCHANGED <<fwd, button, pidfile, disk, busy>>

\* A guest that is up may or may not obey the power button.
GuestPowersOff(q) ==
    /\ qemu[q] \in {"boot", "up"}
    /\ (q \in button /\ qemu[q] = "up") \/ "off" \in faults
    /\ qemu' = [qemu EXCEPT ![q] = "off"]
    /\ UNCHANGED <<fwd, button, pidfile, disk, busy>>

Exits(q) ==
    /\ qemu[q] \in {"off", "ending"}
    /\ Die(q, {pidfile, NoFile})
    /\ UNCHANGED <<fwd, button, disk, busy>>

Killed(q) ==
    /\ "kill" \in faults
    /\ Serving(q)
    /\ Die(q, {pidfile})
    /\ UNCHANGED <<fwd, button, disk, busy>>

PausesOrResumes(q) ==
    /\ "pause" \in faults
    /\ \/ qemu[q] = "up" /\ qemu' = [qemu EXCEPT ![q] = "paused"]
       \/ qemu[q] = "paused" /\ qemu' = [qemu EXCEPT ![q] = "up"]
    /\ UNCHANGED <<fwd, button, pidfile, disk, busy>>

PidReused(q) ==
    /\ "pid" \in faults
    /\ qemu[q] = "dead" /\ pidfile.by = q
    /\ qemu' = [qemu EXCEPT ![q] = "other"]
    /\ UNCHANGED <<fwd, button, pidfile, disk, busy>>

OtherProgram(x) ==
    /\ "ports" \in faults
    /\ \/ x \notin busy /\ (\A q \in Daemon : fwd[q] # x) /\ busy' = busy \cup {x}
       \/ x \in busy /\ busy' = busy \ {x}
    /\ UNCHANGED <<qemu, fwd, button, pidfile, disk>>

World ==
    /\ \/ \E q \in Pids :
             GuestBoots(q) \/ GuestPowersOff(q) \/ Exits(q) \/ Killed(q)
                 \/ PausesOrResumes(q) \/ PidReused(q)
       \/ \E x \in Ports : OtherProgram(x)
    /\ UNCHANGED <<config, op, outcome, admin, raced>>
-----------------------------------------------------------------------------
(* GetState.                                                               *)

\* GetState returns s.
See(p, s) == GoWith(p, <<>>, [Forgets(p) EXCEPT !.seen = s])

\* os.Stat of the pidfile.
StatPidfile(p) ==
    /\ At(p, "stat")
    /\ \/ pidfile = NoFile /\ See(p, "Stopped")
       \/ pidfile # NoFile /\ Go(p, <<"read">>)
    /\ UNCHANGED <<world, config, raced>>

\* ReadFile and Atoi: the file may be gone again, or have no pid in it yet.
ReadPidfile(p) ==
    /\ At(p, "read")
    /\ \/ pidfile.written /\ GoWith(p, <<"check">>, [op[p] EXCEPT !.pid = pidfile.by])
       \/ ~pidfile.written /\ See(p, "Error")
    /\ UNCHANGED <<world, config, raced>>

\* checkPid: signal 0 to whatever process has the pid now.
CheckPid(p) ==
    /\ At(p, "check")
    /\ IF Alive(op[p].pid) \/ qemu[op[p].pid] = "other"
          THEN Go(p, <<"query">>)
          ELSE Go(p, <<"unlink">>)
    /\ UNCHANGED <<world, config, raced>>

\* os.Remove of the pidfile, whichever process it is of by now.
RemovePidfile(p) ==
    /\ At(p, "unlink")
    /\ pidfile' = NoFile
    /\ See(p, "Stopped")
    /\ UNCHANGED <<qemu, fwd, button, disk, busy, config, raced>>

\* RunState of the daemon, as a state of the machine.
StateOf(q) ==
    CASE qemu[q] \in {"boot", "up"} -> "Running"
      [] qemu[q] = "paused" -> "Paused"
      [] qemu[q] = "off" -> "Stopped"
      [] qemu[q] = "ending" -> "None"

\* Mutant of QueryStatus: a monitor that does not answer well is a machine that
\* is stopped.
QueryStatusOrStopped(p) ==
    /\ At(p, "query")
    /\ \E s \in {StateOf(q) : q \in Monitor} \cup {"None", "Stopped"} : See(p, s)
    /\ UNCHANGED <<world, config, raced>>

\* Mutant of QueryStatus: the pidfile of a machine that does not answer is removed.
QueryStatusCleans(p) ==
    /\ At(p, "query")
    /\ \/ \E q \in Monitor : See(p, StateOf(q)) /\ UNCHANGED pidfile
       \/ See(p, "Error") /\ pidfile' = NoFile
    /\ UNCHANGED <<qemu, fwd, button, disk, busy, config, raced>>

\* Mutant of QueryStatus: dials until the monitor answers.
QueryStatusWaits(p) ==
    /\ At(p, "query")
    /\ \E q \in Monitor : \E s \in {StateOf(q), "None", "Error"} : See(p, s)
    /\ UNCHANGED <<world, config, raced>>

\* RunQMPCommand("query-status").  The reply is what one Read returns, and QEMU
\* sends events as well: an event has no status (None), two objects in one Read
\* are a JSON error.
QueryStatus(p) ==
    /\ At(p, "query")
    /\ \/ \E q \in Monitor : \E s \in {StateOf(q), "None", "Error"} : See(p, s)
       \/ Monitor = {} /\ See(p, "Error")
    /\ UNCHANGED <<world, config, raced>>
-----------------------------------------------------------------------------
(* What the host and the driver decide on it.                              *)

\* The step s goes on with more if ok holds and fails otherwise.
Decide(p, s, ok, more) ==
    /\ At(p, s)
    /\ \/ ok /\ Go(p, more)
       \/ ~ok /\ Fail(p)
    /\ UNCHANGED <<world, config, raced>>

\* ErrHostAlreadyInState.
NotRunningYet(p) == Decide(p, "c_running", op[p].seen # "Running", <<>>)
NotStoppedYet(p) == Decide(p, "c_stopped", op[p].seen # "Stopped", <<>>)

\* One attempt of WaitFor(MachineInState).
Poll(p, s, want) ==
    /\ At(p, s)
    /\ LET n == op[p].tries + 1
       IN  \/ op[p].seen = want /\ GoWith(p, <<>>, [Forgets(p) EXCEPT !.tries = 0])
           \/ /\ op[p].seen # want /\ n < MaxAttempts
              /\ GoWith(p, GetState \o <<s>>, [Forgets(p) EXCEPT !.tries = n])
           \/ op[p].seen # want /\ n >= MaxAttempts /\ Fail(p)
    /\ UNCHANGED <<world, config, raced>>

WaitForState(p) == Poll(p, "w_running", "Running") \/ Poll(p, "w_stopped", "Stopped")

\* Host.Restart does nothing to a machine that is neither Stopped nor Running,
\* Driver.Restart starts it again without waiting for the old QEMU to end.
RestartStep(p) ==
    \/ Decide(p, "h_restart", TRUE,
              IF op[p].seen = "Stopped" THEN HostStart ELSE GetState \o <<"h_restart2">>)
    \/ Decide(p, "h_restart2", TRUE,
              IF op[p].seen = "Running"
              THEN GetState \o <<"d_restart">> \o GetState \o <<"w_running">>
              ELSE <<>>)
    \/ Decide(p, "d_restart", op[p].seen # "Error",
              (IF op[p].seen = "Running" THEN <<"powerdown">> ELSE <<>>) \o Launch)

\* Mutant of RemoveStep: the power button is enough.
RemoveStepNoQuit(p) ==
    Decide(p, "d_remove", op[p].seen # "Error",
           CASE op[p].seen = "Running" -> <<"powerdown">>
             [] op[p].seen = "Stopped" -> <<>>
             [] OTHER -> <<"quit">>)

\* Driver.Remove: Kill, which is the power button, and then quit.
RemoveStep(p) ==
    Decide(p, "d_remove", op[p].seen # "Error",
           CASE op[p].seen = "Running" -> <<"powerdown", "quit">>
             [] op[p].seen = "Stopped" -> <<>>
             [] OTHER -> <<"quit">>)

\* Save of the machine with the driver's configuration.
SaveHost(p) ==
    /\ At(p, "save")
    /\ saved' = IF made THEN op[p].port ELSE saved
    /\ Go(p, <<>>)
    /\ UNCHANGED <<world, made, range, net, sshd, raced>>

\* The store's Remove of the machine's directory.
RemoveDir(p) ==
    /\ At(p, "local")
    /\ made' = FALSE
    /\ disk' = FALSE
    /\ pidfile' = NoFile
    /\ Go(p, <<>>)
    /\ UNCHANGED <<qemu, fwd, button, busy, saved, range, net, sshd, raced>>

\* RunQMPCommand("system_powerdown") in Stop and Kill, RunQMPCommand("quit") in
\* Remove: with its event the reply may look like an error, and the error may
\* come before the command was sent.
Powerdown(p) ==
    /\ At(p, "powerdown")
    /\ \/ Monitor # {} /\ button' = button \cup Monitor /\ (Go(p, <<>>) \/ Fail(p))
       \/ Fail(p) /\ UNCHANGED button
    /\ UNCHANGED <<qemu, fwd, pidfile, disk, busy, config, raced>>

Quit(p) ==
    /\ At(p, "quit")
    /\ \/ /\ Monitor # {}
          /\ qemu' = [q \in Pids |-> IF q \in Monitor THEN "ending" ELSE qemu[q]]
          /\ Go(p, <<>>) \/ Fail(p)
       \/ Fail(p) /\ UNCHANGED qemu
    /\ UNCHANGED <<fwd, button, pidfile, disk, busy, config, raced>>
-----------------------------------------------------------------------------
(* Create and Start.                                                       *)

FreePorts == ParsePortRange(range) \ (busy \cup {fwd[q] : q \in Daemon})

\* getAvailableTCPPortFromRange finds no port: the range is invalid, or eleven
\* random picks are all of ports in use.
NoPort == FreePorts # ParsePortRange(range) \/ FreePorts = {}

\* SSHPort: a port that can be listened on now.
PickSSHPort(p) ==
    /\ At(p, "sshport")
    /\ \/ net # "user" /\ Go(p, <<>>)
       \/ net = "user" /\ \E x \in FreePorts : GoWith(p, <<>>, [op[p] EXCEPT !.port = x])
       \/ net = "user" /\ NoPort /\ Fail(p)
    /\ UNCHANGED <<world, config, raced>>

\* EnginePort: again and again until it is not SSHPort.
PickEnginePort(p) ==
    /\ At(p, "engineport")
    /\ \/ net # "user" /\ Go(p, <<>>)
       \/ net = "user" /\ FreePorts \ {op[p].port} # {} /\ Go(p, <<>>)
       \/ net = "user" /\ NoPort /\ Fail(p)
    /\ UNCHANGED <<world, config, raced>>

\* CopyIsoToMachineDir and GenerateSSHKey.
IsoAndKey(p) ==
    /\ At(p, "iso")
    /\ \/ Go(p, <<>>)
       \/ "disk" \in faults /\ Fail(p)
    /\ UNCHANGED <<world, config, raced>>

\* generateDiskImage: qemu-img may fail, but that the raw file could not be
\* written is no error, and there is no image then.
DiskImage(p) ==
    /\ At(p, "image")
    /\ \/ disk' = TRUE /\ Go(p, <<>>)
       \/ "disk" \in faults /\ UNCHANGED disk /\ (Go(p, <<>>) \/ Fail(p))
    /\ UNCHANGED <<qemu, fwd, button, pidfile, busy, config, raced>>

Locked == \E q \in Pids : pidfile.by = q /\ Alive(q)

\* QEMU daemonizes and locks its pidfile, unless another one has it locked ...
Spawn(p) ==
    /\ At(p, "spawn")
    /\ \/ /\ ~Locked
          /\ \E q \in Pids :
                /\ qemu[q] = "unused" /\ \A r \in Pids : r < q => qemu[r] # "unused"
                /\ qemu' = [qemu EXCEPT ![q] = "new"]
                /\ pidfile' = [by |-> q, written |-> FALSE]
                /\ GoWith(p, <<>>, [op[p] EXCEPT !.pid = q])
          /\ raced' = (raced \/ \E r \in Procs : At(r, "check") \/ At(r, "unlink"))
       \/ Locked /\ Fail(p) /\ UNCHANGED <<qemu, pidfile, raced>>
    /\ UNCHANGED <<fwd, button, disk, busy, config>>

\* ... writes its pid, opens the image and forwards the port; if it cannot, it
\* exits with an error.
InitQemu(p) ==
    /\ At(p, "init")
    /\ LET ok == disk /\ Daemon = {} /\ (net = "user" => op[p].port \in Ports \ busy)
       IN  \/ /\ ok
              /\ qemu' = [qemu EXCEPT ![op[p].pid] = "boot"]
              /\ fwd' = [fwd EXCEPT ![op[p].pid] = IF net = "user" THEN op[p].port ELSE 0]
              /\ pidfile' = IF pidfile.by = op[p].pid THEN [pidfile EXCEPT !.written = TRUE]
                                                   ELSE pidfile
              /\ Go(p, <<>>)
           \/ ~ok /\ Die(op[p].pid, {pidfile, NoFile}) /\ Fail(p) /\ UNCHANGED fwd
    /\ UNCHANGED <<button, disk, busy, config, raced>>

\* WaitForTCPWithDelay of localhost:SSHPort, which has no bound: for other
\* networks than user this is port 22 of the host itself.
WaitForTCP(p) ==
    /\ At(p, "wait")
    /\ \/ net = "user" /\ (op[p].port \in busy \/ \E q \in Pids : qemu[q] = "up" /\ fwd[q] = op[p].port)
       \/ net # "user" /\ sshd
    /\ Go(p, <<>>)
    /\ UNCHANGED <<world, config, raced>>
-----------------------------------------------------------------------------
(* Over SSH.                                                               *)

\* Someone at localhost:SSHPort knows the machine's key: that is the guest, and
\* never the host's own SSH server, which is all that other networks have there.
GuestAnswers(p) == net = "user" /\ \E q \in Pids : qemu[q] = "up" /\ fwd[q] = op[p].port

\* An attempt of WaitForSSH, or of WaitForPodman; one command each, which ssh
\* gives up if the guest does not answer, and which may fail if it does.
PollGuest(p) ==
    \E s \in {"ssh", "podman"} :
        /\ At(p, s)
        /\ LET n == op[p].tries + 1
           IN  \/ GuestAnswers(p) /\ GoWith(p, <<>>, [Forgets(p) EXCEPT !.tries = 0])
               \/ n < MaxAttempts /\ GoWith(p, <<s>>, [Forgets(p) EXCEPT !.tries = n])
               \/ n >= MaxAttempts /\ Fail(p)
        /\ UNCHANGED <<world, config, raced>>

\* The commands of DetectProvisioner and, in create, of Provision, and podman
\* --version: the first that fails ends the command.
RunOnGuest(p) ==
    /\ At(p, "guest")
    /\ \/ GuestAnswers(p) /\ Go(p, <<>>)
       \/ Fail(p)
    /\ UNCHANGED <<world, config, raced>>
-----------------------------------------------------------------------------
Step(p) ==
    \/ Finish(p)
    \/ StatPidfile(p) \/ ReadPidfile(p) \/ CheckPid(p) \/ RemovePidfile(p) \/ QueryStatus(p)
    \/ NotRunningYet(p) \/ NotStoppedYet(p) \/ WaitForState(p)
    \/ RestartStep(p) \/ RemoveStep(p) \/ RemoveDir(p) \/ SaveHost(p) \/ Powerdown(p) \/ Quit(p)
    \/ PickSSHPort(p) \/ PickEnginePort(p) \/ IsoAndKey(p) \/ DiskImage(p)
    \/ Spawn(p) \/ InitQemu(p) \/ WaitForTCP(p) \/ PollGuest(p) \/ RunOnGuest(p)

Next ==
    \/ \E p \in Procs : Step(p) \/ \E c \in Commands : Give(p, c)
    \/ World

\* A process goes on; QEMU ends once the guest is off or quit was sent, and a
\* guest boots.  Nothing makes a guest obey the power button.
Fairness ==
    /\ \A p \in Procs : WF_vars(Step(p))
    /\ \A q \in Pids :
          WF_vars((GuestBoots(q) \/ Exits(q))
                    /\ UNCHANGED <<config, op, outcome, admin, raced>>)

Spec == Init /\ [][Next]_vars /\ Fairness
-----------------------------------------------------------------------------
(* Properties.                                                             *)

\* The pidfile of a QEMU that runs stays, whatever states the GetState of this
\* and of other processes meet: daemons that were killed, pids that were reused,
\* replies mixed with events.  Without it the machine would be Stopped for ever
\* and nothing could stop it.  The one exception is a GetState that has read the
\* pid of a dead QEMU when the next one is launched (qemu.go:275-295).
PidfileKept ==
    ~raced => \A q \in Pids :
        (Serving(q) /\ made) => pidfile = [by |-> q, written |-> TRUE]

\* The same, together with the types of the variables.
QemuInv == TypeOK /\ PidfileKept

\* With the same exception, GetState does not say Stopped of a machine whose
\* guest runs or is paused; stop, kill and rm rely on it (qemu.go:275-311).
StoppedIsOff ==
    [][\A p \in Procs :
          (op'[p].seen = "Stopped" /\ op[p].seen # "Stopped" /\ made /\ ~raced)
              => \A q \in Pids : qemu[q] \notin {"boot", "up", "paused"}]_vars

\* When a rm that no command overlapped reports success, QEMU is gone or is
\* about to exit, although Kill asks the guest and does not wait, and whatever
\* the guest does meanwhile (qemu.go:590-607).
RemovedEnds ==
    [][\A p \in Procs :
          (op[p].cmd = "rm" /\ outcome'[p] = "ok" /\ outcome[p] = "none" /\ ~overlap)
              => \A q \in Pids : qemu[q] \notin {"new", "boot", "up", "paused"}]_vars

\* p waits for the guest, and nobody is at its port or booting there: QEMU has
\* died or was powered off, the guest is paused, or the network is not the user's
\* and the host has no SSH server of its own.
Unanswered(p) ==
    /\ At(p, "wait")
    /\ IF net = "user"
          THEN /\ op[p].port \notin busy
               /\ \A q \in Pids : fwd[q] = op[p].port => qemu[q] \notin {"boot", "up"}
          ELSE ~sshd

\* Every command ends, under every fault, and when commands overlap: the
\* search for two ports, the polls for a state, for SSH and for podman, with
\* QEMUs that die, pause or turn off, pids that were reused and monitors that do
\* not answer.  The one exception is the wait of create, start and restart for
\* the guest's port, which has no timeout, for as long as nobody answers there:
\* a command that does not end is Unanswered again and again (qemu.go:332-342,
\* 815-829; utils.go:81-103; host.go:164-220).
CommandsEnd ==
    \A p \in Procs : ~Idle(p) ~> (Idle(p) \/ Unanswered(p))
=============================================================================
