-------------------------- MODULE MachineLifecycle --------------------------
(***************************************************************************)
(* The life of VirtualBox machines under the commands create, start, stop, *)
(* kill, restart, upgrade and rm: what the commands do (commands/,         *)
(* libmachine.go, host/host.go), the VirtualBox driver in its calls of VBoxManage         *)
(* (drivers/virtualbox/virtualbox.go), and VirtualBox itself, modelled     *)
(* from how the driver uses it.  The machine store is the atomic one of    *)
(* StoreSpec.                                                              *)
(*                                                                         *)
(* A command is the sequence of steps it still has to make.  A step that   *)
(* finds out what comes next puts more steps in front; an error returns    *)
(* through all callers, which is the end of the command.                   *)
(***************************************************************************)
EXTENDS Naturals, Sequences

CONSTANTS
    Machines,
    Procs,       \* podman-machine processes that run at the same time
    Commands,    \* the commands they give,
    Racing,      \* and those they give in a race
    MaxCommands, \* bound: commands given one after the other
    MaxMeddled,  \* bound: the same while the user meddles with the machines
    MaxRacing,   \* bound: commands given in a race
    Ports,       \* host ports that can be forwarded, numbers above 0
    FaultSets    \* a set of subsets of AllFaults: which of them go together

\* A client is killed; a VBoxManage call or a check fails; the guest does not
\* come up; a host-only adapter is corrupted; the user pauses, resumes, saves or
\* turns off a machine in VirtualBox itself, or it aborts or gets stuck there; and
\* processes race for one machine, where otherwise a command is given when the one
\* before it has ended.
AllFaults == {"crash", "vbm", "boot", "net", "gui", "race"}
AllCommands == {"create", "start", "stop", "kill", "restart", "upgrade", "rm", "rmforce"}

ASSUME LifecycleAssumption ==
    /\ Machines # {}
    /\ Commands \subseteq AllCommands /\ Racing \subseteq Commands
    /\ MaxCommands \in Nat /\ MaxMeddled \in Nat /\ MaxRacing \in Nat
    /\ Ports \subseteq Nat \ {0}
    /\ FaultSets \subseteq SUBSET AllFaults

\* What the store has for a machine: nothing, or the driver's SSHPort (0 until
\* the machine was started).
NoEntry == [there |-> FALSE, port |-> 0]
Entry(x) == [there |-> TRUE, port |-> x]

VARIABLES
    vm,         \* vm[m]: VirtualBox's state of the machine, its forwarded SSH
                \* port (0: no rule) and whether its power button was pressed
    entry,      \* entry[m]: the machine's entry in the store, or NoEntry
    cmd,        \* cmd[p]: the command p runs, or "idle"
    mach,       \* mach[p]: its machine
    todo,       \* todo[p]: its steps
    port,       \* port[p]: the SSHPort of the driver in memory
    outcome,    \* outcome[p]: "none", "ok", "failed", "killed"
    given,      \* commands given so far
    forced,     \* machines that a rm -f could not remove from VirtualBox
    faults      \* what may go wrong in this run

vars == <<vm, entry, cmd, mach, todo, port, outcome, given, forced, faults>>

\* The states that GetState has a name for ("poweroff" stands for "aborted" too),
\* and those of which it says None: VirtualBox is about to reach another state, or
\* the machine is stuck.
InTransit == {"starting", "stopping", "saving"}
VMStates == {"absent", "poweroff", "running", "paused", "saved", "stuck"} \cup InTransit
Steps == {"exists", "precheck", "load", "save", "iso", "disk", "createvm", "setupvm", "provision",
          "h_start", "h_restart", "h_restart2", "h_upgrade", "c_running", "c_stopped",
          "w_running", "w_stopped", "w_podman", "w_ip", "d_start", "d_stop",
          "d_remove", "setport", "startvm", "resume", "vtx", "netcheck",
          "setupnet", "fixnet", "acpi", "stoploop", "poweroff", "unregister", "local"}

TypeOK ==
    /\ vm \in [Machines -> [state : VMStates, port : Ports \cup {0}, button : BOOLEAN]]
    /\ entry \in [Machines -> [there : BOOLEAN, port : Ports \cup {0}]]
    /\ cmd \in [Procs -> AllCommands \cup {"idle"}]
    /\ mach \in [Procs -> Machines]
    /\ todo \in [Procs -> Seq(Steps)]
    /\ port \in [Procs -> Ports \cup {0}]
    /\ outcome \in [Procs -> {"none", "ok", "failed", "killed"}]
    /\ given \in Nat
    /\ forced \subseteq Machines
    /\ faults \in FaultSets

Absent == [state |-> "absent", port |-> 0, button |-> FALSE]

Stopped(x) == [state |-> "poweroff", port |-> x, button |-> FALSE]

\* No machine yet; or machines whose create succeeded, each with its port,
\* stopped since.
InitEmpty ==
    /\ vm = [m \in Machines |-> Absent]
    /\ entry = [m \in Machines |-> NoEntry]
InitCreated ==
    \E f \in [Machines -> Ports] :
        /\ \A m, n \in Machines : f[m] = f[n] => m = n
        /\ vm = [m \in Machines |-> Stopped(f[m])]
        /\ entry = [m \in Machines |-> Entry(f[m])]

Init ==
    /\ faults \in FaultSets
    /\ IF "race" \in faults THEN InitCreated ELSE InitEmpty
    /\ cmd = [p \in Procs |-> "idle"]
    /\ mach = [p \in Procs |-> CHOOSE m \in Machines : TRUE]
    /\ todo = [p \in Procs |-> <<>>]
    /\ port = [p \in Procs |-> 0]
    /\ outcome = [p \in Procs |-> "none"]
    /\ given = 0
    /\ forced = {}
-----------------------------------------------------------------------------
(* Commands.                                                               *)

\* cmdCreateInner with Client.Create and performCreate; runAction with
\* Host.Start, Stop, Kill, Restart, Upgrade; cmdRm.
Script(c) ==
    CASE c = "create"  -> <<"exists", "precheck", "save", "iso", "disk", "createvm", "setupvm",
                            "d_start", "save", "w_running", "provision", "save">>
      [] c = "start"   -> <<"load", "h_start", "save">>
      [] c = "stop"    -> <<"load", "c_stopped", "d_stop", "w_stopped", "save">>
      [] c = "kill"    -> <<"load", "c_stopped", "poweroff", "w_stopped", "save">>
      [] c = "restart" -> <<"load", "h_restart", "save">>
      [] c = "upgrade" -> <<"load", "h_upgrade", "save">>
      [] c \in {"rm", "rmforce"} -> <<"load", "d_remove", "local">>

\* Who may give a command on which machine: in a race every process, on the
\* machine they race for; otherwise one process at a time, always the same name.
Lone == CHOOSE p \in Procs : TRUE

MayGive(p, c, m) ==
    \/ "race" \in faults /\ c \in Racing /\ m = mach[p] /\ given < MaxRacing
    \/ /\ "race" \notin faults /\ p = Lone
       /\ given < IF "gui" \in faults THEN MaxMeddled ELSE MaxCommands

Give(p, c, m) ==
    /\ cmd[p] = "idle"
    /\ MayGive(p, c, m)
    /\ given' = given + 1
    /\ cmd' = [cmd EXCEPT ![p] = c]
    /\ mach' = [mach EXCEPT ![p] = m]
    /\ todo' = [todo EXCEPT ![p] = Script(c)]
    /\ port' = [port EXCEPT ![p] = 0]
    /\ outcome' = [outcome EXCEPT ![p] = "none"]
    /\ UNCHANGED <<vm, entry, forced, faults>>

At(p, s) == todo[p] # <<>> /\ Head(todo[p]) = s

VM(p) == vm[mach[p]]

SetState(p, s) == vm' = [vm EXCEPT ![mach[p]].state = s, ![mach[p]].button = FALSE]

\* The step is done and the steps of more come next.
Go(p, more) ==
    /\ todo' = [todo EXCEPT ![p] = more \o Tail(@)]
    /\ UNCHANGED <<cmd, mach, outcome, given, forced, faults>>

\* Mutant of Fail: rm -f ends at the first error, like any other command.
FailUnforced(p, why) ==
    /\ todo' = [todo EXCEPT ![p] = <<>>]
    /\ cmd' = [cmd EXCEPT ![p] = "idle"]
    /\ outcome' = [outcome EXCEPT ![p] = why]
    /\ UNCHANGED <<mach, given, forced, faults>>

\* The step returns an error, for the reason why.  rm -f goes on with the
\* removal of the local configuration and reports nothing.
Fail(p, why) ==
    /\ \/ /\ cmd[p] = "rmforce" /\ ~At(p, "local")
          /\ todo' = [todo EXCEPT ![p] = <<"local">>]
          /\ forced' = forced \cup {mach[p]}
          /\ UNCHANGED <<cmd, outcome>>
       \/ /\ cmd[p] # "rmforce" \/ At(p, "local")
          /\ todo' = [todo EXCEPT ![p] = <<>>]
          /\ cmd' = [cmd EXCEPT ![p] = "idle"]
          /\ outcome' = [outcome EXCEPT ![p] = IF cmd[p] = "rmforce" THEN "ok" ELSE why]
          /\ UNCHANGED forced
    /\ UNCHANGED <<mach, given, faults>>

Done(p) ==
    /\ cmd[p] # "idle" /\ todo[p] = <<>>
    /\ cmd' = [cmd EXCEPT ![p] = "idle"]
    /\ outcome' = [outcome EXCEPT ![p] = "ok"]
    /\ UNCHANGED <<vm, entry, mach, todo, port, given, forced, faults>>

\* A step that changes neither VirtualBox nor the store: it goes on with more
\* when ok holds, and fails when err does.
Check(p, s, ok, more, err) ==
    /\ At(p, s)
    /\ \/ ok /\ Go(p, more)
       \/ err /\ Fail(p, "failed")
    /\ UNCHANGED <<vm, entry, port>>
-----------------------------------------------------------------------------
(* The store, and the checks and waits of commands and host.               *)

\* cmdCreateInner, up to api.Create: the name must be free; the plugin may not
\* answer, and it may not like the flags.
ExistsStep(p) ==
    Check(p, "exists", ~entry[mach[p]].there, <<>>, entry[mach[p]].there \/ "vbm" \in faults)

\* BootstrapCertificates and PreCreateCheck.
PreCreateStep(p) == Check(p, "precheck", TRUE, <<>>, "vbm" \in faults)

LoadStep(p) ==
    /\ At(p, "load")
    /\ \/ /\ entry[mach[p]].there
          /\ port' = [port EXCEPT ![p] = entry[mach[p]].port]
          /\ Go(p, <<>>)
       \/ ~entry[mach[p]].there /\ Fail(p, "failed") /\ UNCHANGED port
    /\ UNCHANGED <<vm, entry>>

\* Mutant of SaveStep: the first Save of create is left out.
SaveStepLate(p) ==
    /\ At(p, "save")
    /\ entry' = IF cmd[p] = "create" /\ Len(todo[p]) = 10 THEN entry
                ELSE [entry EXCEPT ![mach[p]] = Entry(port[p])]
    /\ Go(p, <<>>)
    /\ UNCHANGED <<vm, port>>

\* api.Save(h) of the host with the driver's configuration of this moment.
SaveStep(p) ==
    /\ At(p, "save")
    /\ entry' = [entry EXCEPT ![mach[p]] = Entry(port[p])]
    /\ Go(p, <<>>)
    /\ UNCHANGED <<vm, port>>

\* runActionForState: ErrHostAlreadyInState.
AlreadyRunningStep(p) ==
    Check(p, "c_running", VM(p).state # "running", <<>>, VM(p).state = "running")
AlreadyStoppedStep(p) ==
    Check(p, "c_stopped", VM(p).state # "poweroff", <<>>, VM(p).state = "poweroff")

\* mcnutils.WaitFor(MachineInState(...)): a bounded number of polls.
WaitRunningStep(p) ==
    Check(p, "w_running", VM(p).state = "running", <<>>, VM(p).state # "running")
WaitStoppedStep(p) ==
    Check(p, "w_stopped", VM(p).state = "poweroff", <<>>, VM(p).state # "poweroff")

\* SSH to the guest goes to the port the driver has in memory.
Reachable(p) == VM(p).state = "running" /\ port[p] # 0 /\ VM(p).port = port[p]

\* DetectProvisioner and Provision, over SSH.
ProvisionStep(p) ==
    Check(p, "provision", Reachable(p), <<>>, ~Reachable(p) \/ "boot" \in faults)

\* Host.WaitForPodman: the provisioner, then the daemon's socket, polled over SSH
\* a bounded number of times.
WaitForPodmanStep(p) ==
    Check(p, "w_podman", Reachable(p), <<>>, ~Reachable(p) \/ "boot" \in faults)

HostStartStep(p) ==
    Check(p, "h_start", TRUE, <<"c_running", "d_start", "w_running", "w_podman">>, FALSE)

\* Host.Restart asks for the state twice.
HostRestartStep(p) ==
    \/ Check(p, "h_restart", VM(p).state = "poweroff", <<"h_start", "w_podman">>, FALSE)
    \/ Check(p, "h_restart", VM(p).state # "poweroff", <<"h_restart2">>, FALSE)
    \/ Check(p, "h_restart2", VM(p).state = "running",
             <<"d_stop", "d_start", "w_ip", "w_running", "w_podman">>, FALSE)
    \/ Check(p, "h_restart2", VM(p).state # "running", <<"w_podman">>, FALSE)

\* Host.Upgrade starts a machine that does not run and detects its provisioner,
\* which for boot2podman is a new ISO: upgradeIso, between a Stop and a Start.
UpgradeIso == <<"provision", "d_stop", "w_stopped", "iso", "d_start", "w_running">>
HostUpgradeStep(p) ==
    \/ Check(p, "h_upgrade", VM(p).state = "running", UpgradeIso, FALSE)
    \/ Check(p, "h_upgrade", VM(p).state \notin {"running", "absent"},
             <<"h_start">> \o UpgradeIso, VM(p).state = "absent" \/ "vbm" \in faults)

\* removeLocalMachine: Exists, then Remove.
LocalStep(p) ==
    /\ At(p, "local")
    /\ \/ /\ entry[mach[p]].there
          /\ entry' = [entry EXCEPT ![mach[p]] = NoEntry]
          /\ Go(p, <<>>)
       \/ ~entry[mach[p]].there /\ Fail(p, "failed") /\ UNCHANGED entry
    /\ UNCHANGED <<vm, port>>
-----------------------------------------------------------------------------
(* The VirtualBox driver.  Vbm is a VBoxManage call that VirtualBox accepts *)
(* when ok holds; then eff, and more steps.                                 *)

Vbm(p, s, ok, eff, more) ==
    /\ At(p, s)
    /\ \/ ok /\ eff /\ Go(p, more)
       \/ /\ ~ok \/ "vbm" \in faults
          /\ Fail(p, "failed")
          /\ UNCHANGED vm
    /\ UNCHANGED <<entry, port>>

\* CopyIsoToMachineDir, which IsoCache describes.
IsoStep(p) == Check(p, "iso", TRUE, <<>>, "vbm" \in faults)

\* CreateVM: the SSH key and a disk image that holds it, converted by VBoxManage
\* in the machine's directory (a new one, so that there is no image yet), ...
DiskStep(p) == Check(p, "disk", TRUE, <<>>, "vbm" \in faults)

\* ... then createvm ...
CreateVMStep(p) ==
    Vbm(p, "createvm", VM(p).state = "absent", SetState(p, "poweroff"), <<>>)

\* ... and the modifyvm, storage, property and share calls that follow it.
SetupVMStep(p) ==
    Vbm(p, "setupvm", VM(p).state = "poweroff", UNCHANGED vm, <<>>)

\* Start: what to do depends on the state.  One that is None is "not in restartable
\* state", like that of a running machine: Start goes on to wait for the address.
DriverStartStep(p) ==
    LET up == <<"setport", "startvm", "vtx", "w_ip">> IN
    \/ Check(p, "d_start", VM(p).state = "poweroff", <<"setupnet">> \o up \o <<"netcheck">>,
             VM(p).state = "absent" \/ "vbm" \in faults)
    \/ Check(p, "d_start", VM(p).state = "saved", up, FALSE)
    \/ Check(p, "d_start", VM(p).state = "paused", <<"resume", "vtx", "w_ip">>, FALSE)
    \/ Check(p, "d_start", VM(p).state \in {"running", "stuck"} \cup InTransit,
             <<"vtx", "w_ip">>, FALSE)

\* setupHostOnlyNetwork ends with a modifyvm of the second network card.
SetupNetStep(p) ==
    Vbm(p, "setupnet", VM(p).state = "poweroff", UNCHANGED vm, <<>>)

\* SaveIPv4 of a corrupted adapter does not touch the machine.
FixNetStep(p) == Vbm(p, "fixnet", TRUE, UNCHANGED vm, <<>>)

\* Ports of machines that are up.
InUse ==
    {vm[m].port : m \in {k \in Machines : vm[k].state \notin {"absent", "poweroff", "saved"}}}

\* Mutant of SetPortStep: an available port is chosen afresh every time.
SetPortStepAnew(p) ==
    /\ At(p, "setport")
    /\ \E x \in Ports \ InUse :
          /\ vm' = [vm EXCEPT ![mach[p]].port = x]
          /\ port' = [port EXCEPT ![p] = x]
          /\ Go(p, <<>>)
    /\ UNCHANGED entry

\* setPortForwarding: getAvailableTCPPort listens on the port it is given, on
\* any free one when that is 0, and returns the error when it cannot.  Then the
\* old rule is deleted and the new one added.
SetPortStep(p) ==
    LET available == IF port[p] = 0 THEN Ports \ InUse ELSE {port[p]} \ InUse IN
    /\ At(p, "setport")
    /\ \/ \E x \in available :
             /\ VM(p).state \in {"poweroff", "saved"}
             /\ vm' = [vm EXCEPT ![mach[p]].port = x]
             /\ port' = [port EXCEPT ![p] = x]
             /\ Go(p, <<>>)
       \/ /\ available = {}
          /\ Fail(p, "failed")
          /\ UNCHANGED <<vm, port>>
       \/ /\ VM(p).state \notin {"poweroff", "saved"}
          /\ Fail(p, "failed")
          /\ UNCHANGED <<vm, port>>
       \/ /\ "vbm" \in faults
          /\ VM(p).state \in {"poweroff", "saved"}
          /\ vm' = [vm EXCEPT ![mach[p]].port = 0]
          /\ Fail(p, "failed")
          /\ UNCHANGED port
    /\ UNCHANGED entry

StartVMStep(p) ==
    Vbm(p, "startvm", VM(p).state \in {"poweroff", "saved"}, SetState(p, "running"), <<>>)

ResumeStep(p) ==
    Vbm(p, "resume", VM(p).state = "paused", SetState(p, "running"), <<>>)

\* IsVTXDisabledInTheVM reads the machine's log.
VTXStep(p) == Check(p, "vtx", VM(p).state # "absent", <<>>, VM(p).state = "absent" \/ "vbm" \in faults)

\* sshIPWaiter: SSH, then an address from DHCP, each polled a bounded number of
\* times.
WaitIPStep(p) ==
    Check(p, "w_ip", Reachable(p), <<>>, ~Reachable(p) \/ "boot" \in faults)

\* The host-only adapter may have been corrupted by the start: then stop, fix
\* and start again.
NetCheckStep(p) ==
    \/ Check(p, "netcheck", TRUE, <<>>, "vbm" \in faults)
    \/ Check(p, "netcheck", "net" \in faults, <<"d_stop", "fixnet", "startvm", "w_ip">>, FALSE)

\* Mutant of DriverStopStep: the button is pressed only after a resume.
DriverStopStepNoButton(p) ==
    \/ Check(p, "d_stop", VM(p).state = "paused", <<"resume", "acpi", "stoploop">>, FALSE)
    \/ Check(p, "d_stop", VM(p).state \notin {"paused", "absent"}, <<"stoploop">>,
             VM(p).state = "absent" \/ "vbm" \in faults)

\* Stop: a paused machine is resumed, the power button pressed, and the state
\* polled without bound until the machine no longer runs, which it does not when
\* it is stopping.
DriverStopStep(p) ==
    \/ Check(p, "d_stop", VM(p).state = "paused", <<"resume", "acpi", "stoploop">>, FALSE)
    \/ Check(p, "d_stop", VM(p).state \notin {"paused", "absent"}, <<"acpi", "stoploop">>,
             VM(p).state = "absent" \/ "vbm" \in faults)

AcpiStep(p) ==
    Vbm(p, "acpi", VM(p).state = "running", vm' = [vm EXCEPT ![mach[p]].button = TRUE], <<>>)

StopLoopStep(p) ==
    Check(p, "stoploop", VM(p).state \notin {"running", "absent"}, <<>>,
          VM(p).state = "absent" \/ "vbm" \in faults)

\* Kill.  VirtualBox refuses it for a machine that is off or in transit.
PowerOffStep(p) ==
    Vbm(p, "poweroff", VM(p).state \in {"running", "paused", "stuck"},
        SetState(p, "poweroff"), <<>>)

\* Mutant of DriverRemoveStep: a running machine is not killed first.
DriverRemoveStepNoKill(p) ==
    \/ Check(p, "d_remove", VM(p).state = "absent", <<>>, "vbm" \in faults)
    \/ Check(p, "d_remove", VM(p).state # "absent", <<"unregister">>, FALSE)

\* Remove: nothing to do for a machine VirtualBox does not know; one that is
\* neither stopped nor saved is killed first, also when its state is None.
DriverRemoveStep(p) ==
    \/ Check(p, "d_remove", VM(p).state = "absent", <<>>, "vbm" \in faults)
    \/ Check(p, "d_remove", VM(p).state \in {"poweroff", "saved"}, <<"unregister">>, FALSE)
    \/ Check(p, "d_remove", VM(p).state \notin {"absent", "poweroff", "saved"},
             <<"poweroff", "unregister">>, FALSE)

UnregisterStep(p) ==
    Vbm(p, "unregister", VM(p).state \in {"poweroff", "saved"},
        vm' = [vm EXCEPT ![mach[p]] = Absent], <<>>)
-----------------------------------------------------------------------------
(* VirtualBox, its user, and the death of a client.                        *)

\* The guest obeys its power button.
GuestPowersOff(m) ==
    /\ vm[m].state = "running" /\ vm[m].button
    /\ vm' = [vm EXCEPT ![m].state = "stopping", ![m].button = FALSE]
    /\ UNCHANGED <<entry, cmd, mach, todo, port, outcome, given, forced, faults>>

\* VirtualBox is done with a change of state.
Settles(m) ==
    /\ \E change \in {<<"starting", "running">>, <<"stopping", "poweroff">>, <<"saving", "saved">>} :
          /\ vm[m].state = change[1]
          /\ vm' = [vm EXCEPT ![m].state = change[2], ![m].button = FALSE]
    /\ UNCHANGED <<entry, cmd, mach, todo, port, outcome, given, forced, faults>>

UserActs(m) ==
    /\ "gui" \in faults
    /\ \/ vm[m].state = "running" /\ \E s \in {"paused", "saving", "stopping", "stuck"} :
             vm' = [vm EXCEPT ![m].state = s, ![m].button = FALSE]
       \/ vm[m].state = "paused" /\ \E s \in {"running", "saving"} :
             vm' = [vm EXCEPT ![m].state = s]
    /\ UNCHANGED <<entry, cmd, mach, todo, port, outcome, given, forced, faults>>

\* A client that is killed inside startvm or poweroff leaves the machine in
\* transit: the call is VirtualBox's to finish.
Crash(p) ==
    /\ "crash" \in faults
    /\ cmd[p] # "idle"
    /\ \/ UNCHANGED vm
       \/ At(p, "startvm") /\ VM(p).state \in {"poweroff", "saved"} /\ SetState(p, "starting")
       \/ At(p, "poweroff") /\ VM(p).state \in {"running", "paused", "stuck"}
             /\ SetState(p, "stopping")
    /\ cmd' = [cmd EXCEPT ![p] = "idle"]
    /\ todo' = [todo EXCEPT ![p] = <<>>]
    /\ outcome' = [outcome EXCEPT ![p] = "killed"]
    /\ UNCHANGED <<entry, mach, port, given, forced, faults>>

HostStep(p) ==
    \/ ExistsStep(p) \/ PreCreateStep(p) \/ LoadStep(p) \/ SaveStep(p)
    \/ AlreadyRunningStep(p) \/ AlreadyStoppedStep(p)
    \/ WaitRunningStep(p) \/ WaitStoppedStep(p) \/ ProvisionStep(p) \/ WaitForPodmanStep(p)
    \/ HostStartStep(p) \/ HostRestartStep(p) \/ HostUpgradeStep(p) \/ LocalStep(p) \/ Done(p)

DriverStep(p) ==
    \/ IsoStep(p) \/ DiskStep(p) \/ CreateVMStep(p) \/ SetupVMStep(p) \/ DriverStartStep(p) \/ SetupNetStep(p) \/ FixNetStep(p)
    \/ SetPortStep(p) \/ StartVMStep(p) \/ ResumeStep(p) \/ VTXStep(p)
    \/ WaitIPStep(p) \/ NetCheckStep(p) \/ DriverStopStep(p) \/ AcpiStep(p)
    \/ StopLoopStep(p) \/ PowerOffStep(p) \/ DriverRemoveStep(p) \/ UnregisterStep(p)

Next ==
    \/ \E p \in Procs :
          \/ \E c \in Commands, m \in Machines : Give(p, c, m)
          \/ HostStep(p) \/ DriverStep(p) \/ Crash(p)
    \/ \E m \in Machines : GuestPowersOff(m) \/ Settles(m) \/ UserActs(m)

Spec == Init /\ [][Next]_vars

\* A command that runs alone makes its steps, and a guest obeys its power button.
FairSpec ==
    /\ Spec
    /\ WF_vars(HostStep(Lone) \/ DriverStep(Lone))
    /\ \A m \in Machines : WF_vars(GuestPowersOff(m))
-----------------------------------------------------------------------------
(* Properties.                                                             *)

\* create saves the host before it makes the machine, and rm removes the
\* machine before the host: whatever call fails and wherever a client is
\* killed, a machine VirtualBox has is one that rm can still find, unless rm -f
\* reported that it could not remove it (libmachine.go:124-142, rm.go:31-45).
NoOrphanVM ==
    \A m \in Machines : vm[m].state # "absent" => entry[m].there \/ m \in forced

\* The same, together with the types of the variables.
LifecycleInv == TypeOK /\ NoOrphanVM

\* When the store knows the port of a machine that runs, that is the port
\* VirtualBox forwards to it, if it forwards any: after failures and crashes in
\* any command, SSH reaches the machine or nothing (virtualbox.go:477, 940-956,
\* commands.go:128-136).
PortNeverStale ==
    \A m \in Machines :
        (vm[m].state = "running" /\ entry[m].there /\ entry[m].port # 0)
            => vm[m].port \in {0, entry[m].port}

\* Whatever a create that failed or was killed left behind, and whatever the user
\* did to a machine that ran, rm of a machine in the store succeeds as long as
\* VBoxManage works and no other command runs.  It fails only when Remove's Kill
\* comes while VirtualBox is starting, stopping or saving the machine, of which
\* GetState says None, or when the machine has gone down after Remove read its
\* state: VirtualBox refuses the poweroff, and an rm after that succeeds
\* (virtualbox.go:618-634, 636-660).
RmWorks ==
    [][\A p \in Procs :
          (cmd[p] = "rm" /\ cmd'[p] = "idle" /\ outcome'[p] = "failed" /\ faults \cap {"vbm", "race"} = {})
              => \/ At(p, "load")
                 \/ At(p, "poweroff") /\ VM(p).state \in {"poweroff", "saved"} \cup InTransit]_vars

\* A command that reports success has done what it is for, whatever earlier
\* commands that failed or were killed have left: the machine is up and can be
\* reached through the port in the store, or it is off, or it is gone from
\* VirtualBox and the store.  The exceptions are the user's and other processes'
\* doing.  rm -f reports no error and never leaves the configuration
\* (host.go:149-246, libmachine.go:139-182, rm.go:31-52).
SuccessIsReal ==
    [][\A p \in Procs :
          (cmd[p] # "idle" /\ cmd'[p] = "idle")
              => \/ outcome'[p] = "killed"
                 \/ outcome'[p] = "failed" /\ cmd[p] # "rmforce"
                 \/ faults \cap {"gui", "race"} # {} /\ cmd[p] # "rmforce"
                 \/ /\ cmd[p] \in {"create", "start", "restart", "upgrade"}
                    /\ Reachable(p) /\ entry[mach[p]] = Entry(port[p])
                 \/ cmd[p] \in {"stop", "kill"} /\ VM(p).state = "poweroff"
                 \/ cmd[p] = "rm" /\ VM(p).state = "absent" /\ entry[mach[p]] = NoEntry
                 \/ cmd[p] = "rmforce" /\ entry[mach[p]] = NoEntry]_vars

\* Every command ends, if nobody else pauses and resumes the machine for ever
\* and no other process starts it again while this one waits: the unbounded wait
\* of the driver's Stop is left because the guest obeys, and all the others are
\* bounded (virtualbox.go:582-592, mcnutils/utils.go:81-103).
CommandsEnd ==
    (cmd[Lone] # "idle" /\ faults \cap {"gui", "race"} = {}) ~> cmd[Lone] = "idle"
=============================================================================
