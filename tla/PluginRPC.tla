----------------------------- MODULE PluginRPC -----------------------------
(***************************************************************************)
(* One run of the podman-machine client over its driver plugins: opening   *)
(* an RPC connection per machine, running the command, closing every       *)
(* connection (libmachine/drivers/rpc, libmachine/drivers/plugin).         *)
(*                                                                         *)
(* Per machine there are four actors: the main goroutine, the goroutine of *)
(* Plugin.Serve, the heartbeat goroutine, and the plugin process itself.   *)
(* heartbeatDoneCh and stopCh are unbuffered, so a send is one step shared *)
(* with the receiver; addrCh has one slot.  The timing of the heartbeat is *)
(* the subject of PluginHeartbeat and is used here in ServerTimeout.       *)
(***************************************************************************)
EXTENDS Naturals, Sequences

CONSTANTS
    Machines,  \* the machines the command was given
    FaultSets  \* a set of subsets of AllFaults: which of them go together

\* nobinary  exec.LookPath does not find the plugin binary
\* exec      starting the plugin binary fails
\* listen    the plugin cannot listen and exits without an address
\* slowaddr  no address within defaultTimeout
\* slowsetup the client takes longer than heartbeatTimeout to start beating
\* oldserver the plugin only knows the service name RPCServiceNameV0
\* version   the plugin speaks another API version
\* config    the plugin rejects the configuration (SetConfigRaw)
\* driver    a driver operation returns an error
\* crash     a plugin process dies
AllFaults == {"nobinary", "exec", "listen", "slowaddr", "slowsetup",
              "oldserver", "version", "config", "driver", "crash"}

ASSUME FaultsAssumption == FaultSets \subseteq SUBSET AllFaults

VARIABLES
    faults,  \* what may go wrong in this run
    cmd,     \* "ls" reports load errors per machine, "action" stops on them
    pc,      \* the main goroutine
    cur,     \* the machine whose connection main is opening or closing
    todo,    \* machines not loaded yet
    loaded,  \* outcome of NewRPCClientDriver per machine
    opened,  \* openedDrivers of the factory
    k,       \* how far Close has come in openedDrivers
    serve,   \* the goroutine of Plugin.Serve per machine
    addrCh,  \* the address channel of the plugin
    hb,      \* the heartbeat goroutine per machine
    proc,    \* the plugin process per machine
    work,    \* the command's goroutine per machine
    told     \* machines whose server was sent Close

vars == <<faults, cmd, pc, cur, todo, loaded, opened, k, serve, addrCh, hb,
          proc, work, told>>

PCs == {"load", "address", "dial", "version", "versionV0", "config", "work",
        "wait", "save", "close", "closeSend", "closeCall", "pluginClose",
        "exited", "exit1", "panicked"}

\* The podman-machine process has ended, and all its goroutines with it.
ClientGone == pc \in {"exited", "exit1", "panicked"}

Alive(m) == proc[m] = "running"

TypeOK ==
    /\ faults \subseteq AllFaults
    /\ cmd \in {"ls", "action"}
    /\ pc \in PCs
    /\ cur \in Machines
    /\ todo \subseteq Machines
    /\ loaded \in [Machines -> {"no", "ok", "errdriver", "error"}]
    /\ opened \in Seq(Machines)
    /\ k \in Nat
    /\ serve \in [Machines ->
                    {"none", "exec", "scan", "stream", "waiting", "returned"}]
    /\ addrCh \in [Machines -> {"empty", "addr", "blank", "closed"}]
    /\ hb \in [Machines -> {"none", "select", "calling", "closing", "done"}]
    /\ proc \in [Machines -> {"none", "booting", "running", "exited"}]
    /\ work \in [Machines -> {"idle", "calling", "served", "refused",
                             "done", "failed"}]
    /\ told \subseteq Machines

Init ==
    /\ faults \in FaultSets
    /\ cmd \in {"ls", "action"}
    /\ pc = "load"
    /\ cur \in Machines
    /\ todo = Machines
    /\ loaded = [m \in Machines |-> "no"]
    /\ opened = <<>>
    /\ k = 1
    /\ serve = [m \in Machines |-> "none"]
    /\ addrCh = [m \in Machines |-> "empty"]
    /\ hb = [m \in Machines |-> "none"]
    /\ proc = [m \in Machines |-> "none"]
    /\ work = [m \in Machines |-> "idle"]
    /\ told = {}
-----------------------------------------------------------------------------
(* Main goroutine: NewRPCClientDriver, once per machine.                   *)

\* NewRPCClientDriver(m) returned (value or error r) to the loop of LoadHosts.
Return(m, r) ==
    /\ loaded' = [loaded EXCEPT ![m] = r]
    /\ todo' = todo \ {m}
    /\ pc' = "load"

\* localbinary.NewPlugin: no binary is the known error that Load answers with
\* an errdriver; otherwise `go p.Serve()` and on to p.Address().
NewPlugin(m) ==
    /\ pc = "load"
    /\ m \in todo
    /\ \/ /\ "nobinary" \in faults
          /\ Return(m, "errdriver")
          /\ UNCHANGED <<cur, serve>>
       \/ /\ serve' = [serve EXCEPT ![m] = "exec"]
          /\ cur' = m
          /\ pc' = "address"
          /\ UNCHANGED <<loaded, todo>>
    /\ UNCHANGED <<faults, cmd, opened, k, addrCh, hb, proc, work, told>>

\* Plugin.Address, the case of the channel.  A blank line is not an address
\* and rpc.DialHTTP refuses it.
AddressArrives ==
    /\ pc = "address"
    /\ addrCh[cur] \in {"addr", "blank"}
    /\ addrCh' = [addrCh EXCEPT ![cur] = "closed"]
    /\ \/ addrCh[cur] = "addr" /\ pc' = "dial" /\ UNCHANGED <<loaded, todo>>
       \/ addrCh[cur] = "blank" /\ Return(cur, "error")
    /\ UNCHANGED <<faults, cmd, cur, opened, k, serve, hb, proc, work, told>>

\* Plugin.Address, the case of time.After(defaultTimeout).
AddressTimeout ==
    /\ pc = "address"
    /\ addrCh[cur] = "empty"
    /\ "slowaddr" \in faults \/ serve[cur] = "returned"
    /\ Return(cur, "error")
    /\ UNCHANGED <<faults, cmd, cur, opened, k, serve, addrCh, hb, proc, work, told>>

\* Mutant: the driver is never registered with the factory.
DialUnregistered ==
    /\ pc = "dial"
    /\ Alive(cur)
    /\ pc' = "version"
    /\ UNCHANGED <<faults, cmd, cur, todo, loaded, opened, k, serve, addrCh, hb, proc,
                   work, told>>

\* rpc.DialHTTP; the driver is appended to openedDrivers before the handshake.
Dial ==
    /\ pc = "dial"
    /\ \/ /\ Alive(cur)
          /\ opened' = Append(opened, cur)
          /\ pc' = "version"
          /\ UNCHANGED <<loaded, todo>>
       \/ /\ ~Alive(cur)
          /\ Return(cur, "error")
          /\ UNCHANGED opened
    /\ UNCHANGED <<faults, cmd, cur, k, serve, addrCh, hb, proc, work, told>>

\* The version is the client's: `go func` of the heartbeat, then SetConfigRaw.
VersionAgrees ==
    /\ Alive(cur)
    /\ hb' = [hb EXCEPT ![cur] = "select"]
    /\ pc' = "config"
    /\ UNCHANGED <<loaded, todo>>

VersionDiffers ==
    /\ Alive(cur)
    /\ "version" \in faults
    /\ Return(cur, "error")
    /\ UNCHANGED hb

\* GetVersion under RPCServiceNameV1; any error means a second try under V0.
GetVersion ==
    /\ pc = "version"
    /\ \/ VersionAgrees
       \/ VersionDiffers
       \/ /\ ~Alive(cur) \/ "oldserver" \in faults
          /\ pc' = "versionV0"
          /\ UNCHANGED <<loaded, todo, hb>>
    /\ UNCHANGED <<faults, cmd, cur, opened, k, serve, addrCh, proc, work, told>>

\* Mutant: no heartbeat goroutine for a server of the old service name.
GetVersionV0NoBeat ==
    /\ pc = "versionV0"
    /\ Alive(cur)
    /\ pc' = "config"
    /\ UNCHANGED <<faults, cmd, cur, todo, loaded, opened, k, serve, addrCh, hb, proc,
                   work, told>>

\* GetVersion under RPCServiceNameV0, the last try.
GetVersionV0 ==
    /\ pc = "versionV0"
    /\ \/ VersionAgrees
       \/ VersionDiffers
       \/ ~Alive(cur) /\ Return(cur, "error") /\ UNCHANGED hb
    /\ UNCHANGED <<faults, cmd, cur, opened, k, serve, addrCh, proc, work, told>>

\* SetConfigRaw, then GetMachineName, whose failure is only logged, then
\* c.plugin = p.  With an error c.plugin stays nil.
SetConfigRaw ==
    /\ pc = "config"
    /\ \/ Alive(cur) /\ Return(cur, "ok")
       \/ ~Alive(cur) /\ Return(cur, "error")
       \/ "config" \in faults /\ Return(cur, "error")
    /\ UNCHANGED <<faults, cmd, cur, opened, k, serve, addrCh, hb, proc, work, told>>
-----------------------------------------------------------------------------
(* Main goroutine: the command, between loading and closing.               *)

\* All machines are tried.  runAction returns an error when one failed to
\* load and runCommand then calls osExit(1), which runs no deferred
\* api.Close(); ls and active go on with the machines they have.
StartCommand ==
    /\ pc = "load"
    /\ todo = {}
    /\ \/ /\ cmd = "action"
          /\ \E m \in Machines : loaded[m] = "error"
          /\ pc' = "exit1"
          /\ UNCHANGED work
       \/ /\ cmd = "ls" \/ \A m \in Machines : loaded[m] # "error"
          /\ pc' = "wait"
          /\ work' = [m \in Machines |->
                         IF loaded[m] = "ok" THEN "calling"
                         ELSE IF loaded[m] = "errdriver" THEN "failed"
                         ELSE "idle"]
    /\ UNCHANGED <<faults, cmd, cur, todo, loaded, opened, k, serve, addrCh, hb, proc,
                   told>>

\* The server runs the driver operation the command asked for and has a
\* reply, or the driver's error, to send back.
ServeCall(m) ==
    /\ pc = "wait"
    /\ work[m] = "calling"
    /\ Alive(m)
    /\ \/ work' = [work EXCEPT ![m] = "served"]
       \/ "driver" \in faults /\ work' = [work EXCEPT ![m] = "refused"]
    /\ UNCHANGED <<faults, cmd, pc, cur, todo, loaded, opened, k, serve, addrCh, hb,
                   proc, told>>

\* The call returns to the command's goroutine: the reply, or an error when
\* the connection broke first, even if the operation was carried out.
CallReturns(m) ==
    /\ pc = "wait"
    /\ \/ work[m] = "served" /\ work' = [work EXCEPT ![m] = "done"]
       \/ work[m] = "refused" /\ work' = [work EXCEPT ![m] = "failed"]
       \/ /\ work[m] \in {"calling", "served"}
          /\ ~Alive(m)
          /\ work' = [work EXCEPT ![m] = "failed"]
    /\ UNCHANGED <<faults, cmd, pc, cur, todo, loaded, opened, k, serve, addrCh, hb,
                   proc, told>>

\* Every goroutine has reported.  An action with an error exits 1; without
\* one it saves every host.
CommandDone ==
    /\ pc = "wait"
    /\ \A m \in Machines : work[m] \in {"idle", "done", "failed"}
    /\ pc' = IF cmd = "ls" THEN "close"
             ELSE IF \E m \in Machines : work[m] = "failed" THEN "exit1"
             ELSE "save"
    /\ UNCHANGED <<faults, cmd, cur, todo, loaded, opened, k, serve, addrCh, hb, proc,
                   work, told>>

\* api.Save of every host asks each plugin for its configuration.
SaveHosts ==
    /\ pc = "save"
    /\ pc' = IF \A m \in Machines : loaded[m] = "ok" => Alive(m)
             THEN "close" ELSE "exit1"
    /\ UNCHANGED <<faults, cmd, cur, todo, loaded, opened, k, serve, addrCh, hb, proc,
                   work, told>>
-----------------------------------------------------------------------------
(* Main goroutine: the deferred api.Close(), one opened driver at a time.  *)

CloseNext ==
    /\ pc = "close"
    /\ \/ /\ k <= Len(opened)
          /\ cur' = opened[k]
          /\ pc' = "closeSend"
          /\ UNCHANGED opened
       \/ /\ k > Len(opened)
          /\ opened' = <<>>
          /\ pc' = "exited"
          /\ UNCHANGED cur
    /\ UNCHANGED <<faults, cmd, todo, loaded, k, serve, addrCh, hb, proc, work, told>>

\* Mutant: the done signal is posted without waiting for the goroutine.
CloseSendAsync ==
    /\ pc = "closeSend"
    /\ pc' = "closeCall"
    /\ UNCHANGED <<faults, cmd, cur, todo, loaded, opened, k, serve, addrCh, hb, proc,
                   work, told>>

\* c.heartbeatDoneCh <- true meets the heartbeat goroutine in its select.
CloseSend ==
    /\ pc = "closeSend"
    /\ hb[cur] = "select"
    /\ hb' = [hb EXCEPT ![cur] = "done"]
    /\ pc' = "closeCall"
    /\ UNCHANGED <<faults, cmd, cur, todo, loaded, opened, k, serve, addrCh, proc,
                   work, told>>

\* Mutant: the Close call is skipped.
CloseCallSkipped ==
    /\ pc = "closeCall"
    /\ pc' = "pluginClose"
    /\ UNCHANGED <<faults, cmd, cur, todo, loaded, opened, k, serve, addrCh, hb, proc,
                   work, told>>

\* The Close call: the server's main loop takes it from CloseCh and exits,
\* with or without the reply; a failed call is logged.
CloseCall ==
    /\ pc = "closeCall"
    /\ told' = told \cup {cur}
    /\ proc' = [proc EXCEPT ![cur] = "exited"]
    /\ pc' = "pluginClose"
    /\ UNCHANGED <<faults, cmd, cur, todo, loaded, opened, k, serve, addrCh, hb, work>>

\* c.plugin.Close(): stopCh <- true meets the select of execServer.  c.plugin
\* is nil when NewRPCClientDriver returned an error.
PluginClose ==
    /\ pc = "pluginClose"
    /\ \/ /\ loaded[cur] = "ok"
          /\ serve[cur] = "stream"
          /\ serve' = [serve EXCEPT ![cur] = "waiting"]
          /\ k' = k + 1
          /\ pc' = "close"
       \/ /\ loaded[cur] # "ok"
          /\ pc' = "panicked"
          /\ UNCHANGED <<serve, k>>
    /\ UNCHANGED <<faults, cmd, cur, todo, loaded, opened, addrCh, hb, proc, work,
                   told>>
-----------------------------------------------------------------------------
(* The goroutine of Plugin.Serve.                                          *)

\* Executor.Start.
ExecStart(m) ==
    /\ ~ClientGone
    /\ serve[m] = "exec"
    /\ \/ /\ serve' = [serve EXCEPT ![m] = "scan"]
          /\ proc' = [proc EXCEPT ![m] = "booting"]
       \/ /\ "exec" \in faults
          /\ serve' = [serve EXCEPT ![m] = "returned"]
          /\ UNCHANGED proc
    /\ UNCHANGED <<faults, cmd, pc, cur, todo, loaded, opened, k, addrCh, hb, work,
                   told>>

\* The first line of the plugin's output, or the end of it, goes to addrCh.
ScanAddress(m) ==
    /\ ~ClientGone
    /\ serve[m] = "scan"
    /\ proc[m] \in {"running", "exited"}
    /\ addrCh' = [addrCh EXCEPT ![m] = IF Alive(m) THEN "addr" ELSE "blank"]
    /\ serve' = [serve EXCEPT ![m] = "stream"]
    /\ UNCHANGED <<faults, cmd, pc, cur, todo, loaded, opened, k, hb, proc, work, told>>

\* Executor.Close: cmd.Wait() returns when the process has exited.
ExecClose(m) ==
    /\ ~ClientGone
    /\ serve[m] = "waiting"
    /\ proc[m] = "exited"
    /\ serve' = [serve EXCEPT ![m] = "returned"]
    /\ UNCHANGED <<faults, cmd, pc, cur, todo, loaded, opened, k, addrCh, hb, proc,
                   work, told>>
-----------------------------------------------------------------------------
(* The heartbeat goroutine.                                                *)

\* time.After(heartbeatInterval) fires and the Heartbeat call is made.
Beat(m) ==
    /\ ~ClientGone
    /\ hb[m] = "select"
    /\ hb' = [hb EXCEPT ![m] = "calling"]
    /\ UNCHANGED <<faults, cmd, pc, cur, todo, loaded, opened, k, serve, addrCh, proc,
                   work, told>>

\* Mutant: the heartbeat goroutine without its for statement.
BeatReturnsOnce(m) ==
    /\ ~ClientGone
    /\ hb[m] = "calling"
    /\ hb' = [hb EXCEPT ![m] = "done"]
    /\ UNCHANGED <<faults, cmd, pc, cur, todo, loaded, opened, k, serve, addrCh, proc,
                   work, told>>

\* The call returns.  With an error the goroutine logs that the process is
\* exiting and calls c.close(), whose first statement sends on the channel
\* that this goroutine alone receives from: it stays in "closing".
BeatReturns(m) ==
    /\ ~ClientGone
    /\ hb[m] = "calling"
    /\ hb' = [hb EXCEPT ![m] = IF Alive(m) THEN "select" ELSE "closing"]
    /\ UNCHANGED <<faults, cmd, pc, cur, todo, loaded, opened, k, serve, addrCh, proc,
                   work, told>>
-----------------------------------------------------------------------------
(* The plugin process: RegisterDriver.                                     *)

\* It listens and prints its address, or exits.
Boot(m) ==
    /\ proc[m] = "booting"
    /\ \/ proc' = [proc EXCEPT ![m] = "running"]
       \/ "listen" \in faults /\ proc' = [proc EXCEPT ![m] = "exited"]
    /\ UNCHANGED <<faults, cmd, pc, cur, todo, loaded, opened, k, serve, addrCh, hb,
                   work, told>>

\* Nobody beats for this server: the client is gone or gave up on it, its
\* heartbeat goroutine ended, or has not started for too long.
NobodyBeats(m) ==
    \/ ClientGone
    \/ hb[m] \in {"done", "closing"}
    \/ hb[m] = "none" /\ (loaded[m] = "error" \/ "slowsetup" \in faults)

\* Mutant: a server without the case of the timeout.
NoServerTimeout(m) ==
    /\ FALSE
    /\ proc[m] = "running"
    /\ UNCHANGED vars

\* time.After(heartbeatTimeout) fires: os.Exit(1).  PluginHeartbeat shows it
\* cannot while the client beats.
ServerTimeout(m) ==
    /\ Alive(m)
    /\ NobodyBeats(m)
    /\ proc' = [proc EXCEPT ![m] = "exited"]
    /\ UNCHANGED <<faults, cmd, pc, cur, todo, loaded, opened, k, serve, addrCh, hb,
                   work, told>>

\* A panic in any handler but Create, which traps it, or a signal.
Crash(m) ==
    /\ "crash" \in faults
    /\ proc[m] \in {"booting", "running"}
    /\ proc' = [proc EXCEPT ![m] = "exited"]
    /\ UNCHANGED <<faults, cmd, pc, cur, todo, loaded, opened, k, serve, addrCh, hb,
                   work, told>>
-----------------------------------------------------------------------------
MainStep ==
    \/ \E m \in Machines : NewPlugin(m)
    \/ AddressArrives
    \/ AddressTimeout
    \/ Dial
    \/ GetVersion
    \/ GetVersionV0
    \/ SetConfigRaw
    \/ StartCommand
    \/ CommandDone
    \/ SaveHosts
    \/ CloseNext
    \/ CloseSend
    \/ CloseCall
    \/ PluginClose

Next ==
    \/ MainStep
    \/ \E m \in Machines :
          \/ ServeCall(m)
          \/ CallReturns(m)
          \/ ExecStart(m)
          \/ ScanAddress(m)
          \/ ExecClose(m)
          \/ Beat(m)
          \/ BeatReturns(m)
          \/ Boot(m)
          \/ ServerTimeout(m)
          \/ Crash(m)

\* The Go scheduler runs every goroutine that can move, calls return, and a
\* server's timer fires.  CloseSend is a rendezvous with a goroutine that is
\* in its select between any two beats, so it is enabled again and again.
Fairness ==
    /\ WF_vars(MainStep)
    /\ SF_vars(CloseSend)
    /\ \A m \in Machines :
          /\ WF_vars(ServeCall(m))
          /\ WF_vars(CallReturns(m))
          /\ WF_vars(ExecStart(m))
          /\ WF_vars(ScanAddress(m))
          /\ WF_vars(Beat(m))
          /\ WF_vars(BeatReturns(m))
          /\ WF_vars(Boot(m))
          /\ WF_vars(ServerTimeout(m))

Spec == Init /\ [][Next]_vars /\ Fairness
-----------------------------------------------------------------------------
\* The faults after which Close still finds a receiver for everything it sends.
SafeFaults == {"nobinary", "exec", "listen", "slowaddr", "oldserver", "driver"}
SafeRun == faults \subseteq SafeFaults

\* Without a plugin dying and without a failed handshake, the main goroutine
\* in close() always has the heartbeat goroutine to hand the done signal to,
\* and a plugin whose Serve goroutine still listens (client_driver.go:209-224,
\* plugin.go:201-215): no blocked send, no nil plugin.
CloseCanFinish ==
    SafeRun =>
        /\ pc = "closeSend" => hb[cur] \in {"select", "calling"}
        /\ pc = "pluginClose" => loaded[cur] = "ok" /\ serve[cur] = "stream"

\* No heartbeat is made or pending on a connection whose server was sent
\* Close: that heartbeat would fail and hang its goroutine
\* (client_driver.go:176-185 against 210).
NoHeartbeatAfterClose ==
    \A m \in told : hb[m] \notin {"select", "calling", "closing"}

\* A client that ended through api.Close() leaves no plugin server it opened
\* running; one it gave up on before dialling is left to its timeout
\* (client_driver.go:106-119, server_driver.go:97-100).
CleanExitClosesServers ==
    SafeRun /\ pc = "exited" => \A m \in Machines : Alive(m) => loaded[m] = "error"

\* However the client process ends (Close, osExit(1), a panic), no plugin
\* server outlives it for ever.
ServersFollowClient ==
    \A m \in Machines : (ClientGone /\ Alive(m)) ~> proc[m] = "exited"

\* The command ends: by itself, or through osExit(1) (commands.go:141-168).
ClientEnds == SafeRun => <>(pc \in {"exited", "exit1"})

\* "Wrapper Podman Machine process exiting due to closed plugin server": what
\* the heartbeat goroutine logs before it calls close() is what happens.
DeadPluginEndsClient ==
    \A m \in Machines : hb[m] = "closing" ~> ClientGone
-----------------------------------------------------------------------------
(* The inductive invariant behind CloseCanFinish and CleanExitClosesServers *)
(* in runs with safe faults.                                               *)

Handshake == {"address", "dial", "version", "versionV0", "config"}
Dialled == {"version", "versionV0", "config"}
Closing == {"close", "closeSend", "closeCall", "pluginClose"}

\* Nothing has been done for m yet.
Fresh(m) ==
    /\ loaded[m] = "no"
    /\ serve[m] = "none"
    /\ addrCh[m] = "empty"
    /\ hb[m] = "none"
    /\ proc[m] = "none"

\* The connection to m is complete and everyone Close talks to is there.
Ready(m) ==
    /\ loaded[m] = "ok"
    /\ serve[m] = "stream"
    /\ hb[m] \in {"select", "calling"}
    /\ Alive(m)

\* Close has been through m.
Closed(m) ==
    /\ loaded[m] = "ok"
    /\ serve[m] \in {"waiting", "returned"}
    /\ proc[m] = "exited"

\* Machines wait untouched for their turn; the one being opened is as far as
\* the main goroutine is.
LoadingInv ==
    /\ pc \in Handshake => cur \in todo
    /\ pc \notin Handshake \cup {"load"} => todo = {}
    /\ \A m \in Machines :
          m \in todo /\ ~(pc \in Handshake /\ m = cur) => Fresh(m)
    /\ \A m \in Machines : loaded[m] = "no" <=> m \in todo
    /\ pc = "address" =>
          /\ hb[cur] = "none"
          /\ serve[cur] \in {"exec", "scan", "stream", "returned"}
          /\ serve[cur] \in {"exec", "scan", "returned"} => addrCh[cur] = "empty"
          /\ addrCh[cur] = "addr" => serve[cur] = "stream" /\ Alive(cur)
    /\ pc \in {"dial", "version", "versionV0"} =>
          hb[cur] = "none" /\ serve[cur] = "stream" /\ Alive(cur)
    /\ pc = "config" =>
          /\ hb[cur] \in {"select", "calling"}
          /\ serve[cur] = "stream"
          /\ Alive(cur)

\* openedDrivers lists each machine once, and has every machine that loaded.
OpenedInv ==
    /\ \A i, j \in 1..Len(opened) : opened[i] = opened[j] => i = j
    /\ pc \in Dialled => \E j \in 1..Len(opened) : opened[j] = cur
    /\ \A j \in 1..Len(opened) :
          opened[j] \in todo => pc \in Dialled /\ opened[j] = cur
    /\ \A m \in Machines :
          loaded[m] = "ok" /\ pc # "exited" =>
              \E j \in 1..Len(opened) : opened[j] = m
    /\ \A m \in Machines :
          loaded[m] = "errdriver" => proc[m] = "none" /\ serve[m] = "none"

\* Every opened machine is complete until Close reaches it, and gone after.
ClosingInv ==
    /\ k >= 1
    /\ pc \notin Closing \cup {"exited"} => k = 1
    /\ ~ClientGone => \A j \in 1..Len(opened) :
          /\ j > k => (pc \in Dialled /\ opened[j] = cur) \/ Ready(opened[j])
          /\ j = k /\ pc \notin {"closeCall", "pluginClose"} =>
                (pc \in Dialled /\ opened[j] = cur) \/ Ready(opened[j])
          /\ j < k => Closed(opened[j])
    /\ pc \in {"closeSend", "closeCall", "pluginClose"} =>
          k <= Len(opened) /\ cur = opened[k]
    /\ pc \in {"closeCall", "pluginClose"} =>
          loaded[cur] = "ok" /\ serve[cur] = "stream"
    /\ pc = "pluginClose" => proc[cur] = "exited"
    /\ pc = "exited" =>
          \A m \in Machines : loaded[m] = "ok" => proc[m] = "exited"
    /\ pc # "panicked"

SafeInv == TypeOK /\ LoadingInv /\ OpenedInv /\ ClosingInv

\* The main goroutine, openedDrivers, the goroutines and the processes agree on
\* which machines are untouched, in handshake, complete or closed, in every run
\* with safe faults (client_driver.go:106-224, plugin.go:130-243).
RpcInv == SafeRun => SafeInv
=============================================================================
