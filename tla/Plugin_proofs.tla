---------------------------- MODULE Plugin_proofs ----------------------------
(***************************************************************************)
(* Proofs about the connection to a plugin.                                *)
(*                                                                         *)
(* PluginHeartbeat, for every value of the two timeouts and of the two     *)
(* delay bounds that leaves the margin TimeoutCoversDelays: a live client  *)
(* keeps its server, an orphan ends in time.                               *)
(*                                                                         *)
(* PluginRPC, for any set of machines: as long as no plugin dies and no    *)
(* handshake fails after the dial, closing always completes; and in every  *)
(* run no heartbeat follows the Close call.                                *)
(***************************************************************************)
EXTENDS PluginRPC, PluginHeartbeat, TLAPS

\* The slack is the larger of the two delays that can precede an interval.
LEMMA SlackBounds ==
    /\ Slack \in Nat
    /\ SetupBound <= Slack
    /\ RpcLatency <= Slack
    /\ Slack + HeartbeatInterval + RpcLatency < HeartbeatTimeout
BY TimesAreNatural, TimeoutCoversDelays DEF Slack

\* The first state satisfies the inductive invariant.
LEMMA InitHeartbeatInv == HeartbeatInit => HeartbeatInv
BY TimesAreNatural, SlackBounds
   DEF HeartbeatInit, HeartbeatInv, HeartbeatTypeOK, TimersAgree, OrphanAge, NoFalseExpiry

\* Every step of the client, the server, the wire and the clock preserves it.
LEMMA NextHeartbeatInv == HeartbeatInv /\ [HeartbeatNext]_HeartbeatVars => HeartbeatInv'
<1> SUFFICES ASSUME HeartbeatInv, [HeartbeatNext]_HeartbeatVars
             PROVE  HeartbeatInv'
    OBVIOUS
<1> USE TimesAreNatural, SlackBounds
    DEF HeartbeatInv, HeartbeatTypeOK, TimersAgree, OrphanAge, NoFalseExpiry,
        ServerDeadline
<1>1. CASE StartHeartbeat
    BY <1>1 DEF StartHeartbeat
<1>2. CASE SendHeartbeat
    BY <1>2 DEF SendHeartbeat
<1>3. CASE ServeHeartbeat
    BY <1>3 DEF ServeHeartbeat
<1>4. CASE HeartbeatReturns
    BY <1>4 DEF HeartbeatReturns
<1>5. CASE HeartbeatFails
    BY <1>5 DEF HeartbeatFails
<1>6. CASE CloseClient
    BY <1>6 DEF CloseClient
<1>7. CASE FinishClose
    BY <1>7 DEF FinishClose
<1>8. CASE ServerCrashes
    BY <1>8 DEF ServerCrashes
<1>9. CASE ClientDies
    BY <1>9 DEF ClientDies
<1>10. CASE Expire
    BY <1>10 DEF Expire
<1>11. CASE Tick
    BY <1>11 DEF Tick
<1>12. CASE UNCHANGED HeartbeatVars
    BY <1>12 DEF HeartbeatVars
<1> QED
    BY <1>1, <1>2, <1>3, <1>4, <1>5, <1>6, <1>7, <1>8, <1>9, <1>10, <1>11,
       <1>12 DEF HeartbeatNext

\* The timers keep to their relation for ever (client_driver.go:173-187 and
\* register_driver.go:51-62), whatever the two timeouts and the delays are.
THEOREM HeartbeatInvariant == HeartbeatSpec => []HeartbeatInv
<1>1. QED
    BY InitHeartbeatInv, NextHeartbeatInv, PTL DEF HeartbeatSpec

\* The server's timeout never fires under a live client process: the margin
\* between heartbeatInterval and heartbeatTimeout is enough for every delay
\* within the bounds.
THEOREM LiveClientKeepsServer == HeartbeatSpec => []NoFalseExpiry
<1>1. HeartbeatInv => NoFalseExpiry
    BY DEF HeartbeatInv
<1> QED
    BY <1>1, HeartbeatInvariant, PTL

\* A plugin server outlives a client process that ended without Close by at
\* most heartbeatTimeout and one call's latency.
THEOREM OrphanIsBounded == HeartbeatSpec => []OrphanBounded
<1>1. HeartbeatInv => OrphanBounded
    BY TimesAreNatural
       DEF HeartbeatInv, HeartbeatTypeOK, TimersAgree, OrphanAge, OrphanBounded
<1> QED
    BY <1>1, HeartbeatInvariant, PTL
-----------------------------------------------------------------------------
\* The first state satisfies the inductive invariant.
LEMMA InitSafeInv == Init => SafeInv
BY FaultsAssumption DEF Init, SafeInv, TypeOK, PCs, LoadingInv, OpenedInv, ClosingInv, Fresh,
       Handshake, Dialled, Closing, ClientGone

\* NewPlugin preserves the invariant.
LEMMA NewPluginSafe ==
    ASSUME SafeRun, SafeInv, NEW m \in Machines, NewPlugin(m)
    PROVE  SafeInv'
<1> USE DEF SafeInv, SafeRun, SafeFaults, Alive, NewPlugin, Return
<1>1. TypeOK'
    BY DEF TypeOK, PCs
<1>2. LoadingInv'
    BY DEF TypeOK, LoadingInv, Fresh, Handshake
<1>3. OpenedInv'
    BY DEF TypeOK, LoadingInv, OpenedInv, Fresh, Handshake, Dialled
<1>4. ClosingInv'
    BY DEF TypeOK, LoadingInv, OpenedInv, ClosingInv, Ready, Closed, Fresh,
           ClientGone, Handshake, Dialled, Closing
<1> QED
    BY <1>1, <1>2, <1>3, <1>4

\* Dial preserves the invariant: the server is there (LoadingInv), so cur is
\* appended, and cur was not in openedDrivers before because it is in todo.
LEMMA DialSafe ==
    ASSUME SafeRun, SafeInv, Dial
    PROVE  SafeInv'
<1>1. /\ pc = "dial" /\ pc' = "version"
      /\ opened' = Append(opened, cur)
      /\ UNCHANGED <<faults, loaded, todo, cmd, cur, k, serve, addrCh, hb,
                     proc, work, told>>
    BY DEF SafeInv, LoadingInv, Dial
<1> DEFINE n == Len(opened)
<1>2. /\ n \in Nat
      /\ opened' \in Seq(Machines)
      /\ Len(opened') = n + 1
      /\ opened'[n + 1] = cur
      /\ \A j \in 1..n : opened'[j] = opened[j]
    BY <1>1 DEF SafeInv, TypeOK
<1>3. \A j \in 1..n : opened[j] # cur
    BY <1>1 DEF SafeInv, LoadingInv, OpenedInv, Handshake, Dialled
<1> HIDE DEF n
<1>4. TypeOK'
    BY <1>1, <1>2 DEF SafeInv, TypeOK, PCs
<1>5. LoadingInv'
    BY <1>1 DEF SafeInv, LoadingInv, Fresh, Handshake, Alive
<1>6. \A j \in 1..(n + 1) : j = n + 1 \/ j \in 1..n
    BY <1>2
<1>7. OpenedInv'
  <2>1. \A i, j \in 1..(n + 1) : opened'[i] = opened'[j] => i = j
    BY <1>2, <1>3, <1>6 DEF SafeInv, OpenedInv, n
  <2>2. \A j \in 1..(n + 1) :
          opened'[j] \in todo' => pc' \in Dialled /\ opened'[j] = cur'
    BY <1>1, <1>2, <1>6 DEF SafeInv, OpenedInv, Dialled, n
  <2>3. \A m \in Machines :
          loaded'[m] = "ok" => \E j \in 1..(n + 1) : opened'[j] = m
    BY <1>1, <1>2 DEF SafeInv, OpenedInv, n
  <2>4. \E j \in 1..(n + 1) : opened'[j] = cur'
    BY <1>1, <1>2
  <2> QED
    BY <1>1, <1>2, <2>1, <2>2, <2>3, <2>4 DEF SafeInv, OpenedInv
<1>8. ClosingInv'
  <2>1. k = 1
    BY <1>1 DEF SafeInv, ClosingInv, Closing
  <2>2. \A j \in 1..n : Ready(opened[j])
    BY <1>1, <1>2, <2>1
       DEF SafeInv, ClosingInv, ClientGone, Dialled, n
  <2>3. \A j \in 1..(n + 1) :
          (pc' \in Dialled /\ opened'[j] = cur') \/ Ready(opened[j])
    BY <1>1, <1>2, <1>6, <2>2 DEF Dialled
  <2>4. \A j \in 1..n : Ready(opened[j]) => Ready(opened[j])'
    BY <1>1, <1>2 DEF Ready, Alive
  <2>5. \A j \in 1..(n + 1) :
          (pc' \in Dialled /\ opened'[j] = cur') \/ Ready(opened[j])'
    BY <1>1, <1>2, <1>6, <2>2, <2>4 DEF Dialled
  <2> QED
    BY <1>1, <1>2, <2>1, <2>5 DEF SafeInv, ClosingInv, Closing, ClientGone
<1> QED
    BY <1>4, <1>5, <1>7, <1>8 DEF SafeInv

\* AddressArrives preserves the invariant.
LEMMA AddressArrivesSafe ==
    ASSUME SafeRun, SafeInv, AddressArrives
    PROVE  SafeInv'
<1> USE DEF SafeInv, SafeRun, SafeFaults, Alive, AddressArrives, Return
<1>1. TypeOK'
    BY DEF TypeOK, PCs
<1>2. LoadingInv'
    BY DEF TypeOK, LoadingInv, Fresh, Handshake
<1>3. OpenedInv'
    BY DEF TypeOK, LoadingInv, OpenedInv, Fresh, Handshake, Dialled
<1>4. ClosingInv'
    BY DEF TypeOK, LoadingInv, OpenedInv, ClosingInv, Ready, Closed, Fresh,
           ClientGone, Handshake, Dialled, Closing
<1> QED
    BY <1>1, <1>2, <1>3, <1>4

\* AddressTimeout preserves the invariant.
LEMMA AddressTimeoutSafe ==
    ASSUME SafeRun, SafeInv, AddressTimeout
    PROVE  SafeInv'
<1> USE DEF SafeInv, SafeRun, SafeFaults, Alive, AddressTimeout, Return
<1>1. TypeOK'
    BY DEF TypeOK, PCs
<1>2. LoadingInv'
    BY DEF TypeOK, LoadingInv, Fresh, Handshake
<1>3. OpenedInv'
    BY DEF TypeOK, LoadingInv, OpenedInv, Fresh, Handshake, Dialled
<1>4. ClosingInv'
    BY DEF TypeOK, LoadingInv, OpenedInv, ClosingInv, Ready, Closed, Fresh,
           ClientGone, Handshake, Dialled, Closing
<1> QED
    BY <1>1, <1>2, <1>3, <1>4

\* GetVersion preserves the invariant.
LEMMA GetVersionSafe ==
    ASSUME SafeRun, SafeInv, GetVersion
    PROVE  SafeInv'
<1> USE DEF SafeInv, SafeRun, SafeFaults, Alive, GetVersion, Return, VersionAgrees, VersionDiffers
<1>1. TypeOK'
    BY DEF TypeOK, PCs
<1>2. LoadingInv'
    BY DEF TypeOK, LoadingInv, Fresh, Handshake
<1>3. OpenedInv'
    BY DEF TypeOK, LoadingInv, OpenedInv, Fresh, Handshake, Dialled
<1>4. ClosingInv'
    BY DEF TypeOK, LoadingInv, OpenedInv, ClosingInv, Ready, Closed, Fresh,
           ClientGone, Handshake, Dialled, Closing
<1> QED
    BY <1>1, <1>2, <1>3, <1>4

\* GetVersionV0 preserves the invariant.
LEMMA GetVersionV0Safe ==
    ASSUME SafeRun, SafeInv, GetVersionV0
    PROVE  SafeInv'
<1>1. /\ pc = "versionV0" /\ pc' = "config"
      /\ hb' = [hb EXCEPT ![cur] = "select"]
      /\ UNCHANGED <<faults, loaded, todo, cmd, cur, opened, k, serve, addrCh,
                     proc, work, told>>
    BY DEF SafeInv, LoadingInv, SafeRun, SafeFaults, GetVersionV0, VersionAgrees,
           VersionDiffers
<1> USE <1>1 DEF SafeInv
<1>2. TypeOK'
    BY DEF TypeOK, PCs
<1>3. LoadingInv'
    BY DEF TypeOK, LoadingInv, Fresh, Handshake, Alive
<1>4. OpenedInv'
    BY DEF TypeOK, OpenedInv, Dialled
<1>5. ClosingInv'
    BY DEF TypeOK, ClosingInv, Ready, Closed, Alive, ClientGone, Dialled, Closing
<1> QED
    BY <1>2, <1>3, <1>4, <1>5

\* SetConfigRaw preserves the invariant.
LEMMA SetConfigRawSafe ==
    ASSUME SafeRun, SafeInv, SetConfigRaw
    PROVE  SafeInv'
<1> USE DEF SafeInv, SafeRun, SafeFaults, Alive, SetConfigRaw, Return
<1>1. TypeOK'
    BY DEF TypeOK, PCs
<1>2. LoadingInv'
    BY DEF TypeOK, LoadingInv, Fresh, Handshake
<1>3. OpenedInv'
    BY DEF TypeOK, LoadingInv, OpenedInv, Fresh, Handshake, Dialled
<1>4. ClosingInv'
    BY DEF TypeOK, LoadingInv, OpenedInv, ClosingInv, Ready, Closed, Fresh,
           ClientGone, Handshake, Dialled, Closing
<1> QED
    BY <1>1, <1>2, <1>3, <1>4

\* StartCommand preserves the invariant.
LEMMA StartCommandSafe ==
    ASSUME SafeRun, SafeInv, StartCommand
    PROVE  SafeInv'
<1> USE DEF SafeInv, SafeRun, SafeFaults, Alive, StartCommand
<1>1. TypeOK'
    BY DEF TypeOK, PCs
<1>2. LoadingInv'
    BY DEF TypeOK, LoadingInv, Fresh, Handshake
<1>3. OpenedInv'
    BY DEF TypeOK, LoadingInv, OpenedInv, Fresh, Handshake, Dialled
<1>4. ClosingInv'
    BY DEF TypeOK, LoadingInv, OpenedInv, ClosingInv, Ready, Closed, Fresh,
           ClientGone, Handshake, Dialled, Closing
<1> QED
    BY <1>1, <1>2, <1>3, <1>4

\* CommandDone preserves the invariant.
LEMMA CommandDoneSafe ==
    ASSUME SafeRun, SafeInv, CommandDone
    PROVE  SafeInv'
<1> USE DEF SafeInv, SafeRun, SafeFaults, Alive, CommandDone
<1>1. TypeOK'
    BY DEF TypeOK, PCs
<1>2. LoadingInv'
    BY DEF TypeOK, LoadingInv, Fresh, Handshake
<1>3. OpenedInv'
    BY DEF TypeOK, LoadingInv, OpenedInv, Fresh, Handshake, Dialled
<1>4. ClosingInv'
    BY DEF TypeOK, LoadingInv, OpenedInv, ClosingInv, Ready, Closed, Fresh,
           ClientGone, Handshake, Dialled, Closing
<1> QED
    BY <1>1, <1>2, <1>3, <1>4

\* SaveHosts preserves the invariant.
LEMMA SaveHostsSafe ==
    ASSUME SafeRun, SafeInv, SaveHosts
    PROVE  SafeInv'
<1> USE DEF SafeInv, SafeRun, SafeFaults, Alive, SaveHosts
<1>1. TypeOK'
    BY DEF TypeOK, PCs
<1>2. LoadingInv'
    BY DEF TypeOK, LoadingInv, Fresh, Handshake
<1>3. OpenedInv'
    BY DEF TypeOK, LoadingInv, OpenedInv, Fresh, Handshake, Dialled
<1>4. ClosingInv'
    BY DEF TypeOK, LoadingInv, OpenedInv, ClosingInv, Ready, Closed, Fresh,
           ClientGone, Handshake, Dialled, Closing
<1> QED
    BY <1>1, <1>2, <1>3, <1>4

\* CloseNext preserves the invariant.
LEMMA CloseNextSafe ==
    ASSUME SafeRun, SafeInv, CloseNext
    PROVE  SafeInv'
<1> USE DEF SafeInv, SafeRun, SafeFaults, Alive, CloseNext
<1>1. TypeOK'
  <2>1. CASE k <= Len(opened)
    <3>1. k \in 1..Len(opened)
        BY <2>1 DEF TypeOK, ClosingInv
    <3>2. opened[k] \in Machines
        BY <3>1 DEF TypeOK
    <3> QED
        BY <2>1, <3>2 DEF TypeOK, PCs
  <2>2. CASE ~(k <= Len(opened))
    <3>1. opened' = <<>> /\ pc' = "exited" /\ UNCHANGED cur
        BY <2>2
    <3>2. <<>> \in Seq(Machines)
        OBVIOUS
    <3> QED
        BY <3>1, <3>2 DEF TypeOK, PCs
  <2> QED
    BY <2>1, <2>2
<1>2. LoadingInv'
    BY DEF TypeOK, LoadingInv, Fresh, Handshake
<1>3. OpenedInv'
    BY DEF TypeOK, LoadingInv, OpenedInv, Fresh, Handshake, Dialled
<1>4. ClosingInv'
    BY DEF TypeOK, LoadingInv, OpenedInv, ClosingInv, Ready, Closed, Fresh,
           ClientGone, Handshake, Dialled, Closing
<1> QED
    BY <1>1, <1>2, <1>3, <1>4

\* CloseSend preserves the invariant.
LEMMA CloseSendSafe ==
    ASSUME SafeRun, SafeInv, CloseSend
    PROVE  SafeInv'
<1> USE DEF SafeInv, SafeRun, SafeFaults, Alive, CloseSend
<1>1. TypeOK'
    BY DEF TypeOK, PCs
<1>2. LoadingInv'
    BY DEF TypeOK, LoadingInv, Fresh, Handshake
<1>3. OpenedInv'
    BY DEF TypeOK, LoadingInv, OpenedInv, Fresh, Handshake, Dialled
<1>4. ClosingInv'
    BY DEF TypeOK, LoadingInv, OpenedInv, ClosingInv, Ready, Closed, Fresh,
           ClientGone, Handshake, Dialled, Closing
<1> QED
    BY <1>1, <1>2, <1>3, <1>4

\* CloseCall preserves the invariant.
LEMMA CloseCallSafe ==
    ASSUME SafeRun, SafeInv, CloseCall
    PROVE  SafeInv'
<1> USE DEF SafeInv, SafeRun, SafeFaults, Alive, CloseCall
<1>1. TypeOK'
    BY DEF TypeOK, PCs
<1>2. LoadingInv'
    BY DEF TypeOK, LoadingInv, Fresh, Handshake
<1>3. OpenedInv'
    BY DEF TypeOK, LoadingInv, OpenedInv, Fresh, Handshake, Dialled,
           ClosingInv
<1>4. ClosingInv'
    BY DEF TypeOK, LoadingInv, OpenedInv, ClosingInv, Ready, Closed, Fresh,
           ClientGone, Handshake, Dialled, Closing
<1> QED
    BY <1>1, <1>2, <1>3, <1>4

\* PluginClose preserves the invariant.
LEMMA PluginCloseSafe ==
    ASSUME SafeRun, SafeInv, PluginClose
    PROVE  SafeInv'
<1> USE DEF SafeInv, SafeRun, SafeFaults, Alive, PluginClose
<1>1. TypeOK'
    BY DEF TypeOK, PCs
<1>2. LoadingInv'
    BY DEF TypeOK, LoadingInv, Fresh, Handshake
<1>3. OpenedInv'
    BY DEF TypeOK, LoadingInv, OpenedInv, Fresh, Handshake, Dialled
<1>4. ClosingInv'
    BY DEF TypeOK, LoadingInv, OpenedInv, ClosingInv, Ready, Closed, Fresh,
           ClientGone, Handshake, Dialled, Closing
<1> QED
    BY <1>1, <1>2, <1>3, <1>4

\* ServeCall preserves the invariant.
LEMMA ServeCallSafe ==
    ASSUME SafeRun, SafeInv, NEW m \in Machines, ServeCall(m)
    PROVE  SafeInv'
<1> USE DEF SafeInv, SafeRun, SafeFaults, Alive, ServeCall
<1>1. TypeOK'
    BY DEF TypeOK, PCs
<1>2. LoadingInv'
    BY DEF TypeOK, LoadingInv, Fresh, Handshake
<1>3. OpenedInv'
    BY DEF TypeOK, LoadingInv, OpenedInv, Fresh, Handshake, Dialled
<1>4. ClosingInv'
    BY DEF TypeOK, LoadingInv, OpenedInv, ClosingInv, Ready, Closed, Fresh,
           ClientGone, Handshake, Dialled, Closing
<1> QED
    BY <1>1, <1>2, <1>3, <1>4

\* CallReturns preserves the invariant.
LEMMA CallReturnsSafe ==
    ASSUME SafeRun, SafeInv, NEW m \in Machines, CallReturns(m)
    PROVE  SafeInv'
<1> USE DEF SafeInv, SafeRun, SafeFaults, Alive, CallReturns
<1>1. TypeOK'
    BY DEF TypeOK, PCs
<1>2. LoadingInv'
    BY DEF TypeOK, LoadingInv, Fresh, Handshake
<1>3. OpenedInv'
    BY DEF TypeOK, LoadingInv, OpenedInv, Fresh, Handshake, Dialled
<1>4. ClosingInv'
    BY DEF TypeOK, LoadingInv, OpenedInv, ClosingInv, Ready, Closed, Fresh,
           ClientGone, Handshake, Dialled, Closing
<1> QED
    BY <1>1, <1>2, <1>3, <1>4

\* ExecStart preserves the invariant.
LEMMA ExecStartSafe ==
    ASSUME SafeRun, SafeInv, NEW m \in Machines, ExecStart(m)
    PROVE  SafeInv'
<1> USE DEF SafeInv, SafeRun, SafeFaults, Alive, ExecStart
<1>1. TypeOK'
    BY DEF TypeOK, PCs
<1>2. LoadingInv'
    BY DEF TypeOK, LoadingInv, Fresh, Handshake
<1>3. OpenedInv'
    BY DEF TypeOK, LoadingInv, OpenedInv, Fresh, Handshake, Dialled
<1>4. ClosingInv'
    BY DEF TypeOK, LoadingInv, OpenedInv, ClosingInv, Ready, Closed, Fresh,
           ClientGone, Handshake, Dialled, Closing
<1> QED
    BY <1>1, <1>2, <1>3, <1>4

\* ScanAddress preserves the invariant.
LEMMA ScanAddressSafe ==
    ASSUME SafeRun, SafeInv, NEW m \in Machines, ScanAddress(m)
    PROVE  SafeInv'
<1> USE DEF SafeInv, SafeRun, SafeFaults, Alive, ScanAddress
<1>1. TypeOK'
    BY DEF TypeOK, PCs
<1>2. LoadingInv'
    BY DEF TypeOK, LoadingInv, Fresh, Handshake
<1>3. OpenedInv'
    BY DEF TypeOK, LoadingInv, OpenedInv, Fresh, Handshake, Dialled
<1>4. ClosingInv'
    BY DEF TypeOK, LoadingInv, OpenedInv, ClosingInv, Ready, Closed, Fresh,
           ClientGone, Handshake, Dialled, Closing
<1> QED
    BY <1>1, <1>2, <1>3, <1>4

\* ExecClose preserves the invariant.
LEMMA ExecCloseSafe ==
    ASSUME SafeRun, SafeInv, NEW m \in Machines, ExecClose(m)
    PROVE  SafeInv'
<1> USE DEF SafeInv, SafeRun, SafeFaults, Alive, ExecClose
<1>1. TypeOK'
    BY DEF TypeOK, PCs
<1>2. LoadingInv'
    BY DEF TypeOK, LoadingInv, Fresh, Handshake
<1>3. OpenedInv'
    BY DEF TypeOK, LoadingInv, OpenedInv, Fresh, Handshake, Dialled
<1>4. ClosingInv'
    BY DEF TypeOK, LoadingInv, OpenedInv, ClosingInv, Ready, Closed, Fresh,
           ClientGone, Handshake, Dialled, Closing
<1> QED
    BY <1>1, <1>2, <1>3, <1>4

\* Beat preserves the invariant.
LEMMA BeatSafe ==
    ASSUME SafeRun, SafeInv, NEW m \in Machines, Beat(m)
    PROVE  SafeInv'
<1> USE DEF SafeInv, SafeRun, SafeFaults, Alive, Beat
<1>1. TypeOK'
    BY DEF TypeOK, PCs
<1>2. LoadingInv'
    BY DEF TypeOK, LoadingInv, Fresh, Handshake
<1>3. OpenedInv'
    BY DEF TypeOK, LoadingInv, OpenedInv, Fresh, Handshake, Dialled
<1>4. ClosingInv'
    BY DEF TypeOK, LoadingInv, OpenedInv, ClosingInv, Ready, Closed, Fresh,
           ClientGone, Handshake, Dialled, Closing
<1> QED
    BY <1>1, <1>2, <1>3, <1>4

\* BeatReturns preserves the invariant.
LEMMA BeatReturnsSafe ==
    ASSUME SafeRun, SafeInv, NEW m \in Machines, BeatReturns(m)
    PROVE  SafeInv'
<1> USE DEF SafeInv, SafeRun, SafeFaults, Alive, BeatReturns
<1>1. TypeOK'
    BY DEF TypeOK, PCs
<1>2. LoadingInv'
    BY DEF TypeOK, LoadingInv, Fresh, Handshake
<1>3. OpenedInv'
    BY DEF TypeOK, LoadingInv, OpenedInv, Fresh, Handshake, Dialled
<1>4. ClosingInv'
    BY DEF TypeOK, LoadingInv, OpenedInv, ClosingInv, Ready, Closed, Fresh,
           ClientGone, Handshake, Dialled, Closing
<1> QED
    BY <1>1, <1>2, <1>3, <1>4

\* Boot preserves the invariant.
LEMMA BootSafe ==
    ASSUME SafeRun, SafeInv, NEW m \in Machines, Boot(m)
    PROVE  SafeInv'
<1> USE DEF SafeInv, SafeRun, SafeFaults, Alive, Boot
<1>1. TypeOK'
    BY DEF TypeOK, PCs
<1>2. LoadingInv'
    BY DEF TypeOK, LoadingInv, Fresh, Handshake
<1>3. OpenedInv'
    BY DEF TypeOK, LoadingInv, OpenedInv, Fresh, Handshake, Dialled
<1>4. ClosingInv'
    BY DEF TypeOK, LoadingInv, OpenedInv, ClosingInv, Ready, Closed, Fresh,
           ClientGone, Handshake, Dialled, Closing
<1> QED
    BY <1>1, <1>2, <1>3, <1>4

\* ServerTimeout preserves the invariant.
LEMMA ServerTimeoutSafe ==
    ASSUME SafeRun, SafeInv, NEW m \in Machines, ServerTimeout(m)
    PROVE  SafeInv'
<1> USE DEF SafeInv, SafeRun, SafeFaults, Alive, ServerTimeout, NobodyBeats
<1>1. TypeOK'
    BY DEF TypeOK, PCs
<1>2. LoadingInv'
  <2>1. m \notin todo
    BY DEF TypeOK, LoadingInv, Fresh, Handshake, ClientGone
  <2>2. /\ UNCHANGED <<pc, cur, todo, loaded, serve, addrCh, hb>>
        /\ \A l \in Machines \ {m} : proc'[l] = proc[l]
    BY DEF TypeOK
  <2> QED
    BY <2>1, <2>2 DEF TypeOK, LoadingInv, Fresh, Handshake
<1>3. OpenedInv'
    BY DEF TypeOK, LoadingInv, OpenedInv, Fresh, Handshake, Dialled
<1>4. ClosingInv'
    BY DEF TypeOK, LoadingInv, OpenedInv, ClosingInv, Ready, Closed, Fresh,
           ClientGone, Handshake, Dialled, Closing
<1> QED
    BY <1>1, <1>2, <1>3, <1>4

\* Every step preserves the invariant.  No process crashes: "crash" is not
\* among the safe faults.
LEMMA NextSafeInv ==
    ASSUME SafeRun
    PROVE  SafeInv /\ [Next]_vars => SafeInv'
<1> SUFFICES ASSUME SafeInv, [Next]_vars
             PROVE  SafeInv'
    OBVIOUS
<1>1. CASE UNCHANGED vars
    BY <1>1 DEF vars, SafeInv, TypeOK, LoadingInv, OpenedInv, ClosingInv,
                Fresh, Ready, Closed, Alive, ClientGone
<1>2. CASE MainStep
    BY <1>2, NewPluginSafe, DialSafe, AddressArrivesSafe, AddressTimeoutSafe, GetVersionSafe,
       GetVersionV0Safe, SetConfigRawSafe, StartCommandSafe, CommandDoneSafe,
       SaveHostsSafe, CloseNextSafe, CloseSendSafe, CloseCallSafe,
       PluginCloseSafe
       DEF MainStep
<1>3. ASSUME NEW m \in Machines, Crash(m)
      PROVE  FALSE
    BY <1>3 DEF Crash, SafeRun, SafeFaults
<1>4. ASSUME NEW m \in Machines,
             \/ ServeCall(m) \/ CallReturns(m) \/ ExecStart(m) \/ ScanAddress(m)
             \/ ExecClose(m) \/ Beat(m) \/ BeatReturns(m) \/ Boot(m)
             \/ ServerTimeout(m)
      PROVE  SafeInv'
    BY <1>4, ServeCallSafe, CallReturnsSafe, ExecStartSafe, ScanAddressSafe, ExecCloseSafe,
       BeatSafe, BeatReturnsSafe, BootSafe, ServerTimeoutSafe
<1> QED
    BY <1>1, <1>2, <1>3, <1>4 DEF Next

\* What may go wrong is fixed when the run begins.
LEMMA FaultsStay == [Next]_vars => faults' = faults
<1> SUFFICES ASSUME [Next]_vars
             PROVE  faults' = faults
    OBVIOUS
<1>1. CASE UNCHANGED vars
    BY <1>1 DEF vars
<1>2. CASE MainStep
    BY <1>2 DEF MainStep, NewPlugin, AddressArrives, AddressTimeout, Dial,
                GetVersion, GetVersionV0, SetConfigRaw, StartCommand,
                CommandDone, SaveHosts, CloseNext, CloseSend, CloseCall,
                PluginClose
<1>3. ASSUME NEW m \in Machines,
             \/ ServeCall(m) \/ CallReturns(m) \/ ExecStart(m) \/ ScanAddress(m)
             \/ ExecClose(m) \/ Beat(m) \/ BeatReturns(m) \/ Boot(m)
             \/ ServerTimeout(m) \/ Crash(m)
      PROVE  faults' = faults
    BY <1>3 DEF ServeCall, CallReturns, ExecStart, ScanAddress, ExecClose, Beat,
                BeatReturns, Boot, ServerTimeout, Crash
<1> QED
    BY <1>1, <1>2, <1>3 DEF Next

\* For any set of machines, in every state of a run with safe faults: main,
\* openedDrivers, goroutines and processes agree (client_driver.go:106-224).
THEOREM SafeInvariant == Spec => []RpcInv
<1>1. Init => RpcInv
    BY InitSafeInv DEF RpcInv
<1>2. RpcInv /\ [Next]_vars => RpcInv'
    BY NextSafeInv, FaultsStay DEF RpcInv, SafeRun
<1> QED
    BY <1>1, <1>2, PTL DEF Spec

\* However many machines, and whichever of them fail to load in a safe way:
\* close() never blocks for want of a receiver and never meets a nil plugin
\* (client_driver.go:209-224).
THEOREM CloseAlwaysHasReceiver == Spec => []CloseCanFinish
<1>1. RpcInv => CloseCanFinish
  <2> SUFFICES ASSUME SafeInv
               PROVE  CloseCanFinish
    BY DEF RpcInv, CloseCanFinish
  <2>1. ASSUME pc = "closeSend"
        PROVE  hb[cur] \in {"select", "calling"}
    <3>1. k \in 1..Len(opened) /\ cur = opened[k]
      BY <2>1 DEF SafeInv, TypeOK, ClosingInv
    <3>2. Ready(opened[k])
      BY <2>1, <3>1 DEF SafeInv, TypeOK, ClosingInv, ClientGone, Dialled
    <3> QED
      BY <3>1, <3>2 DEF Ready
  <2>2. ASSUME pc = "pluginClose"
        PROVE  loaded[cur] = "ok" /\ serve[cur] = "stream"
    BY <2>2 DEF SafeInv, ClosingInv
  <2> QED
    BY <2>1, <2>2 DEF CloseCanFinish
<1> QED
    BY <1>1, SafeInvariant, PTL

\* A client that ends through api.Close() has stopped every server it opened
\* (client_driver.go:106-119).
THEOREM CleanExitLeavesNoServer == Spec => []CleanExitClosesServers
<1>1. RpcInv => CleanExitClosesServers
    BY DEF RpcInv, SafeInv, TypeOK, LoadingInv, OpenedInv, ClosingInv,
           Handshake, CleanExitClosesServers, Alive
<1> QED
    BY <1>1, SafeInvariant, PTL
-----------------------------------------------------------------------------
(* Every run, with any faults.                                             *)

\* The heartbeat goroutine of a connection has ended before its server is sent
\* Close, and no connection is opened from then on.
BeatInv ==
    /\ hb \in [Machines -> {"none", "select", "calling", "closing", "done"}]
    /\ cur \in Machines /\ opened \in Seq(Machines) /\ k \in Nat \ {0}
    /\ told \subseteq Machines
    /\ told # {} => pc \in Closing \cup {"exited", "panicked"}
    /\ pc = "closeCall" => hb[cur] = "done"
    /\ \A m \in told : hb[m] = "done"

LEMMA BeatStep == BeatInv /\ [Next]_vars => BeatInv'
<1> SUFFICES ASSUME BeatInv, [Next]_vars PROVE BeatInv'
    OBVIOUS
<1> USE DEF BeatInv, Closing
<1>1. ASSUME NEW m \in Machines, NewPlugin(m) PROVE BeatInv'
    BY <1>1 DEF NewPlugin, Return
<1>2. CASE AddressArrives \/ AddressTimeout \/ Dial \/ SetConfigRaw
    BY <1>2 DEF AddressArrives, AddressTimeout, Dial, SetConfigRaw, Return
<1>3. CASE GetVersion \/ GetVersionV0
    BY <1>3 DEF GetVersion, GetVersionV0, VersionAgrees, VersionDiffers, Return
<1>4. CASE StartCommand \/ CommandDone \/ SaveHosts
    BY <1>4 DEF StartCommand, CommandDone, SaveHosts
<1>5. CASE CloseNext \/ CloseSend
  <2>1. CASE CloseNext
    <3>1. k <= Len(opened) => opened[k] \in Machines
      OBVIOUS
    <3>2. cur' \in Machines /\ (opened' = opened \/ opened' = << >>)
      BY <2>1, <3>1 DEF CloseNext
    <3>0. << >> \in Seq(Machines)
      OBVIOUS
    <3>3. opened' \in Seq(Machines)
      BY <3>0, <3>2, Zenon
    <3> QED
      BY <2>1, <3>2, <3>3 DEF CloseNext
  <2>2. CASE CloseSend
    <3>1. hb' \in [Machines -> {"none", "select", "calling", "closing", "done"}]
      BY <2>2 DEF CloseSend
    <3>2. hb'[cur] = "done" /\ \A m \in told : hb'[m] = "done"
      BY <2>2 DEF CloseSend
    <3> QED
      BY <2>2, <3>1, <3>2 DEF CloseSend
  <2> QED
    BY <1>5, <2>1, <2>2
<1>6. CASE CloseCall \/ PluginClose
    BY <1>6 DEF CloseCall, PluginClose
<1>7. ASSUME NEW m \in Machines, Beat(m) \/ BeatReturns(m) PROVE BeatInv'
  <2>1. hb' \in [Machines -> {"none", "select", "calling", "closing", "done"}]
    BY <1>7 DEF Beat, BeatReturns
  <2>2. hb[m] # "done" /\ \A n \in Machines \ {m} : hb'[n] = hb[n]
    BY <1>7 DEF Beat, BeatReturns
  <2>3. UNCHANGED <<cur, opened, k, told, pc>>
    BY <1>7 DEF Beat, BeatReturns
  <2> QED
    BY <2>1, <2>2, <2>3
<1>8. ASSUME NEW m \in Machines,
             \/ ServeCall(m) \/ CallReturns(m) \/ ExecStart(m) \/ ScanAddress(m)
             \/ ExecClose(m) \/ Boot(m) \/ ServerTimeout(m) \/ Crash(m)
      PROVE  BeatInv'
    BY <1>8 DEF ServeCall, CallReturns, ExecStart, ScanAddress, ExecClose, Boot,
                ServerTimeout, Crash
<1>9. CASE UNCHANGED vars
    BY <1>9 DEF vars
<1> QED
    BY <1>1, <1>2, <1>3, <1>4, <1>5, <1>6, <1>7, <1>8, <1>9 DEF Next, MainStep

\* Whatever goes wrong, and for any number of machines: no heartbeat is made or
\* pending on a connection whose server was sent Close (client_driver.go:176-185
\* against 210).
THEOREM HeartbeatEndsBeforeClose == Spec => []NoHeartbeatAfterClose
<1>1. Init => BeatInv
    BY DEF Init, BeatInv
<1>2. BeatInv => NoHeartbeatAfterClose
    BY DEF BeatInv, NoHeartbeatAfterClose
<1> QED
    BY <1>1, <1>2, BeatStep, PTL DEF Spec
=============================================================================
