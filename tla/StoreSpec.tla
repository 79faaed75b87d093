----------------------------- MODULE StoreSpec -----------------------------
(***************************************************************************)
(* What the commands of podman-machine rely on of persist.Store: a map     *)
(* from machine names to configurations.  A Save takes effect in one step  *)
(* between its call and its return; a Remove erases between the two,       *)
(* perhaps also what is saved meanwhile; and a Load of a machine that      *)
(* exists fails only while one of them is under way.                       *)
(***************************************************************************)
EXTENDS Naturals

CONSTANTS Machines, Writers, Readers, Removers, MaxOps

Procs == Writers \cup Readers \cup Removers

\* The machine has no configuration: a number no Save has.
None == MaxOps + 1

\* A process is idle, or in a call on machine m: "saving" until its
\* configuration, number i, is in effect, then "saved"; or "removing".
Idle == [phase |-> "idle"]
Call(ph, m, i) == [phase |-> ph, m |-> m, i |-> i]

VARIABLES
    store,      \* store[m]: number of the Save that is in effect, or None
    call,       \* call[p]: Idle, or the call p is in
    answer,     \* answer[p]: number its last Load returned, None for an error
    acked       \* acked[m]: the last Save of m that returned nil, or 0

vars == <<store, call, answer, acked>>

Init ==
    /\ store \in [Machines -> {0, None}]
    /\ call = [p \in Procs |-> Idle]
    /\ answer = [p \in Procs |-> None]
    /\ acked = [m \in Machines |-> 0]

BeginSave(p, m, i) ==
    /\ p \in Writers
    /\ call[p] = Idle
    /\ call' = [call EXCEPT ![p] = Call("saving", m, i)]
    /\ UNCHANGED <<store, answer, acked>>

\* A Save whose temporary file a Remove has taken removes the old
\* configuration and installs nothing.
Install(p) ==
    /\ call[p].phase = "saving"
    /\ call' = [call EXCEPT ![p].phase = "saved"]
    /\ \/ store' = [store EXCEPT ![call[p].m] = call[p].i]
       \/ /\ \E q \in Procs : call[q] = Call("removing", call[p].m, 0)
          /\ store' = [store EXCEPT ![call[p].m] = None]
    /\ UNCHANGED <<answer, acked>>

ReturnNil(p) ==
    /\ call[p].phase = "saved"
    /\ call' = [call EXCEPT ![p] = Idle]
    /\ acked' = [acked EXCEPT ![call[p].m] = call[p].i]
    /\ UNCHANGED <<store, answer>>

\* Save returns an error only if its configuration is not in effect.
ReturnError(p) ==
    /\ call[p].phase \in {"saving", "saved"}
    /\ store[call[p].m] # call[p].i
    /\ call' = [call EXCEPT ![p] = Idle]
    /\ \/ UNCHANGED acked
       \/ acked' = [acked EXCEPT ![call[p].m] = 0]
    /\ UNCHANGED <<store, answer>>

BeginRemove(p, m) ==
    /\ p \in Removers
    /\ call[p] = Idle
    /\ call' = [call EXCEPT ![p] = Call("removing", m, 0)]
    /\ acked' = [acked EXCEPT ![m] = 0]
    /\ UNCHANGED <<store, answer>>

\* The configuration in effect goes, or a Save's that was to replace it.
Erase(p) ==
    /\ call[p].phase = "removing"
    /\ \/ store' = [store EXCEPT ![call[p].m] = None]
       \/ UNCHANGED store
    /\ acked' = [acked EXCEPT ![call[p].m] = 0]
    /\ UNCHANGED <<call, answer>>

EndRemove(p) ==
    /\ call[p].phase = "removing"
    /\ call' = [call EXCEPT ![p] = Idle]
    /\ UNCHANGED <<store, answer, acked>>

Busy(m) == \E q \in Procs : call[q] # Idle /\ call[q].m = m

Load(p, m) ==
    /\ p \in Readers
    /\ call[p] = Idle
    /\ \/ store[m] # None /\ answer' = [answer EXCEPT ![p] = store[m]]
       \/ /\ store[m] = None \/ Busy(m)
          /\ answer' = [answer EXCEPT ![p] = None]
    /\ UNCHANGED <<store, call, acked>>

Next ==
    \E p \in Procs :
       \/ \E m \in Machines :
             \/ \E i \in 1..MaxOps : BeginSave(p, m, i)
             \/ BeginRemove(p, m)
             \/ Load(p, m)
       \/ Install(p) \/ ReturnNil(p) \/ ReturnError(p)
       \/ Erase(p) \/ EndRemove(p)

Spec == Init /\ [][Next]_vars
=============================================================================
