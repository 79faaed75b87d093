----------------------- MODULE MachineLifecycle_proofs -----------------------
(***************************************************************************)
(* LifecycleInv, PortNeverStale, RmWorks and SuccessIsReal for any         *)
(* machines, processes, ports and faults and any number of commands,       *)
(* provided that create is not one of the commands given in a race: a rm   *)
(* that overtakes a create between its Save and its createvm would leave   *)
(* the machine without an entry.  SuccessIsReal also asks that rm -f is    *)
(* not raced, since the command it races with may save the entry again.    *)
(***************************************************************************)
EXTENDS MachineLifecycle, SequenceTheorems, TLAPS

Acts == {"start", "stop", "kill", "restart", "upgrade"}
Rms == {"rm", "rmforce"}

\* Steps that neither make nor remove a machine or an entry that is there.
Plain == Steps \ {"exists", "precheck", "load", "disk", "createvm", "d_remove",
                  "unregister", "local"}

\* What create still has to do until the machine is made.
C6 == <<"createvm", "setupvm", "d_start", "save", "w_running", "provision", "save">>
C5 == <<"disk", "createvm", "setupvm", "d_start", "save", "w_running", "provision", "save">>
C4 == <<"iso", "disk", "createvm", "setupvm", "d_start", "save", "w_running", "provision",
        "save">>
C3 == <<"save", "iso", "disk", "createvm", "setupvm", "d_start", "save", "w_running",
        "provision", "save">>
C2 == <<"precheck", "save", "iso", "disk", "createvm", "setupvm", "d_start", "save",
        "w_running", "provision", "save">>
C1 == <<"exists", "precheck", "save", "iso", "disk", "createvm", "setupvm", "d_start",
        "save", "w_running", "provision", "save">>
CreateTodos == {C1, C2, C3, C4, C5, C6}

\* What rm has to do.
R1 == <<"load", "d_remove", "local">>
R2 == <<"d_remove", "local">>
R3 == <<"unregister", "local">>
R4 == <<"poweroff", "unregister", "local">>
R5 == <<"local">>
RmTodos == {R1, R2, R3, R4, R5, << >>}

\* The steps p has left fit the command it runs.
Shape(p) ==
    /\ cmd[p] = "idle" => todo[p] = << >>
    /\ \/ cmd[p] \notin Rms /\ todo[p] \in Seq(Plain)
       \/ cmd[p] \in Acts /\ At(p, "load") /\ Tail(todo[p]) \in Seq(Plain)
       \/ cmd[p] = "create" /\ todo[p] \in CreateTodos
       \/ cmd[p] \in Rms /\ todo[p] \in RmTodos

\* What p has made sure of: the entry is there before createvm, and the machine
\* is gone before its entry is removed.
Promise(p) ==
    /\ cmd[p] \in Rms /\ todo[p] = R5 => VM(p).state = "absent" \/ mach[p] \in forced
    /\ cmd[p] = "create" /\ todo[p] \in {C4, C5, C6} => entry[mach[p]].there
    /\ "race" \notin faults /\ cmd[p] = "rm" =>
          /\ todo[p] \in {R2, R3, R4, R5} => entry[mach[p]].there
          /\ todo[p] = R3 => VM(p).state \in {"poweroff", "saved"}
          /\ todo[p] = R4 => VM(p).state # "absent"

\* One process runs, or several race for a machine that none of them creates.
RunOf(p) ==
    /\ "race" \notin faults /\ p # Lone => cmd[p] = "idle" /\ port[p] = 0
    /\ "race" \in faults => cmd[p] # "create" /\ \A q \in Procs : mach[q] = mach[p]

\* The ports that VirtualBox, the store and the processes know of a machine are
\* the same, where they know one; and who changes it knows what the store has.
EntryPort(m) ==
    /\ ~entry[m].there => entry[m].port = 0
    /\ "race" \in faults /\ entry[m].there => entry[m].port # 0
    /\ vm[m].port # 0 /\ entry[m].port # 0 => vm[m].port = entry[m].port
PortOf(p) ==
    /\ port[p] # 0 => /\ vm[mach[p]].port \in {0, port[p]}
                      /\ entry[mach[p]].port \in {0, port[p]}
                      /\ \A q \in Procs : port[q] \in {0, port[p]}
    /\ cmd[p] \in Acts \cup {"create"} /\ ~At(p, "load") /\ ~At(p, "exists") =>
          IF "race" \in faults THEN port[p] # 0
          ELSE port[p] = 0 => entry[mach[p]].port = 0

LifeInv ==
    /\ "create" \notin Racing /\ LifecycleInv
    /\ \A p \in Procs : Shape(p) /\ Promise(p) /\ RunOf(p) /\ PortOf(p)
    /\ \A m \in Machines : EntryPort(m)
-----------------------------------------------------------------------------
(* Sequences of steps.                                                     *)

LEMMA Tails ==
    /\ Tail(C1) = C2 /\ Tail(C2) = C3 /\ Tail(C3) = C4 /\ Tail(C4) = C5 /\ Tail(C5) = C6
    /\ Tail(R1) = R2 /\ Tail(R2) = R5 /\ Tail(R3) = R5 /\ Tail(R4) = R3 /\ Tail(R5) = << >>
BY DEF C1, C2, C3, C4, C5, C6, R1, R2, R3, R4, R5

LEMMA Heads ==
    /\ Head(C1) = "exists" /\ Head(C2) = "precheck" /\ Head(C3) = "save" /\ Head(C4) = "iso"
    /\ Head(C5) = "disk" /\ Head(C6) = "createvm"
    /\ Head(R1) = "load" /\ Head(R2) = "d_remove" /\ Head(R3) = "unregister"
    /\ Head(R4) = "poweroff" /\ Head(R5) = "local"
    /\ \A t \in CreateTodos \cup {R1, R2, R3, R4, R5} : t # << >>
BY DEF CreateTodos, C1, C2, C3, C4, C5, C6, R1, R2, R3, R4, R5

LEMMA PlainTail == Tail(C6) \in Seq(Plain)
BY DEF C6, Plain, Steps

LEMMA TodosTyped == \A t \in CreateTodos \cup RmTodos : t \in Seq(Steps)
<1>1. C6 \in Seq(Steps) /\ C5 \in Seq(Steps) /\ C4 \in Seq(Steps)
  BY DEF C4, C5, C6, Steps
<1>2. C3 \in Seq(Steps) /\ C2 \in Seq(Steps) /\ C1 \in Seq(Steps)
  BY DEF C3, C2, C1, Steps
<1>3. R1 \in Seq(Steps) /\ R2 \in Seq(Steps) /\ R3 \in Seq(Steps)
  BY DEF R1, R2, R3, Steps
<1>4. R4 \in Seq(Steps) /\ R5 \in Seq(Steps) /\ << >> \in Seq(Steps)
  BY DEF R4, R5, Steps
<1> QED BY <1>1, <1>2, <1>3, <1>4 DEF CreateTodos, RmTodos

LEMMA JoinedIs ==
    ASSUME NEW S, NEW s \in Seq(S), NEW t \in Seq(S), NEW u \in Seq(S),
           Len(u) = Len(s) + Len(t), \A i \in 1..Len(s) : u[i] = s[i],
           \A i \in (Len(s) + 1)..(Len(s) + Len(t)) : u[i] = t[i - Len(s)]
    PROVE  s \o t = u
<1>1. /\ s \o t \in Seq(S) /\ Len(s \o t) = Len(s) + Len(t)
      /\ \A i \in 1..(Len(s) + Len(t)) :
            (s \o t)[i] = IF i <= Len(s) THEN s[i] ELSE t[i - Len(s)]
  BY ConcatProperties
<1>2. \A i \in 1..Len(s \o t) : (s \o t)[i] = u[i]
  BY <1>1
<1>3. Len(s \o t) = Len(u)
  BY <1>1
<1> HIDE <1>1
<1> QED BY <1>1, <1>2, <1>3, SeqEqual

LEMMA Joined ==
    /\ <<"unregister">> \o R5 = R3
    /\ <<"poweroff", "unregister">> \o R5 = R4
<1> DEFINE a == <<"unregister">>
           b == <<"poweroff", "unregister">>
<1>1. /\ a \in Seq(Steps) /\ b \in Seq(Steps)
      /\ R5 \in Seq(Steps) /\ R3 \in Seq(Steps) /\ R4 \in Seq(Steps)
  <2>1. a \in Seq(Steps) /\ b \in Seq(Steps)
    BY DEF Steps
  <2> QED BY <2>1, TodosTyped DEF RmTodos
<1>2. Len(a) = 1 /\ Len(b) = 2 /\ Len(R5) = 1 /\ Len(R3) = 2 /\ Len(R4) = 3
  BY DEF R3, R4, R5
<1>3. /\ a[1] = "unregister" /\ b[1] = "poweroff" /\ b[2] = "unregister" /\ R5[1] = "local"
      /\ R3[1] = "unregister" /\ R3[2] = "local"
      /\ R4[1] = "poweroff" /\ R4[2] = "unregister" /\ R4[3] = "local"
  BY DEF R3, R4, R5
<1> HIDE DEF a, b
<1>4. a \o R5 = R3
  <2>1. \A i \in 1..Len(a) : R3[i] = a[i]
    BY <1>2, <1>3
  <2>2. \A i \in (Len(a) + 1)..(Len(a) + Len(R5)) : R3[i] = R5[i - Len(a)]
    BY <1>2, <1>3
  <2>3. Len(R3) = Len(a) + Len(R5)
    BY <1>2
  <2> QED BY <1>1, <2>1, <2>2, <2>3, JoinedIs
<1>5. b \o R5 = R4
  <2>1. \A i \in 1..Len(b) : R4[i] = b[i]
    BY <1>2, <1>3
  <2>2. \A i \in (Len(b) + 1)..(Len(b) + Len(R5)) : R4[i] = R5[i - Len(b)]
    BY <1>2, <1>3
  <2>3. Len(R4) = Len(b) + Len(R5)
    BY <1>2
  <2> QED BY <1>1, <2>1, <2>2, <2>3, JoinedIs
<1> QED BY <1>4, <1>5 DEF a, b

LEMMA SeqSteps ==
    ASSUME NEW S, NEW s \in Seq(S), NEW more \in Seq(S), s # << >>
    PROVE  /\ Tail(s) \in Seq(S) /\ Head(s) \in S /\ more \o Tail(s) \in Seq(S)
           /\ << >> \o Tail(s) = Tail(s)
OBVIOUS

LEMMA PlainSteps == Seq(Plain) \subseteq Seq(Steps)
BY DEF Plain

LEMMA PlainNot ==
    ASSUME NEW s \in Seq(Plain), s # << >>
    PROVE  Head(s) \notin {"exists", "precheck", "load", "disk", "createvm", "d_remove",
                           "unregister", "local"}
BY DEF Plain

LEMMA NotPlain == \A t \in {C4, C5, C6} : t \notin Seq(Plain)
<1>1. C5 \notin Seq(Plain) /\ C6 \notin Seq(Plain)
  BY PlainNot, Heads DEF CreateTodos
<1>2. C4 # << >> /\ Tail(C4) = C5
  BY Tails, Heads DEF CreateTodos
<1>3. C4 \notin Seq(Plain)
  BY <1>1, <1>2, SeqSteps
<1> QED BY <1>1, <1>3

\* What p is doing, from the step that comes next.
LEMMA HeadShape ==
    ASSUME NEW p \in Procs, Shape(p), todo[p] # << >>
    PROVE  LET h == Head(todo[p]) IN
           /\ cmd[p] # "idle"
           /\ h = "exists" => cmd[p] = "create" /\ todo[p] = C1
           /\ h = "precheck" => cmd[p] = "create" /\ todo[p] = C2
           /\ h = "disk" => cmd[p] = "create" /\ todo[p] = C5
           /\ h = "createvm" => cmd[p] = "create" /\ todo[p] = C6
           /\ h = "load" => \/ cmd[p] \in Acts /\ Tail(todo[p]) \in Seq(Plain)
                            \/ cmd[p] \in Rms /\ todo[p] = R1
           /\ h = "d_remove" => cmd[p] \in Rms /\ todo[p] = R2
           /\ h = "unregister" => cmd[p] \in Rms /\ todo[p] = R3
           /\ h = "local" => cmd[p] \in Rms /\ todo[p] = R5
           /\ h = "save" => \/ cmd[p] \notin Rms /\ todo[p] \in Seq(Plain)
                            \/ cmd[p] = "create" /\ todo[p] = C3
           /\ h = "iso" => \/ cmd[p] \notin Rms /\ todo[p] \in Seq(Plain)
                           \/ cmd[p] = "create" /\ todo[p] = C4
           /\ h = "poweroff" => \/ cmd[p] \notin Rms /\ todo[p] \in Seq(Plain)
                                \/ cmd[p] \in Rms /\ todo[p] = R4
           /\ h \notin {"exists", "precheck", "load", "disk", "createvm", "d_remove",
                        "unregister", "local", "save", "iso", "poweroff"}
                 => cmd[p] \notin Rms /\ todo[p] \in Seq(Plain)
<1>0. cmd[p] # "idle"
  BY DEF Shape
<1>1. CASE cmd[p] \notin Rms /\ todo[p] \in Seq(Plain)
  BY <1>0, <1>1, PlainNot
<1>2. CASE cmd[p] \in Acts /\ At(p, "load") /\ Tail(todo[p]) \in Seq(Plain)
  BY <1>0, <1>2 DEF At
<1>3. CASE cmd[p] = "create" /\ todo[p] \in CreateTodos
  BY <1>0, <1>3, Heads DEF CreateTodos
<1>4. CASE cmd[p] \in Rms /\ todo[p] \in RmTodos
  BY <1>0, <1>4, Heads DEF RmTodos
<1> QED BY <1>1, <1>2, <1>3, <1>4 DEF Shape
-----------------------------------------------------------------------------
(* How a command goes on, and how it ends.                                 *)

LEMMA GoDoes ==
    ASSUME TypeOK, NEW p \in Procs, todo[p] # << >>, NEW more \in Seq(Steps), Go(p, more)
    PROVE  /\ todo' \in [Procs -> Seq(Steps)] /\ todo'[p] = more \o Tail(todo[p])
           /\ \A q \in Procs \ {p} : todo'[q] = todo[q]
           /\ UNCHANGED <<cmd, mach, outcome, given, forced, faults>>
<1>1. todo[p] \in Seq(Steps) /\ todo \in [Procs -> Seq(Steps)]
  BY DEF TypeOK
<1>2. more \o Tail(todo[p]) \in Seq(Steps)
  BY <1>1, SeqSteps
<1> QED BY <1>1, <1>2 DEF Go

LEMMA FailDoes ==
    ASSUME TypeOK, NEW p \in Procs, Fail(p, "failed")
    PROVE  /\ todo' \in [Procs -> Seq(Steps)] /\ cmd' \in [Procs -> AllCommands \cup {"idle"}]
           /\ outcome' \in [Procs -> {"none", "ok", "failed", "killed"}]
           /\ forced' \subseteq Machines /\ forced \subseteq forced'
           /\ UNCHANGED <<mach, given, faults>>
           /\ \A q \in Procs \ {p} : todo'[q] = todo[q] /\ cmd'[q] = cmd[q]
           /\ \/ cmd'[p] = "idle" /\ todo'[p] = << >>
              \/ /\ cmd[p] = "rmforce" /\ cmd'[p] = "rmforce" /\ todo'[p] = R5
                 /\ mach[p] \in forced'
<1>1. R5 \in Seq(Steps) /\ << >> \in Seq(Steps)
  BY TodosTyped DEF RmTodos
<1>2. /\ todo \in [Procs -> Seq(Steps)] /\ cmd \in [Procs -> AllCommands \cup {"idle"}]
      /\ outcome \in [Procs -> {"none", "ok", "failed", "killed"}]
      /\ forced \subseteq Machines /\ mach[p] \in Machines
  BY DEF TypeOK
<1>3. CASE /\ cmd[p] = "rmforce" /\ todo' = [todo EXCEPT ![p] = R5]
           /\ forced' = forced \cup {mach[p]} /\ UNCHANGED <<cmd, outcome, mach, given, faults>>
  BY <1>1, <1>2, <1>3
<1>4. CASE /\ todo' = [todo EXCEPT ![p] = << >>]
           /\ cmd' = [cmd EXCEPT ![p] = "idle"]
           /\ outcome' = [outcome EXCEPT ![p] = IF cmd[p] = "rmforce" THEN "ok" ELSE "failed"]
           /\ UNCHANGED <<forced, mach, given, faults>>
  BY <1>1, <1>2, <1>4
<1> QED BY <1>3, <1>4 DEF Fail, R5

\* Where a process other than p runs, there is a race.
LEMMA OtherRuns ==
    ASSUME LifeInv, NEW p \in Procs, NEW q \in Procs \ {p}, cmd[p] # "idle"
    PROVE  /\ "race" \notin faults => cmd[q] = "idle" /\ port[q] = 0
           /\ "race" \in faults => cmd[q] # "create" /\ cmd[p] # "create" /\ mach[q] = mach[p]
BY DEF LifeInv, RunOf

\* The step of p keeps what the others rely on.
LEMMA Frame ==
    ASSUME LifeInv, TypeOK', NEW p \in Procs, cmd[p] # "idle", mach' = mach, faults' = faults,
           forced \subseteq forced', cmd'[p] \in {cmd[p], "idle"},
           \A q \in Procs \ {p} : cmd'[q] = cmd[q] /\ todo'[q] = todo[q] /\ port'[q] = port[q],
           NoOrphanVM', Shape(p)', Promise(p)', PortOf(p)', \A m \in Machines : EntryPort(m)',
           "race" \in faults =>
               /\ \A m \in Machines : vm[m].state = "absent" => vm'[m].state = "absent"
               /\ \A q \in Procs \ {p} : PortOf(q)'
    PROVE  LifeInv'
<1>0. TypeOK
  BY DEF LifeInv, LifecycleInv
<1>1. ASSUME NEW q \in Procs \ {p} PROVE Shape(q)' /\ Promise(q)' /\ RunOf(q)' /\ PortOf(q)'
  <2>1. Shape(q)'
    BY DEF LifeInv, Shape, At
  <2>2. mach[q] \in Machines
    BY <1>0 DEF TypeOK
  <2>3. CASE "race" \notin faults
    <3>1. cmd[q] = "idle" /\ port[q] = 0
      BY <2>3, OtherRuns
    <3>2. Promise(q)'
      BY <3>1 DEF Promise, Rms
    <3>3. PortOf(q)'
      BY <3>1 DEF PortOf, Acts
    <3>4. RunOf(q)'
      BY <2>3, <3>1 DEF RunOf
    <3> QED BY <2>1, <3>2, <3>3, <3>4
  <2>4. CASE "race" \in faults
    <3>1. cmd[q] # "create"
      BY <2>4, OtherRuns
    <3>2. Promise(q)'
      BY <2>2, <2>4, <3>1 DEF LifeInv, Promise, VM
    <3>3. RunOf(q)'
      BY <2>4, <3>1 DEF LifeInv, RunOf
    <3> QED BY <2>1, <2>4, <3>2, <3>3
  <2> QED BY <2>3, <2>4
<1>2. RunOf(p)'
  BY DEF LifeInv, RunOf
<1> QED BY <1>1, <1>2 DEF LifeInv, LifecycleInv

\* Steps that change no port.
LEMMA PortsSame ==
    ASSUME LifeInv, faults' = faults, entry' = entry, port' = port, mach' = mach,
           \A m \in Machines : vm'[m].port \in {0, vm[m].port}
    PROVE  /\ \A m \in Machines : EntryPort(m)'
           /\ \A q \in Procs : cmd'[q] = cmd[q] /\ todo'[q] = todo[q] => PortOf(q)'
           /\ \A q \in Procs : cmd'[q] \notin Acts \cup {"create"} => PortOf(q)'
           /\ \A q \in Procs : cmd'[q] = cmd[q] /\ ~At(q, "load") /\ ~At(q, "exists") => PortOf(q)'
<1>0. \A q \in Procs : mach[q] \in Machines
  BY DEF LifeInv, LifecycleInv, TypeOK
<1>1. \A m \in Machines : EntryPort(m)'
  BY DEF LifeInv, EntryPort
<1>2. \A q \in Procs : port'[q] # 0 => /\ vm'[mach'[q]].port \in {0, port'[q]}
                                       /\ entry'[mach'[q]].port \in {0, port'[q]}
                                       /\ \A r \in Procs : port'[r] \in {0, port'[q]}
  BY <1>0 DEF LifeInv, PortOf
<1>3. \A q \in Procs : cmd'[q] = cmd[q] /\ todo'[q] = todo[q] => PortOf(q)'
  BY <1>2 DEF LifeInv, PortOf, At
<1>4. \A q \in Procs : cmd'[q] \notin Acts \cup {"create"} => PortOf(q)'
  BY <1>2 DEF PortOf
<1>5. \A q \in Procs : cmd'[q] = cmd[q] /\ ~At(q, "load") /\ ~At(q, "exists") => PortOf(q)'
  BY <1>2 DEF LifeInv, PortOf
<1> QED BY <1>1, <1>3, <1>4, <1>5

\* The command of p fails.
LEMMA FailStep ==
    ASSUME LifeInv, NEW p \in Procs, todo[p] # << >>, Fail(p, "failed"),
           vm' \in [Machines -> [state : VMStates, port : Ports \cup {0}, button : BOOLEAN]],
           \A m \in Machines : vm'[m].port \in {0, vm[m].port} /\ vm'[m].state = vm[m].state,
           entry' = entry, port' = port
    PROVE  LifeInv'
<1>0. TypeOK /\ Shape(p) /\ cmd[p] # "idle"
  BY HeadShape DEF LifeInv, LifecycleInv
<1>1. /\ todo' \in [Procs -> Seq(Steps)] /\ cmd' \in [Procs -> AllCommands \cup {"idle"}]
      /\ outcome' \in [Procs -> {"none", "ok", "failed", "killed"}]
      /\ forced' \subseteq Machines /\ forced \subseteq forced'
      /\ UNCHANGED <<mach, given, faults>>
      /\ \A q \in Procs \ {p} : todo'[q] = todo[q] /\ cmd'[q] = cmd[q]
      /\ \/ cmd'[p] = "idle" /\ todo'[p] = << >>
         \/ /\ cmd[p] = "rmforce" /\ cmd'[p] = "rmforce" /\ todo'[p] = R5
            /\ mach[p] \in forced'
  BY <1>0, FailDoes
<1>2. TypeOK'
  BY <1>0, <1>1 DEF TypeOK
<1>3. << >> \in Seq(Plain)
  OBVIOUS
<1>4. Shape(p)' /\ Promise(p)' /\ cmd'[p] \notin Acts \cup {"create"}
  <2>1. CASE cmd'[p] = "idle" /\ todo'[p] = << >>
    BY <1>3, <2>1 DEF Shape, Promise, Rms, Acts
  <2>2. CASE cmd'[p] = "rmforce" /\ todo'[p] = R5 /\ mach[p] \in forced'
    <3>1. Shape(p)'
      BY <2>2 DEF Shape, Rms, RmTodos
    <3> QED BY <1>1, <2>2, <3>1 DEF Promise, Rms, Acts
  <2> QED BY <1>1, <2>1, <2>2
<1>5. NoOrphanVM'
  BY <1>1 DEF LifeInv, LifecycleInv, NoOrphanVM
<1>6. (\A m \in Machines : EntryPort(m)') /\ (\A q \in Procs : PortOf(q)')
  BY <1>1, <1>4, PortsSame
<1> QED BY <1>0, <1>1, <1>2, <1>4, <1>5, <1>6, Frame

\* The command of p goes on with a step that makes and removes nothing.
LEMMA PlainStep ==
    ASSUME LifeInv, NEW p \in Procs, cmd[p] \notin Rms, todo[p] \in Seq(Plain), todo[p] # << >>,
           NEW more \in Seq(Plain), Go(p, more),
           vm' \in [Machines -> [state : VMStates, port : Ports \cup {0}, button : BOOLEAN]],
           \A m \in Machines : /\ vm'[m].port = vm[m].port
                               /\ vm'[m].state = "absent" <=> vm[m].state = "absent",
           entry' = entry, port' = port
    PROVE  LifeInv'
<1>0. TypeOK /\ Shape(p) /\ cmd[p] # "idle"
  BY HeadShape DEF LifeInv, LifecycleInv
<1>1. more \in Seq(Steps)
  BY PlainSteps
<1>2. /\ todo' \in [Procs -> Seq(Steps)] /\ todo'[p] = more \o Tail(todo[p])
      /\ \A q \in Procs \ {p} : todo'[q] = todo[q]
      /\ UNCHANGED <<cmd, mach, outcome, given, forced, faults>>
  BY <1>0, <1>1, GoDoes
<1>3. TypeOK'
  BY <1>0, <1>2 DEF TypeOK
<1>4. todo'[p] \in Seq(Plain)
  BY <1>2, SeqSteps
<1>5. Shape(p)'
  BY <1>0, <1>2, <1>4 DEF Shape
<1>6. Promise(p)'
  <2>1. cmd'[p] # "rm"
    BY <1>2 DEF Rms
  <2> QED BY <1>2, <1>4, <2>1, NotPlain DEF Promise
<1>7. NoOrphanVM'
  BY <1>2 DEF LifeInv, LifecycleInv, NoOrphanVM
<1>8. ~At(p, "load") /\ ~At(p, "exists")
  BY PlainNot DEF At
<1>9. (\A m \in Machines : EntryPort(m)') /\ (\A q \in Procs : PortOf(q)')
  BY <1>2, <1>8, PortsSame
<1> QED BY <1>0, <1>2, <1>3, <1>5, <1>6, <1>7, <1>9, Frame
-----------------------------------------------------------------------------
(* The steps, one after the other.                                         *)

\* A step that looks, of those that many commands have.
LEMMA CheckStep ==
    ASSUME LifeInv, NEW p \in Procs, NEW s, NEW ok, NEW err, NEW more \in Seq(Plain),
           Check(p, s, ok, more, err),
           s \notin {"exists", "precheck", "load", "disk", "createvm", "d_remove",
                     "unregister", "local", "save", "iso", "poweroff"}
    PROVE  LifeInv'
<1>0. TypeOK /\ Shape(p)
  BY DEF LifeInv, LifecycleInv
<1>1. todo[p] # << >> /\ Head(todo[p]) = s /\ UNCHANGED <<vm, entry, port>>
  BY DEF Check, At
<1>2. cmd[p] \notin Rms /\ todo[p] \in Seq(Plain)
  BY <1>0, <1>1, HeadShape
<1>3. vm \in [Machines -> [state : VMStates, port : Ports \cup {0}, button : BOOLEAN]]
  BY <1>0 DEF TypeOK
<1>4. CASE Go(p, more)
  BY <1>1, <1>2, <1>3, <1>4, PlainStep
<1>5. CASE Fail(p, "failed")
  BY <1>1, <1>3, <1>5, FailStep
<1> QED BY <1>4, <1>5 DEF Check

LEMMA LookSteps ==
    ASSUME LifeInv, NEW p \in Procs,
           \/ AlreadyRunningStep(p) \/ AlreadyStoppedStep(p) \/ WaitRunningStep(p)
           \/ WaitStoppedStep(p) \/ ProvisionStep(p) \/ WaitForPodmanStep(p)
           \/ HostStartStep(p) \/ HostRestartStep(p) \/ HostUpgradeStep(p)
           \/ DriverStartStep(p) \/ VTXStep(p) \/ WaitIPStep(p) \/ NetCheckStep(p)
           \/ DriverStopStep(p) \/ StopLoopStep(p)
    PROVE  LifeInv'
<1>0. << >> \in Seq(Plain)
  OBVIOUS
<1>1. CASE \/ AlreadyRunningStep(p) \/ AlreadyStoppedStep(p) \/ WaitRunningStep(p)
           \/ WaitStoppedStep(p) \/ ProvisionStep(p) \/ WaitForPodmanStep(p)
  BY <1>0, <1>1, CheckStep DEF AlreadyRunningStep, AlreadyStoppedStep, WaitRunningStep,
     WaitStoppedStep, ProvisionStep, WaitForPodmanStep
<1>2. CASE VTXStep(p) \/ WaitIPStep(p) \/ StopLoopStep(p)
  BY <1>0, <1>2, CheckStep DEF VTXStep, WaitIPStep, StopLoopStep
<1>3. CASE HostStartStep(p)
  <2>1. <<"c_running", "d_start", "w_running", "w_podman">> \in Seq(Plain)
    BY DEF Plain, Steps
  <2> QED BY <1>3, <2>1, CheckStep DEF HostStartStep
<1>4. CASE HostRestartStep(p)
  <2>1. <<"h_start", "w_podman">> \in Seq(Plain) /\ <<"h_restart2">> \in Seq(Plain)
    BY DEF Plain, Steps
  <2>2. <<"d_stop", "d_start", "w_ip", "w_running", "w_podman">> \in Seq(Plain)
        /\ <<"w_podman">> \in Seq(Plain)
    BY DEF Plain, Steps
  <2> QED BY <1>4, <2>1, <2>2, CheckStep DEF HostRestartStep
<1>5. CASE HostUpgradeStep(p)
  <2>1. UpgradeIso \in Seq(Plain) /\ <<"h_start">> \in Seq(Plain)
    BY DEF UpgradeIso, Plain, Steps
  <2>2. <<"h_start">> \o UpgradeIso \in Seq(Plain)
    BY <2>1, ConcatProperties
  <2> QED BY <1>5, <2>1, <2>2, CheckStep DEF HostUpgradeStep
<1>6. CASE DriverStartStep(p)
  <2> DEFINE up == <<"setport", "startvm", "vtx", "w_ip">>
  <2>1. up \in Seq(Plain) /\ <<"setupnet">> \in Seq(Plain) /\ <<"netcheck">> \in Seq(Plain)
    BY DEF Plain, Steps
  <2>2. <<"resume", "vtx", "w_ip">> \in Seq(Plain) /\ <<"vtx", "w_ip">> \in Seq(Plain)
    BY DEF Plain, Steps
  <2> HIDE DEF up
  <2>3. <<"setupnet">> \o up \o <<"netcheck">> \in Seq(Plain)
    BY <2>1, ConcatProperties
  <2> QED BY <1>6, <2>1, <2>2, <2>3, CheckStep DEF DriverStartStep, up
<1>7. CASE NetCheckStep(p)
  <2>1. <<"d_stop", "fixnet", "startvm", "w_ip">> \in Seq(Plain)
    BY DEF Plain, Steps
  <2> QED BY <1>0, <1>7, <2>1, CheckStep DEF NetCheckStep
<1>8. CASE DriverStopStep(p)
  <2>1. <<"resume", "acpi", "stoploop">> \in Seq(Plain) /\ <<"acpi", "stoploop">> \in Seq(Plain)
    BY DEF Plain, Steps
  <2> QED BY <1>8, <2>1, CheckStep DEF DriverStopStep
<1> QED BY <1>1, <1>2, <1>3, <1>4, <1>5, <1>6, <1>7, <1>8

\* A VBoxManage call on a machine that is there and stays.
LEMMA VbmSteps ==
    ASSUME LifeInv, NEW p \in Procs,
           \/ SetupVMStep(p) \/ SetupNetStep(p) \/ FixNetStep(p) \/ StartVMStep(p)
           \/ ResumeStep(p) \/ AcpiStep(p)
    PROVE  LifeInv'
<1>0. TypeOK /\ Shape(p) /\ << >> \in Seq(Plain)
  BY DEF LifeInv, LifecycleInv
<1>1. /\ todo[p] # << >> /\ UNCHANGED <<entry, port>>
      /\ Head(todo[p]) \in {"setupvm", "setupnet", "fixnet", "startvm", "resume", "acpi"}
  BY DEF SetupVMStep, SetupNetStep, FixNetStep, StartVMStep, ResumeStep, AcpiStep, Vbm, At
<1>2. cmd[p] \notin Rms /\ todo[p] \in Seq(Plain)
  BY <1>0, <1>1, HeadShape
<1>3. vm \in [Machines -> [state : VMStates, port : Ports \cup {0}, button : BOOLEAN]]
      /\ mach[p] \in Machines
  BY <1>0 DEF TypeOK
<1>4. CASE Fail(p, "failed") /\ UNCHANGED vm
  BY <1>1, <1>3, <1>4, FailStep
<1>5. CASE Go(p, << >>) /\ UNCHANGED vm
  BY <1>0, <1>1, <1>2, <1>3, <1>5, PlainStep
<1>6. CASE Go(p, << >>) /\ VM(p).state # "absent" /\ SetState(p, "running")
  <2>1. /\ vm' \in [Machines -> [state : VMStates, port : Ports \cup {0}, button : BOOLEAN]]
        /\ \A m \in Machines : /\ vm'[m].port = vm[m].port
                               /\ vm'[m].state = "absent" <=> vm[m].state = "absent"
    BY <1>3, <1>6 DEF SetState, VM, VMStates
  <2> QED BY <1>0, <1>1, <1>2, <1>6, <2>1, PlainStep
<1>7. CASE Go(p, << >>) /\ vm' = [vm EXCEPT ![mach[p]].button = TRUE]
  <2>1. /\ vm' \in [Machines -> [state : VMStates, port : Ports \cup {0}, button : BOOLEAN]]
        /\ \A m \in Machines : /\ vm'[m].port = vm[m].port
                               /\ vm'[m].state = "absent" <=> vm[m].state = "absent"
    BY <1>3, <1>7
  <2> QED BY <1>0, <1>1, <1>2, <1>7, <2>1, PlainStep
<1> QED BY <1>4, <1>5, <1>6, <1>7
    DEF SetupVMStep, SetupNetStep, FixNetStep, StartVMStep, ResumeStep, AcpiStep, Vbm

\* A step of p that only looks, in a place of create or rm.
LEMMA QuietStep ==
    ASSUME LifeInv, NEW p \in Procs, todo[p] # << >>, NEW more \in Seq(Steps), Go(p, more),
           UNCHANGED <<vm, entry>>, \A q \in Procs \ {p} : port'[q] = port[q],
           port' \in [Procs -> Ports \cup {0}],
           Shape(p)', Promise(p)', PortOf(p)', "race" \in faults => \A q \in Procs \ {p} : PortOf(q)'
    PROVE  LifeInv'
<1>0. TypeOK /\ Shape(p) /\ cmd[p] # "idle"
  BY HeadShape DEF LifeInv, LifecycleInv
<1>1. /\ todo' \in [Procs -> Seq(Steps)]
      /\ \A q \in Procs \ {p} : todo'[q] = todo[q]
      /\ UNCHANGED <<cmd, mach, outcome, given, forced, faults>>
  BY <1>0, GoDoes
<1>2. TypeOK'
  BY <1>0, <1>1 DEF TypeOK
<1>3. NoOrphanVM'
  BY <1>1 DEF LifeInv, LifecycleInv, NoOrphanVM
<1>4. \A m \in Machines : EntryPort(m)'
  BY <1>1 DEF LifeInv, EntryPort
<1> QED BY <1>0, <1>1, <1>2, <1>3, <1>4, Frame

LEMMA CreateSteps ==
    ASSUME LifeInv, NEW p \in Procs,
           ExistsStep(p) \/ PreCreateStep(p) \/ DiskStep(p) \/ IsoStep(p)
    PROVE  LifeInv'
<1>0. TypeOK /\ Shape(p) /\ Promise(p) /\ PortOf(p) /\ << >> \in Seq(Steps) /\ << >> \in Seq(Plain)
  BY DEF LifeInv, LifecycleInv
<1>1. /\ todo[p] # << >> /\ UNCHANGED <<vm, entry, port>>
      /\ Head(todo[p]) \in {"exists", "precheck", "disk", "iso"}
      /\ \/ Fail(p, "failed")
         \/ Go(p, << >>) /\ (Head(todo[p]) = "exists" => ~entry[mach[p]].there)
  <2>1. CASE ExistsStep(p)
    BY <2>1 DEF ExistsStep, Check, At
  <2>2. CASE PreCreateStep(p) \/ DiskStep(p) \/ IsoStep(p)
    BY <2>2 DEF PreCreateStep, DiskStep, IsoStep, Check, At
  <2> QED BY <2>1, <2>2
<1>2. /\ vm \in [Machines -> [state : VMStates, port : Ports \cup {0}, button : BOOLEAN]]
      /\ mach[p] \in Machines /\ port \in [Procs -> Ports \cup {0}]
      /\ todo[p] \in Seq(Steps)
  BY <1>0 DEF TypeOK
<1>3. CASE Fail(p, "failed")
  BY <1>1, <1>2, <1>3, FailStep
<1>4. CASE Go(p, << >>) /\ todo[p] \in Seq(Plain) /\ cmd[p] \notin Rms
  BY <1>0, <1>1, <1>2, <1>4, PlainStep
<1>5. CASE /\ Go(p, << >>) /\ cmd[p] = "create" /\ todo[p] \in {C1, C2, C4, C5}
           /\ Head(todo[p]) = "exists" => ~entry[mach[p]].there
  <2>1. /\ todo'[p] = Tail(todo[p])
        /\ \A q \in Procs \ {p} : todo'[q] = todo[q]
        /\ UNCHANGED <<cmd, mach, outcome, given, forced, faults>>
    BY <1>0, <1>1, <1>2, <1>5, GoDoes, SeqSteps
  <2>2. /\ todo[p] = C1 => todo'[p] = C2
        /\ todo[p] = C2 => todo'[p] = C3
        /\ todo[p] = C4 => todo'[p] = C5
        /\ todo[p] = C5 => todo'[p] = C6
    BY <2>1, Tails
  <2>3. Shape(p)'
    BY <1>5, <2>1, <2>2 DEF Shape, CreateTodos
  <2>4. Promise(p)'
    <3>1. C2 \notin {C4, C5, C6} /\ C3 \notin {C4, C5, C6}
      BY Heads
    <3> QED BY <1>0, <1>1, <1>5, <2>1, <2>2, <3>1 DEF Promise, Rms
  <2>5. PortOf(p)'
    <3>1. CASE todo[p] = C1
      <4>1. entry[mach[p]].port = 0
        BY <1>2, <1>5, <3>1, Heads DEF LifeInv, EntryPort
      <4>2. "race" \notin faults
        BY <1>5 DEF LifeInv, RunOf
      <4> QED BY <1>0, <1>1, <2>1, <4>1, <4>2 DEF PortOf
    <3>2. CASE todo[p] # C1
      <4>1. ~At(p, "load") /\ ~At(p, "exists")
        BY <1>5, <3>2, Heads DEF At
      <4> QED BY <1>0, <1>1, <2>1, <4>1 DEF PortOf
    <3> QED BY <3>1, <3>2
  <2>6. "race" \notin faults
    BY <1>5 DEF LifeInv, RunOf
  <2> QED BY <1>0, <1>1, <1>2, <1>5, <2>3, <2>4, <2>5, <2>6, QuietStep
<1>6. \/ todo[p] \in Seq(Plain) /\ cmd[p] \notin Rms
      \/ cmd[p] = "create" /\ todo[p] \in {C1, C2, C4, C5}
  BY <1>0, <1>1, HeadShape
<1> QED BY <1>1, <1>3, <1>4, <1>5, <1>6

LEMMA LoadKeeps ==
    ASSUME LifeInv, NEW p \in Procs, LoadStep(p)
    PROVE  LifeInv'
<1>0. TypeOK /\ Shape(p) /\ Promise(p) /\ PortOf(p) /\ RunOf(p)
      /\ << >> \in Seq(Steps) /\ << >> \in Seq(Plain)
  BY DEF LifeInv, LifecycleInv
<1>1. todo[p] # << >> /\ Head(todo[p]) = "load" /\ UNCHANGED <<vm, entry>>
  BY DEF LoadStep, At
<1>2. /\ vm \in [Machines -> [state : VMStates, port : Ports \cup {0}, button : BOOLEAN]]
      /\ mach[p] \in Machines /\ port \in [Procs -> Ports \cup {0}]
      /\ todo[p] \in Seq(Steps) /\ entry[mach[p]].port \in Ports \cup {0}
  BY <1>0 DEF TypeOK
<1>3. CASE Fail(p, "failed") /\ UNCHANGED port
  BY <1>1, <1>2, <1>3, FailStep
<1>4. CASE /\ entry[mach[p]].there /\ Go(p, << >>)
           /\ port' = [port EXCEPT ![p] = entry[mach[p]].port]
  <2>1. /\ todo'[p] = Tail(todo[p])
        /\ \A q \in Procs \ {p} : todo'[q] = todo[q]
        /\ UNCHANGED <<cmd, mach, outcome, given, forced, faults>>
    BY <1>0, <1>1, <1>2, <1>4, GoDoes, SeqSteps
  <2>2. /\ port' \in [Procs -> Ports \cup {0}] /\ port'[p] = entry[mach[p]].port
        /\ \A q \in Procs \ {p} : port'[q] = port[q]
    BY <1>2, <1>4
  <2>3. \/ cmd[p] \in Acts /\ todo'[p] \in Seq(Plain)
        \/ cmd[p] \in Rms /\ todo'[p] = R2
    BY <1>0, <1>1, <2>1, HeadShape, Tails
  <2>4. Shape(p)'
    BY <2>1, <2>3 DEF Shape, Acts, Rms, RmTodos
  <2>5. Promise(p)'
    <3>1. R2 \notin {R3, R4, R5}
      BY Heads
    <3> QED BY <1>1, <1>4, <2>1, <2>3, <3>1 DEF Promise, Acts, Rms
  <2>6. \A q \in Procs \ {p} : port[q] # 0 =>
            mach[q] = mach[p] /\ port'[p] \in {0, port[q]}
    <3>1. \A q \in Procs \ {p} : port[q] # 0 => mach[q] = mach[p]
      BY <1>0, <1>1, HeadShape DEF LifeInv, RunOf
    <3> QED BY <2>2, <3>1 DEF LifeInv, PortOf
  <2>7. PortOf(p)'
    <3>1. "race" \in faults => entry[mach[p]].port # 0
      BY <1>2, <1>4 DEF LifeInv, EntryPort
    <3>2. port'[p] # 0 => vm[mach[p]].port \in {0, port'[p]}
      BY <1>2, <2>2 DEF LifeInv, EntryPort
    <3>3. port'[p] # 0 => \A q \in Procs : port'[q] \in {0, port'[p]}
      BY <2>2, <2>6
    <3> QED BY <1>1, <2>1, <2>2, <3>1, <3>2, <3>3 DEF PortOf
  <2>8. \A q \in Procs \ {p} : PortOf(q)'
    BY <1>1, <2>1, <2>2, <2>6 DEF LifeInv, PortOf, At
  <2> QED BY <1>0, <1>1, <1>4, <2>2, <2>4, <2>5, <2>7, <2>8, QuietStep
<1> QED BY <1>3, <1>4 DEF LoadStep

\* A step of p that changes a machine, in a place of create or rm.
LEMMA MachineStep ==
    ASSUME LifeInv, NEW p \in Procs, todo[p] # << >>, NEW more \in Seq(Steps), Go(p, more),
           vm' \in [Machines -> [state : VMStates, port : Ports \cup {0}, button : BOOLEAN]],
           \A m \in Machines : vm'[m].port \in {0, vm[m].port},
           "race" \in faults =>
               \A m \in Machines : vm[m].state = "absent" => vm'[m].state = "absent",
           UNCHANGED <<entry, port>>, ~At(p, "load"), ~At(p, "exists"),
           NoOrphanVM', Shape(p)', Promise(p)'
    PROVE  LifeInv'
<1>0. TypeOK /\ cmd[p] # "idle"
  BY HeadShape DEF LifeInv, LifecycleInv
<1>1. /\ todo' \in [Procs -> Seq(Steps)]
      /\ \A q \in Procs \ {p} : todo'[q] = todo[q]
      /\ UNCHANGED <<cmd, mach, outcome, given, forced, faults>>
  BY <1>0, GoDoes
<1>2. TypeOK'
  BY <1>0, <1>1 DEF TypeOK
<1>3. (\A m \in Machines : EntryPort(m)') /\ (\A q \in Procs : PortOf(q)')
  BY <1>1, PortsSame
<1> QED BY <1>0, <1>1, <1>2, <1>3, Frame

LEMMA CreateVMKeeps ==
    ASSUME LifeInv, NEW p \in Procs, CreateVMStep(p)
    PROVE  LifeInv'
<1>0. TypeOK /\ Shape(p) /\ Promise(p) /\ << >> \in Seq(Steps)
  BY DEF LifeInv, LifecycleInv
<1>1. todo[p] # << >> /\ Head(todo[p]) = "createvm" /\ UNCHANGED <<entry, port>>
  BY DEF CreateVMStep, Vbm, At
<1>2. cmd[p] = "create" /\ todo[p] = C6 /\ ~At(p, "load") /\ ~At(p, "exists")
  BY <1>0, <1>1, HeadShape DEF At
<1>3. /\ vm \in [Machines -> [state : VMStates, port : Ports \cup {0}, button : BOOLEAN]]
      /\ mach[p] \in Machines /\ todo[p] \in Seq(Steps)
  BY <1>0 DEF TypeOK
<1>4. CASE Fail(p, "failed") /\ UNCHANGED vm
  BY <1>1, <1>3, <1>4, FailStep
<1>5. CASE Go(p, << >>) /\ SetState(p, "poweroff")
  <2>1. /\ todo'[p] = Tail(todo[p])
        /\ UNCHANGED <<cmd, mach, outcome, given, forced, faults>>
    BY <1>0, <1>1, <1>3, <1>5, GoDoes, SeqSteps
  <2>2. /\ vm' \in [Machines -> [state : VMStates, port : Ports \cup {0}, button : BOOLEAN]]
        /\ \A m \in Machines : /\ vm'[m].port = vm[m].port
                               /\ m # mach[p] => vm'[m].state = vm[m].state
    BY <1>3, <1>5 DEF SetState, VMStates
  <2>3. entry[mach[p]].there
    BY <1>0, <1>2 DEF Promise
  <2>4. NoOrphanVM'
    BY <1>1, <2>1, <2>2, <2>3 DEF LifeInv, LifecycleInv, NoOrphanVM
  <2>5. todo'[p] \in Seq(Plain) /\ cmd'[p] = "create"
    BY <1>2, <2>1, PlainTail
  <2>6. Shape(p)'
    BY <2>5 DEF Shape, Rms
  <2>7. Promise(p)'
    BY <2>5, NotPlain DEF Promise, Rms
  <2>8. "race" \notin faults
    BY <1>2 DEF LifeInv, RunOf
  <2> QED BY <1>0, <1>1, <1>2, <1>5, <2>2, <2>4, <2>6, <2>7, <2>8, MachineStep
<1> QED BY <1>4, <1>5 DEF CreateVMStep, Vbm

LEMMA PowerOffKeeps ==
    ASSUME LifeInv, NEW p \in Procs, PowerOffStep(p)
    PROVE  LifeInv'
<1>0. TypeOK /\ Shape(p) /\ Promise(p) /\ << >> \in Seq(Steps) /\ << >> \in Seq(Plain)
  BY DEF LifeInv, LifecycleInv
<1>1. todo[p] # << >> /\ Head(todo[p]) = "poweroff" /\ UNCHANGED <<entry, port>>
  BY DEF PowerOffStep, Vbm, At
<1>2. /\ vm \in [Machines -> [state : VMStates, port : Ports \cup {0}, button : BOOLEAN]]
      /\ mach[p] \in Machines /\ todo[p] \in Seq(Steps)
  BY <1>0 DEF TypeOK
<1>3. CASE Fail(p, "failed") /\ UNCHANGED vm
  BY <1>1, <1>2, <1>3, FailStep
<1>4. CASE /\ Go(p, << >>) /\ SetState(p, "poweroff") /\ VM(p).state # "absent"
  <2>1. /\ todo'[p] = Tail(todo[p])
        /\ UNCHANGED <<cmd, mach, outcome, given, forced, faults>>
    BY <1>0, <1>1, <1>2, <1>4, GoDoes, SeqSteps
  <2>2. /\ vm' \in [Machines -> [state : VMStates, port : Ports \cup {0}, button : BOOLEAN]]
        /\ vm'[mach[p]].state = "poweroff"
        /\ \A m \in Machines : /\ vm'[m].port = vm[m].port
                               /\ vm'[m].state = "absent" <=> vm[m].state = "absent"
    BY <1>2, <1>4 DEF SetState, VMStates, VM
  <2>3. CASE cmd[p] \notin Rms /\ todo[p] \in Seq(Plain)
    BY <1>0, <1>1, <1>4, <2>2, <2>3, PlainStep
  <2>4. CASE cmd[p] \in Rms /\ todo[p] = R4
    <3>1. todo'[p] = R3 /\ R3 \notin {R4, R5}
      BY <2>1, <2>4, Tails, Heads
    <3>2. Shape(p)'
      BY <2>1, <2>4, <3>1 DEF Shape, Rms, RmTodos
    <3>3. Promise(p)'
      BY <1>0, <1>1, <2>1, <2>2, <2>4, <3>1 DEF Promise, Rms, VM
    <3>4. NoOrphanVM'
      BY <1>1, <2>1, <2>2 DEF LifeInv, LifecycleInv, NoOrphanVM
    <3>5. ~At(p, "load") /\ ~At(p, "exists")
      BY <1>1 DEF At
    <3> QED BY <1>0, <1>1, <1>4, <2>2, <3>2, <3>3, <3>4, <3>5, MachineStep
  <2> QED BY <1>0, <1>1, <2>3, <2>4, HeadShape
<1> QED BY <1>3, <1>4 DEF PowerOffStep, Vbm

LEMMA UnregisterKeeps ==
    ASSUME LifeInv, NEW p \in Procs, UnregisterStep(p)
    PROVE  LifeInv'
<1>0. TypeOK /\ Shape(p) /\ Promise(p) /\ << >> \in Seq(Steps)
  BY DEF LifeInv, LifecycleInv
<1>1. todo[p] # << >> /\ Head(todo[p]) = "unregister" /\ UNCHANGED <<entry, port>>
  BY DEF UnregisterStep, Vbm, At
<1>2. cmd[p] \in Rms /\ todo[p] = R3 /\ ~At(p, "load") /\ ~At(p, "exists")
  BY <1>0, <1>1, HeadShape DEF At
<1>3. /\ vm \in [Machines -> [state : VMStates, port : Ports \cup {0}, button : BOOLEAN]]
      /\ mach[p] \in Machines /\ todo[p] \in Seq(Steps)
  BY <1>0 DEF TypeOK
<1>4. CASE Fail(p, "failed") /\ UNCHANGED vm
  BY <1>1, <1>3, <1>4, FailStep
<1>5. CASE Go(p, << >>) /\ vm' = [vm EXCEPT ![mach[p]] = Absent]
  <2>1. /\ todo'[p] = Tail(todo[p])
        /\ UNCHANGED <<cmd, mach, outcome, given, forced, faults>>
    BY <1>0, <1>1, <1>3, <1>5, GoDoes, SeqSteps
  <2>2. /\ vm' \in [Machines -> [state : VMStates, port : Ports \cup {0}, button : BOOLEAN]]
        /\ vm'[mach[p]].state = "absent"
        /\ \A m \in Machines : /\ vm'[m].port \in {0, vm[m].port}
                               /\ vm'[m].state \in {"absent", vm[m].state}
    <3>1. /\ Absent \in [state : VMStates, port : Ports \cup {0}, button : BOOLEAN]
          /\ Absent.state = "absent" /\ Absent.port = 0
      BY DEF Absent, VMStates
    <3> QED BY <1>3, <1>5, <3>1
  <2>3. NoOrphanVM'
    BY <1>1, <2>1, <2>2 DEF LifeInv, LifecycleInv, NoOrphanVM
  <2>4. todo'[p] = R5 /\ R5 \notin {R3, R4}
    BY <1>2, <2>1, Tails, Heads
  <2>5. Shape(p)'
    BY <1>2, <2>1, <2>4 DEF Shape, Rms, RmTodos
  <2>6. Promise(p)'
    BY <1>0, <1>1, <1>2, <2>1, <2>2, <2>4 DEF Promise, Rms, VM
  <2> QED BY <1>0, <1>1, <1>2, <1>5, <2>2, <2>3, <2>5, <2>6, MachineStep
<1> QED BY <1>4, <1>5 DEF UnregisterStep, Vbm

LEMMA DriverRemoveKeeps ==
    ASSUME LifeInv, NEW p \in Procs, DriverRemoveStep(p)
    PROVE  LifeInv'
<1> DEFINE a == <<"unregister">>
           b == <<"poweroff", "unregister">>
<1>0. TypeOK /\ Shape(p) /\ Promise(p) /\ PortOf(p) /\ << >> \in Seq(Steps)
  BY DEF LifeInv, LifecycleInv
<1>1. a \in Seq(Steps) /\ b \in Seq(Steps)
  BY DEF Steps
<1> HIDE DEF a, b
<1>2. /\ todo[p] # << >> /\ Head(todo[p]) = "d_remove" /\ UNCHANGED <<vm, entry, port>>
      /\ \/ Fail(p, "failed")
         \/ VM(p).state = "absent" /\ Go(p, << >>)
         \/ VM(p).state \in {"poweroff", "saved"} /\ Go(p, a)
         \/ VM(p).state \notin {"absent", "poweroff", "saved"} /\ Go(p, b)
  BY DEF DriverRemoveStep, Check, At, a, b
<1>3. cmd[p] \in Rms /\ todo[p] = R2 /\ ~At(p, "load") /\ ~At(p, "exists")
  BY <1>0, <1>2, HeadShape DEF At
<1>4. /\ vm \in [Machines -> [state : VMStates, port : Ports \cup {0}, button : BOOLEAN]]
      /\ mach[p] \in Machines /\ todo[p] \in Seq(Steps)
  BY <1>0 DEF TypeOK
<1>5. CASE Fail(p, "failed")
  BY <1>2, <1>4, <1>5, FailStep
<1>6. ASSUME NEW more \in Seq(Steps), Go(p, more), more \o R5 \in {R3, R4, R5},
             more \o R5 = R5 => VM(p).state = "absent",
             more \o R5 = R3 => VM(p).state \in {"poweroff", "saved"},
             more \o R5 = R4 => VM(p).state # "absent"
      PROVE  LifeInv'
  <2>1. /\ todo'[p] = more \o Tail(todo[p])
        /\ UNCHANGED <<cmd, mach, outcome, given, forced, faults>>
    BY <1>0, <1>2, <1>6, GoDoes
  <2>2. todo'[p] = more \o R5
    BY <1>3, <2>1, Tails
  <2>3. Shape(p)'
    BY <1>3, <1>6, <2>1, <2>2 DEF Shape, Rms, RmTodos
  <2>4. Promise(p)'
    <3>1. todo[p] \in {R2, R3, R4, R5} /\ cmd[p] # "create" /\ VM(p)' = VM(p)
      BY <1>2, <1>3, <2>1 DEF Rms, VM
    <3> QED BY <1>0, <1>2, <1>3, <1>6, <2>1, <2>2, <3>1 DEF Promise
  <2>5. NoOrphanVM'
    BY <1>2, <2>1 DEF LifeInv, LifecycleInv, NoOrphanVM
  <2> QED BY <1>2, <1>3, <1>4, <1>6, <2>3, <2>4, <2>5, MachineStep
<1>7. a \o R5 = R3 /\ b \o R5 = R4 /\ << >> \o R5 = R5
  <2>1. << >> \o R5 = R5
    BY TodosTyped DEF RmTodos
  <2> QED BY <2>1, Joined DEF a, b
<1>8. R3 # R4 /\ R3 # R5 /\ R4 # R5
  BY Heads
<1>9. CASE VM(p).state = "absent" /\ Go(p, << >>)
  BY <1>0, <1>6, <1>7, <1>8, <1>9
<1>10. CASE VM(p).state \in {"poweroff", "saved"} /\ Go(p, a)
  BY <1>1, <1>6, <1>7, <1>8, <1>10
<1>11. CASE VM(p).state \notin {"absent", "poweroff", "saved"} /\ Go(p, b)
  BY <1>1, <1>6, <1>7, <1>8, <1>11
<1> QED BY <1>2, <1>5, <1>9, <1>10, <1>11

LEMMA LocalKeeps ==
    ASSUME LifeInv, NEW p \in Procs, LocalStep(p)
    PROVE  LifeInv'
<1>0. TypeOK /\ Shape(p) /\ Promise(p) /\ PortOf(p) /\ << >> \in Seq(Steps)
  BY DEF LifeInv, LifecycleInv
<1>1. todo[p] # << >> /\ Head(todo[p]) = "local" /\ UNCHANGED <<vm, port>>
  BY DEF LocalStep, At
<1>2. cmd[p] \in Rms /\ todo[p] = R5 /\ cmd[p] # "idle"
  BY <1>0, <1>1, HeadShape
<1>3. /\ vm \in [Machines -> [state : VMStates, port : Ports \cup {0}, button : BOOLEAN]]
      /\ entry \in [Machines -> [there : BOOLEAN, port : Ports \cup {0}]]
      /\ mach[p] \in Machines /\ todo[p] \in Seq(Steps)
      /\ \A q \in Procs : mach[q] \in Machines
  BY <1>0 DEF TypeOK
<1>4. CASE Fail(p, "failed") /\ UNCHANGED entry
  BY <1>1, <1>3, <1>4, FailStep
<1>5. CASE Go(p, << >>) /\ entry' = [entry EXCEPT ![mach[p]] = NoEntry]
  <2>1. /\ todo' \in [Procs -> Seq(Steps)] /\ todo'[p] = Tail(todo[p])
        /\ \A q \in Procs \ {p} : todo'[q] = todo[q]
        /\ UNCHANGED <<cmd, mach, outcome, given, forced, faults>>
    BY <1>0, <1>1, <1>3, <1>5, GoDoes, SeqSteps
  <2>2. todo'[p] = << >>
    BY <1>2, <2>1, Tails
  <2>3. /\ entry' \in [Machines -> [there : BOOLEAN, port : Ports \cup {0}]]
        /\ ~entry'[mach[p]].there /\ entry'[mach[p]].port = 0
        /\ \A m \in Machines \ {mach[p]} : entry'[m] = entry[m]
    <3>1. /\ NoEntry \in [there : BOOLEAN, port : Ports \cup {0}]
          /\ ~NoEntry.there /\ NoEntry.port = 0
      BY DEF NoEntry
    <3> QED BY <1>3, <1>5, <3>1
  <2>4. TypeOK'
    BY <1>0, <1>1, <2>1, <2>3 DEF TypeOK
  <2>5. NoOrphanVM'
    <3>1. vm[mach[p]].state = "absent" \/ mach[p] \in forced
      BY <1>0, <1>2 DEF Promise, VM
    <3> QED BY <1>1, <2>1, <2>3, <3>1 DEF LifeInv, LifecycleInv, NoOrphanVM
  <2>6. Shape(p)'
    BY <1>2, <2>1, <2>2 DEF Shape, Rms, RmTodos
  <2>7. Promise(p)'
    <3>1. << >> \notin {R2, R3, R4, R5}
      BY Heads
    <3> QED BY <1>2, <2>1, <2>2, <3>1 DEF Promise, Rms
  <2>8. \A m \in Machines : EntryPort(m)'
    BY <1>1, <2>1, <2>3 DEF LifeInv, EntryPort
  <2>9. \A q \in Procs : port'[q] # 0 => /\ vm'[mach'[q]].port \in {0, port'[q]}
                                         /\ entry'[mach'[q]].port \in {0, port'[q]}
                                         /\ \A r \in Procs : port'[r] \in {0, port'[q]}
    BY <1>1, <1>3, <2>1, <2>3 DEF LifeInv, PortOf
  <2>10. PortOf(p)'
    BY <1>2, <2>1, <2>9 DEF PortOf, Rms, Acts
  <2>11. "race" \in faults => \A q \in Procs \ {p} : PortOf(q)'
    BY <1>1, <2>1, <2>9 DEF LifeInv, PortOf, At
  <2> QED BY <1>1, <1>2, <2>1, <2>4, <2>5, <2>6, <2>7, <2>8, <2>10, <2>11, Frame
<1> QED BY <1>4, <1>5 DEF LocalStep

LEMMA SaveKeeps ==
    ASSUME LifeInv, NEW p \in Procs, SaveStep(p)
    PROVE  LifeInv'
<1>0. TypeOK /\ Shape(p) /\ Promise(p) /\ PortOf(p) /\ << >> \in Seq(Steps)
  BY DEF LifeInv, LifecycleInv
<1>1. /\ todo[p] # << >> /\ Head(todo[p]) = "save" /\ UNCHANGED <<vm, port>>
      /\ entry' = [entry EXCEPT ![mach[p]] = Entry(port[p])] /\ Go(p, << >>)
  BY DEF SaveStep, At
<1>2. /\ entry \in [Machines -> [there : BOOLEAN, port : Ports \cup {0}]]
      /\ mach[p] \in Machines /\ todo[p] \in Seq(Steps) /\ port[p] \in Ports \cup {0}
      /\ cmd[p] \in AllCommands \cup {"idle"} /\ \A q \in Procs : mach[q] \in Machines
  BY <1>0 DEF TypeOK
<1>3. /\ \/ cmd[p] \notin Rms /\ todo[p] \in Seq(Plain)
         \/ cmd[p] = "create" /\ todo[p] = C3
      /\ cmd[p] # "idle" /\ ~At(p, "load") /\ ~At(p, "exists")
  BY <1>0, <1>1, HeadShape DEF At
<1>4. cmd[p] \in Acts \cup {"create"} /\ cmd[p] \notin Rms
  BY <1>2, <1>3 DEF AllCommands, Acts, Rms
<1>5. IF "race" \in faults THEN port[p] # 0 ELSE port[p] = 0 => entry[mach[p]].port = 0
  BY <1>0, <1>3, <1>4 DEF PortOf
<1>6. /\ todo' \in [Procs -> Seq(Steps)] /\ todo'[p] = Tail(todo[p])
      /\ \A q \in Procs \ {p} : todo'[q] = todo[q]
      /\ UNCHANGED <<cmd, mach, outcome, given, forced, faults>>
  BY <1>0, <1>1, <1>2, GoDoes, SeqSteps
<1>7. /\ entry' \in [Machines -> [there : BOOLEAN, port : Ports \cup {0}]]
      /\ entry'[mach[p]].there /\ entry'[mach[p]].port = port[p]
      /\ \A m \in Machines \ {mach[p]} : entry'[m] = entry[m]
  <2>1. /\ Entry(port[p]) \in [there : BOOLEAN, port : Ports \cup {0}]
        /\ Entry(port[p]).there /\ Entry(port[p]).port = port[p]
    BY <1>2 DEF Entry
  <2> QED BY <1>1, <1>2, <2>1
<1>8. TypeOK'
  BY <1>0, <1>1, <1>6, <1>7 DEF TypeOK
<1>9. NoOrphanVM'
  BY <1>1, <1>6, <1>7 DEF LifeInv, LifecycleInv, NoOrphanVM
<1>10. todo'[p] \in Seq(Plain) \/ (cmd[p] = "create" /\ todo'[p] = C4)
  <2>1. << >> \in Seq(Plain)
    OBVIOUS
  <2>2. CASE todo[p] \in Seq(Plain)
    <3>1. todo[p] # << >> /\ todo'[p] = Tail(todo[p])
      BY <1>1, <1>6
    <3>2. todo'[p] \in Seq(Plain)
      BY <2>1, <2>2, <3>1, SeqSteps
    <3> QED BY <3>2
  <2>3. CASE cmd[p] = "create" /\ todo[p] = C3
    BY <1>6, <2>3, Tails
  <2> QED BY <1>3, <2>2, <2>3
<1>11. Shape(p)'
  BY <1>3, <1>4, <1>6, <1>10 DEF Shape, CreateTodos
<1>12. Promise(p)'
  <2>1. cmd'[p] \notin Rms /\ cmd'[p] # "rm" /\ entry'[mach'[p]].there
    BY <1>4, <1>6, <1>7 DEF Rms
  <2> QED BY <2>1 DEF Promise
<1>13. \A m \in Machines : EntryPort(m)'
  <2>1. \A m \in Machines \ {mach[p]} : EntryPort(m)'
    BY <1>1, <1>6, <1>7 DEF LifeInv, EntryPort
  <2>2. port[p] # 0 => vm[mach[p]].port \in {0, port[p]}
    BY <1>0 DEF PortOf
  <2>3. \A k : k = mach[p] => EntryPort(k)'
    BY <1>1, <1>5, <1>6, <1>7, <2>2 DEF EntryPort
  <2> QED BY <2>1, <2>3
<1>14. \A q \in Procs : port'[q] # 0 => /\ vm'[mach'[q]].port \in {0, port'[q]}
                                        /\ entry'[mach'[q]].port \in {0, port'[q]}
                                        /\ \A r \in Procs : port'[r] \in {0, port'[q]}
  BY <1>1, <1>2, <1>6, <1>7 DEF LifeInv, PortOf
<1>15. PortOf(p)'
  BY <1>1, <1>5, <1>6, <1>7, <1>14 DEF PortOf
<1>16. "race" \in faults => \A q \in Procs \ {p} : PortOf(q)'
  BY <1>1, <1>6, <1>14 DEF LifeInv, PortOf, At
<1> QED BY <1>1, <1>3, <1>6, <1>8, <1>9, <1>11, <1>12, <1>13, <1>15, <1>16, Frame

LEMMA SetPortKeeps ==
    ASSUME LifeInv, NEW p \in Procs, SetPortStep(p)
    PROVE  LifeInv'
<1>0. TypeOK /\ Shape(p) /\ Promise(p) /\ PortOf(p) /\ << >> \in Seq(Steps) /\ << >> \in Seq(Plain)
  BY DEF LifeInv, LifecycleInv
<1>1. todo[p] # << >> /\ Head(todo[p]) = "setport" /\ UNCHANGED entry
  BY DEF SetPortStep, At
<1>2. /\ vm \in [Machines -> [state : VMStates, port : Ports \cup {0}, button : BOOLEAN]]
      /\ mach[p] \in Machines /\ todo[p] \in Seq(Steps) /\ port \in [Procs -> Ports \cup {0}]
      /\ cmd[p] \in AllCommands \cup {"idle"} /\ \A q \in Procs : mach[q] \in Machines
  BY <1>0 DEF TypeOK
<1>3. /\ cmd[p] \notin Rms /\ todo[p] \in Seq(Plain) /\ cmd[p] # "idle"
      /\ ~At(p, "load") /\ ~At(p, "exists")
  BY <1>0, <1>1, HeadShape DEF At
<1>4. cmd[p] \in Acts \cup {"create"}
  BY <1>2, <1>3 DEF AllCommands, Acts, Rms
<1>5. IF "race" \in faults THEN port[p] # 0 ELSE port[p] = 0 => entry[mach[p]].port = 0
  BY <1>0, <1>3, <1>4 DEF PortOf
<1>6. CASE Fail(p, "failed") /\ UNCHANGED <<vm, port>>
  BY <1>1, <1>2, <1>6, FailStep
<1>7. CASE Fail(p, "failed") /\ vm' = [vm EXCEPT ![mach[p]].port = 0] /\ UNCHANGED port
  <2>1. /\ vm' \in [Machines -> [state : VMStates, port : Ports \cup {0}, button : BOOLEAN]]
        /\ \A m \in Machines : vm'[m].port \in {0, vm[m].port} /\ vm'[m].state = vm[m].state
    BY <1>2, <1>7
  <2> QED BY <1>1, <1>7, <2>1, FailStep
<1>8. ASSUME NEW x \in Ports, port[p] # 0 => x = port[p], Go(p, << >>),
             vm' = [vm EXCEPT ![mach[p]].port = x], port' = [port EXCEPT ![p] = x]
      PROVE  LifeInv'
  <2>0. x # 0 /\ x \in Ports \cup {0}
    BY LifecycleAssumption
  <2>1. /\ todo' \in [Procs -> Seq(Steps)] /\ todo'[p] = Tail(todo[p])
        /\ \A q \in Procs \ {p} : todo'[q] = todo[q]
        /\ UNCHANGED <<cmd, mach, outcome, given, forced, faults>>
    BY <1>0, <1>1, <1>2, <1>8, GoDoes, SeqSteps
  <2>2. /\ vm' \in [Machines -> [state : VMStates, port : Ports \cup {0}, button : BOOLEAN]]
        /\ vm'[mach[p]].port = x
        /\ \A m \in Machines : vm'[m].state = vm[m].state
        /\ \A m \in Machines \ {mach[p]} : vm'[m].port = vm[m].port
    BY <1>2, <1>8, <2>0
  <2>3. /\ port' \in [Procs -> Ports \cup {0}] /\ port'[p] = x
        /\ \A q \in Procs \ {p} : port'[q] = port[q]
    BY <1>2, <1>8, <2>0
  <2>4. TypeOK'
    BY <1>0, <1>1, <2>1, <2>2, <2>3 DEF TypeOK
  <2>5. NoOrphanVM'
    BY <1>1, <2>1, <2>2 DEF LifeInv, LifecycleInv, NoOrphanVM
  <2>6. todo'[p] \in Seq(Plain)
    BY <1>1, <1>3, <2>1, SeqSteps
  <2>7. Shape(p)'
    BY <1>3, <2>1, <2>6 DEF Shape
  <2>8. Promise(p)'
    BY <1>3, <2>1, <2>6, NotPlain DEF Promise, Rms
  <2>9. entry[mach[p]].port \in {0, x}
    BY <1>0, <1>5, <1>8 DEF PortOf, LifeInv, EntryPort
  <2>10. \A m \in Machines : EntryPort(m)'
    <3>1. \A m \in Machines \ {mach[p]} : EntryPort(m)'
      BY <1>1, <2>1, <2>2 DEF LifeInv, EntryPort
    <3>2. EntryPort(mach[p])
      BY <1>2 DEF LifeInv
    <3>3. \A k : k = mach[p] => EntryPort(k)'
      BY <1>1, <2>1, <2>2, <2>9, <3>2 DEF EntryPort
    <3> QED BY <3>1, <3>3
  <2>11. \A q \in Procs \ {p} : /\ port[q] \in {0, x}
                                /\ "race" \in faults => mach[q] = mach[p]
    BY <1>0, <1>3, <1>5, <1>8, OtherRuns DEF PortOf
  <2>12. PortOf(p)'
    <3>1. \A r \in Procs : port'[r] \in {0, x}
      BY <2>3, <2>11
    <3> QED BY <1>1, <2>0, <2>1, <2>2, <2>3, <2>9, <3>1 DEF PortOf
  <2>13. "race" \in faults => \A q \in Procs \ {p} : PortOf(q)'
    <3>1. \A r \in Procs : port'[r] \in {0, x}
      BY <2>3, <2>11
    <3> QED BY <1>1, <2>0, <2>1, <2>2, <2>3, <2>9, <2>11, <3>1 DEF LifeInv, PortOf, At
  <2> QED BY <1>3, <2>1, <2>2, <2>3, <2>4, <2>5, <2>7, <2>8, <2>10, <2>12, <2>13, Frame
<1>9. CASE \E x \in IF port[p] = 0 THEN Ports \ InUse ELSE {port[p]} \ InUse :
               /\ vm' = [vm EXCEPT ![mach[p]].port = x]
               /\ port' = [port EXCEPT ![p] = x] /\ Go(p, << >>)
  <2>1. PICK x \in IF port[p] = 0 THEN Ports \ InUse ELSE {port[p]} \ InUse :
               /\ vm' = [vm EXCEPT ![mach[p]].port = x]
               /\ port' = [port EXCEPT ![p] = x] /\ Go(p, << >>)
    BY <1>9
  <2>2. port[p] \in Ports \cup {0}
    BY <1>2
  <2>3. x \in Ports /\ (port[p] # 0 => x = port[p])
    BY <2>1, <2>2
  <2> QED BY <1>8, <2>1, <2>3
<1> QED BY <1>6, <1>7, <1>9 DEF SetPortStep

\* A command that returns, and one whose client is killed.
LEMMA EndKeeps ==
    ASSUME LifeInv, NEW p \in Procs, Done(p) \/ Crash(p)
    PROVE  LifeInv'
<1>0. TypeOK /\ << >> \in Seq(Steps) /\ << >> \in Seq(Plain)
  BY DEF LifeInv, LifecycleInv
<1>1. /\ cmd[p] # "idle" /\ UNCHANGED <<entry, mach, port, given, forced, faults>>
      /\ cmd' = [cmd EXCEPT ![p] = "idle"]
      /\ \/ todo[p] = << >> /\ todo' = todo
         \/ todo' = [todo EXCEPT ![p] = << >>]
      /\ \/ outcome' = [outcome EXCEPT ![p] = "ok"]
         \/ outcome' = [outcome EXCEPT ![p] = "killed"]
  BY DEF Done, Crash
<1>2. /\ todo \in [Procs -> Seq(Steps)] /\ cmd \in [Procs -> AllCommands \cup {"idle"}]
      /\ outcome \in [Procs -> {"none", "ok", "failed", "killed"}]
  BY <1>0 DEF TypeOK
<1>3. /\ todo' \in [Procs -> Seq(Steps)] /\ todo'[p] = << >>
      /\ \A q \in Procs \ {p} : todo'[q] = todo[q]
  BY <1>0, <1>1, <1>2
<1>4. /\ cmd' \in [Procs -> AllCommands \cup {"idle"}] /\ cmd'[p] = "idle"
      /\ \A q \in Procs \ {p} : cmd'[q] = cmd[q]
  BY <1>1, <1>2
<1>5. outcome' \in [Procs -> {"none", "ok", "failed", "killed"}]
  BY <1>1, <1>2
<1>10. /\ vm' \in [Machines -> [state : VMStates, port : Ports \cup {0}, button : BOOLEAN]]
       /\ \A m \in Machines :
             vm'[m].port = vm[m].port /\ (vm[m].state = "absent" <=> vm'[m].state = "absent")
  <2>1. /\ vm \in [Machines -> [state : VMStates, port : Ports \cup {0}, button : BOOLEAN]]
        /\ mach[p] \in Machines
    BY <1>0 DEF TypeOK
  <2>2. CASE vm' = vm
    BY <2>1, <2>2
  <2>3. ASSUME NEW s \in {"starting", "stopping"}, SetState(p, s), VM(p).state # "absent"
        PROVE  /\ vm' \in [Machines -> [state : VMStates, port : Ports \cup {0}, button : BOOLEAN]]
               /\ \A m \in Machines :
                     vm'[m].port = vm[m].port /\ (vm[m].state = "absent" <=> vm'[m].state = "absent")
    <3>1. s \in VMStates /\ s # "absent"
      BY DEF VMStates, InTransit
    <3> QED BY <2>1, <2>3, <3>1 DEF SetState, VM
  <2> QED BY <2>2, <2>3 DEF Done, Crash
<1>6. TypeOK'
  BY <1>0, <1>1, <1>3, <1>4, <1>5, <1>10 DEF TypeOK
<1>7. NoOrphanVM'
  BY <1>1, <1>10 DEF LifeInv, LifecycleInv, NoOrphanVM
<1>8. Shape(p)' /\ Promise(p)' /\ cmd'[p] \notin Acts \cup {"create"}
  BY <1>0, <1>3, <1>4 DEF Shape, Promise, Rms, Acts
<1>9. (\A m \in Machines : EntryPort(m)') /\ (\A q \in Procs : PortOf(q)')
  BY <1>1, <1>3, <1>4, <1>8, <1>10, PortsSame
<1> QED BY <1>1, <1>3, <1>4, <1>6, <1>7, <1>8, <1>9, <1>10, Frame

\* What a command begins with.
LEMMA Scripts ==
    ASSUME NEW c \in AllCommands
    PROVE  /\ Script(c) \in Seq(Steps) /\ Script(c) # << >>
           /\ c = "create" => Script(c) = C1
           /\ c \in Rms => Script(c) = R1
           /\ c \in Acts => Head(Script(c)) = "load" /\ Tail(Script(c)) \in Seq(Plain)
<1>1. CASE c = "create"
  <2>1. Script(c) = C1
    BY <1>1 DEF Script, C1
  <2> QED BY <1>1, <2>1, TodosTyped, Heads DEF CreateTodos, Rms, Acts
<1>2. CASE c \in Rms
  <2>1. Script(c) = R1
    BY <1>2 DEF Script, R1, Rms
  <2> QED BY <1>2, <2>1, TodosTyped, Heads DEF RmTodos, Rms, Acts
<1>3. CASE c \in {"start", "restart", "upgrade"}
  <2>1. PICK h \in {"h_start", "h_restart", "h_upgrade"} : Script(c) = <<"load", h, "save">>
    BY <1>3 DEF Script
  <2>2. h \in Plain /\ "save" \in Plain /\ "load" \in Steps /\ Plain \subseteq Steps
    BY <2>1 DEF Plain, Steps
  <2>3. /\ <<"load", h, "save">> \in Seq(Steps) /\ Tail(<<"load", h, "save">>) = <<h, "save">>
        /\ <<h, "save">> \in Seq(Plain) /\ Head(<<"load", h, "save">>) = "load"
        /\ <<"load", h, "save">> # << >>
    BY <2>2
  <2> QED BY <1>3, <2>1, <2>3 DEF Rms
<1>4. CASE c \in {"stop", "kill"}
  <2>1. PICK h \in {"d_stop", "poweroff"} :
            Script(c) = <<"load", "c_stopped", h, "w_stopped", "save">>
    BY <1>4 DEF Script
  <2> DEFINE s == <<"load", "c_stopped", h, "w_stopped", "save">>
             t == <<"c_stopped", h, "w_stopped", "save">>
  <2>2. /\ h \in Plain /\ {"c_stopped", "w_stopped", "save"} \subseteq Plain
        /\ "load" \in Steps /\ Plain \subseteq Steps
    BY <2>1 DEF Plain, Steps
  <2>3. s \in Seq(Steps) /\ Tail(s) = t /\ t \in Seq(Plain) /\ Head(s) = "load" /\ s # << >>
    BY <2>2
  <2> QED BY <1>4, <2>1, <2>3 DEF Rms
<1> QED BY <1>1, <1>2, <1>3, <1>4 DEF AllCommands, Acts, Rms

LEMMA GiveKeeps ==
    ASSUME LifeInv, NEW p \in Procs, NEW c \in Commands, NEW m \in Machines, Give(p, c, m)
    PROVE  LifeInv'
<1>0. TypeOK /\ c \in AllCommands
  BY LifecycleAssumption DEF LifeInv, LifecycleInv
<1>1. /\ cmd[p] = "idle" /\ UNCHANGED <<vm, entry, forced, faults>>
      /\ "race" \in faults => c # "create" /\ m = mach[p]
      /\ "race" \notin faults => p = Lone
  BY DEF Give, MayGive, LifeInv
<1>2. Script(c) \in Seq(Steps)
  BY <1>0, Scripts
<1>3. /\ cmd' \in [Procs -> AllCommands \cup {"idle"}] /\ cmd'[p] = c
      /\ \A q \in Procs \ {p} : cmd'[q] = cmd[q]
  BY <1>0 DEF Give, TypeOK
<1>4. /\ todo' \in [Procs -> Seq(Steps)] /\ todo'[p] = Script(c)
      /\ \A q \in Procs \ {p} : todo'[q] = todo[q]
  BY <1>0, <1>2 DEF Give, TypeOK
<1>5. /\ mach' \in [Procs -> Machines] /\ mach'[p] = m
      /\ \A q \in Procs \ {p} : mach'[q] = mach[q]
  BY <1>0 DEF Give, TypeOK
<1>6. /\ port' \in [Procs -> Ports \cup {0}] /\ port'[p] = 0
      /\ \A q \in Procs \ {p} : port'[q] = port[q]
  BY <1>0 DEF Give, TypeOK
<1>7. given' \in Nat /\ outcome' \in [Procs -> {"none", "ok", "failed", "killed"}]
  BY <1>0 DEF Give, TypeOK
<1>8. TypeOK'
  BY <1>0, <1>1, <1>3, <1>4, <1>5, <1>6, <1>7 DEF TypeOK
<1>9. NoOrphanVM' /\ \A k \in Machines : EntryPort(k)'
  BY <1>1 DEF LifeInv, LifecycleInv, NoOrphanVM, EntryPort
<1>10. ASSUME c = "create" PROVE Shape(p)' /\ Promise(p)' /\ PortOf(p)'
  <2>1. todo'[p] = C1 /\ C1 \in CreateTodos
    BY <1>0, <1>4, <1>10, Scripts DEF CreateTodos
  <2>2. Shape(p)'
    BY <1>3, <1>10, <2>1 DEF Shape
  <2>3. Promise(p)'
    BY <1>3, <1>10, <2>1, Heads DEF Promise, Rms
  <2>4. At(p, "exists")'
    BY <2>1, Heads DEF At
  <2>5. PortOf(p)'
    BY <1>6, <2>4 DEF PortOf
  <2> QED BY <2>2, <2>3, <2>5
<1>11. ASSUME c \in Rms PROVE Shape(p)' /\ Promise(p)' /\ PortOf(p)'
  <2>1. todo'[p] = R1 /\ R1 \in RmTodos
    BY <1>0, <1>4, <1>11, Scripts DEF RmTodos
  <2>2. Shape(p)'
    BY <1>3, <1>11, <2>1 DEF Shape, Rms
  <2>3. Promise(p)'
    BY <1>3, <1>11, <2>1, Heads DEF Promise, Rms
  <2>4. PortOf(p)'
    BY <1>3, <1>6, <1>11 DEF PortOf, Acts, Rms
  <2> QED BY <2>2, <2>3, <2>4
<1>12. ASSUME c \in Acts PROVE Shape(p)' /\ Promise(p)' /\ PortOf(p)'
  <2>1. At(p, "load")' /\ Tail(todo'[p]) \in Seq(Plain)
    BY <1>0, <1>4, <1>12, Scripts DEF At
  <2>2. Shape(p)'
    BY <1>3, <1>12, <2>1 DEF Shape, Acts
  <2>3. Promise(p)'
    BY <1>3, <1>12 DEF Promise, Rms, Acts
  <2>4. PortOf(p)'
    BY <1>6, <2>1 DEF PortOf
  <2> QED BY <2>2, <2>3, <2>4
<1>13. Shape(p)' /\ Promise(p)' /\ PortOf(p)'
  BY <1>0, <1>10, <1>11, <1>12 DEF AllCommands, Acts, Rms
<1>14. ASSUME NEW q \in Procs \ {p} PROVE Shape(q)' /\ Promise(q)' /\ PortOf(q)'
  <2>1. Shape(q)' /\ Promise(q)'
    BY <1>1, <1>3, <1>4, <1>5 DEF LifeInv, Shape, Promise, At, VM
  <2>2. PortOf(q)'
    BY <1>1, <1>3, <1>4, <1>5, <1>6 DEF LifeInv, PortOf, At
  <2> QED BY <2>1, <2>2
<1>15. \A q \in Procs : RunOf(q)'
  BY <1>1, <1>3, <1>5, <1>6 DEF LifeInv, RunOf
<1> QED BY <1>8, <1>9, <1>13, <1>14, <1>15 DEF LifeInv, LifecycleInv

\* VirtualBox and its user, who never make a machine, remove one or change a port.
LEMMA VirtualBoxKeeps ==
    ASSUME LifeInv, NEW m \in Machines, GuestPowersOff(m) \/ Settles(m) \/ UserActs(m)
    PROVE  LifeInv'
<1>0. TypeOK
  BY DEF LifeInv, LifecycleInv
<1>1. UNCHANGED <<entry, cmd, mach, todo, port, outcome, given, forced, faults>>
  BY DEF GuestPowersOff, Settles, UserActs
<1>2. /\ vm' \in [Machines -> [state : VMStates, port : Ports \cup {0}, button : BOOLEAN]]
      /\ \A k \in Machines :
            /\ vm'[k].port = vm[k].port
            /\ vm'[k].state = "absent" <=> vm[k].state = "absent"
            /\ vm[k].state \in {"poweroff", "saved"} => vm'[k].state = vm[k].state
  <2>1. vm \in [Machines -> [state : VMStates, port : Ports \cup {0}, button : BOOLEAN]]
    BY <1>0 DEF TypeOK
  <2>2. PICK s \in VMStates \ {"absent"}, b \in BOOLEAN :
            vm' = [vm EXCEPT ![m].state = s, ![m].button = b]
    <3>1. VMStates = {"absent", "poweroff", "running", "paused", "saved", "stuck", "starting",
                      "stopping", "saving"}
      BY DEF VMStates, InTransit
    <3>2. CASE UserActs(m) /\ vm[m].state = "paused"
      <4>1. PICK s \in {"running", "saving"} : vm' = [vm EXCEPT ![m].state = s]
        BY <3>2 DEF UserActs
      <4>2. vm' = [vm EXCEPT ![m].state = s, ![m].button = vm[m].button] /\ vm[m].button \in BOOLEAN
        BY <2>1, <4>1
      <4> QED BY <3>1, <4>1, <4>2
    <3>3. CASE ~(UserActs(m) /\ vm[m].state = "paused")
      <4>1. PICK s \in {"paused", "saving", "stopping", "stuck", "running", "poweroff", "saved"} :
                vm' = [vm EXCEPT ![m].state = s, ![m].button = FALSE]
        BY <3>3 DEF GuestPowersOff, Settles, UserActs
      <4> QED BY <3>1, <4>1
    <3> QED BY <3>2, <3>3
  <2>3. vm[m].state \notin {"absent", "poweroff", "saved"}
    BY DEF GuestPowersOff, Settles, UserActs
  <2> QED BY <2>1, <2>2, <2>3
<1>3. TypeOK'
  BY <1>0, <1>1, <1>2 DEF TypeOK
<1>4. NoOrphanVM'
  BY <1>1, <1>2 DEF LifeInv, LifecycleInv, NoOrphanVM
<1>5. (\A k \in Machines : EntryPort(k)') /\ (\A q \in Procs : PortOf(q)')
  BY <1>1, <1>2, PortsSame
<1>6. \A q \in Procs : Shape(q)' /\ RunOf(q)'
  BY <1>1 DEF LifeInv, Shape, RunOf, At
<1>7. ASSUME NEW q \in Procs PROVE Promise(q)'
  <2>1. mach[q] \in Machines /\ Promise(q)
    BY <1>0 DEF TypeOK, LifeInv
  <2> QED BY <1>1, <1>2, <2>1 DEF Promise, VM
<1> QED BY <1>1, <1>3, <1>4, <1>5, <1>6, <1>7 DEF LifeInv, LifecycleInv
-----------------------------------------------------------------------------
(* The theorems.                                                           *)

LEMMA LifeInit == Init /\ "create" \notin Racing => LifeInv
<1> SUFFICES ASSUME Init, "create" \notin Racing PROVE LifeInv
  OBVIOUS
<1>0. << >> \in Seq(Steps) /\ << >> \in Seq(Plain)
  OBVIOUS
<1>1. /\ faults \in FaultSets /\ cmd = [p \in Procs |-> "idle"]
      /\ mach = [p \in Procs |-> CHOOSE m \in Machines : TRUE]
      /\ todo = [p \in Procs |-> << >>] /\ port = [p \in Procs |-> 0]
      /\ outcome = [p \in Procs |-> "none"] /\ given = 0 /\ forced = {}
  BY DEF Init
<1>2. (CHOOSE m \in Machines : TRUE) \in Machines
  BY LifecycleAssumption
<1>3. /\ vm \in [Machines -> [state : VMStates, port : Ports \cup {0}, button : BOOLEAN]]
      /\ entry \in [Machines -> [there : BOOLEAN, port : Ports \cup {0}]]
      /\ \A m \in Machines : vm[m].state # "absent" => entry[m].there
      /\ \A m \in Machines : EntryPort(m)
  <2>1. CASE InitEmpty /\ "race" \notin faults
    <3>1. /\ Absent \in [state : VMStates, port : Ports \cup {0}, button : BOOLEAN]
          /\ NoEntry \in [there : BOOLEAN, port : Ports \cup {0}]
          /\ Absent.state = "absent" /\ ~NoEntry.there /\ NoEntry.port = 0
      BY DEF Absent, VMStates, NoEntry
    <3> QED BY <2>1, <3>1 DEF InitEmpty, EntryPort
  <2>2. CASE InitCreated
    <3>1. PICK f \in [Machines -> Ports] :
              /\ vm = [m \in Machines |-> Stopped(f[m])]
              /\ entry = [m \in Machines |-> Entry(f[m])]
      BY <2>2 DEF InitCreated
    <3>2. \A x \in Ports :
              /\ Stopped(x) \in [state : VMStates, port : Ports \cup {0}, button : BOOLEAN]
              /\ Entry(x) \in [there : BOOLEAN, port : Ports \cup {0}]
              /\ Stopped(x).port = x /\ Entry(x).there /\ Entry(x).port = x /\ x # 0
      BY LifecycleAssumption DEF Stopped, VMStates, Entry
    <3> QED BY <3>1, <3>2 DEF EntryPort
  <2> QED BY <2>1, <2>2 DEF Init
<1>4. TypeOK
  BY <1>0, <1>1, <1>2, <1>3 DEF TypeOK
<1>5. NoOrphanVM
  BY <1>3 DEF NoOrphanVM
<1>6. ASSUME NEW p \in Procs PROVE Shape(p) /\ Promise(p) /\ RunOf(p) /\ PortOf(p)
  <2>1. cmd[p] = "idle" /\ todo[p] = << >> /\ port[p] = 0
    BY <1>1
  <2>2. \A q \in Procs : mach[q] = mach[p]
    BY <1>1
  <2>3. Shape(p)
    BY <1>0, <2>1 DEF Shape, Rms
  <2>4. Promise(p) /\ PortOf(p)
    BY <2>1 DEF Promise, PortOf, Rms, Acts
  <2> QED BY <2>1, <2>2, <2>3, <2>4 DEF RunOf
<1> QED BY <1>3, <1>4, <1>5, <1>6 DEF LifeInv, LifecycleInv

LEMMA LifeStep == LifeInv /\ [Next]_vars => LifeInv'
<1> SUFFICES ASSUME LifeInv, [Next]_vars PROVE LifeInv'
  OBVIOUS
<1>1. ASSUME NEW p \in Procs, NEW c \in Commands, NEW m \in Machines, Give(p, c, m)
      PROVE  LifeInv'
  BY <1>1, GiveKeeps
<1>2. ASSUME NEW p \in Procs, HostStep(p) PROVE LifeInv'
  BY <1>2, CreateSteps, LoadKeeps, SaveKeeps, LookSteps, LocalKeeps, EndKeeps DEF HostStep
<1>3. ASSUME NEW p \in Procs, DriverStep(p) PROVE LifeInv'
  BY <1>3, CreateSteps, CreateVMKeeps, VbmSteps, LookSteps, SetPortKeeps, PowerOffKeeps,
     DriverRemoveKeeps, UnregisterKeeps DEF DriverStep
<1>4. ASSUME NEW p \in Procs, Crash(p) PROVE LifeInv'
  BY <1>4, EndKeeps
<1>5. ASSUME NEW m \in Machines, GuestPowersOff(m) \/ Settles(m) \/ UserActs(m) PROVE LifeInv'
  BY <1>5, VirtualBoxKeeps
<1>6. CASE UNCHANGED vars
  <2>1. \A p \in Procs : Shape(p)' /\ Promise(p)' /\ RunOf(p)' /\ PortOf(p)'
    BY <1>6 DEF vars, LifeInv, Shape, Promise, RunOf, PortOf, At, VM
  <2>2. TypeOK' /\ NoOrphanVM' /\ \A m \in Machines : EntryPort(m)'
    BY <1>6 DEF vars, LifeInv, LifecycleInv, TypeOK, NoOrphanVM, EntryPort
  <2> QED BY <2>1, <2>2 DEF LifeInv, LifecycleInv
<1> QED BY <1>1, <1>2, <1>3, <1>4, <1>5, <1>6 DEF Next

\* LifeInv holds in every state when create is not raced.
THEOREM LifeInductive == Spec /\ "create" \notin Racing => []LifeInv
BY LifeInit, LifeStep, PTL DEF Spec

\* create saves before it makes the machine and rm removes the machine before
\* the entry, so that no failure, crash or race leaves a machine in VirtualBox
\* that rm cannot find, but for those that rm -f gave up (libmachine.go:124-142,
\* rm.go:31-45).
THEOREM NoMachineOrphaned == Spec /\ "create" \notin Racing => []LifecycleInv
<1>1. LifeInv => LifecycleInv
  BY DEF LifeInv
<1> QED BY <1>1, LifeInductive, PTL

\* The port the store has for a running machine is the one VirtualBox forwards,
\* if it forwards any (virtualbox.go:477, 940-956, commands.go:128-136).
THEOREM PortsAgree == Spec /\ "create" \notin Racing => []PortNeverStale
<1>1. LifeInv => PortNeverStale
  BY DEF LifeInv, EntryPort, PortNeverStale
<1> QED BY <1>1, LifeInductive, PTL

\* The steps that rm makes.
LEMMA RmSteps ==
    ASSUME LifeInv, NEW p \in Procs, cmd[p] \in Rms, HostStep(p) \/ DriverStep(p)
    PROVE  \/ Done(p) \/ LoadStep(p) \/ DriverRemoveStep(p) \/ PowerOffStep(p)
           \/ UnregisterStep(p) \/ LocalStep(p)
<1>1. todo[p] # << >> => Head(todo[p]) \in {"load", "d_remove", "unregister", "poweroff", "local"}
  <2>1. todo[p] # << >> => todo[p] \in {R1, R2, R3, R4, R5}
    <3>1. Shape(p) /\ cmd[p] \in Rms /\ cmd[p] \notin Acts \cup {"create"}
      BY DEF LifeInv, Rms, Acts
    <3> QED BY <3>1 DEF Shape, RmTodos
  <2> QED BY <2>1, Heads
<1>2. ~(\/ ExistsStep(p) \/ PreCreateStep(p) \/ SaveStep(p) \/ AlreadyRunningStep(p)
        \/ AlreadyStoppedStep(p) \/ WaitRunningStep(p) \/ WaitStoppedStep(p))
  BY <1>1 DEF ExistsStep, PreCreateStep, SaveStep, AlreadyRunningStep, AlreadyStoppedStep,
     WaitRunningStep, WaitStoppedStep, Check, At
<1>3. ~(\/ ProvisionStep(p) \/ WaitForPodmanStep(p) \/ HostStartStep(p) \/ HostRestartStep(p)
        \/ HostUpgradeStep(p))
  BY <1>1 DEF ProvisionStep, WaitForPodmanStep, HostStartStep, HostRestartStep, HostUpgradeStep,
     Check, At
<1>4. ~(\/ IsoStep(p) \/ DiskStep(p) \/ CreateVMStep(p) \/ SetupVMStep(p) \/ SetupNetStep(p)
        \/ FixNetStep(p) \/ SetPortStep(p))
  BY <1>1 DEF IsoStep, DiskStep, CreateVMStep, SetupVMStep, SetupNetStep, FixNetStep,
     SetPortStep, Check, Vbm, At
<1>5. ~DriverStartStep(p)
  BY <1>1 DEF DriverStartStep, Check, At
<1>6. ~(\/ StartVMStep(p) \/ ResumeStep(p) \/ VTXStep(p) \/ WaitIPStep(p) \/ NetCheckStep(p)
        \/ DriverStopStep(p) \/ AcpiStep(p) \/ StopLoopStep(p))
  BY <1>1 DEF StartVMStep, ResumeStep, VTXStep, WaitIPStep, NetCheckStep, DriverStopStep,
     AcpiStep, StopLoopStep, Check, Vbm, At
<1> QED BY <1>2, <1>3, <1>4, <1>5, <1>6 DEF HostStep, DriverStep

\* Where rm may fail while VBoxManage works and nobody races.
LEMMA RmFails ==
    ASSUME LifeInv, NEW p \in Procs, cmd[p] = "rm", HostStep(p) \/ DriverStep(p),
           cmd'[p] = "idle", outcome'[p] = "failed", faults \cap {"vbm", "race"} = {}
    PROVE  \/ At(p, "load")
           \/ At(p, "poweroff") /\ VM(p).state \in {"poweroff", "saved"} \cup InTransit
<1>0. TypeOK /\ Shape(p) /\ Promise(p) /\ "race" \notin faults /\ "vbm" \notin faults
  BY DEF LifeInv, LifecycleInv
<1>1. VM(p).state \in VMStates /\ outcome \in [Procs -> {"none", "ok", "failed", "killed"}]
  BY <1>0 DEF TypeOK, VM
<1>2. \A more : Go(p, more) => cmd'[p] = "rm"
  BY DEF Go
<1>3. CASE Done(p)
  BY <1>1, <1>3 DEF Done
<1>4. CASE LoadStep(p)
  BY <1>4 DEF LoadStep
<1>5. CASE DriverRemoveStep(p)
  BY <1>0, <1>2, <1>5 DEF DriverRemoveStep, Check
<1>6. CASE PowerOffStep(p)
  <2>1. At(p, "poweroff") /\ VM(p).state \notin {"running", "paused", "stuck"}
    BY <1>0, <1>2, <1>6 DEF PowerOffStep, Vbm
  <2>2. todo[p] = R4
    BY <1>0, <2>1, HeadShape DEF At, Rms
  <2>3. VM(p).state # "absent"
    BY <1>0, <2>2 DEF Promise
  <2> QED BY <1>1, <2>1, <2>3 DEF VMStates
<1>7. CASE UnregisterStep(p)
  <2>1. At(p, "unregister") /\ VM(p).state \notin {"poweroff", "saved"}
    BY <1>0, <1>2, <1>7 DEF UnregisterStep, Vbm
  <2>2. todo[p] = R3
    BY <1>0, <2>1, HeadShape DEF At
  <2> QED BY <1>0, <2>1, <2>2 DEF Promise
<1>8. CASE LocalStep(p)
  <2>1. At(p, "local") /\ ~entry[mach[p]].there
    BY <1>2, <1>8 DEF LocalStep
  <2>2. todo[p] = R5
    BY <1>0, <2>1, HeadShape DEF At
  <2> QED BY <1>0, <2>1, <2>2 DEF Promise
<1> QED BY <1>3, <1>4, <1>5, <1>6, <1>7, <1>8, RmSteps DEF Rms

\* A step of one process leaves the command of every other as it is.
LEMMA OthersGoOn ==
    ASSUME TypeOK, NEW p \in Procs, NEW q \in Procs \ {p}, HostStep(q) \/ DriverStep(q)
    PROVE  cmd'[p] = cmd[p]
<1>0. cmd \in [Procs -> AllCommands \cup {"idle"}]
  BY DEF TypeOK
<1>1. (\A more : Go(q, more) => cmd' = cmd) /\ (Fail(q, "failed") => cmd'[p] = cmd[p])
  BY <1>0 DEF Go, Fail
<1>2. Done(q) => cmd'[p] = cmd[p]
  BY <1>0 DEF Done
<1>3. /\ \A s, ok, more, err : Check(q, s, ok, more, err) => cmd'[p] = cmd[p]
      /\ \A s, ok, eff, more : Vbm(q, s, ok, eff, more) => cmd'[p] = cmd[p]
  BY <1>1 DEF Check, Vbm
<1>4. LoadStep(q) \/ SaveStep(q) \/ LocalStep(q) \/ SetPortStep(q) => cmd'[p] = cmd[p]
  BY <1>1 DEF LoadStep, SaveStep, LocalStep, SetPortStep
<1>5. CASE HostStep(q)
  BY <1>2, <1>3, <1>4, <1>5 DEF HostStep, ExistsStep, PreCreateStep, AlreadyRunningStep,
     AlreadyStoppedStep, WaitRunningStep, WaitStoppedStep, ProvisionStep, WaitForPodmanStep,
     HostStartStep, HostRestartStep, HostUpgradeStep
<1>6. CASE DriverStep(q)
  BY <1>3, <1>4, <1>6 DEF DriverStep, IsoStep, DiskStep, CreateVMStep, SetupVMStep,
     DriverStartStep, SetupNetStep, FixNetStep, StartVMStep, ResumeStep, VTXStep, WaitIPStep,
     NetCheckStep, DriverStopStep, AcpiStep, StopLoopStep, PowerOffStep, DriverRemoveStep,
     UnregisterStep
<1> QED BY <1>5, <1>6

\* While VBoxManage works and no other command runs, rm fails only where the
\* store has no such machine, or where VirtualBox refuses Remove's Kill: it is
\* just starting, stopping or saving the machine, or the machine went down after
\* Remove had read its state (virtualbox.go:618-660, rm.go:31-45).
THEOREM RmSucceeds == Spec /\ "create" \notin Racing => RmWorks
<1>1. LifeInv /\ [Next]_vars =>
        [\A p \in Procs :
          (cmd[p] = "rm" /\ cmd'[p] = "idle" /\ outcome'[p] = "failed" /\ faults \cap {"vbm", "race"} = {})
              => \/ At(p, "load")
                 \/ At(p, "poweroff") /\ VM(p).state \in {"poweroff", "saved"} \cup InTransit]_vars
  <2> DEFINE Reason(p) == \/ At(p, "load")
                          \/ /\ At(p, "poweroff")
                             /\ VM(p).state \in {"poweroff", "saved"} \cup InTransit
  <2> SUFFICES ASSUME LifeInv, Next, NEW p \in Procs, cmd[p] = "rm", cmd'[p] = "idle",
                      outcome'[p] = "failed", faults \cap {"vbm", "race"} = {}
               PROVE  Reason(p)
    OBVIOUS
  <2>0. TypeOK /\ cmd'[p] # cmd[p]
    BY DEF LifeInv, LifecycleInv
  <2>1. ASSUME NEW q \in Procs, HostStep(q) \/ DriverStep(q) PROVE Reason(p)
    <3>1. q = p
      BY <2>0, <2>1, OthersGoOn
    <3> QED BY <2>1, <3>1, RmFails
  <2>2. ASSUME NEW q \in Procs, NEW c \in Commands, NEW m \in Machines, Give(q, c, m)
        PROVE  Reason(p)
    BY <2>0, <2>2 DEF Give, TypeOK
  <2>3. ASSUME NEW q \in Procs, Crash(q) PROVE Reason(p)
    BY <2>0, <2>3 DEF Crash, TypeOK
  <2>4. ASSUME NEW m \in Machines, GuestPowersOff(m) \/ Settles(m) \/ UserActs(m) PROVE Reason(p)
    BY <2>0, <2>4 DEF GuestPowersOff, Settles, UserActs
  <2> QED BY <2>1, <2>2, <2>3, <2>4 DEF Next
<1> QED BY <1>1, LifeInductive, PTL DEF Spec, RmWorks
-----------------------------------------------------------------------------
(* What a command that goes on has reached.  Each step leads from one       *)
(* stage to another, and the steps that are left lead from a stage that     *)
(* holds now to the one the command is for.                                 *)

Stages == {"any", "steady", "off", "up", "saved"}

Leads(s, a, b) ==
    \/ /\ a = "any" /\ b = "any"
       /\ s \in {"exists", "precheck", "load", "save", "iso", "disk", "createvm", "c_stopped",
                 "poweroff", "acpi", "resume", "setupnet", "setport", "provision"}
    \/ s \in {"setupvm", "c_running", "d_stop", "stoploop"} /\ a = "any" /\ b = "steady"
    \/ s \in {"startvm", "resume"} /\ a = "any" /\ b = "steady"
    \/ s \in {"h_start", "h_restart", "h_restart2", "h_upgrade"} /\ a = "any" /\ b = "up"
    \/ s = "w_stopped" /\ a \in {"any", "steady"} /\ b = "off"
    \/ s \in {"iso", "save"} /\ a = "off" /\ b = "off"
    \/ s = "d_start" /\ a \in {"steady", "off"} /\ b = "up"
    \/ s = "fixnet" /\ a = "steady" /\ b = "any"
    \/ s = "vtx" /\ a = "steady" /\ b = "steady"
    \/ s \in {"w_ip", "w_podman"} /\ a \in {"steady", "up"} /\ b = "up"
    \/ s \in {"w_running", "netcheck", "save"} /\ a = "up" /\ b = "up"
    \/ s = "provision" /\ a = "up" /\ b \in {"any", "up"}
    \/ s = "save" /\ a = "up" /\ b = "saved"

\* What holds of the machine of p at a stage.  One that runs is steady when
\* nobody has pressed its power button, since it may then not go down.
Holds(p, a) ==
    /\ a = "steady" => (VM(p).state = "running" => ~VM(p).button)
    /\ a = "off" => VM(p).state = "poweroff"
    /\ a \in {"up", "saved"} => Reachable(p) /\ ~VM(p).button
    /\ a = "saved" => entry[mach[p]] = Entry(port[p])

\* The stages f before, between and after the steps t.
Through(t, f) ==
    /\ f \in Seq(Stages) /\ Len(f) = Len(t) + 1
    /\ \A i \in 1..Len(t) : Leads(t[i], f[i], f[i + 1])

Goal(c) == IF c \in {"stop", "kill"} THEN "off" ELSE "saved"

OnTrack(p, f) ==
    Through(todo[p], f) /\ Holds(p, f[1]) /\ f[Len(f)] = Goal(cmd[p])

\* What rm has reached when its entry is all that is left, and when it is done.
RmReal(p) ==
    /\ cmd[p] = "rm" /\ todo[p] = R5 => VM(p).state = "absent"
    /\ cmd[p] = "rm" /\ todo[p] = << >> => VM(p).state = "absent" /\ entry[mach[p]] = NoEntry
    /\ cmd[p] = "rmforce" /\ todo[p] = << >> => entry[mach[p]] = NoEntry

RealInv ==
    /\ LifeInv /\ "rmforce" \notin Racing
    /\ \A p \in Procs :
          /\ "race" \in faults => cmd[p] # "rmforce"
          /\ "race" \notin faults => RmReal(p)
          /\ faults \cap {"gui", "race"} = {} /\ cmd[p] \in Acts \cup {"create"}
                => \E f : OnTrack(p, f)

\* Steps one after the other, where the second begin at the stage at which the
\* first end.
LEMMA ThroughJoin ==
    ASSUME NEW a \in Seq(Steps), NEW g, Through(a, g),
           NEW b \in Seq(Steps), NEW f, Through(b, f), g[Len(g)] = f[1]
    PROVE  \E h : Through(a \o b, h) /\ h[1] = g[1] /\ h[Len(h)] = f[Len(f)]
<1> DEFINE n == Len(a)
           k == Len(b)
           u == a \o b
           h == [i \in 1..(n + k + 1) |-> IF i <= n + 1 THEN g[i] ELSE f[i - n]]
<1>1. /\ n \in Nat /\ k \in Nat
      /\ f \in Seq(Stages) /\ Len(f) = k + 1 /\ g \in Seq(Stages) /\ Len(g) = n + 1
  BY DEF Through
<1>2. /\ u \in Seq(Steps) /\ Len(u) = n + k
      /\ \A i \in 1..(n + k) : u[i] = IF i <= n THEN a[i] ELSE b[i - n]
  BY ConcatProperties
<1>3. \A i \in 1..(n + 1) : g[i] \in Stages
  BY <1>1
<1>4. \A i \in 1..(k + 1) : f[i] \in Stages
  BY <1>1
<1>5. h \in Seq(Stages) /\ Len(h) = n + k + 1
  BY <1>1, <1>3, <1>4
<1>6. (\A i \in 1..(n + 1) : h[i] = g[i]) /\ (\A i \in (n + 1)..(n + k + 1) : h[i] = f[i - n])
  <2>1. \A i \in 1..(n + 1) : h[i] = g[i]
    BY <1>1
  <2>2. \A i \in (n + 2)..(n + k + 1) : h[i] = f[i - n]
    BY <1>1
  <2>3. h[n + 1] = f[1] /\ (n + 1) - n = 1
    BY <1>1, <2>1
  <2> HIDE DEF h
  <2> QED BY <1>1, <2>1, <2>2, <2>3
<1> HIDE DEF h, u
<1>7. ASSUME NEW i \in 1..Len(u) PROVE Leads(u[i], h[i], h[i + 1])
  <2>1. CASE i <= n
    <3>1. u[i] = a[i] /\ h[i] = g[i] /\ h[i + 1] = g[i + 1]
      BY <1>1, <1>2, <1>6, <2>1
    <3> QED BY <1>1, <2>1, <3>1 DEF Through
  <2>2. CASE i > n
    <3>1. /\ i \in 1..(n + k) /\ ~(i <= n) /\ i - n \in 1..k /\ (i + 1) - n = (i - n) + 1
          /\ i \in (n + 1)..(n + k + 1) /\ i + 1 \in (n + 1)..(n + k + 1)
      BY <1>1, <1>2, <2>2
    <3>2. u[i] = b[i - n] /\ h[i] = f[i - n]
      BY <1>2, <1>6, <3>1
    <3>3. h[i + 1] = f[(i - n) + 1]
      BY <1>6, <3>1
    <3> QED BY <3>1, <3>2, <3>3 DEF Through
  <2> QED BY <1>1, <1>2, <2>1, <2>2
<1>8. h[1] = g[1] /\ h[Len(h)] = f[Len(f)]
  <2>1. n + k + 1 \in (n + 1)..(n + k + 1) /\ (n + k + 1) - n = k + 1 /\ 1 \in 1..(n + 1)
    BY <1>1
  <2> QED BY <1>1, <1>5, <1>6, <2>1
<1>9. Through(u, h)
  BY <1>1, <1>2, <1>5, <1>7 DEF Through
<1> QED BY <1>8, <1>9 DEF u

LEMMA ThroughTail ==
    ASSUME NEW t \in Seq(Steps), t # << >>, NEW f, Through(t, f)
    PROVE  /\ Through(Tail(t), Tail(f)) /\ Tail(f)[1] = f[2]
           /\ Tail(f)[Len(Tail(f))] = f[Len(f)]
<1>1. f \in Seq(Stages) /\ Len(f) = Len(t) + 1 /\ Len(t) \in Nat \ {0}
  BY DEF Through
<1>2. /\ Tail(t) \in Seq(Steps) /\ Len(Tail(t)) = Len(t) - 1
      /\ \A i \in 1..(Len(t) - 1) : Tail(t)[i] = t[i + 1]
  BY <1>1
<1>3. /\ Tail(f) \in Seq(Stages) /\ Len(Tail(f)) = Len(t)
      /\ \A i \in 1..Len(t) : Tail(f)[i] = f[i + 1]
  BY <1>1
<1>4. ASSUME NEW i \in 1..Len(Tail(t)) PROVE Leads(Tail(t)[i], Tail(f)[i], Tail(f)[i + 1])
  <2>1. i \in 1..(Len(t) - 1) /\ i \in 1..Len(t) /\ i + 1 \in 1..Len(t)
    BY <1>1, <1>2
  <2>2. Tail(t)[i] = t[i + 1] /\ Tail(f)[i] = f[i + 1] /\ Tail(f)[i + 1] = f[(i + 1) + 1]
    BY <1>2, <1>3, <2>1
  <2> QED BY <2>1, <2>2 DEF Through
<1>5. Through(Tail(t), Tail(f))
  BY <1>1, <1>2, <1>3, <1>4 DEF Through
<1>6. 1 \in 1..Len(t) /\ Len(t) \in 1..Len(t)
  BY <1>1
<1> QED BY <1>1, <1>3, <1>5, <1>6

\* How p goes on: the stage that the step leads to is the one g ends with, and
\* the stage g begins with holds afterwards.
LEMMA GoesOn ==
    ASSUME TypeOK, NEW p \in Procs, NEW s, At(p, s), NEW f, OnTrack(p, f),
           NEW more \in Seq(Steps), Go(p, more), NEW g, Through(more, g),
           Leads(s, f[1], f[2]) => g[Len(g)] = f[2] /\ Holds(p, g[1])'
    PROVE  cmd'[p] = cmd[p] /\ \E h : OnTrack(p, h)'
<1>1. todo[p] \in Seq(Steps) /\ todo[p] # << >> /\ Head(todo[p]) = s
  BY DEF TypeOK, At
<1>2. todo'[p] = more \o Tail(todo[p]) /\ cmd' = cmd
  BY <1>1, GoDoes
<1>3. Leads(s, f[1], f[2])
  <2>1. 1 \in 1..Len(todo[p]) /\ todo[p][1] = s
    BY <1>1
  <2> QED BY <2>1 DEF OnTrack, Through
<1>4. PICK h : /\ Through(more \o Tail(todo[p]), h) /\ h[1] = g[1] /\ h[Len(h)] = f[Len(f)]
  <2> DEFINE t == Tail(todo[p])
             r == Tail(f)
  <2>1. t \in Seq(Steps)
    BY <1>1
  <2>2. Through(t, r) /\ r[1] = f[2] /\ r[Len(r)] = f[Len(f)]
    BY <1>1, ThroughTail DEF OnTrack
  <2> HIDE DEF t, r
  <2>3. \E h : Through(more \o t, h) /\ h[1] = g[1] /\ h[Len(h)] = r[Len(r)]
    BY <1>3, <2>1, <2>2, ThroughJoin
  <2> QED BY <2>2, <2>3 DEF t
<1>5. OnTrack(p, h)'
  BY <1>2, <1>3, <1>4 DEF OnTrack
<1> QED BY <1>2, <1>5

\* The same for a step that puts no other in front.
LEMMA GoesBy ==
    ASSUME TypeOK, NEW p \in Procs, NEW s, At(p, s), NEW f, OnTrack(p, f), Go(p, << >>),
           Leads(s, f[1], f[2]) => Holds(p, f[2])'
    PROVE  cmd'[p] = cmd[p] /\ \E h : OnTrack(p, h)'
<1>1. f[2] \in Stages
  <2>1. todo[p] \in Seq(Steps) /\ todo[p] # << >>
    BY DEF TypeOK, At
  <2>2. f \in Seq(Stages) /\ Len(f) = Len(todo[p]) + 1
    BY DEF OnTrack, Through
  <2> QED BY <2>1, <2>2
<1> DEFINE g == <<f[2]>>
<1>2. g \in Seq(Stages) /\ Len(g) = 1 /\ g[1] = f[2]
  BY <1>1
<1> HIDE DEF g
<1>3. Through(<< >>, g)
  BY <1>2 DEF Through
<1>4. << >> \in Seq(Steps)
  OBVIOUS
<1> QED BY <1>2, <1>3, <1>4, GoesOn

\* The stages of the sequences of steps that a step puts in front.
LEMMA Ways ==
    /\ Through(<<"c_running", "d_start", "w_running", "w_podman">>,
               <<"any", "steady", "up", "up", "up">>)
    /\ Through(<<"h_start", "w_podman">>, <<"any", "up", "up">>)
    /\ Through(<<"h_restart2">>, <<"any", "up">>)
    /\ Through(<<"d_stop", "d_start", "w_ip", "w_running", "w_podman">>,
               <<"any", "steady", "up", "up", "up", "up">>)
    /\ Through(<<"w_podman">>, <<"steady", "up">>)
    /\ Through(<<"vtx", "w_ip">>, <<"steady", "steady", "up">>)
    /\ Through(<<"resume", "vtx", "w_ip">>, <<"any", "steady", "steady", "up">>)
    /\ Through(<<"setport", "startvm", "vtx", "w_ip">>,
               <<"any", "any", "steady", "steady", "up">>)
    /\ Through(<<"d_stop", "fixnet", "startvm", "w_ip">>,
               <<"any", "steady", "any", "steady", "up">>)
    /\ Through(<<"resume", "acpi", "stoploop">>, <<"any", "any", "any", "steady">>)
    /\ Through(<<"acpi", "stoploop">>, <<"any", "any", "steady">>)
BY DEF Through, Leads, Stages

LEMMA UpgradeWay ==
    /\ UpgradeIso \in Seq(Steps)
    /\ Through(UpgradeIso, <<"any", "any", "steady", "off", "off", "up", "up">>)
    /\ Through(UpgradeIso, <<"up", "any", "steady", "off", "off", "up", "up">>)
BY DEF UpgradeIso, Through, Leads, Stages, Steps

LEMMA UpgradeStartWay ==
    \E h : Through(<<"h_start">> \o UpgradeIso, h) /\ h[1] = "any" /\ h[Len(h)] = "up"
<1> DEFINE g == <<"any", "up">>
           f == <<"up", "any", "steady", "off", "off", "up", "up">>
           a == <<"h_start">>
<1>1. a \in Seq(Steps) /\ Through(a, g) /\ g[1] = "any" /\ g[Len(g)] = "up"
  BY DEF Through, Leads, Stages, Steps
<1>2. UpgradeIso \in Seq(Steps) /\ Through(UpgradeIso, f) /\ f[1] = "up" /\ f[Len(f)] = "up"
  BY UpgradeWay
<1> HIDE DEF f, g, a
<1>3. \E h : Through(a \o UpgradeIso, h) /\ h[1] = g[1] /\ h[Len(h)] = f[Len(f)]
  BY <1>1, <1>2, ThroughJoin
<1> QED BY <1>1, <1>2, <1>3 DEF a

LEMMA StartWay ==
    \E h : /\ Through(<<"setupnet">> \o <<"setport", "startvm", "vtx", "w_ip">> \o <<"netcheck">>, h)
           /\ h[1] = "any" /\ h[Len(h)] = "up"
<1> DEFINE a == <<"setupnet">>
           b == <<"setport", "startvm", "vtx", "w_ip">>
           c == <<"netcheck">>
           e == <<"any", "any">>
           f == <<"any", "any", "steady", "steady", "up">>
           g == <<"up", "up">>
<1>1. a \in Seq(Steps) /\ Through(a, e) /\ e[1] = "any" /\ e[Len(e)] = "any"
  BY DEF Through, Leads, Stages, Steps
<1>2. b \in Seq(Steps) /\ Through(b, f) /\ f[1] = "any" /\ f[Len(f)] = "up"
  BY DEF Through, Leads, Stages, Steps
<1>3. c \in Seq(Steps) /\ Through(c, g) /\ g[1] = "up" /\ g[Len(g)] = "up"
  BY DEF Through, Leads, Stages, Steps
<1> HIDE DEF a, b, c, e, f, g
<1>4. PICK h : Through(a \o b, h) /\ h[1] = "any" /\ h[Len(h)] = "up"
  BY <1>1, <1>2, ThroughJoin
<1>5. a \o b \in Seq(Steps)
  BY <1>1, <1>2, ConcatProperties
<1>6. \E k : Through((a \o b) \o c, k) /\ k[1] = h[1] /\ k[Len(k)] = g[Len(g)]
  <2> DEFINE d == a \o b
  <2>1. d \in Seq(Steps) /\ Through(d, h) /\ h[Len(h)] = g[1]
    BY <1>3, <1>4, <1>5
  <2> HIDE DEF d
  <2>2. \E k : Through(d \o c, k) /\ k[1] = h[1] /\ k[Len(k)] = g[Len(g)]
    BY <1>3, <2>1, ThroughJoin
  <2> QED BY <2>2 DEF d
<1> QED BY <1>3, <1>4, <1>6 DEF a, b, c

\* The stages of a command from its beginning.
LEMMA ScriptWays ==
    ASSUME NEW c \in Acts \cup {"create"}
    PROVE  \E f : Through(Script(c), f) /\ f[1] = "any" /\ f[Len(f)] = Goal(c)
<1>1. CASE c = "create"
  <2> DEFINE f == <<"any", "any", "any", "any", "any", "any", "any", "steady", "up", "up", "up",
                    "up", "saved">>
  <2>1. Script(c) = C1
    BY <1>1 DEF Script, C1
  <2>2. Through(C1, f) /\ f[1] = "any" /\ f[Len(f)] = "saved"
    BY DEF C1, Through, Leads, Stages
  <2> QED BY <1>1, <2>1, <2>2 DEF Goal
<1>2. CASE c \in {"start", "restart", "upgrade"}
  <2> DEFINE f == <<"any", "any", "up", "saved">>
  <2>1. PICK s \in {"h_start", "h_restart", "h_upgrade"} : Script(c) = <<"load", s, "save">>
    BY <1>2 DEF Script
  <2>2. Through(<<"load", s, "save">>, f) /\ f[1] = "any" /\ f[Len(f)] = "saved"
    BY DEF Through, Leads, Stages
  <2> QED BY <1>2, <2>1, <2>2 DEF Goal
<1>3. CASE c = "stop"
  <2> DEFINE f == <<"any", "any", "any", "steady", "off", "off">>
             t == <<"load", "c_stopped", "d_stop", "w_stopped", "save">>
  <2>1. Script(c) = t
    BY <1>3 DEF Script
  <2>2. Through(t, f) /\ f[1] = "any" /\ f[Len(f)] = "off"
    BY DEF Through, Leads, Stages
  <2> QED BY <1>3, <2>1, <2>2 DEF Goal
<1>4. CASE c = "kill"
  <2> DEFINE f == <<"any", "any", "any", "any", "off", "off">>
             t == <<"load", "c_stopped", "poweroff", "w_stopped", "save">>
  <2>1. Script(c) = t
    BY <1>4 DEF Script
  <2>2. Through(t, f) /\ f[1] = "any" /\ f[Len(f)] = "off"
    BY DEF Through, Leads, Stages
  <2> QED BY <1>4, <2>1, <2>2 DEF Goal
<1> QED BY <1>1, <1>2, <1>3, <1>4 DEF Acts

\* p is still on its way, or its command has ended.
StaysOn(p) == cmd'[p] = "idle" \/ (cmd'[p] = cmd[p] /\ \E h : OnTrack(p, h)')

LEMMA NextStage ==
    ASSUME TypeOK, NEW p \in Procs, NEW s, At(p, s), NEW f, OnTrack(p, f)
    PROVE  Leads(s, f[1], f[2])
<1>1. todo[p] \in Seq(Steps) /\ todo[p] # << >> /\ Head(todo[p]) = s
  BY DEF TypeOK, At
<1>2. 1 \in 1..Len(todo[p]) /\ todo[p][1] = s
  BY <1>1
<1> QED BY <1>2 DEF OnTrack, Through

LEMMA FailsOut ==
    ASSUME TypeOK, NEW p \in Procs, cmd[p] # "rmforce", Fail(p, "failed")
    PROVE  StaysOn(p)
BY FailDoes DEF StaysOn

LEMMA CheckOn ==
    ASSUME TypeOK, NEW p \in Procs, cmd[p] # "rmforce", NEW f, OnTrack(p, f),
           NEW s, NEW ok, NEW err, NEW more \in Seq(Steps), Check(p, s, ok, more, err),
           NEW g, Through(more, g),
           ok /\ Leads(s, f[1], f[2]) => g[Len(g)] = f[2] /\ Holds(p, g[1])
    PROVE  StaysOn(p)
<1>1. At(p, s) /\ UNCHANGED <<vm, entry, port>>
  BY DEF Check
<1>2. CASE ok /\ Go(p, more)
  <2>1. g[Len(g)] = f[2] /\ Holds(p, g[1]) /\ mach' = mach
    BY <1>1, <1>2, NextStage DEF Go
  <2>2. Holds(p, g[1])'
    BY <1>1, <2>1 DEF Holds, VM, Reachable
  <2> QED BY <1>1, <1>2, <2>1, <2>2, GoesOn DEF StaysOn
<1>3. CASE Fail(p, "failed")
  BY <1>3, FailsOut
<1> QED BY <1>2, <1>3 DEF Check

LEMMA CheckBy ==
    ASSUME TypeOK, NEW p \in Procs, cmd[p] # "rmforce", NEW f, OnTrack(p, f),
           NEW s, NEW ok, NEW err, Check(p, s, ok, << >>, err),
           ok /\ Leads(s, f[1], f[2]) => Holds(p, f[2])
    PROVE  StaysOn(p)
<1>1. At(p, s) /\ UNCHANGED <<vm, entry, port>>
  BY DEF Check
<1>2. CASE ok /\ Go(p, << >>)
  <2>1. Holds(p, f[2]) /\ mach' = mach
    BY <1>1, <1>2, NextStage DEF Go
  <2>2. Holds(p, f[2])'
    BY <1>1, <2>1 DEF Holds, VM, Reachable
  <2> QED BY <1>1, <1>2, <2>2, GoesBy DEF StaysOn
<1>3. CASE Fail(p, "failed")
  BY <1>3, FailsOut
<1> QED BY <1>2, <1>3 DEF Check

\* The steps that put no other in front and change nothing.
LEMMA LooksOn ==
    ASSUME TypeOK, NEW p \in Procs, cmd[p] # "rmforce", NEW f, OnTrack(p, f),
           \/ ExistsStep(p) \/ PreCreateStep(p) \/ IsoStep(p) \/ DiskStep(p)
           \/ AlreadyRunningStep(p) \/ AlreadyStoppedStep(p) \/ WaitRunningStep(p)
           \/ WaitStoppedStep(p) \/ ProvisionStep(p) \/ WaitForPodmanStep(p)
           \/ VTXStep(p) \/ WaitIPStep(p) \/ StopLoopStep(p)
    PROVE  StaysOn(p)
<1>0. Holds(p, f[1])
  BY DEF OnTrack
<1>1. CASE ExistsStep(p) \/ PreCreateStep(p) \/ IsoStep(p) \/ DiskStep(p)
  <2>1. \A s \in {"exists", "precheck", "iso", "disk"} : Leads(s, f[1], f[2]) => f[2] = f[1]
    BY DEF Leads
  <2> QED BY <1>0, <1>1, <2>1, CheckBy DEF ExistsStep, PreCreateStep, IsoStep, DiskStep
<1>2. CASE AlreadyRunningStep(p)
  <2>1. VM(p).state # "running" /\ Leads("c_running", f[1], f[2]) => Holds(p, f[2])
    BY DEF Leads, Holds
  <2> QED BY <1>2, <2>1, CheckBy DEF AlreadyRunningStep
<1>3. CASE AlreadyStoppedStep(p)
  <2>1. Leads("c_stopped", f[1], f[2]) => Holds(p, f[2])
    BY DEF Leads, Holds
  <2> QED BY <1>3, <2>1, CheckBy DEF AlreadyStoppedStep
<1>4. CASE WaitRunningStep(p)
  <2>1. Leads("w_running", f[1], f[2]) => Holds(p, f[2])
    BY <1>0 DEF Leads
  <2> QED BY <1>4, <2>1, CheckBy DEF WaitRunningStep
<1>5. CASE WaitStoppedStep(p)
  <2>1. VM(p).state = "poweroff" /\ Leads("w_stopped", f[1], f[2]) => Holds(p, f[2])
    BY DEF Leads, Holds
  <2> QED BY <1>5, <2>1, CheckBy DEF WaitStoppedStep
<1>6. CASE ProvisionStep(p)
  <2>1. Leads("provision", f[1], f[2]) => Holds(p, f[2])
    BY <1>0 DEF Leads, Holds
  <2> QED BY <1>6, <2>1, CheckBy DEF ProvisionStep
<1>7. CASE WaitForPodmanStep(p)
  <2>1. Reachable(p) /\ Leads("w_podman", f[1], f[2]) => Holds(p, f[2])
    BY <1>0 DEF Leads, Holds, Reachable
  <2> QED BY <1>7, <2>1, CheckBy DEF WaitForPodmanStep
<1>8. CASE VTXStep(p)
  <2>1. Leads("vtx", f[1], f[2]) => Holds(p, f[2])
    BY <1>0 DEF Leads
  <2> QED BY <1>8, <2>1, CheckBy DEF VTXStep
<1>9. CASE WaitIPStep(p)
  <2>1. Reachable(p) /\ Leads("w_ip", f[1], f[2]) => Holds(p, f[2])
    BY <1>0 DEF Leads, Holds, Reachable
  <2> QED BY <1>9, <2>1, CheckBy DEF WaitIPStep
<1>10. CASE StopLoopStep(p)
  <2>1. VM(p).state \notin {"running", "absent"} /\ Leads("stoploop", f[1], f[2]) => Holds(p, f[2])
    BY DEF Leads, Holds
  <2> QED BY <1>10, <2>1, CheckBy DEF StopLoopStep
<1> QED BY <1>1, <1>2, <1>3, <1>4, <1>5, <1>6, <1>7, <1>8, <1>9, <1>10

\* The steps that put others in front.
LEMMA ExpandsOn ==
    ASSUME TypeOK, NEW p \in Procs, cmd[p] # "rmforce", NEW f, OnTrack(p, f),
           \/ HostStartStep(p) \/ HostRestartStep(p) \/ HostUpgradeStep(p)
           \/ DriverStartStep(p) \/ NetCheckStep(p) \/ DriverStopStep(p)
    PROVE  StaysOn(p)
<1>0. Holds(p, f[1]) /\ Holds(p, "any")
  BY DEF OnTrack, Holds
<1>1. CASE HostStartStep(p)
  <2> DEFINE more == <<"c_running", "d_start", "w_running", "w_podman">>
             g == <<"any", "steady", "up", "up", "up">>
  <2>1. more \in Seq(Steps) /\ Through(more, g) /\ g[1] = "any" /\ g[Len(g)] = "up"
    BY Ways DEF Steps
  <2>2. Leads("h_start", f[1], f[2]) => f[2] = "up"
    BY DEF Leads
  <2> HIDE DEF more, g
  <2>3. Check(p, "h_start", TRUE, more, FALSE)
    BY <1>1 DEF HostStartStep, more
  <2> QED BY <1>0, <2>1, <2>2, <2>3, CheckOn
<1>2. CASE HostRestartStep(p)
  <2>0. /\ Leads("h_restart", f[1], f[2]) => f[2] = "up"
        /\ Leads("h_restart2", f[1], f[2]) => f[2] = "up"
    BY DEF Leads
  <2>1. CASE Check(p, "h_restart", VM(p).state = "poweroff", <<"h_start", "w_podman">>, FALSE)
    <3> DEFINE more == <<"h_start", "w_podman">>
               g == <<"any", "up", "up">>
    <3>1. more \in Seq(Steps) /\ Through(more, g) /\ g[1] = "any" /\ g[Len(g)] = "up"
      BY Ways DEF Steps
    <3> DEFINE ok == VM(p).state = "poweroff"
    <3> HIDE DEF more, g, ok
    <3>2. Check(p, "h_restart", ok, more, FALSE)
      BY <2>1 DEF more, ok
    <3> QED BY <1>0, <2>0, <3>1, <3>2, CheckOn
  <2>2. CASE Check(p, "h_restart", VM(p).state # "poweroff", <<"h_restart2">>, FALSE)
    <3> DEFINE more == <<"h_restart2">>
               g == <<"any", "up">>
    <3>1. more \in Seq(Steps) /\ Through(more, g) /\ g[1] = "any" /\ g[Len(g)] = "up"
      BY Ways DEF Steps
    <3> HIDE DEF more, g
    <3>2. Check(p, "h_restart", VM(p).state # "poweroff", more, FALSE)
      BY <2>2 DEF more
    <3> QED BY <1>0, <2>0, <3>1, <3>2, CheckOn
  <2>3. CASE Check(p, "h_restart2", VM(p).state = "running",
                   <<"d_stop", "d_start", "w_ip", "w_running", "w_podman">>, FALSE)
    <3> DEFINE more == <<"d_stop", "d_start", "w_ip", "w_running", "w_podman">>
               g == <<"any", "steady", "up", "up", "up", "up">>
    <3>1. more \in Seq(Steps) /\ Through(more, g) /\ g[1] = "any" /\ g[Len(g)] = "up"
      BY Ways DEF Steps
    <3> DEFINE ok == VM(p).state = "running"
    <3> HIDE DEF more, g, ok
    <3>2. Check(p, "h_restart2", ok, more, FALSE)
      BY <2>3 DEF more, ok
    <3> QED BY <1>0, <2>0, <3>1, <3>2, CheckOn
  <2>4. CASE Check(p, "h_restart2", VM(p).state # "running", <<"w_podman">>, FALSE)
    <3> DEFINE more == <<"w_podman">>
               g == <<"steady", "up">>
    <3>1. more \in Seq(Steps) /\ Through(more, g) /\ g[1] = "steady" /\ g[Len(g)] = "up"
      BY Ways DEF Steps
    <3> HIDE DEF more, g
    <3>2. Check(p, "h_restart2", VM(p).state # "running", more, FALSE)
      BY <2>4 DEF more
    <3>3. VM(p).state # "running" => Holds(p, "steady")
      BY DEF Holds
    <3> QED BY <2>0, <3>1, <3>2, <3>3, CheckOn
  <2> QED BY <1>2, <2>1, <2>2, <2>3, <2>4 DEF HostRestartStep
<1>3. CASE HostUpgradeStep(p)
  <2>0. Leads("h_upgrade", f[1], f[2]) => f[2] = "up"
    BY DEF Leads
  <2>1. CASE Check(p, "h_upgrade", VM(p).state = "running", UpgradeIso, FALSE)
    <3> DEFINE g == <<"any", "any", "steady", "off", "off", "up", "up">>
    <3>1. UpgradeIso \in Seq(Steps) /\ Through(UpgradeIso, g) /\ g[1] = "any" /\ g[Len(g)] = "up"
      BY UpgradeWay
    <3> DEFINE ok == VM(p).state = "running"
    <3> HIDE DEF g, ok
    <3>2. Check(p, "h_upgrade", ok, UpgradeIso, FALSE)
      BY <2>1 DEF ok
    <3> QED BY <1>0, <2>0, <3>1, <3>2, CheckOn
  <2>2. CASE Check(p, "h_upgrade", VM(p).state \notin {"running", "absent"},
                   <<"h_start">> \o UpgradeIso, VM(p).state = "absent" \/ "vbm" \in faults)
    <3> DEFINE more == <<"h_start">> \o UpgradeIso
    <3>1. more \in Seq(Steps)
      <4>1. <<"h_start">> \in Seq(Steps)
        BY DEF Steps
      <4> QED BY <4>1, UpgradeWay, ConcatProperties
    <3>2. PICK g : Through(more, g) /\ g[1] = "any" /\ g[Len(g)] = "up"
      BY UpgradeStartWay
    <3>3. Check(p, "h_upgrade", VM(p).state \notin {"running", "absent"}, more,
                VM(p).state = "absent" \/ "vbm" \in faults)
      BY <2>2
    <3> HIDE DEF more
    <3> QED BY <1>0, <2>0, <3>1, <3>2, <3>3, CheckOn
  <2> QED BY <1>3, <2>1, <2>2 DEF HostUpgradeStep
<1>4. CASE DriverStartStep(p)
  <2> DEFINE up == <<"setport", "startvm", "vtx", "w_ip">>
  <2>0. Leads("d_start", f[1], f[2]) => f[2] = "up" /\ Holds(p, "steady")
    BY <1>0 DEF Leads, Holds
  <2>1. CASE Check(p, "d_start", VM(p).state = "poweroff", <<"setupnet">> \o up \o <<"netcheck">>,
                   VM(p).state = "absent" \/ "vbm" \in faults)
    <3> DEFINE more == <<"setupnet">> \o up \o <<"netcheck">>
    <3>1. more \in Seq(Steps)
      <4>1. up \in Seq(Steps) /\ <<"setupnet">> \in Seq(Steps) /\ <<"netcheck">> \in Seq(Steps)
        BY DEF Steps
      <4> HIDE DEF up
      <4> QED BY <4>1, ConcatProperties
    <3>2. PICK g : Through(more, g) /\ g[1] = "any" /\ g[Len(g)] = "up"
      BY StartWay
    <3>3. Check(p, "d_start", VM(p).state = "poweroff", more,
                VM(p).state = "absent" \/ "vbm" \in faults)
      BY <2>1
    <3> HIDE DEF more
    <3> QED BY <1>0, <2>0, <3>1, <3>2, <3>3, CheckOn
  <2>2. CASE Check(p, "d_start", VM(p).state = "saved", up, FALSE)
    <3> DEFINE g == <<"any", "any", "steady", "steady", "up">>
    <3>1. up \in Seq(Steps) /\ Through(up, g) /\ g[1] = "any" /\ g[Len(g)] = "up"
      BY Ways DEF Steps
    <3> DEFINE ok == VM(p).state = "saved"
    <3> HIDE DEF g, up, ok
    <3>2. Check(p, "d_start", ok, up, FALSE)
      BY <2>2 DEF ok
    <3> QED BY <1>0, <2>0, <3>1, <3>2, CheckOn
  <2>3. CASE Check(p, "d_start", VM(p).state = "paused", <<"resume", "vtx", "w_ip">>, FALSE)
    <3> DEFINE more == <<"resume", "vtx", "w_ip">>
               g == <<"any", "steady", "steady", "up">>
    <3>1. more \in Seq(Steps) /\ Through(more, g) /\ g[1] = "any" /\ g[Len(g)] = "up"
      BY Ways DEF Steps
    <3> DEFINE ok == VM(p).state = "paused"
    <3> HIDE DEF more, g, ok
    <3>2. Check(p, "d_start", ok, more, FALSE)
      BY <2>3 DEF more, ok
    <3> QED BY <1>0, <2>0, <3>1, <3>2, CheckOn
  <2>4. CASE Check(p, "d_start", VM(p).state \in {"running", "stuck"} \cup InTransit,
                   <<"vtx", "w_ip">>, FALSE)
    <3> DEFINE more == <<"vtx", "w_ip">>
               g == <<"steady", "steady", "up">>
    <3>1. more \in Seq(Steps) /\ Through(more, g) /\ g[1] = "steady" /\ g[Len(g)] = "up"
      BY Ways DEF Steps
    <3> DEFINE ok == VM(p).state \in {"running", "stuck"} \cup InTransit
    <3> HIDE DEF more, g, ok
    <3>2. Check(p, "d_start", ok, more, FALSE)
      BY <2>4 DEF more, ok
    <3> QED BY <2>0, <3>1, <3>2, CheckOn
  <2> QED BY <1>4, <2>1, <2>2, <2>3, <2>4 DEF DriverStartStep
<1>5. CASE NetCheckStep(p)
  <2>0. Leads("netcheck", f[1], f[2]) => f[2] = "up" /\ Holds(p, f[2])
    BY <1>0 DEF Leads
  <2>1. CASE Check(p, "netcheck", TRUE, << >>, "vbm" \in faults)
    BY <2>0, <2>1, CheckBy
  <2>2. CASE Check(p, "netcheck", "net" \in faults, <<"d_stop", "fixnet", "startvm", "w_ip">>, FALSE)
    <3> DEFINE more == <<"d_stop", "fixnet", "startvm", "w_ip">>
               g == <<"any", "steady", "any", "steady", "up">>
    <3>1. more \in Seq(Steps) /\ Through(more, g) /\ g[1] = "any" /\ g[Len(g)] = "up"
      BY Ways DEF Steps
    <3> HIDE DEF more, g
    <3>2. Check(p, "netcheck", "net" \in faults, more, FALSE)
      BY <2>2 DEF more
    <3> QED BY <1>0, <2>0, <3>1, <3>2, CheckOn
  <2> QED BY <1>5, <2>1, <2>2 DEF NetCheckStep
<1>6. CASE DriverStopStep(p)
  <2>0. Leads("d_stop", f[1], f[2]) => f[2] = "steady"
    BY DEF Leads
  <2>1. CASE Check(p, "d_stop", VM(p).state = "paused", <<"resume", "acpi", "stoploop">>, FALSE)
    <3> DEFINE more == <<"resume", "acpi", "stoploop">>
               g == <<"any", "any", "any", "steady">>
    <3>1. more \in Seq(Steps) /\ Through(more, g) /\ g[1] = "any" /\ g[Len(g)] = "steady"
      BY Ways DEF Steps
    <3> DEFINE ok == VM(p).state = "paused"
    <3> HIDE DEF more, g, ok
    <3>2. Check(p, "d_stop", ok, more, FALSE)
      BY <2>1 DEF more, ok
    <3> QED BY <1>0, <2>0, <3>1, <3>2, CheckOn
  <2>2. CASE Check(p, "d_stop", VM(p).state \notin {"paused", "absent"}, <<"acpi", "stoploop">>,
                   VM(p).state = "absent" \/ "vbm" \in faults)
    <3> DEFINE more == <<"acpi", "stoploop">>
               g == <<"any", "any", "steady">>
    <3>1. more \in Seq(Steps) /\ Through(more, g) /\ g[1] = "any" /\ g[Len(g)] = "steady"
      BY Ways DEF Steps
    <3> HIDE DEF more, g
    <3>2. Check(p, "d_stop", VM(p).state \notin {"paused", "absent"}, more,
                VM(p).state = "absent" \/ "vbm" \in faults)
      BY <2>2 DEF more
    <3> QED BY <1>0, <2>0, <3>1, <3>2, CheckOn
  <2> QED BY <1>6, <2>1, <2>2 DEF DriverStopStep
<1> QED BY <1>1, <1>2, <1>3, <1>4, <1>5, <1>6

\* The steps that change VirtualBox, the store or the driver's port.
LEMMA ChangesOn ==
    ASSUME TypeOK, NEW p \in Procs, cmd[p] # "rmforce", NEW f, OnTrack(p, f),
           \/ LoadStep(p) \/ SaveStep(p) \/ CreateVMStep(p) \/ SetupVMStep(p) \/ SetupNetStep(p)
           \/ FixNetStep(p) \/ SetPortStep(p) \/ StartVMStep(p) \/ ResumeStep(p) \/ AcpiStep(p)
           \/ PowerOffStep(p)
    PROVE  StaysOn(p)
<1>0. /\ Holds(p, f[1]) /\ mach[p] \in Machines
      /\ vm \in [Machines -> [state : VMStates, port : Ports \cup {0}, button : BOOLEAN]]
      /\ entry \in [Machines -> [there : BOOLEAN, port : Ports \cup {0}]]
  BY DEF OnTrack, TypeOK
<1>1. Holds(p, "any")'
  BY DEF Holds
<1>2. Fail(p, "failed") => StaysOn(p)
  BY FailsOut
<1>3. \A s : At(p, s) => Leads(s, f[1], f[2])
  BY NextStage
<1>4. \A s : At(p, s) /\ Go(p, << >>) /\ Holds(p, f[2])' => StaysOn(p)
  BY GoesBy DEF StaysOn
<1>5. CASE LoadStep(p)
  <2>1. Leads("load", f[1], f[2]) => f[2] = "any"
    BY DEF Leads
  <2> QED BY <1>1, <1>2, <1>3, <1>4, <1>5, <2>1 DEF LoadStep
<1>6. CASE SaveStep(p)
  <2>1. At(p, "save") /\ Go(p, << >>) /\ vm' = vm /\ port' = port /\ mach' = mach
    BY <1>6 DEF SaveStep, Go
  <2>2. entry'[mach[p]] = Entry(port[p])
    BY <1>0, <1>6 DEF SaveStep
  <2>3. Leads("save", f[1], f[2]) => f[2] = f[1] \/ (f[1] = "up" /\ f[2] = "saved")
    BY DEF Leads
  <2>4. Holds(p, f[2])'
    BY <1>0, <1>3, <2>1, <2>2, <2>3 DEF Holds, VM, Reachable
  <2> QED BY <1>4, <2>1, <2>4
<1>7. CASE CreateVMStep(p) \/ SetupNetStep(p) \/ FixNetStep(p) \/ AcpiStep(p) \/ PowerOffStep(p)
  <2>1. \A s \in {"createvm", "setupnet", "fixnet", "acpi", "poweroff"} :
            Leads(s, f[1], f[2]) => f[2] = "any"
    BY DEF Leads
  <2> QED BY <1>1, <1>2, <1>3, <1>4, <1>7, <2>1 DEF CreateVMStep, SetupNetStep, FixNetStep,
          AcpiStep, PowerOffStep, Vbm
<1>8. CASE SetPortStep(p)
  <2>1. Leads("setport", f[1], f[2]) => f[2] = "any"
    BY DEF Leads
  <2>2. At(p, "setport") /\ (Go(p, << >>) \/ Fail(p, "failed"))
    BY <1>8 DEF SetPortStep
  <2> QED BY <1>1, <1>2, <1>3, <1>4, <2>1, <2>2
<1>9. CASE SetupVMStep(p)
  <2>1. Leads("setupvm", f[1], f[2]) => f[2] = "steady"
    BY DEF Leads
  <2>2. CASE VM(p).state = "poweroff" /\ vm' = vm /\ Go(p, << >>)
    <3>1. Holds(p, "steady")'
      BY <2>2 DEF Holds, VM, Go
    <3> QED BY <1>3, <1>4, <1>9, <2>1, <2>2, <3>1 DEF SetupVMStep, Vbm
  <2> QED BY <1>2, <1>9, <2>2 DEF SetupVMStep, Vbm
<1>10. CASE StartVMStep(p) \/ ResumeStep(p)
  <2>1. \A s \in {"startvm", "resume"} : Leads(s, f[1], f[2]) => f[2] \in {"any", "steady"}
    BY DEF Leads
  <2>2. CASE SetState(p, "running") /\ Go(p, << >>)
    <3>1. mach' = mach /\ ~vm'[mach[p]].button
      BY <1>0, <2>2 DEF SetState, Go
    <3>2. Holds(p, "steady")'
      BY <3>1 DEF Holds, VM
    <3> QED BY <1>1, <1>3, <1>4, <1>10, <2>1, <2>2, <3>2 DEF StartVMStep, ResumeStep, Vbm
  <2> QED BY <1>2, <1>10, <2>2 DEF StartVMStep, ResumeStep, Vbm
<1> QED BY <1>5, <1>6, <1>7, <1>8, <1>9, <1>10

\* Every step of a command that starts or stops a machine.
LEMMA CommandOn ==
    ASSUME TypeOK, NEW p \in Procs, cmd[p] # "rmforce", NEW f, OnTrack(p, f),
           HostStep(p) \/ DriverStep(p)
    PROVE  StaysOn(p)
<1>1. Done(p) => StaysOn(p)
  BY DEF Done, StaysOn, TypeOK
<1>2. ~At(p, "local") /\ ~At(p, "d_remove") /\ ~At(p, "unregister")
  <2>1. \A s \in {"local", "d_remove", "unregister"} : ~Leads(s, f[1], f[2])
    BY DEF Leads
  <2> QED BY <2>1, NextStage
<1>3. ~(LocalStep(p) \/ DriverRemoveStep(p) \/ UnregisterStep(p))
  BY <1>2 DEF LocalStep, DriverRemoveStep, UnregisterStep, Check, Vbm
<1>4. CASE HostStep(p)
  BY <1>1, <1>3, <1>4, LooksOn, ExpandsOn, ChangesOn DEF HostStep
<1>5. CASE DriverStep(p)
  BY <1>3, <1>5, LooksOn, ExpandsOn, ChangesOn DEF DriverStep
<1> QED BY <1>4, <1>5

\* rm and rm -f: what is left to do, and what has been done.
LEMMA RmOn ==
    ASSUME LifeInv, NEW p \in Procs, cmd[p] \in Rms, RmReal(p), HostStep(p) \/ DriverStep(p)
    PROVE  RmReal(p)'
<1>0. /\ TypeOK /\ Shape(p) /\ mach[p] \in Machines
      /\ vm \in [Machines -> [state : VMStates, port : Ports \cup {0}, button : BOOLEAN]]
      /\ entry \in [Machines -> [there : BOOLEAN, port : Ports \cup {0}]]
  BY DEF LifeInv, LifecycleInv, TypeOK
<1>1. R2 # << >> /\ R2 # R5 /\ R3 # << >> /\ R3 # R5 /\ R4 # << >> /\ R4 # R5 /\ R5 # << >>
  BY Heads
<1>2. Fail(p, "failed") => RmReal(p)'
  <2>1. SUFFICES ASSUME Fail(p, "failed") PROVE RmReal(p)'
    OBVIOUS
  <2>2. cmd'[p] = "idle" \/ (cmd'[p] = "rmforce" /\ todo'[p] = R5)
    BY <1>0, <2>1, FailDoes
  <2> QED BY <1>1, <2>2 DEF RmReal
<1>3. \A more \in Seq(Steps) : Go(p, more) /\ todo[p] # << >> =>
          todo'[p] = more \o Tail(todo[p]) /\ cmd' = cmd /\ mach' = mach
  BY <1>0, GoDoes
<1>4. << >> \in Seq(Steps) /\ <<"unregister">> \in Seq(Steps)
      /\ <<"poweroff", "unregister">> \in Seq(Steps)
  BY DEF Steps
<1>5. << >> \o R2 = R2 /\ << >> \o R3 = R3 /\ << >> \o R5 = R5 /\ << >> \o << >> = << >>
  BY DEF R2, R3, R5
<1>6. CASE Done(p)
  <2>1. cmd'[p] = "idle"
    BY <1>0, <1>6 DEF Done, TypeOK
  <2> QED BY <2>1 DEF RmReal
<1>7. CASE LoadStep(p)
  <2>1. todo[p] = R1 /\ todo[p] # << >>
    BY <1>0, <1>7, HeadShape DEF LoadStep, At, Rms, Acts
  <2>2. Go(p, << >>) => RmReal(p)'
    BY <1>1, <1>3, <1>4, <1>5, <2>1, Tails DEF RmReal
  <2> QED BY <1>2, <1>7, <2>2 DEF LoadStep
<1>8. CASE DriverRemoveStep(p)
  <2>1. At(p, "d_remove") /\ UNCHANGED <<vm, entry, port>>
    BY <1>8 DEF DriverRemoveStep, Check
  <2>2. todo[p] = R2 /\ todo[p] # << >>
    BY <1>0, <2>1, HeadShape DEF At
  <2>3. VM(p).state = "absent" /\ Go(p, << >>) => RmReal(p)'
    BY <1>1, <1>3, <1>4, <1>5, <2>1, <2>2, Tails DEF RmReal, VM
  <2>4. Go(p, <<"unregister">>) \/ Go(p, <<"poweroff", "unregister">>) => RmReal(p)'
    BY <1>1, <1>3, <1>4, <2>2, Tails, Joined DEF RmReal
  <2> QED BY <1>2, <1>8, <2>3, <2>4 DEF DriverRemoveStep, Check
<1>9. CASE PowerOffStep(p)
  <2>1. At(p, "poweroff")
    BY <1>9 DEF PowerOffStep, Vbm
  <2>2. todo[p] = R4 /\ todo[p] # << >>
    BY <1>0, <2>1, HeadShape DEF At
  <2>3. Go(p, << >>) => RmReal(p)'
    BY <1>1, <1>3, <1>4, <1>5, <2>2, Tails DEF RmReal
  <2> QED BY <1>2, <1>9, <2>3 DEF PowerOffStep, Vbm
<1>10. CASE UnregisterStep(p)
  <2>1. At(p, "unregister")
    BY <1>10 DEF UnregisterStep, Vbm
  <2>2. todo[p] = R3 /\ todo[p] # << >>
    BY <1>0, <2>1, HeadShape DEF At
  <2>3. CASE vm' = [vm EXCEPT ![mach[p]] = Absent] /\ Go(p, << >>)
    <3>1. vm'[mach[p]].state = "absent"
      BY <1>0, <2>3 DEF Absent
    <3> QED BY <1>1, <1>3, <1>4, <1>5, <2>2, <2>3, <3>1, Tails DEF RmReal, VM
  <2> QED BY <1>2, <1>10, <2>3 DEF UnregisterStep, Vbm
<1>11. CASE LocalStep(p)
  <2>1. At(p, "local") /\ UNCHANGED <<vm, port>>
    BY <1>11 DEF LocalStep
  <2>2. todo[p] = R5 /\ todo[p] # << >>
    BY <1>0, <2>1, HeadShape DEF At
  <2>3. CASE entry' = [entry EXCEPT ![mach[p]] = NoEntry] /\ Go(p, << >>)
    <3>1. entry'[mach[p]] = NoEntry
      BY <1>0, <2>3
    <3>2. todo'[p] = << >> /\ cmd' = cmd /\ mach' = mach
      BY <1>3, <1>4, <1>5, <2>2, <2>3, Tails
    <3> QED BY <1>1, <2>1, <2>2, <3>1, <3>2 DEF RmReal, VM
  <2> QED BY <1>2, <1>11, <2>3 DEF LocalStep
<1> QED BY <1>6, <1>7, <1>8, <1>9, <1>10, <1>11, RmSteps

\* What a step of p leaves alone, and how it may end the command.
LEMMA StepEnds ==
    ASSUME TypeOK, NEW p \in Procs, cmd[p] # "idle", HostStep(p) \/ DriverStep(p)
    PROVE  /\ mach' = mach /\ faults' = faults /\ cmd'[p] \in {cmd[p], "idle"}
           /\ cmd'[p] = "idle" =>
                 \/ Done(p)
                 \/ cmd[p] # "rmforce" /\ outcome'[p] = "failed"
                 \/ cmd[p] = "rmforce" /\ ~entry[mach[p]].there
<1>0. /\ cmd \in [Procs -> AllCommands \cup {"idle"}]
      /\ outcome \in [Procs -> {"none", "ok", "failed", "killed"}]
  BY DEF TypeOK
<1> DEFINE Ends == /\ mach' = mach /\ faults' = faults /\ cmd'[p] \in {cmd[p], "idle"}
                   /\ cmd'[p] = "idle" =>
                         \/ Done(p)
                         \/ cmd[p] # "rmforce" /\ outcome'[p] = "failed"
                         \/ cmd[p] = "rmforce" /\ ~entry[mach[p]].there
<1>1. \A more : Go(p, more) => Ends
  BY DEF Go
<1>2. Fail(p, "failed") /\ (~At(p, "local") \/ ~entry[mach[p]].there) => Ends
  BY <1>0 DEF Fail
<1>3. Done(p) => Ends
  BY <1>0 DEF Done
<1>4. \A s : At(p, s) /\ s # "local" => ~At(p, "local")
  BY DEF At
<1> HIDE DEF Ends
<1>5. /\ \A s, ok, more, err : Check(p, s, ok, more, err) /\ s # "local" => Ends
      /\ \A s, ok, eff, more : Vbm(p, s, ok, eff, more) /\ s # "local" => Ends
  BY <1>1, <1>2, <1>4 DEF Check, Vbm
<1>6. LoadStep(p) \/ SaveStep(p) \/ LocalStep(p) \/ SetPortStep(p) => Ends
  BY <1>1, <1>2, <1>4 DEF LoadStep, SaveStep, LocalStep, SetPortStep
<1>7. HostStep(p) => Ends
  BY <1>3, <1>5, <1>6 DEF HostStep, ExistsStep, PreCreateStep, AlreadyRunningStep,
     AlreadyStoppedStep, WaitRunningStep, WaitStoppedStep, ProvisionStep, WaitForPodmanStep,
     HostStartStep, HostRestartStep, HostUpgradeStep
<1>8. DriverStep(p) => Ends
  BY <1>5, <1>6 DEF DriverStep, IsoStep, DiskStep, CreateVMStep, SetupVMStep,
     DriverStartStep, SetupNetStep, FixNetStep, StartVMStep, ResumeStep, VTXStep, WaitIPStep,
     NetCheckStep, DriverStopStep, AcpiStep, StopLoopStep, PowerOffStep, DriverRemoveStep,
     UnregisterStep
<1>9. Ends
  BY <1>7, <1>8
<1> QED BY <1>9 DEF Ends

LEMMA RealInit == Init /\ {"create", "rmforce"} \cap Racing = {} => RealInv
<1> SUFFICES ASSUME Init, {"create", "rmforce"} \cap Racing = {} PROVE RealInv
  OBVIOUS
<1>1. LifeInv
  BY LifeInit
<1>2. \A p \in Procs : cmd[p] = "idle"
  BY DEF Init
<1> QED BY <1>1, <1>2 DEF RealInv, RmReal, Acts

\* VirtualBox and its user leave a machine that is off or gone, and one that
\* runs with its button unpressed only the user touches.
LEMMA RealVirtualBox ==
    ASSUME RealInv, LifeInv', NEW m \in Machines, GuestPowersOff(m) \/ Settles(m) \/ UserActs(m)
    PROVE  RealInv'
<1>0. TypeOK
  BY DEF RealInv, LifeInv, LifecycleInv
<1>1. UNCHANGED <<entry, cmd, mach, todo, port, faults>>
  BY DEF GuestPowersOff, Settles, UserActs
<1>2. vm \in [Machines -> [state : VMStates, port : Ports \cup {0}, button : BOOLEAN]]
  BY <1>0 DEF TypeOK
<1>3. \A k \in Machines : vm[k].state = "absent" => vm'[k] = vm[k]
  BY <1>2 DEF GuestPowersOff, Settles, UserActs
<1>4. ASSUME NEW p \in Procs, RmReal(p) PROVE RmReal(p)'
  <2>1. mach[p] \in Machines
    BY <1>0 DEF TypeOK
  <2> QED BY <1>1, <1>3, <1>4, <2>1 DEF RmReal, VM
<1>5. ASSUME NEW p \in Procs, NEW f, OnTrack(p, f), "gui" \notin faults PROVE OnTrack(p, f)'
  <2>1. mach[p] \in Machines /\ Holds(p, f[1])
    BY <1>0, <1>5 DEF TypeOK, OnTrack
  <2>2. PICK s \in {"stopping", "running", "poweroff", "saved"} :
            vm' = [vm EXCEPT ![m].state = s, ![m].button = FALSE]
    BY <1>5 DEF GuestPowersOff, Settles, UserActs
  <2>5. vm[m].state # "poweroff" /\ (vm[m].state = "running" => vm[m].button)
    BY <1>5 DEF GuestPowersOff, Settles, UserActs
  <2>3. CASE mach[p] = m
    <3>1. ~vm'[m].button
      BY <1>2, <2>2
    <3> QED BY <1>1, <1>5, <2>1, <2>3, <2>5, <3>1 DEF OnTrack, Holds, VM, Reachable
  <2>4. CASE mach[p] # m
    <3>1. vm'[mach[p]] = vm[mach[p]]
      BY <1>2, <2>1, <2>2, <2>4
    <3> QED BY <1>1, <1>5, <3>1 DEF OnTrack, Holds, VM, Reachable
  <2> QED BY <2>3, <2>4
<1>6. ASSUME NEW p \in Procs, faults' \cap {"gui", "race"} = {}, cmd'[p] \in Acts \cup {"create"}
      PROVE  \E f : OnTrack(p, f)'
  <2>1. "gui" \notin faults /\ \E f : OnTrack(p, f)
    BY <1>1, <1>6 DEF RealInv
  <2> QED BY <1>5, <2>1
<1> QED BY <1>1, <1>4, <1>6 DEF RealInv

LEMMA RealCommand ==
    ASSUME RealInv, LifeInv', NEW p \in Procs, HostStep(p) \/ DriverStep(p)
    PROVE  RealInv'
<1>0. TypeOK /\ LifeInv /\ Shape(p)
  BY DEF RealInv, LifeInv, LifecycleInv
<1>1. cmd[p] # "idle"
  <2>1. todo[p] # << >> => cmd[p] # "idle"
    BY <1>0 DEF Shape
  <2>2. \A s : At(p, s) => cmd[p] # "idle"
    BY <2>1 DEF At
  <2>3. /\ \A s, ok, more, err : Check(p, s, ok, more, err) => cmd[p] # "idle"
        /\ \A s, ok, eff, more : Vbm(p, s, ok, eff, more) => cmd[p] # "idle"
    BY <2>2 DEF Check, Vbm
  <2>4. Done(p) \/ LoadStep(p) \/ SaveStep(p) \/ LocalStep(p) \/ SetPortStep(p) => cmd[p] # "idle"
    BY <2>2 DEF Done, LoadStep, SaveStep, LocalStep, SetPortStep
  <2>5. HostStep(p) => cmd[p] # "idle"
    BY <2>3, <2>4 DEF HostStep, ExistsStep, PreCreateStep, AlreadyRunningStep,
       AlreadyStoppedStep, WaitRunningStep, WaitStoppedStep, ProvisionStep, WaitForPodmanStep,
       HostStartStep, HostRestartStep, HostUpgradeStep
  <2>6. DriverStep(p) => cmd[p] # "idle"
    BY <2>3, <2>4 DEF DriverStep, IsoStep, DiskStep, CreateVMStep, SetupVMStep,
       DriverStartStep, SetupNetStep, FixNetStep, StartVMStep, ResumeStep, VTXStep, WaitIPStep,
       NetCheckStep, DriverStopStep, AcpiStep, StopLoopStep, PowerOffStep, DriverRemoveStep,
       UnregisterStep
  <2> QED BY <2>5, <2>6
<1>2. mach' = mach /\ faults' = faults /\ cmd'[p] \in {cmd[p], "idle"}
  BY <1>0, <1>1, StepEnds
<1>3. \A q \in Procs \ {p} : cmd'[q] = cmd[q]
  BY <1>0, OthersGoOn
<1>4. \A q \in Procs \ {p} : "race" \notin faults => cmd[q] = "idle"
  BY <1>0, <1>1, OtherRuns
<1>5. \A q \in Procs : cmd[q] = "idle" /\ cmd'[q] = "idle" => RmReal(q)'
  BY DEF RmReal
<1>6. "race" \notin faults => RmReal(p)'
  <2>1. CASE cmd[p] \in Rms
    BY <1>0, <2>1, RmOn DEF RealInv
  <2>2. CASE cmd[p] \notin Rms
    <3>1. cmd'[p] \notin Rms
      BY <1>2, <2>2 DEF Rms
    <3> QED BY <3>1 DEF RmReal, Rms
  <2> QED BY <2>1, <2>2
<1>7. faults \cap {"gui", "race"} = {} /\ cmd'[p] \in Acts \cup {"create"} => \E f : OnTrack(p, f)'
  <2> SUFFICES ASSUME faults \cap {"gui", "race"} = {}, cmd'[p] \in Acts \cup {"create"}
               PROVE  \E f : OnTrack(p, f)'
    OBVIOUS
  <2>1. cmd'[p] # "idle" /\ cmd[p] = cmd'[p] /\ cmd[p] # "rmforce"
    BY <1>2 DEF Acts
  <2>2. PICK f : OnTrack(p, f)
    BY <2>1 DEF RealInv
  <2>3. StaysOn(p)
    BY <1>0, <2>1, <2>2, CommandOn
  <2> QED BY <2>1, <2>3 DEF StaysOn
<1>8. ASSUME NEW q \in Procs
      PROVE  /\ "race" \in faults' => cmd'[q] # "rmforce"
             /\ "race" \notin faults' => RmReal(q)'
             /\ faults' \cap {"gui", "race"} = {} /\ cmd'[q] \in Acts \cup {"create"}
                   => \E f : OnTrack(q, f)'
  <2>1. CASE q = p
    BY <1>2, <1>6, <1>7, <2>1 DEF RealInv
  <2>2. CASE q # p
    BY <1>2, <1>3, <1>4, <1>5, <2>2 DEF RealInv, Acts
  <2> QED BY <2>1, <2>2
<1> QED BY <1>8 DEF RealInv

LEMMA RealGive ==
    ASSUME RealInv, LifeInv', NEW p \in Procs, NEW c \in Commands, NEW m \in Machines,
           Give(p, c, m)
    PROVE  RealInv'
<1>0. TypeOK /\ TypeOK'
  BY DEF RealInv, LifeInv, LifecycleInv
<1>1. /\ MayGive(p, c, m) /\ UNCHANGED <<vm, entry, faults>>
      /\ cmd'[p] = c /\ todo'[p] = Script(c)
      /\ \A q \in Procs \ {p} :
            cmd'[q] = cmd[q] /\ todo'[q] = todo[q] /\ port'[q] = port[q] /\ mach'[q] = mach[q]
  BY <1>0 DEF Give, TypeOK
<1>2. ASSUME NEW q \in Procs \ {p}
      PROVE  (RmReal(q) => RmReal(q)') /\ \A f : OnTrack(q, f) => OnTrack(q, f)'
  BY <1>1 DEF RmReal, OnTrack, Holds, VM, Reachable
<1>3. "race" \in faults => c # "rmforce"
  BY <1>1 DEF MayGive, RealInv
<1>4. RmReal(p)'
  <2>1. c \in Rms => Script(c) = R1
    BY DEF Script, R1, Rms
  <2>2. R1 # << >> /\ R1 # R5
    BY Heads
  <2> QED BY <1>1, <2>1, <2>2 DEF RmReal, Rms
<1>5. c \in Acts \cup {"create"} => \E f : OnTrack(p, f)'
  <2>1. ASSUME c \in Acts \cup {"create"} PROVE \E f : OnTrack(p, f)'
    <3>1. PICK f : Through(Script(c), f) /\ f[1] = "any" /\ f[Len(f)] = Goal(c)
      BY <2>1, ScriptWays
    <3>2. Holds(p, "any")'
      BY DEF Holds
    <3>3. OnTrack(p, f)'
      BY <1>1, <3>1, <3>2 DEF OnTrack
    <3> QED BY <3>3
  <2> QED BY <2>1
<1>6. ASSUME NEW q \in Procs
      PROVE  /\ "race" \in faults' => cmd'[q] # "rmforce"
             /\ "race" \notin faults' => RmReal(q)'
             /\ faults' \cap {"gui", "race"} = {} /\ cmd'[q] \in Acts \cup {"create"}
                   => \E f : OnTrack(q, f)'
  <2>1. CASE q = p
    BY <1>1, <1>3, <1>4, <1>5, <2>1
  <2>2. CASE q # p
    BY <1>1, <1>2, <2>2 DEF RealInv
  <2> QED BY <2>1, <2>2
<1> QED BY <1>6 DEF RealInv

LEMMA RealCrash ==
    ASSUME RealInv, LifeInv', NEW p \in Procs, Crash(p)
    PROVE  RealInv'
<1>0. TypeOK /\ LifeInv /\ cmd[p] # "idle"
  BY DEF RealInv, LifeInv, LifecycleInv, Crash
<1>1. /\ UNCHANGED <<entry, mach, port, faults>> /\ cmd'[p] = "idle"
      /\ \A q \in Procs \ {p} : cmd'[q] = cmd[q] /\ todo'[q] = todo[q]
  BY <1>0 DEF Crash, TypeOK
<1>2. ASSUME NEW q \in Procs \ {p}, "race" \notin faults
      PROVE  cmd'[q] = "idle" /\ RmReal(q)'
  <2>1. cmd'[q] = "idle"
    BY <1>0, <1>1, <1>2, OtherRuns
  <2> QED BY <2>1 DEF RmReal
<1>3. RmReal(p)'
  BY <1>1 DEF RmReal
<1>4. ASSUME NEW q \in Procs
      PROVE  /\ "race" \in faults' => cmd'[q] # "rmforce"
             /\ "race" \notin faults' => RmReal(q)'
             /\ faults' \cap {"gui", "race"} = {} /\ cmd'[q] \in Acts \cup {"create"}
                   => \E f : OnTrack(q, f)'
  <2>1. CASE q = p
    BY <1>1, <1>3, <2>1 DEF Acts
  <2>2. CASE q # p
    BY <1>1, <1>2, <2>2 DEF RealInv, Acts
  <2> QED BY <2>1, <2>2
<1> QED BY <1>4 DEF RealInv

LEMMA RealStep == RealInv /\ [Next]_vars => RealInv'
<1> SUFFICES ASSUME RealInv, [Next]_vars PROVE RealInv'
  OBVIOUS
<1>0. LifeInv'
  BY LifeStep DEF RealInv
<1>1. CASE Next
  BY <1>0, <1>1, RealGive, RealCommand, RealCrash, RealVirtualBox DEF Next
<1>2. CASE UNCHANGED vars
  <2>1. \A p \in Procs : (RmReal(p) => RmReal(p)') /\ \A f : OnTrack(p, f) => OnTrack(p, f)'
    BY <1>2 DEF vars, RmReal, OnTrack, Holds, VM, Reachable
  <2>2. UNCHANGED <<cmd, faults>>
    BY <1>2 DEF vars
  <2> QED BY <1>0, <2>1, <2>2 DEF RealInv
<1> QED BY <1>1, <1>2

\* RealInv holds in every state when neither create nor rm -f is raced.
THEOREM RealInductive == Spec /\ {"create", "rmforce"} \cap Racing = {} => []RealInv
BY RealInit, RealStep, PTL DEF Spec

\* What has been reached when a command has no step left.
LEMMA DoneIsReal ==
    ASSUME RealInv, NEW p \in Procs, cmd[p] # "idle", todo[p] = << >>
    PROVE  \/ faults \cap {"gui", "race"} # {} /\ cmd[p] # "rmforce"
           \/ /\ cmd[p] \in {"create", "start", "restart", "upgrade"}
              /\ Reachable(p) /\ entry[mach[p]] = Entry(port[p])
           \/ cmd[p] \in {"stop", "kill"} /\ VM(p).state = "poweroff"
           \/ cmd[p] = "rm" /\ VM(p).state = "absent" /\ entry[mach[p]] = NoEntry
           \/ cmd[p] = "rmforce" /\ entry[mach[p]] = NoEntry
<1>0. cmd[p] \in AllCommands
  BY DEF RealInv, LifeInv, LifecycleInv, TypeOK
<1>1. CASE cmd[p] = "rmforce"
  BY <1>1 DEF RealInv, RmReal
<1>2. CASE cmd[p] = "rm" /\ faults \cap {"gui", "race"} = {}
  BY <1>2 DEF RealInv, RmReal
<1>3. CASE cmd[p] \in Acts \cup {"create"} /\ faults \cap {"gui", "race"} = {}
  <2>1. PICK f : OnTrack(p, f)
    BY <1>3 DEF RealInv
  <2>2. Len(f) = 1 /\ f[1] = Goal(cmd[p]) /\ Holds(p, f[1])
    BY <2>1 DEF OnTrack, Through
  <2> QED BY <1>3, <2>2 DEF Goal, Holds, Acts
<1> QED BY <1>0, <1>1, <1>2, <1>3 DEF AllCommands, Acts

\* A command that reports success has done what it is for, whatever earlier
\* commands that failed or were killed have left, and rm -f always leaves no
\* entry (host.go:149-246, libmachine.go:139-182, rm.go:31-52).
THEOREM SuccessMeansDone ==
    Spec /\ {"create", "rmforce"} \cap Racing = {} => SuccessIsReal
<1> DEFINE Real(p) == \/ outcome'[p] = "killed"
                      \/ outcome'[p] = "failed" /\ cmd[p] # "rmforce"
                      \/ faults \cap {"gui", "race"} # {} /\ cmd[p] # "rmforce"
                      \/ /\ cmd[p] \in {"create", "start", "restart", "upgrade"}
                         /\ Reachable(p) /\ entry[mach[p]] = Entry(port[p])
                      \/ cmd[p] \in {"stop", "kill"} /\ VM(p).state = "poweroff"
                      \/ cmd[p] = "rm" /\ VM(p).state = "absent" /\ entry[mach[p]] = NoEntry
                      \/ cmd[p] = "rmforce" /\ entry[mach[p]] = NoEntry
<1>1. RealInv /\ [Next]_vars =>
        [\A p \in Procs : (cmd[p] # "idle" /\ cmd'[p] = "idle") => Real(p)]_vars
  <2> SUFFICES ASSUME RealInv, Next, NEW p \in Procs, cmd[p] # "idle", cmd'[p] = "idle"
               PROVE  Real(p)
    OBVIOUS
  <2>0. TypeOK /\ LifeInv /\ Shape(p) /\ cmd'[p] # cmd[p]
    BY DEF RealInv, LifeInv, LifecycleInv
  <2>1. ASSUME NEW q \in Procs, HostStep(q) \/ DriverStep(q) PROVE Real(p)
    <3>1. q = p
      BY <2>0, <2>1, OthersGoOn
    <3>2. \/ Done(p)
          \/ cmd[p] # "rmforce" /\ outcome'[p] = "failed"
          \/ cmd[p] = "rmforce" /\ ~entry[mach[p]].there
      BY <2>0, <2>1, <3>1, StepEnds
    <3>3. CASE Done(p)
      BY <3>3, DoneIsReal DEF Done
    <3>4. CASE cmd[p] = "rmforce" /\ ~entry[mach[p]].there
      <4>1. mach[p] \in Machines /\ EntryPort(mach[p])
        BY <2>0 DEF TypeOK, LifeInv
      <4>2. entry[mach[p]] \in [there : BOOLEAN, port : Ports \cup {0}] /\ entry[mach[p]].port = 0
        BY <2>0, <3>4, <4>1 DEF TypeOK, EntryPort
      <4>3. entry[mach[p]] = NoEntry
        BY <3>4, <4>2 DEF NoEntry
      <4> QED BY <3>4, <4>3
    <3> QED BY <3>2, <3>3, <3>4
  <2>2. ASSUME NEW q \in Procs, NEW c \in Commands, NEW m \in Machines, Give(q, c, m)
        PROVE  Real(p)
    BY <2>0, <2>2 DEF Give, TypeOK
  <2>3. ASSUME NEW q \in Procs, Crash(q) PROVE Real(p)
    BY <2>0, <2>3 DEF Crash, TypeOK
  <2>4. ASSUME NEW m \in Machines, GuestPowersOff(m) \/ Settles(m) \/ UserActs(m) PROVE Real(p)
    BY <2>0, <2>4 DEF GuestPowersOff, Settles, UserActs
  <2> QED BY <2>1, <2>2, <2>3, <2>4 DEF Next
<1> QED BY <1>1, RealInductive, PTL DEF Spec, SuccessIsReal
=============================================================================
