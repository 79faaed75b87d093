-------------------------- MODULE QemuDriver_proofs --------------------------
(***************************************************************************)
(* The safety properties of QemuDriver, for any number of processes,       *)
(* commands and QEMUs, any port ranges, networks and faults.               *)
(***************************************************************************)
EXTENDS QemuDriver, SequenceTheorems, TLAPS

OpType == [cmd : Commands \cup {"idle"}, todo : Seq(Steps), port : Ports \cup {SSHPort},
           seen : States, pid : Pids \cup {0}, tries : 0..MaxAttempts]

\* GetState looks at what it read at once, and a QEMU that was launched is
\* initialised at once: these steps come right after the one they follow.
Orderly(t) ==
    /\ \A i \in 2..Len(t) : t[i] \notin {"check", "unlink"} /\ (t[i] = "init" => t[i - 1] = "spawn")
    /\ \A i \in 1..Len(t) : t[i] = "spawn" => i < Len(t) /\ t[i + 1] = "init"

\* A QEMU that is new is that of one process, which is about to see it initialised.
Launching ==
    /\ \A p \in Procs : At(p, "init") => op[p].pid \in Pids /\ qemu[op[p].pid] = "new"
    /\ \A p, r \in Procs : At(p, "init") /\ At(r, "init") /\ op[p].pid = op[r].pid => p = r
    /\ \A q \in Pids : qemu[q] = "new" => \E p \in Procs : At(p, "init") /\ op[p].pid = q

\* Before the first command there is nothing.
Unborn ==
    given = 0 => (\A p \in Procs : Idle(p)) /\ (\A q \in Pids : qemu[q] = "unused")

\* The pidfile is that of the QEMU there is, and who looks at a pid looks at the
\* only QEMU that can be there.
Known ==
    (made /\ ~raced) =>
        /\ \A q \in Pids : Serving(q) => pidfile = [by |-> q, written |-> TRUE]
        /\ \A q \in Pids : qemu[q] = "new" => pidfile = [by |-> q, written |-> FALSE]
        /\ \A p \in Procs : At(p, "check") =>
              \A q \in Pids : Alive(q) => q = op[p].pid /\ qemu[q] # "new"
        /\ \A p \in Procs : At(p, "unlink") => \A q \in Pids : ~Alive(q)

PidInv ==
    /\ TypeOK /\ Launching /\ Unborn /\ Known
    /\ \A p \in Procs : Orderly(op[p].todo) /\ (Idle(p) => op[p].todo = << >>)
-----------------------------------------------------------------------------
(* What a rm that is alone has yet to do.                                  *)

R1 == <<"stat", "d_remove", "local">>
R2 == <<"read", "d_remove", "local">>
R3 == <<"check", "d_remove", "local">>
R4 == <<"unlink", "d_remove", "local">>
R5 == <<"query", "d_remove", "local">>
R6 == <<"d_remove", "local">>
R7 == <<"powerdown", "quit", "local">>
R8 == <<"quit", "local">>
R9 == <<"local">>

\* No guest runs or will run again.
Still == \A q \in Pids : qemu[q] \notin {"new", "boot", "up", "paused"}

Removing(p) ==
    /\ op[p].todo \in {R1, R2, R3, R4, R5, R6, R7, R8, R9, << >>}
    /\ op[p].todo # << >> => made
    /\ op[p].todo \in {R9, << >>} \/ op[p].seen = "Stopped" => Still

\* A process that overlaps no other is the only one.
Lone ==
    ~overlap => ~raced /\ \A p, r \in Procs : ~Idle(p) /\ ~Idle(r) => p = r

RmInv ==
    /\ PidInv /\ Lone
    /\ \A p \in Procs : op[p].cmd = "rm" /\ ~overlap => Removing(p)
-----------------------------------------------------------------------------
(* Steps and sequences of them.                                            *)

LEMMA SameSeq ==
    ASSUME NEW T, NEW s \in Seq(T), NEW t \in Seq(T), Len(s) = Len(t),
           \A i \in 1..Len(s) : s[i] = t[i]
    PROVE  s = t
BY SeqEqual

LEMMA TailAt ==
    ASSUME NEW T, NEW f \in Seq(T), f # << >>
    PROVE  /\ Tail(f) \in Seq(T) /\ Len(Tail(f)) = Len(f) - 1
           /\ \A j \in 1..Len(Tail(f)) : Tail(f)[j] = f[j + 1]
BY HeadTailProperties

\* What an operation may put in front: it does not begin in the middle of a
\* GetState or of a launch.
Good(t) ==
    /\ t \in Seq(Steps) /\ Orderly(t)
    /\ t # << >> => t[1] \notin {"check", "unlink", "init"}

LEMMA GoodJoin ==
    ASSUME NEW s, NEW t, Good(s), Good(t)
    PROVE  Good(s \o t)
<1>1. s \in Seq(Steps) /\ t \in Seq(Steps)
  BY DEF Good
<1>2. /\ s \o t \in Seq(Steps) /\ Len(s \o t) = Len(s) + Len(t)
      /\ \A i \in 1..(Len(s) + Len(t)) :
            (s \o t)[i] = IF i <= Len(s) THEN s[i] ELSE t[i - Len(s)]
  BY <1>1, ConcatProperties
<1> DEFINE u == s \o t
<1> HIDE DEF u
<1>3. Len(s) \in Nat /\ Len(t) \in Nat
  BY <1>1
<1>4. ASSUME NEW i \in 2..Len(u)
      PROVE  u[i] \notin {"check", "unlink"} /\ (u[i] = "init" => u[i - 1] = "spawn")
  <2>1. CASE i <= Len(s)
    <3>1. u[i] = s[i] /\ u[i - 1] = s[i - 1] /\ i \in 2..Len(s)
      BY <1>2, <1>3, <2>1 DEF u
    <3> QED BY <3>1 DEF Good, Orderly
  <2>2. CASE i = Len(s) + 1
    <3>1. u[i] = t[1] /\ t # << >>
      BY <1>1, <1>2, <1>3, <2>2 DEF u
    <3> QED BY <3>1 DEF Good
  <2>3. CASE i > Len(s) + 1
    <3>1. i - Len(s) \in 2..Len(t) /\ i - 1 - Len(s) = i - Len(s) - 1
      BY <1>2, <1>3, <2>3 DEF u
    <3>2. u[i] = t[i - Len(s)] /\ u[i - 1] = t[i - Len(s) - 1]
      BY <1>2, <1>3, <2>3, <3>1 DEF u
    <3> QED BY <3>1, <3>2 DEF Good, Orderly
  <2> QED BY <1>3, <2>1, <2>2, <2>3
<1>6. ASSUME NEW i \in 1..Len(u), u[i] = "spawn"
      PROVE  i < Len(u) /\ u[i + 1] = "init"
  <2>1. CASE i <= Len(s)
    <3>1. u[i] = s[i] /\ i \in 1..Len(s)
      BY <1>2, <1>3, <2>1 DEF u
    <3>2. i < Len(s) /\ s[i + 1] = "init"
      BY <1>6, <3>1 DEF Good, Orderly
    <3> QED BY <1>2, <1>3, <3>2 DEF u
  <2>2. CASE i > Len(s)
    <3>1. u[i] = t[i - Len(s)] /\ i - Len(s) \in 1..Len(t)
      BY <1>2, <1>3, <2>2 DEF u
    <3>2. i - Len(s) < Len(t) /\ t[i - Len(s) + 1] = "init"
      BY <1>6, <3>1 DEF Good, Orderly
    <3>3. i + 1 \in 1..Len(u) /\ i + 1 > Len(s) /\ (i + 1) - Len(s) = i - Len(s) + 1
      BY <1>2, <1>3, <2>2, <3>2 DEF u
    <3> QED BY <1>2, <1>3, <3>2, <3>3 DEF u
  <2> QED BY <1>3, <2>1, <2>2
<1>5. u # << >> => u[1] \notin {"check", "unlink", "init"}
  <2>1. CASE s = << >>
    BY <1>1, <1>2, <2>1 DEF u, Good
  <2>2. CASE s # << >>
    <3>1. u[1] = s[1]
      BY <1>1, <1>2, <1>3, <2>2 DEF u
    <3> QED BY <2>2, <3>1 DEF Good
  <2> QED BY <2>1, <2>2
<1> QED BY <1>2, <1>4, <1>5, <1>6 DEF Good, Orderly, u

LEMMA GoodOne ==
    ASSUME NEW s \in Steps \ {"check", "unlink", "init", "spawn"}
    PROVE  Good(<<s>>)
BY DEF Good, Orderly

LEMMA GoodNone == Good(<< >>)
BY DEF Good, Orderly

LEMMA GoodLaunch == Good(Launch)
<1>1. Launch = <<"spawn", "init", "wait">>
  BY DEF Launch
<1>2. Launch \in Seq(Steps) /\ Len(Launch) = 3
  BY <1>1 DEF Steps
<1>3. Launch[1] = "spawn" /\ Launch[2] = "init" /\ Launch[3] = "wait"
  BY <1>1
<1>4. 2..Len(Launch) = {2, 3} /\ 1..Len(Launch) = {1, 2, 3}
  BY <1>2
<1> QED BY <1>2, <1>3, <1>4 DEF Good, Orderly

LEMMA GoodPairs ==
    ASSUME NEW s \in Steps \ {"check", "unlink", "init", "spawn"},
           NEW t \in Steps \ {"check", "unlink", "init", "spawn"}
    PROVE  Good(<<s, t>>)
<1>1. 2..2 = {2} /\ 1..2 = {1, 2}
  OBVIOUS
<1> QED BY <1>1 DEF Good, Orderly

LEMMA GoodTriples ==
    ASSUME NEW s \in Steps \ {"check", "unlink", "init", "spawn"},
           NEW t \in Steps \ {"check", "unlink", "init", "spawn"},
           NEW u \in Steps \ {"check", "unlink", "init", "spawn"}
    PROVE  Good(<<s, t, u>>)
<1>1. 2..3 = {2, 3} /\ 1..3 = {1, 2, 3}
  OBVIOUS
<1> QED BY <1>1 DEF Good, Orderly

LEMMA GoodPodman == Good(WaitForPodman)
BY GoodTriples DEF WaitForPodman, Steps

LEMMA GoodStart == Good(HostStart)
<1> USE DEF Steps
<1>1. Good(GetState) /\ Good(<<"c_running">>) /\ Good(<<"w_running">>)
  BY GoodOne DEF GetState
<1>2. Good(GetState \o <<"c_running">>)
  BY <1>1, GoodJoin
<1>3. Good(GetState \o <<"c_running">> \o Launch)
  BY <1>2, GoodLaunch, GoodJoin
<1>4. Good(GetState \o <<"c_running">> \o Launch \o GetState)
  BY <1>1, <1>3, GoodJoin
<1>5. Good(GetState \o <<"c_running">> \o Launch \o GetState \o <<"w_running">>)
  BY <1>1, <1>4, GoodJoin
<1> QED BY <1>5, GoodPodman, GoodJoin DEF HostStart

LEMMA GoodStop == Good(HostStop)
<1> USE DEF Steps
<1>1. Good(GetState) /\ Good(<<"c_stopped", "powerdown">>) /\ Good(<<"w_stopped">>)
  BY GoodOne, GoodPairs DEF GetState
<1>2. Good(GetState \o <<"c_stopped", "powerdown">>)
  BY <1>1, GoodJoin
<1>3. Good(GetState \o <<"c_stopped", "powerdown">> \o GetState)
  BY <1>1, <1>2, GoodJoin
<1>4. Good(GetState \o <<"c_stopped", "powerdown">> \o GetState \o <<"w_stopped">>)
  BY <1>1, <1>3, GoodJoin
<1> QED BY <1>4 DEF HostStop

\* Every command's steps.
LEMMA GoodScript ==
    ASSUME NEW c \in Commands
    PROVE  Good(Script(c))
<1> USE DEF Steps
<1>1. Good(GetState) /\ Good(<<"save">>) /\ Good(<<"w_running">>)
  BY GoodOne DEF GetState
<1>2. Good(<<"sshport", "engineport", "iso", "image">>)
  <2> DEFINE t == <<"sshport", "engineport", "iso", "image">>
  <2>1. t \in Seq(Steps) /\ Len(t) = 4
    OBVIOUS
  <2>2. t[1] = "sshport" /\ t[2] = "engineport" /\ t[3] = "iso" /\ t[4] = "image"
    OBVIOUS
  <2>3. 2..4 = {2, 3, 4} /\ 1..4 = {1, 2, 3, 4}
    OBVIOUS
  <2> HIDE DEF t
  <2>4. Good(t)
    BY <2>1, <2>2, <2>3 DEF Good, Orderly
  <2> QED BY <2>4 DEF t
<1>3. CASE c = "create"
  <2>1. Good(<<"sshport", "engineport", "iso", "image">> \o Launch)
    BY <1>2, GoodLaunch, GoodJoin
  <2>2. Good(<<"sshport", "engineport", "iso", "image">> \o Launch \o <<"save">>)
    BY <1>1, <2>1, GoodJoin
  <2>3. Good(<<"sshport", "engineport", "iso", "image">> \o Launch \o <<"save">> \o GetState)
    BY <1>1, <2>2, GoodJoin
  <2>4. Good(<<"sshport", "engineport", "iso", "image">> \o Launch \o <<"save">> \o GetState
               \o <<"w_running">>)
    BY <1>1, <2>3, GoodJoin
  <2>5. Good(<<"ssh", "guest", "save">>)
    BY GoodTriples
  <2> QED BY <1>3, <2>4, <2>5, GoodJoin DEF Script
<1>4. CASE c = "start"
  BY <1>1, <1>4, GoodStart, GoodJoin DEF Script
<1>5. CASE c \in {"stop", "kill"}
  BY <1>1, <1>5, GoodStop, GoodJoin DEF Script
<1>6. CASE c = "restart"
  <2>1. Good(GetState \o <<"h_restart">>)
    BY <1>1, GoodOne, GoodJoin
  <2>2. Good(GetState \o <<"h_restart">> \o WaitForPodman)
    BY <2>1, GoodPodman, GoodJoin
  <2> QED BY <1>1, <1>6, <2>2, GoodJoin DEF Script
<1>7. CASE c = "rm"
  <2>1. Good(<<"d_remove", "local">>)
    BY GoodPairs
  <2> QED BY <1>1, <1>7, <2>1, GoodJoin DEF Script
<1>8. CASE c = "status"
  BY <1>1, <1>8 DEF Script
<1> QED BY <1>3, <1>4, <1>5, <1>6, <1>7, <1>8, QemuAssumption DEF AllCommands

\* After a step that is not the launch of a QEMU.
LEMMA Onward ==
    ASSUME NEW t \in Seq(Steps), t # << >>, Orderly(t), Head(t) # "spawn"
    PROVE  Good(Tail(t))
<1>1. /\ Tail(t) \in Seq(Steps) /\ Len(Tail(t)) = Len(t) - 1
      /\ \A j \in 1..Len(Tail(t)) : Tail(t)[j] = t[j + 1]
  BY TailAt
<1>2. Len(t) \in Nat \ {0} /\ t[1] # "spawn"
  BY DEF Orderly
<1> DEFINE u == Tail(t)
<1> HIDE DEF u
<1>3. ASSUME NEW i \in 2..Len(u)
      PROVE  u[i] \notin {"check", "unlink"} /\ (u[i] = "init" => u[i - 1] = "spawn")
  <2>1. i + 1 \in 2..Len(t) /\ u[i] = t[i + 1] /\ u[i - 1] = t[i] /\ (i + 1) - 1 = i
    BY <1>1, <1>2 DEF u
  <2> QED BY <2>1 DEF Orderly
<1>4. u # << >> => u[1] \notin {"check", "unlink", "init"}
  <2> SUFFICES ASSUME u # << >> PROVE u[1] \notin {"check", "unlink", "init"}
    OBVIOUS
  <2>1. 2 \in 2..Len(t) /\ u[1] = t[2] /\ 2 - 1 = 1
    BY <1>1, <1>2 DEF u
  <2> QED BY <1>2, <2>1 DEF Orderly
<1>5. ASSUME NEW i \in 1..Len(u), u[i] = "spawn"
      PROVE  i < Len(u) /\ u[i + 1] = "init"
  <2>1. i + 1 \in 1..Len(t) /\ u[i] = t[i + 1]
    BY <1>1, <1>2 DEF u
  <2>2. i + 1 < Len(t) /\ t[i + 1 + 1] = "init"
    BY <1>5, <2>1 DEF Orderly
  <2>3. i + 1 \in 1..Len(u)
    BY <1>1, <1>2, <2>2 DEF u
  <2> QED BY <1>1, <1>2, <2>2, <2>3 DEF u
<1> QED BY <1>1, <1>3, <1>4, <1>5 DEF Good, Orderly, u

\* After a launch.
LEMMA Launched ==
    ASSUME NEW t \in Seq(Steps), t # << >>, Orderly(t), Head(t) = "spawn"
    PROVE  Tail(t) \in Seq(Steps) /\ Tail(t) # << >> /\ Orderly(Tail(t)) /\ Head(Tail(t)) = "init"
<1>1. /\ Tail(t) \in Seq(Steps) /\ Len(Tail(t)) = Len(t) - 1
      /\ \A j \in 1..Len(Tail(t)) : Tail(t)[j] = t[j + 1]
  BY TailAt
<1>2. Len(t) \in Nat \ {0} /\ t[1] = "spawn"
  OBVIOUS
<1>3. 1 < Len(t) /\ t[2] = "init"
  BY <1>2 DEF Orderly
<1> DEFINE u == Tail(t)
<1> HIDE DEF u
<1>4. ASSUME NEW i \in 2..Len(u)
      PROVE  u[i] \notin {"check", "unlink"} /\ (u[i] = "init" => u[i - 1] = "spawn")
  <2>1. i + 1 \in 2..Len(t) /\ u[i] = t[i + 1] /\ u[i - 1] = t[i] /\ (i + 1) - 1 = i
    BY <1>1, <1>2 DEF u
  <2> QED BY <2>1 DEF Orderly
<1>5. ASSUME NEW i \in 1..Len(u), u[i] = "spawn"
      PROVE  i < Len(u) /\ u[i + 1] = "init"
  <2>1. i + 1 \in 1..Len(t) /\ u[i] = t[i + 1]
    BY <1>1, <1>2 DEF u
  <2>2. i + 1 < Len(t) /\ t[i + 1 + 1] = "init"
    BY <1>5, <2>1 DEF Orderly
  <2>3. i + 1 \in 1..Len(u)
    BY <1>1, <1>2, <2>2 DEF u
  <2> QED BY <1>1, <1>2, <2>2, <2>3 DEF u
<1>6. u # << >> /\ Head(u) = "init"
  <2>1. u \in Seq(Steps) /\ Len(u) > 0 /\ u[1] = t[1 + 1]
    BY <1>1, <1>2, <1>3 DEF u
  <2> QED BY <1>3, <2>1
<1> QED BY <1>1, <1>4, <1>5, <1>6 DEF Orderly, u

\* A step of GetState, with what the step before it found.
LEMMA OrderlyOne ==
    ASSUME NEW s \in Steps \ {"spawn"}, NEW t, Good(t)
    PROVE  /\ <<s>> \o t \in Seq(Steps) /\ Orderly(<<s>> \o t)
           /\ <<s>> \o t # << >> /\ Head(<<s>> \o t) = s
<1>1. t \in Seq(Steps) /\ <<s>> \in Seq(Steps) /\ Len(<<s>>) = 1
  BY DEF Good
<1> DEFINE u == <<s>> \o t
<1>2. /\ u \in Seq(Steps) /\ Len(u) = 1 + Len(t)
      /\ \A i \in 1..(1 + Len(t)) : u[i] = IF i <= 1 THEN s ELSE t[i - 1]
  BY <1>1, ConcatProperties
<1> HIDE DEF u
<1>3. Len(t) \in Nat
  BY <1>1
<1>4. u # << >> /\ Head(u) = s
  BY <1>2, <1>3
<1>5. ASSUME NEW i \in 2..Len(u)
      PROVE  u[i] \notin {"check", "unlink"} /\ (u[i] = "init" => u[i - 1] = "spawn")
  <2>1. CASE i = 2
    <3>1. u[i] = t[1] /\ t # << >>
      BY <1>1, <1>2, <1>3, <2>1
    <3> QED BY <3>1 DEF Good
  <2>2. CASE i > 2
    <3>1. i - 1 \in 2..Len(t) /\ u[i] = t[i - 1] /\ u[i - 1] = t[(i - 1) - 1]
      BY <1>2, <1>3, <2>2
    <3> QED BY <3>1 DEF Good, Orderly
  <2> QED BY <2>1, <2>2
<1>6. ASSUME NEW i \in 1..Len(u), u[i] = "spawn"
      PROVE  i < Len(u) /\ u[i + 1] = "init"
  <2>1. i > 1 /\ i - 1 \in 1..Len(t) /\ u[i] = t[i - 1]
    BY <1>2, <1>3, <1>6
  <2>2. i - 1 < Len(t) /\ t[i - 1 + 1] = "init"
    BY <1>6, <2>1 DEF Good, Orderly
  <2>3. i + 1 \in 1..(1 + Len(t)) /\ i + 1 > 1 /\ (i + 1) - 1 = i /\ i - 1 + 1 = i
    BY <1>3, <2>1, <2>2
  <2> QED BY <1>2, <1>3, <2>2, <2>3
<1> QED BY <1>2, <1>4, <1>5, <1>6 DEF Orderly, u
-----------------------------------------------------------------------------
(* Steps of a process.                                                     *)

\* p goes on with the steps t and is o otherwise.
Moved(p, t, o) ==
    /\ op' \in [Procs -> OpType] /\ \A r \in Procs \ {p} : op'[r] = op[r]
    /\ op'[p].cmd = o.cmd /\ op'[p].todo = t /\ op'[p].port = o.port /\ op'[p].seen = o.seen
    /\ op'[p].pid = o.pid /\ op'[p].tries = o.tries
    /\ outcome' = outcome /\ given' = given /\ faults' = faults /\ overlap' = overlap

LEMMA OpTyped ==
    ASSUME TypeOK, NEW p \in Procs
    PROVE  /\ op \in [Procs -> OpType] /\ op[p] \in OpType /\ op[p].todo \in Seq(Steps)
           /\ op[p].cmd \in Commands \cup {"idle"} /\ op[p].port \in Ports \cup {SSHPort}
           /\ op[p].seen \in States /\ op[p].pid \in Pids \cup {0} /\ op[p].tries \in 0..MaxAttempts
<1>1. op \in [Procs -> OpType]
  BY DEF TypeOK, OpType
<1>2. op[p] \in OpType
  BY <1>1
<1> QED BY <1>1, <1>2 DEF OpType

LEMMA GoMoves ==
    ASSUME TypeOK, NEW p \in Procs, op[p].todo # << >>,
           NEW more \in Seq(Steps), NEW o \in OpType, GoWith(p, more, o)
    PROVE  Moved(p, more \o Tail(op[p].todo), o)
<1> DEFINE t == more \o Tail(op[p].todo)
           x == [o EXCEPT !.todo = t]
<1>1. op \in [Procs -> OpType] /\ op[p].todo \in Seq(Steps)
  BY OpTyped
<1>2. t \in Seq(Steps)
  <2>1. Tail(op[p].todo) \in Seq(Steps)
    BY <1>1
  <2> QED BY <2>1
<1>3. op' = [op EXCEPT ![p] = x]
  BY DEF GoWith
<1> HIDE DEF t
<1>4. x \in OpType
  BY <1>2 DEF OpType
<1>5. /\ x.cmd = o.cmd /\ x.todo = t /\ x.port = o.port /\ x.seen = o.seen
      /\ x.pid = o.pid /\ x.tries = o.tries
  BY DEF OpType
<1> HIDE DEF x
<1>6. op' \in [Procs -> OpType] /\ op'[p] = x /\ \A q \in Procs \ {p} : op'[q] = op[q]
  BY <1>1, <1>3, <1>4
<1>7. outcome' = outcome /\ given' = given /\ faults' = faults /\ overlap' = overlap
  BY DEF GoWith, admin
<1> QED BY <1>5, <1>6, <1>7 DEF Moved, t

\* The operation of p is over.
Ended(p, r) ==
    /\ op' \in [Procs -> OpType] /\ op'[p] = NoOp /\ \A q \in Procs \ {p} : op'[q] = op[q]
    /\ outcome' \in [Procs -> {"none", "ok", "failed"}] /\ outcome'[p] = r
    /\ \A q \in Procs \ {p} : outcome'[q] = outcome[q]
    /\ given' = given /\ faults' = faults /\ overlap' = overlap

LEMMA NoOpIs ==
    /\ NoOp \in OpType /\ NoOp.cmd = "idle" /\ NoOp.todo = << >> /\ NoOp.port = SSHPort
    /\ NoOp.seen = "None" /\ NoOp.pid = 0 /\ NoOp.tries = 0
<1>1. << >> \in Seq(Steps) /\ 0 \in 0..MaxAttempts
  BY QemuAssumption
<1>2. NoOp \in OpType
  BY <1>1 DEF NoOp, OpType, States
<1> QED BY <1>2 DEF NoOp

LEMMA EndEnds ==
    ASSUME TypeOK, NEW p \in Procs, NEW r \in {"ok", "failed"}, End(p, r)
    PROVE  Ended(p, r)
<1>1. op \in [Procs -> OpType] /\ outcome \in [Procs -> {"none", "ok", "failed"}]
  BY DEF TypeOK, OpType
<1> QED BY <1>1, NoOpIs DEF End, Ended, admin

\* p has made a step and is not in the middle of a GetState or of a launch.
Stays(p) ==
    /\ op' \in [Procs -> OpType]
    /\ outcome' \in [Procs -> {"none", "ok", "failed"}]
    /\ \A r \in Procs \ {p} : op'[r] = op[r]
    /\ Good(op'[p].todo) /\ (op'[p].cmd = "idle" => op'[p].todo = << >>)
    /\ given' = given /\ faults' = faults /\ overlap' = overlap

LEMMA GoStays ==
    ASSUME PidInv, NEW p \in Procs, op[p].todo # << >>, Head(op[p].todo) # "spawn",
           NEW more, Good(more), NEW o \in OpType, o.cmd = op[p].cmd, GoWith(p, more, o)
    PROVE  Stays(p) /\ Moved(p, more \o Tail(op[p].todo), o)
<1>1. TypeOK /\ Orderly(op[p].todo) /\ op[p].cmd # "idle" /\ op[p].todo \in Seq(Steps)
  BY OpTyped DEF PidInv, Idle
<1>2. more \in Seq(Steps)
  BY DEF Good
<1>3. Moved(p, more \o Tail(op[p].todo), o)
  BY <1>1, <1>2, GoMoves
<1>4. Good(more \o Tail(op[p].todo))
  BY <1>1, Onward, GoodJoin
<1>5. outcome \in [Procs -> {"none", "ok", "failed"}]
  BY <1>1 DEF TypeOK
<1> QED BY <1>1, <1>3, <1>4, <1>5 DEF Moved, Stays

\* The same where nothing is put in front.
LEMMA GoOnStays ==
    ASSUME PidInv, NEW p \in Procs, op[p].todo # << >>, Head(op[p].todo) # "spawn",
           NEW o \in OpType, o.cmd = op[p].cmd, GoWith(p, << >>, o)
    PROVE  Stays(p) /\ Moved(p, Tail(op[p].todo), o)
<1>1. op[p].todo \in Seq(Steps)
  BY OpTyped DEF PidInv
<1>2. Tail(op[p].todo) \in Seq(Steps)
  BY <1>1
<1>3. << >> \o Tail(op[p].todo) = Tail(op[p].todo)
  BY <1>2
<1> QED BY <1>3, GoodNone, GoStays

LEMMA EndStays ==
    ASSUME PidInv, NEW p \in Procs, NEW r \in {"ok", "failed"}, End(p, r)
    PROVE  Stays(p) /\ Ended(p, r)
<1>1. Ended(p, r)
  BY EndEnds DEF PidInv
<1> QED BY <1>1, NoOpIs, GoodNone DEF Ended, Stays

LEMMA Fields ==
    ASSUME TypeOK, NEW p \in Procs
    PROVE  /\ Forgets(p) \in OpType /\ Forgets(p).cmd = op[p].cmd /\ Forgets(p).seen = "None"
           /\ \A s \in States : /\ [Forgets(p) EXCEPT !.seen = s] \in OpType
                                /\ [Forgets(p) EXCEPT !.seen = s].cmd = op[p].cmd
                                /\ [Forgets(p) EXCEPT !.seen = s].seen = s
           /\ \A q \in Pids \cup {0} : /\ [op[p] EXCEPT !.pid = q] \in OpType
                                       /\ [op[p] EXCEPT !.pid = q].cmd = op[p].cmd
                                       /\ [op[p] EXCEPT !.pid = q].pid = q
                                       /\ [op[p] EXCEPT !.pid = q].seen = op[p].seen
           /\ \A x \in Ports \cup {SSHPort} : /\ [op[p] EXCEPT !.port = x] \in OpType
                                              /\ [op[p] EXCEPT !.port = x].cmd = op[p].cmd
                                              /\ [op[p] EXCEPT !.port = x].seen = op[p].seen
           /\ \A n \in 0..MaxAttempts : /\ [Forgets(p) EXCEPT !.tries = n] \in OpType
                                        /\ [Forgets(p) EXCEPT !.tries = n].cmd = op[p].cmd
                                        /\ [Forgets(p) EXCEPT !.tries = n].seen = "None"
<1>1. op[p] \in OpType
  BY OpTyped
<1>2. Forgets(p) \in OpType /\ Forgets(p).cmd = op[p].cmd /\ Forgets(p).seen = "None"
  BY <1>1 DEF OpType, Forgets, States
<1>3. \A s \in States : /\ [Forgets(p) EXCEPT !.seen = s] \in OpType
                        /\ [Forgets(p) EXCEPT !.seen = s].cmd = op[p].cmd
                        /\ [Forgets(p) EXCEPT !.seen = s].seen = s
  BY <1>2 DEF OpType
<1>4. \A n \in 0..MaxAttempts : /\ [Forgets(p) EXCEPT !.tries = n] \in OpType
                                /\ [Forgets(p) EXCEPT !.tries = n].cmd = op[p].cmd
                                /\ [Forgets(p) EXCEPT !.tries = n].seen = "None"
  BY <1>2 DEF OpType
<1> QED BY <1>1, <1>2, <1>3, <1>4 DEF OpType

\* Nothing was launched or came up, and the pidfile is as it was.
Calm ==
    /\ \A q \in Pids : (qemu'[q] = "new" <=> qemu[q] = "new") /\ (Serving(q)' => Serving(q))
    /\ raced' = raced
    /\ made' => made /\ pidfile' = pidfile

LEMMA CalmKeeps ==
    ASSUME PidInv, TypeOK', NEW p \in Procs, ~Idle(p), ~At(p, "init"), Stays(p), Calm
    PROVE  PidInv'
<1>1. /\ ~At(p, "init")' /\ ~At(p, "check")' /\ ~At(p, "unlink")'
      /\ Orderly(op[p].todo)' /\ (Idle(p)' => op'[p].todo = << >>)
  BY DEF Stays, Good, At, Idle
<1>2. \A r \in Procs \ {p} : \A s \in Steps : At(r, s)' <=> At(r, s)
  BY DEF Stays, At
<1>3. Launching'
  <2>1. "init" \in Steps
    BY DEF Steps
  <2>2. \A r \in Procs : At(r, "init")' => r # p /\ At(r, "init") /\ op'[r] = op[r]
    BY <1>1, <1>2, <2>1 DEF Stays
  <2>3. \A r \in Procs : At(r, "init") => r # p /\ At(r, "init")' /\ op'[r] = op[r]
    BY <1>1, <1>2, <2>1 DEF Stays
  <2>4. Launching
    BY DEF PidInv
  <2>5. (\A r \in Procs : At(r, "init") => op[r].pid \in Pids /\ qemu[op[r].pid] = "new")'
    BY <2>2, <2>4 DEF Launching, Calm
  <2>6. (\A r, s \in Procs : At(r, "init") /\ At(s, "init") /\ op[r].pid = op[s].pid => r = s)'
    BY <2>2, <2>4 DEF Launching
  <2>7. (\A q \in Pids : qemu[q] = "new" => \E r \in Procs : At(r, "init") /\ op[r].pid = q)'
    BY <2>3, <2>4 DEF Launching, Calm
  <2> QED BY <2>5, <2>6, <2>7 DEF Launching
<1>4. Unborn'
  <2>1. given # 0
    BY DEF PidInv, Unborn
  <2> QED BY <2>1 DEF Unborn, Stays
<1>5. Known'
  <2> SUFFICES ASSUME made', ~raced'
               PROVE  /\ \A q \in Pids : Serving(q)' => pidfile' = [by |-> q, written |-> TRUE]
                      /\ \A q \in Pids : qemu'[q] = "new" => pidfile' = [by |-> q, written |-> FALSE]
                      /\ \A r \in Procs : At(r, "check")' =>
                            \A q \in Pids : Alive(q)' => q = op'[r].pid /\ qemu'[q] # "new"
                      /\ \A r \in Procs : At(r, "unlink")' => \A q \in Pids : ~Alive(q)'
    BY DEF Known
  <2>1. \A q \in Pids : Alive(q)' => Alive(q)
    BY DEF Calm, Alive, Serving
  <2>2. "check" \in Steps /\ "unlink" \in Steps
    BY DEF Steps
  <2>3. \A r \in Procs : /\ At(r, "check")' => At(r, "check") /\ op'[r] = op[r]
                         /\ At(r, "unlink")' => At(r, "unlink")
    BY <1>1, <1>2, <2>2 DEF Stays
  <2>4. made /\ ~raced /\ pidfile' = pidfile
    BY DEF Calm
  <2> QED BY <2>1, <2>3, <2>4 DEF PidInv, Known, Calm
<1>6. (\A r \in Procs : Orderly(op[r].todo) /\ (Idle(r) => op[r].todo = << >>))'
  BY <1>1 DEF PidInv, Stays, Idle, Orderly
<1> QED BY <1>3, <1>4, <1>5, <1>6 DEF PidInv

LEMMA SameWorld ==
    ASSUME PidInv, NEW p \in Procs, ~At(p, "init"), op[p].todo # << >> \/ ~Idle(p),
           Stays(p), UNCHANGED <<world, config, raced>>
    PROVE  PidInv'
<1>1. TypeOK'
  BY DEF PidInv, TypeOK, Stays, world, config, OpType
<1>2. Calm
  BY DEF Calm, world, config, Serving
<1>3. ~Idle(p)
  BY DEF PidInv
<1> QED BY <1>1, <1>2, <1>3, CalmKeeps

\* p is at the step s, which is none of a launch.
LEMMA AtIs ==
    ASSUME NEW p \in Procs, NEW s, At(p, s), s \notin {"spawn", "init"}
    PROVE  op[p].todo # << >> /\ Head(op[p].todo) # "spawn" /\ ~At(p, "init")
BY DEF At

LEMMA GoSame ==
    ASSUME PidInv, NEW p \in Procs, NEW s, At(p, s), s \notin {"spawn", "init"},
           NEW more, Good(more), NEW o \in OpType, o.cmd = op[p].cmd, GoWith(p, more, o),
           UNCHANGED <<world, config, raced>>
    PROVE  PidInv'
BY AtIs, GoStays, SameWorld

LEMMA GoHere ==
    ASSUME PidInv, NEW p \in Procs, NEW s, At(p, s), s \notin {"spawn", "init"},
           NEW more, Good(more), Go(p, more), UNCHANGED <<world, config, raced>>
    PROVE  PidInv'
<1>1. Forgets(p) \in OpType /\ Forgets(p).cmd = op[p].cmd
  BY Fields DEF PidInv
<1>2. GoWith(p, more, Forgets(p))
  BY DEF Go
<1> QED BY <1>1, <1>2, GoSame

LEMMA FailSame ==
    ASSUME PidInv, NEW p \in Procs, NEW s, At(p, s), s # "init", Fail(p),
           UNCHANGED <<world, config, raced>>
    PROVE  PidInv'
<1>1. op[p].todo # << >> /\ ~At(p, "init")
  BY DEF At
<1>2. Stays(p)
  BY EndStays DEF Fail
<1> QED BY <1>1, <1>2, SameWorld

LEMMA SeeSame ==
    ASSUME PidInv, NEW p \in Procs, NEW s, At(p, s), s \notin {"spawn", "init"},
           NEW v \in States, See(p, v), UNCHANGED <<world, config, raced>>
    PROVE  PidInv'
<1> DEFINE o == [Forgets(p) EXCEPT !.seen = v]
<1>1. o \in OpType /\ o.cmd = op[p].cmd
  BY Fields DEF PidInv
<1>2. GoWith(p, << >>, o)
  BY DEF See
<1> HIDE DEF o
<1> QED BY <1>1, <1>2, GoodNone, GoSame

LEMMA FinishKeeps ==
    ASSUME PidInv, NEW p \in Procs, Finish(p)
    PROVE  PidInv'
<1>1. ~Idle(p) /\ ~At(p, "init")
  BY DEF Finish, At
<1>2. Stays(p)
  BY EndStays DEF Finish
<1>3. UNCHANGED <<world, config, raced>>
  BY DEF Finish
<1> QED BY <1>1, <1>2, <1>3, SameWorld

LEMMA StatKeeps ==
    ASSUME PidInv, NEW p \in Procs, StatPidfile(p)
    PROVE  PidInv'
<1>1. At(p, "stat") /\ UNCHANGED <<world, config, raced>>
  BY DEF StatPidfile
<1>2. CASE See(p, "Stopped")
  BY <1>1, <1>2, SeeSame DEF States
<1>3. CASE Go(p, <<"read">>)
  <2>1. Good(<<"read">>)
    BY GoodOne DEF Steps
  <2> QED BY <1>1, <1>3, <2>1, GoHere
<1> QED BY <1>2, <1>3 DEF StatPidfile

LEMMA QueryIs ==
    ASSUME NEW p \in Procs, QueryStatus(p)
    PROVE  \E v \in States : See(p, v)
<1>1. CASE \E q \in Monitor : \E s \in {StateOf(q), "None", "Error"} : See(p, s)
  <2>1. PICK q \in Monitor : \E s \in {StateOf(q), "None", "Error"} : See(p, s)
    BY <1>1
  <2>2. StateOf(q) \in States
    BY DEF Monitor, Daemon, Serving, StateOf, States
  <2> QED BY <2>1, <2>2 DEF States
<1>2. CASE See(p, "Error")
  BY <1>2 DEF States
<1> QED BY <1>1, <1>2 DEF QueryStatus

LEMMA QueryKeeps ==
    ASSUME PidInv, NEW p \in Procs, QueryStatus(p)
    PROVE  PidInv'
<1>1. At(p, "query") /\ UNCHANGED <<world, config, raced>>
  BY DEF QueryStatus
<1> QED BY <1>1, QueryIs, SeeSame

\* p decided what comes next on what it knows.
Decided(p) ==
    /\ UNCHANGED <<world, config, raced>>
    /\ \E s \in Steps \ {"spawn", "init"} : At(p, s)
    /\ (\E more \in Seq(Steps) : Good(more) /\ Go(p, more)) \/ Fail(p)

LEMMA DecideIs ==
    ASSUME NEW p \in Procs, NEW s \in Steps \ {"spawn", "init"}, NEW ok,
           NEW more, Good(more), Decide(p, s, ok, more)
    PROVE  Decided(p)
<1>1. At(p, s) /\ UNCHANGED <<world, config, raced>> /\ (Go(p, more) \/ Fail(p))
  BY DEF Decide
<1>2. more \in Seq(Steps)
  BY DEF Good
<1> QED BY <1>1, <1>2 DEF Decided

LEMMA DecidedKeeps ==
    ASSUME PidInv, NEW p \in Procs, Decided(p)
    PROVE  PidInv'
BY GoHere, FailSame DEF Decided

\* p made an attempt of a wait at the step s: it has what it waited for, tries
\* again after the steps more, or gives up.
Polled(p, s, more) ==
    /\ At(p, s) /\ UNCHANGED <<world, config, raced>>
    /\ \/ GoWith(p, << >>, [Forgets(p) EXCEPT !.tries = 0])
       \/ /\ op[p].tries + 1 < MaxAttempts
          /\ GoWith(p, more, [Forgets(p) EXCEPT !.tries = op[p].tries + 1])
       \/ Fail(p)

LEMMA PolledMoves ==
    ASSUME PidInv, NEW p \in Procs, NEW s, NEW more, Good(more), Polled(p, s, more)
    PROVE  \/ Fail(p)
           \/ \E m, o : /\ Good(m) /\ o \in OpType /\ o.cmd = op[p].cmd /\ o.seen = "None"
                       /\ GoWith(p, m, o)
<1> DEFINE n == op[p].tries + 1
           o == [Forgets(p) EXCEPT !.tries = n]
           z == [Forgets(p) EXCEPT !.tries = 0]
<1>1. CASE GoWith(p, << >>, z)
  <2>1. 0 \in 0..MaxAttempts
    BY QemuAssumption
  <2>2. z \in OpType /\ z.cmd = op[p].cmd /\ z.seen = "None"
    BY <2>1, Fields DEF PidInv
  <2> HIDE DEF z
  <2> QED BY <1>1, <2>2, GoodNone
<1>2. CASE n < MaxAttempts /\ GoWith(p, more, o)
  <2>1. n \in 0..MaxAttempts
    BY <1>2, OpTyped, QemuAssumption DEF PidInv
  <2>2. o \in OpType /\ o.cmd = op[p].cmd /\ o.seen = "None"
    BY <2>1, Fields DEF PidInv
  <2> HIDE DEF o
  <2> QED BY <1>2, <2>2
<1> QED BY <1>1, <1>2 DEF Polled

LEMMA PolledKeeps ==
    ASSUME PidInv, NEW p \in Procs, NEW s, s \notin {"spawn", "init"}, NEW more, Good(more),
           Polled(p, s, more)
    PROVE  PidInv'
<1>1. At(p, s) /\ UNCHANGED <<world, config, raced>>
  BY DEF Polled
<1> QED BY <1>1, PolledMoves, GoSame, FailSame

\* The attempts of WaitFor, of WaitForSSH and of WaitForPodman.
LEMMA PollIs ==
    ASSUME NEW p \in Procs, WaitForState(p) \/ PollGuest(p)
    PROVE  \E s \in Steps \ {"spawn", "init"} : \E more : Good(more) /\ Polled(p, s, more)
<1>1. ASSUME NEW s \in {"w_running", "w_stopped"}, NEW want, Poll(p, s, want)
      PROVE  \E t \in Steps \ {"spawn", "init"} : \E more : Good(more) /\ Polled(p, t, more)
  <2>1. Good(GetState \o <<s>>) /\ s \in Steps \ {"spawn", "init"}
    BY GoodOne, GoodJoin DEF Steps, GetState
  <2>2. Polled(p, s, GetState \o <<s>>)
    BY <1>1 DEF Poll, Polled
  <2> QED BY <2>1, <2>2
<1>2. CASE PollGuest(p)
  <2>1. PICK s \in {"ssh", "podman"} : Polled(p, s, <<s>>)
    BY <1>2 DEF PollGuest, Polled
  <2>2. Good(<<s>>) /\ s \in Steps \ {"spawn", "init"}
    BY GoodOne DEF Steps
  <2> QED BY <2>1, <2>2
<1> QED BY <1>1, <1>2 DEF WaitForState

LEMMA PollKeeps ==
    ASSUME PidInv, NEW p \in Procs, WaitForState(p) \/ PollGuest(p)
    PROVE  PidInv'
BY PollIs, PolledKeeps

LEMMA RestartIs ==
    ASSUME NEW p \in Procs, RestartStep(p)
    PROVE  Decided(p)
<1> USE DEF Steps
<1>0. Good(GetState) /\ Good(<<"powerdown">>) /\ Good(<<"w_running">>)
  BY GoodOne DEF GetState
<1>1. CASE Decide(p, "h_restart", TRUE,
              IF op[p].seen = "Stopped" THEN HostStart ELSE GetState \o <<"h_restart2">>)
  <2>1. Good(GetState \o <<"h_restart2">>)
    BY <1>0, GoodOne, GoodJoin
  <2>2. Good(IF op[p].seen = "Stopped" THEN HostStart ELSE GetState \o <<"h_restart2">>)
    BY <2>1, GoodStart
  <2> QED BY <1>1, <2>2, DecideIs
<1>2. CASE Decide(p, "h_restart2", TRUE,
              IF op[p].seen = "Running"
              THEN GetState \o <<"d_restart">> \o GetState \o <<"w_running">>
              ELSE <<>>)
  <2>1. Good(GetState \o <<"d_restart">>)
    BY <1>0, GoodOne, GoodJoin
  <2>2. Good(GetState \o <<"d_restart">> \o GetState)
    BY <1>0, <2>1, GoodJoin
  <2>3. Good(GetState \o <<"d_restart">> \o GetState \o <<"w_running">>)
    BY <1>0, <2>2, GoodJoin
  <2>4. Good(IF op[p].seen = "Running"
             THEN GetState \o <<"d_restart">> \o GetState \o <<"w_running">>
             ELSE <<>>)
    BY <2>3, GoodNone
  <2> QED BY <1>2, <2>4, DecideIs
<1>3. CASE Decide(p, "d_restart", op[p].seen # "Error",
              (IF op[p].seen = "Running" THEN <<"powerdown">> ELSE <<>>) \o Launch)
  <2>1. Good(IF op[p].seen = "Running" THEN <<"powerdown">> ELSE <<>>)
    BY <1>0, GoodNone
  <2>2. Good((IF op[p].seen = "Running" THEN <<"powerdown">> ELSE <<>>) \o Launch)
    BY <2>1, GoodLaunch, GoodJoin
  <2> QED BY <1>3, <2>2, DecideIs
<1> QED BY <1>1, <1>2, <1>3 DEF RestartStep

LEMMA RestartKeeps ==
    ASSUME PidInv, NEW p \in Procs, RestartStep(p)
    PROVE  PidInv'
BY RestartIs, DecidedKeeps

LEMMA RemoveIs ==
    ASSUME NEW p \in Procs, RemoveStep(p)
    PROVE  Decided(p)
<1>1. Good(<<"powerdown", "quit">>) /\ Good(<<"quit">>)
  BY GoodOne, GoodPairs DEF Steps
<1>2. Good(CASE op[p].seen = "Running" -> <<"powerdown", "quit">>
             [] op[p].seen = "Stopped" -> <<>>
             [] OTHER -> <<"quit">>)
  BY <1>1, GoodNone
<1> QED BY <1>2, DecideIs DEF RemoveStep, Steps

LEMMA RemoveKeeps ==
    ASSUME PidInv, NEW p \in Procs, RemoveStep(p)
    PROVE  PidInv'
BY RemoveIs, DecidedKeeps

LEMMA NotYetIs ==
    ASSUME NEW p \in Procs, NotRunningYet(p) \/ NotStoppedYet(p)
    PROVE  Decided(p)
BY GoodNone, DecideIs DEF NotRunningYet, NotStoppedYet, Steps

\* A step that changes things but no QEMU and no pidfile.
LEMMA GoCalm ==
    ASSUME PidInv, NEW p \in Procs, NEW s, At(p, s), s \notin {"spawn", "init"},
           Go(p, << >>) \/ Fail(p), Calm, TypeOK'
    PROVE  PidInv'
<1>1. op[p].todo # << >> /\ Head(op[p].todo) # "spawn" /\ ~At(p, "init")
  BY AtIs
<1>2. ~Idle(p)
  BY <1>1 DEF PidInv
<1>3. Stays(p)
  <2>1. CASE Go(p, << >>)
    <3>1. Forgets(p) \in OpType /\ Forgets(p).cmd = op[p].cmd
      BY Fields DEF PidInv
    <3> QED BY <1>1, <2>1, <3>1, GoodNone, GoStays DEF Go
  <2>2. CASE Fail(p)
    BY <2>2, EndStays DEF Fail
  <2> QED BY <2>1, <2>2
<1> QED BY <1>1, <1>2, <1>3, CalmKeeps

\* The types of what belongs to the processes.
LEMMA GoTyped ==
    ASSUME PidInv, NEW p \in Procs, op[p].todo # << >>, Head(op[p].todo) # "spawn",
           Go(p, << >>) \/ Fail(p)
    PROVE  /\ op' \in [Procs -> OpType] /\ outcome' \in [Procs -> {"none", "ok", "failed"}]
           /\ given' = given /\ faults' = faults /\ overlap' = overlap
<1>1. CASE Go(p, << >>)
  <2>1. Forgets(p) \in OpType /\ Forgets(p).cmd = op[p].cmd
    BY Fields DEF PidInv
  <2>2. Stays(p)
    BY <1>1, <2>1, GoodNone, GoStays DEF Go
  <2> QED BY <2>2 DEF Stays
<1>2. CASE Fail(p)
  <2>1. Stays(p)
    BY <1>2, EndStays DEF Fail
  <2> QED BY <2>1 DEF Stays
<1> QED BY <1>1, <1>2

LEMMA SaveKeeps ==
    ASSUME PidInv, NEW p \in Procs, SaveHost(p)
    PROVE  PidInv'
<1>1. At(p, "save") /\ Go(p, << >>) /\ UNCHANGED <<world, made, range, net, sshd, raced>>
  BY DEF SaveHost
<1>2. /\ op' \in [Procs -> OpType] /\ outcome' \in [Procs -> {"none", "ok", "failed"}]
      /\ given' = given /\ faults' = faults /\ overlap' = overlap
  BY <1>1, AtIs, GoTyped
<1>3. saved' \in Ports \cup {SSHPort}
  BY OpTyped DEF PidInv, TypeOK, SaveHost
<1>4. TypeOK'
  BY <1>1, <1>2, <1>3 DEF PidInv, TypeOK, world, OpType
<1>5. Calm
  BY <1>1 DEF Calm, world, Serving
<1> QED BY <1>1, <1>4, <1>5, GoCalm

LEMMA RemoveDirKeeps ==
    ASSUME PidInv, NEW p \in Procs, RemoveDir(p)
    PROVE  PidInv'
<1>1. /\ At(p, "local") /\ Go(p, << >>) /\ ~made' /\ disk' = FALSE /\ made' = FALSE
      /\ pidfile' = NoFile
      /\ UNCHANGED <<qemu, fwd, button, busy, saved, range, net, sshd, raced>>
  BY DEF RemoveDir
<1>2. /\ op' \in [Procs -> OpType] /\ outcome' \in [Procs -> {"none", "ok", "failed"}]
      /\ given' = given /\ faults' = faults /\ overlap' = overlap
  BY <1>1, AtIs, GoTyped
<1>3. TypeOK'
  BY <1>1, <1>2 DEF PidInv, TypeOK, OpType, NoFile
<1>4. Calm
  BY <1>1 DEF Calm, Serving
<1> QED BY <1>1, <1>3, <1>4, GoCalm

LEMMA PowerdownKeeps ==
    ASSUME PidInv, NEW p \in Procs, Powerdown(p)
    PROVE  PidInv'
<1>1. /\ At(p, "powerdown") /\ (Go(p, << >>) \/ Fail(p))
      /\ UNCHANGED <<qemu, fwd, pidfile, disk, busy, config, raced>>
      /\ button' \in {button \cup Monitor, button}
  BY DEF Powerdown
<1>2. /\ op' \in [Procs -> OpType] /\ outcome' \in [Procs -> {"none", "ok", "failed"}]
      /\ given' = given /\ faults' = faults /\ overlap' = overlap
  BY <1>1, AtIs, GoTyped
<1>3. TypeOK'
  BY <1>1, <1>2 DEF PidInv, TypeOK, OpType, config, Monitor, Daemon
<1>4. Calm
  BY <1>1 DEF Calm, Serving, config
<1> QED BY <1>1, <1>3, <1>4, GoCalm

LEMMA QuitKeeps ==
    ASSUME PidInv, NEW p \in Procs, Quit(p)
    PROVE  PidInv'
<1>1. /\ At(p, "quit") /\ (Go(p, << >>) \/ Fail(p))
      /\ UNCHANGED <<fwd, button, pidfile, disk, busy, config, raced>>
      /\ \/ qemu' = [q \in Pids |-> IF q \in Monitor THEN "ending" ELSE qemu[q]]
         \/ qemu' = qemu
  BY DEF Quit
<1>2. /\ op' \in [Procs -> OpType] /\ outcome' \in [Procs -> {"none", "ok", "failed"}]
      /\ given' = given /\ faults' = faults /\ overlap' = overlap
  BY <1>1, AtIs, GoTyped
<1>3. qemu \in [Pids -> QemuStates]
  BY DEF PidInv, TypeOK
<1>4. TypeOK'
  <2>1. qemu' \in [Pids -> QemuStates]
    BY <1>1, <1>3 DEF QemuStates
  <2> QED BY <1>1, <1>2, <2>1 DEF PidInv, TypeOK, OpType, config
<1>5. Calm
  <2>1. Monitor \subseteq Pids /\ \A q \in Monitor : Serving(q)
    BY DEF Monitor, Daemon
  <2>2. \A q \in Pids : (qemu'[q] = "new" <=> qemu[q] = "new") /\ (Serving(q)' => Serving(q))
    BY <1>1, <1>3, <2>1 DEF Serving
  <2> QED BY <1>1, <2>2 DEF Calm, config
<1> QED BY <1>1, <1>4, <1>5, GoCalm

LEMMA PortRange ==
    ASSUME TypeOK
    PROVE  ParsePortRange(range) \subseteq Ports
<1>1. range \in Ranges /\ range \in Nat \X Nat
  BY QemuAssumption DEF TypeOK
<1>2. range[1] \in Nat /\ range[2] \in Nat
  BY <1>1
<1>3. ParsePortRange(range) \subseteq range[1]..range[2]
  BY <1>2 DEF ParsePortRange
<1> QED BY <1>1, <1>3 DEF Ports

LEMMA SSHPortKeeps ==
    ASSUME PidInv, NEW p \in Procs, PickSSHPort(p)
    PROVE  PidInv'
<1>1. At(p, "sshport") /\ UNCHANGED <<world, config, raced>>
  BY DEF PickSSHPort
<1>2. CASE Go(p, << >>)
  BY <1>1, <1>2, GoodNone, GoHere
<1>3. ASSUME NEW x \in FreePorts, GoWith(p, << >>, [op[p] EXCEPT !.port = x])
      PROVE  PidInv'
  <2> DEFINE o == [op[p] EXCEPT !.port = x]
  <2>1. x \in Ports
    BY PortRange DEF FreePorts, PidInv
  <2>2. o \in OpType /\ o.cmd = op[p].cmd
    BY <2>1, Fields DEF PidInv
  <2>3. GoWith(p, << >>, o)
    BY <1>3
  <2> HIDE DEF o
  <2> QED BY <1>1, <2>2, <2>3, GoodNone, GoSame
<1>4. CASE Fail(p)
  BY <1>1, <1>4, FailSame
<1> QED BY <1>2, <1>3, <1>4 DEF PickSSHPort

LEMMA EnginePortKeeps ==
    ASSUME PidInv, NEW p \in Procs, PickEnginePort(p)
    PROVE  PidInv'
<1>1. /\ At(p, "engineport") /\ UNCHANGED <<world, config, raced>>
      /\ Go(p, << >>) \/ Fail(p)
  BY DEF PickEnginePort
<1> QED BY <1>1, GoodNone, GoHere, FailSame

LEMMA IsoKeeps ==
    ASSUME PidInv, NEW p \in Procs, IsoAndKey(p)
    PROVE  PidInv'
<1>1. /\ At(p, "iso") /\ UNCHANGED <<world, config, raced>>
      /\ Go(p, << >>) \/ Fail(p)
  BY DEF IsoAndKey
<1> QED BY <1>1, GoodNone, GoHere, FailSame

LEMMA WaitKeeps ==
    ASSUME PidInv, NEW p \in Procs, WaitForTCP(p)
    PROVE  PidInv'
<1>1. At(p, "wait") /\ UNCHANGED <<world, config, raced>> /\ Go(p, << >>)
  BY DEF WaitForTCP
<1> QED BY <1>1, GoodNone, GoHere

LEMMA OnGuestKeeps ==
    ASSUME PidInv, NEW p \in Procs, RunOnGuest(p)
    PROVE  PidInv'
<1>1. /\ At(p, "guest") /\ UNCHANGED <<world, config, raced>>
      /\ Go(p, << >>) \/ Fail(p)
  BY DEF RunOnGuest
<1> QED BY <1>1, GoodNone, GoHere, FailSame

LEMMA DiskKeeps ==
    ASSUME PidInv, NEW p \in Procs, DiskImage(p)
    PROVE  PidInv'
<1>1. /\ At(p, "image") /\ (Go(p, << >>) \/ Fail(p))
      /\ UNCHANGED <<qemu, fwd, button, pidfile, busy, config, raced>>
      /\ disk' \in {TRUE, disk}
  BY DEF DiskImage
<1>2. /\ op' \in [Procs -> OpType] /\ outcome' \in [Procs -> {"none", "ok", "failed"}]
      /\ given' = given /\ faults' = faults /\ overlap' = overlap
  BY <1>1, AtIs, GoTyped
<1>3. TypeOK'
  BY <1>1, <1>2 DEF PidInv, TypeOK, OpType, config
<1>4. Calm
  BY <1>1 DEF Calm, Serving, config
<1> QED BY <1>1, <1>3, <1>4, GoCalm
-----------------------------------------------------------------------------
(* Steps in the middle of a GetState or of a launch.                       *)

\* What a step of p to such a place leaves alone.
LEMMA OthersAt ==
    ASSUME NEW p \in Procs, \A r \in Procs \ {p} : op'[r] = op[r]
    PROVE  \A r \in Procs \ {p} : /\ At(r, "init")' <=> At(r, "init")
                                  /\ At(r, "check")' <=> At(r, "check")
                                  /\ At(r, "unlink")' <=> At(r, "unlink")
                                  /\ Idle(r)' <=> Idle(r)
BY DEF At, Idle

\* p puts the step s of GetState in front.
LEMMA StepMoves ==
    ASSUME PidInv, NEW p \in Procs, NEW s \in Steps \ {"spawn"}, op[p].todo # << >>,
           Head(op[p].todo) # "spawn", NEW o \in OpType, GoWith(p, <<s>>, o)
    PROVE  /\ Moved(p, op'[p].todo, o) /\ Orderly(op'[p].todo) /\ op'[p].todo # << >>
           /\ Head(op'[p].todo) = s
<1>1. TypeOK /\ Orderly(op[p].todo) /\ op[p].todo \in Seq(Steps)
  BY OpTyped DEF PidInv
<1>2. Good(Tail(op[p].todo))
  BY <1>1, Onward
<1>3. <<s>> \in Seq(Steps)
  OBVIOUS
<1>4. Moved(p, <<s>> \o Tail(op[p].todo), o)
  BY <1>1, <1>3, GoMoves
<1>5. op'[p].todo = <<s>> \o Tail(op[p].todo)
  BY <1>4 DEF Moved
<1> QED BY <1>2, <1>4, <1>5, OrderlyOne

LEMMA ReadKeeps ==
    ASSUME PidInv, NEW p \in Procs, ReadPidfile(p)
    PROVE  PidInv'
<1>1. At(p, "read") /\ UNCHANGED <<world, config, raced>>
  BY DEF ReadPidfile
<1>2. CASE See(p, "Error")
  BY <1>1, <1>2, SeeSame DEF States
<1>3. CASE pidfile.written /\ GoWith(p, <<"check">>, [op[p] EXCEPT !.pid = pidfile.by])
  <2> DEFINE o == [op[p] EXCEPT !.pid = pidfile.by]
  <2>1. pidfile.by \in Pids \cup {0}
    BY DEF PidInv, TypeOK
  <2>2. o \in OpType /\ o.cmd = op[p].cmd /\ o.pid = pidfile.by
    BY <2>1, Fields DEF PidInv
  <2>3. GoWith(p, <<"check">>, o) /\ pidfile.written
    BY <1>3
  <2> HIDE DEF o
  <2>4. /\ Moved(p, op'[p].todo, o) /\ Orderly(op'[p].todo) /\ op'[p].todo # << >>
        /\ Head(op'[p].todo) = "check"
    BY <1>1, <2>2, <2>3, AtIs, StepMoves DEF Steps
  <2>5. op'[p].pid = pidfile.by /\ op'[p].cmd = op[p].cmd /\ op[p].cmd # "idle"
    BY <1>1, <2>2, <2>4 DEF Moved, PidInv, Idle, At
  <2>6. \A r \in Procs \ {p} : op'[r] = op[r]
    BY <2>4 DEF Moved
  <2>7. /\ qemu' = qemu /\ pidfile' = pidfile /\ made' = made /\ raced' = raced
        /\ given' = given
    BY <1>1, <2>4 DEF world, config, Moved
  <2>8. ~At(p, "init") /\ ~At(p, "init")' /\ ~At(p, "unlink")'
    BY <1>1, <2>4 DEF At
  <2>9. TypeOK'
    BY <1>1, <2>4 DEF PidInv, TypeOK, OpType, world, config, Moved
  <2>10. Launching'
    BY <2>6, <2>7, <2>8, OthersAt DEF PidInv, Launching
  <2>11. Unborn'
    BY <2>5, <2>7 DEF PidInv, Unborn, Idle
  <2>12. Known'
    <3> SUFFICES ASSUME made, ~raced
                 PROVE  /\ \A q \in Pids : Serving(q)' => pidfile' = [by |-> q, written |-> TRUE]
                        /\ \A q \in Pids : qemu'[q] = "new" => pidfile' = [by |-> q, written |-> FALSE]
                        /\ \A r \in Procs : At(r, "check")' =>
                              \A q \in Pids : Alive(q)' => q = op'[r].pid /\ qemu'[q] # "new"
                        /\ \A r \in Procs : At(r, "unlink")' => \A q \in Pids : ~Alive(q)'
      BY <2>7 DEF Known
    <3>1. \A q \in Pids : (Serving(q)' <=> Serving(q)) /\ (Alive(q)' <=> Alive(q))
      BY <2>7 DEF Serving, Alive
    <3>2. \A q \in Pids : Alive(q) => q = pidfile.by /\ qemu[q] # "new"
      <4>1. \A q \in Pids : qemu[q] # "new"
        BY <2>3 DEF PidInv, Known
      <4>2. \A q \in Pids : Alive(q) => Serving(q)
        BY <4>1 DEF Alive, Serving
      <4> QED BY <4>1, <4>2 DEF PidInv, Known
    <3>3. \A r \in Procs : At(r, "check")' =>
             \A q \in Pids : Alive(q)' => q = op'[r].pid /\ qemu'[q] # "new"
      <4>1. \A r \in Procs \ {p} : At(r, "check")' => At(r, "check") /\ op'[r] = op[r]
        BY <2>6, OthersAt
      <4> QED BY <2>5, <2>7, <3>1, <3>2, <4>1 DEF PidInv, Known
    <3> QED BY <2>6, <2>7, <2>8, <3>1, <3>3, OthersAt DEF PidInv, Known
  <2>13. (\A r \in Procs : Orderly(op[r].todo) /\ (Idle(r) => op[r].todo = << >>))'
    <3>1. Orderly(op[p].todo)' /\ ~Idle(p)'
      BY <2>4, <2>5 DEF Idle, Orderly
    <3>2. ASSUME NEW r \in Procs \ {p} PROVE Orderly(op[r].todo)' /\ (Idle(r)' => op'[r].todo = << >>)
      <4>1. op'[r] = op[r] /\ Orderly(op[r].todo) /\ (Idle(r) => op[r].todo = << >>)
        BY <2>6 DEF PidInv
      <4> QED BY <4>1 DEF Idle, Orderly
    <3> QED BY <3>1, <3>2
  <2> QED BY <2>9, <2>10, <2>11, <2>12, <2>13 DEF PidInv
<1> QED BY <1>2, <1>3 DEF ReadPidfile

LEMMA CheckKeeps ==
    ASSUME PidInv, NEW p \in Procs, CheckPid(p)
    PROVE  PidInv'
<1>1. At(p, "check") /\ UNCHANGED <<world, config, raced>>
  BY DEF CheckPid
<1>2. CASE Go(p, <<"query">>)
  <2>1. Good(<<"query">>)
    BY GoodOne DEF Steps
  <2> QED BY <1>1, <1>2, <2>1, GoHere
<1>3. CASE ~Alive(op[p].pid) /\ Go(p, <<"unlink">>)
  <2>1. Forgets(p) \in OpType /\ Forgets(p).cmd = op[p].cmd
    BY Fields DEF PidInv
  <2>2. GoWith(p, <<"unlink">>, Forgets(p))
    BY <1>3 DEF Go
  <2>4. /\ Moved(p, op'[p].todo, Forgets(p)) /\ Orderly(op'[p].todo) /\ op'[p].todo # << >>
        /\ Head(op'[p].todo) = "unlink"
    BY <1>1, <2>1, <2>2, AtIs, StepMoves DEF Steps
  <2>5. op'[p].cmd = op[p].cmd /\ op[p].cmd # "idle"
    BY <1>1, <2>1, <2>4 DEF Moved, PidInv, Idle, At
  <2>6. \A r \in Procs \ {p} : op'[r] = op[r]
    BY <2>4 DEF Moved
  <2>7. /\ qemu' = qemu /\ pidfile' = pidfile /\ made' = made /\ raced' = raced
        /\ given' = given
    BY <1>1, <2>4 DEF world, config, Moved
  <2>8. ~At(p, "init") /\ ~At(p, "init")' /\ ~At(p, "check")'
    BY <1>1, <2>4 DEF At
  <2>9. TypeOK'
    BY <1>1, <2>4 DEF PidInv, TypeOK, OpType, world, config, Moved
  <2>10. Launching'
    BY <2>6, <2>7, <2>8, OthersAt DEF PidInv, Launching
  <2>11. Unborn'
    BY <2>5, <2>7 DEF PidInv, Unborn, Idle
  <2>12. Known'
    <3>1. \A q \in Pids : (Serving(q)' <=> Serving(q)) /\ (Alive(q)' <=> Alive(q))
      BY <2>7 DEF Serving, Alive
    <3>2. made /\ ~raced => \A q \in Pids : ~Alive(q)
      BY <1>1, <1>3 DEF PidInv, Known
    <3>3. \A r \in Procs : At(r, "check")' => At(r, "check") /\ op'[r] = op[r]
      BY <2>6, <2>8, OthersAt
    <3> QED BY <2>7, <3>1, <3>2, <3>3 DEF PidInv, Known
  <2>13. (\A r \in Procs : Orderly(op[r].todo) /\ (Idle(r) => op[r].todo = << >>))'
    <3>1. Orderly(op[p].todo)' /\ ~Idle(p)'
      BY <2>4, <2>5 DEF Idle, Orderly
    <3>2. ASSUME NEW r \in Procs \ {p} PROVE Orderly(op[r].todo)' /\ (Idle(r)' => op'[r].todo = << >>)
      <4>1. op'[r] = op[r] /\ Orderly(op[r].todo) /\ (Idle(r) => op[r].todo = << >>)
        BY <2>6 DEF PidInv
      <4> QED BY <4>1 DEF Idle, Orderly
    <3> QED BY <3>1, <3>2
  <2> QED BY <2>9, <2>10, <2>11, <2>12, <2>13 DEF PidInv
<1> QED BY <1>2, <1>3 DEF CheckPid

LEMMA UnlinkKeeps ==
    ASSUME PidInv, NEW p \in Procs, RemovePidfile(p)
    PROVE  PidInv'
<1>1. /\ At(p, "unlink") /\ pidfile' = NoFile /\ See(p, "Stopped")
      /\ UNCHANGED <<qemu, fwd, button, disk, busy, config, raced>>
  BY DEF RemovePidfile
<1> DEFINE o == [Forgets(p) EXCEPT !.seen = "Stopped"]
<1>2. o \in OpType /\ o.cmd = op[p].cmd
  BY Fields DEF PidInv, States
<1>3. GoWith(p, << >>, o)
  BY <1>1 DEF See
<1> HIDE DEF o
<1>4. Stays(p)
  BY <1>1, <1>2, <1>3, AtIs, GoodNone, GoStays
<1>5. ~At(p, "init") /\ ~At(p, "init")' /\ ~At(p, "check")' /\ ~At(p, "unlink")'
  BY <1>1, <1>4 DEF At, Stays, Good
<1>6. \A r \in Procs \ {p} : op'[r] = op[r]
  BY <1>4 DEF Stays
<1>7. TypeOK'
  BY <1>1, <1>4 DEF PidInv, TypeOK, OpType, config, Stays, NoFile
<1>8. Launching'
  BY <1>1, <1>5, <1>6, OthersAt DEF PidInv, Launching
<1>9. Unborn'
  <2>1. ~Idle(p)
    BY <1>1 DEF PidInv, At
  <2> QED BY <1>4, <2>1 DEF PidInv, Unborn, Stays
<1>10. Known'
  <2>1. \A q \in Pids : (Serving(q)' <=> Serving(q)) /\ (Alive(q)' <=> Alive(q))
    BY <1>1 DEF Serving, Alive
  <2>2. made /\ ~raced => \A q \in Pids : ~Alive(q)
    BY <1>1 DEF PidInv, Known
  <2>3. \A q \in Pids : ~Alive(q) => ~Serving(q) /\ qemu[q] # "new"
    BY DEF Alive, Serving
  <2>4. made' = made /\ raced' = raced /\ qemu' = qemu
    BY <1>1 DEF config
  <2> QED BY <2>1, <2>2, <2>3, <2>4 DEF Known
<1>11. (\A r \in Procs : Orderly(op[r].todo) /\ (Idle(r) => op[r].todo = << >>))'
  BY <1>4 DEF PidInv, Idle, Orderly, Stays, Good
<1> QED BY <1>7, <1>8, <1>9, <1>10, <1>11 DEF PidInv

LEMMA SpawnKeeps ==
    ASSUME PidInv, NEW p \in Procs, Spawn(p)
    PROVE  PidInv'
<1>1. At(p, "spawn") /\ UNCHANGED <<fwd, button, disk, busy, config>>
  BY DEF Spawn
<1>2. CASE Fail(p) /\ UNCHANGED <<qemu, pidfile, raced>>
  <2>1. UNCHANGED <<world, config, raced>>
    BY <1>1, <1>2 DEF world
  <2> QED BY <1>1, <1>2, <2>1, FailSame
<1>3. ASSUME NEW q \in Pids, ~Locked, qemu[q] = "unused",
             qemu' = [qemu EXCEPT ![q] = "new"], pidfile' = [by |-> q, written |-> FALSE],
             GoWith(p, << >>, [op[p] EXCEPT !.pid = q]),
             raced' = (raced \/ \E r \in Procs : At(r, "check") \/ At(r, "unlink"))
      PROVE  PidInv'
  <2> DEFINE o == [op[p] EXCEPT !.pid = q]
  <2>1. o \in OpType /\ o.cmd = op[p].cmd /\ o.pid = q
    BY Fields DEF PidInv
  <2>2. GoWith(p, << >>, o)
    BY <1>3
  <2> HIDE DEF o
  <2>3. TypeOK /\ op[p].todo \in Seq(Steps) /\ op[p].todo # << >> /\ Orderly(op[p].todo)
        /\ Head(op[p].todo) = "spawn" /\ op[p].cmd # "idle"
    BY <1>1, OpTyped DEF PidInv, At, Idle
  <2>4. /\ Tail(op[p].todo) \in Seq(Steps) /\ Tail(op[p].todo) # << >>
        /\ Orderly(Tail(op[p].todo)) /\ Head(Tail(op[p].todo)) = "init"
    BY <2>3, Launched
  <2>5. Moved(p, Tail(op[p].todo), o)
    <3>1. << >> \in Seq(Steps) /\ << >> \o Tail(op[p].todo) = Tail(op[p].todo)
      BY <2>4
    <3>2. Moved(p, << >> \o Tail(op[p].todo), o)
      BY <2>1, <2>2, <2>3, <3>1, GoMoves
    <3> QED BY <3>1, <3>2
  <2>6. \A r \in Procs \ {p} : op'[r] = op[r]
    BY <2>5 DEF Moved
  <2>7. /\ At(p, "init")' /\ ~At(p, "check")' /\ ~At(p, "unlink")' /\ op'[p].pid = q
        /\ ~Idle(p)' /\ Orderly(op[p].todo)'
    BY <2>1, <2>3, <2>4, <2>5 DEF Moved, At, Idle, Orderly
  <2>8. ~At(p, "init")
    BY <1>1 DEF At
  <2>9. qemu \in [Pids -> QemuStates]
    BY <2>3 DEF TypeOK
  <2>10. TypeOK'
    <3>1. qemu' \in [Pids -> QemuStates] /\ pidfile' \in [by : Pids \cup {0}, written : BOOLEAN]
      BY <1>3, <2>9 DEF QemuStates
    <3>2. raced' \in BOOLEAN
      BY <1>3, <2>3 DEF TypeOK
    <3> QED BY <1>1, <2>3, <2>5, <3>1, <3>2 DEF TypeOK, OpType, config, Moved
  <2>11. \A x \in Pids : qemu'[x] = IF x = q THEN "new" ELSE qemu[x]
    BY <1>3, <2>9
  <2>12. Launching'
    <3>1. \A r \in Procs : At(r, "init")' => r = p \/ (At(r, "init") /\ op'[r] = op[r] /\ op[r].pid # q)
      BY <1>3, <2>6, OthersAt DEF PidInv, Launching
    <3>2. (\A r \in Procs : At(r, "init") => op[r].pid \in Pids /\ qemu[op[r].pid] = "new")'
      BY <2>7, <2>11, <3>1 DEF PidInv, Launching
    <3>3. (\A r, s \in Procs : At(r, "init") /\ At(s, "init") /\ op[r].pid = op[s].pid => r = s)'
      BY <2>7, <3>1 DEF PidInv, Launching
    <3>4. (\A x \in Pids : qemu[x] = "new" => \E r \in Procs : At(r, "init") /\ op[r].pid = x)'
      BY <2>6, <2>7, <2>8, <2>11, OthersAt DEF PidInv, Launching
    <3> QED BY <3>2, <3>3, <3>4 DEF Launching
  <2>13. Unborn'
    BY <2>3, <2>5 DEF PidInv, Unborn, Idle, Moved
  <2>14. Known'
    <3> SUFFICES ASSUME made', ~raced' PROVE Known'
      BY DEF Known
    <3>1. made /\ ~raced /\ \A r \in Procs : ~At(r, "check") /\ ~At(r, "unlink")
      BY <1>1, <1>3 DEF config
    <3>2. \A x \in Pids : ~Serving(x) /\ qemu[x] # "new"
      <4>1. \A x \in Pids : Serving(x) \/ qemu[x] = "new" => pidfile.by = x /\ Alive(x)
        BY <3>1 DEF PidInv, Known, Serving, Alive
      <4> QED BY <1>3, <4>1 DEF Locked
    <3>3. \A r \in Procs : ~At(r, "check")' /\ ~At(r, "unlink")'
      BY <2>6, <2>7, <3>1, OthersAt
    <3>4. \A x \in Pids : ~Serving(x)' /\ (qemu'[x] = "new" => x = q)
      BY <2>11, <3>2 DEF Serving
    <3> QED BY <1>3, <3>3, <3>4 DEF Known
  <2>15. (\A r \in Procs : Orderly(op[r].todo) /\ (Idle(r) => op[r].todo = << >>))'
    <3>1. ASSUME NEW r \in Procs \ {p} PROVE Orderly(op[r].todo)' /\ (Idle(r)' => op'[r].todo = << >>)
      <4>1. op'[r] = op[r] /\ Orderly(op[r].todo) /\ (Idle(r) => op[r].todo = << >>)
        BY <2>6 DEF PidInv
      <4> QED BY <4>1 DEF Idle, Orderly
    <3> QED BY <2>7, <3>1
  <2> QED BY <2>10, <2>12, <2>13, <2>14, <2>15 DEF PidInv
<1> QED BY <1>2, <1>3 DEF Spawn

LEMMA InitQemuKeeps ==
    ASSUME PidInv, NEW p \in Procs, InitQemu(p)
    PROVE  PidInv'
<1> DEFINE q == op[p].pid
<1>1. At(p, "init") /\ UNCHANGED <<button, disk, busy, config, raced>>
  BY DEF InitQemu
<1>2. q \in Pids /\ qemu[q] = "new"
  BY <1>1 DEF PidInv, Launching
<1>3. op[p].todo # << >> /\ Head(op[p].todo) # "spawn" /\ op[p].cmd # "idle" /\ ~Idle(p)
  BY <1>1 DEF At, PidInv, Idle
<1>4. /\ Stays(p) /\ qemu' \in {[qemu EXCEPT ![q] = "boot"], [qemu EXCEPT ![q] = "dead"]}
      /\ fwd' \in [Pids -> Ports \cup {0}]
      /\ pidfile' \in [by : Pids \cup {0}, written : BOOLEAN]
      /\ qemu' = [qemu EXCEPT ![q] = "boot"] /\ pidfile.by = q
            => pidfile' = [pidfile EXCEPT !.written = TRUE]
  <2>0. /\ fwd \in [Pids -> Ports \cup {0}] /\ pidfile \in [by : Pids \cup {0}, written : BOOLEAN]
    BY DEF PidInv, TypeOK
  <2>1. CASE /\ (net = "user" => op[p].port \in Ports \ busy)
             /\ qemu' = [qemu EXCEPT ![q] = "boot"]
             /\ fwd' = [fwd EXCEPT ![q] = IF net = "user" THEN op[p].port ELSE 0]
             /\ pidfile' = IF pidfile.by = q THEN [pidfile EXCEPT !.written = TRUE]
                                             ELSE pidfile
             /\ Go(p, << >>)
    <3>1. Forgets(p) \in OpType /\ Forgets(p).cmd = op[p].cmd
      BY Fields DEF PidInv
    <3>2. Stays(p)
      BY <1>3, <2>1, <3>1, GoodNone, GoStays DEF Go
    <3>3. fwd' \in [Pids -> Ports \cup {0}]
      BY <2>0, <2>1
    <3>4. pidfile' \in [by : Pids \cup {0}, written : BOOLEAN]
      BY <2>0, <2>1
    <3> QED BY <2>1, <3>2, <3>3, <3>4
  <2>2. CASE Die(q, {pidfile, NoFile}) /\ Fail(p) /\ UNCHANGED fwd
    <3>1. Stays(p)
      BY <2>2, EndStays DEF Fail
    <3>2. qemu' = [qemu EXCEPT ![q] = "dead"] /\ pidfile' \in {pidfile, NoFile}
      BY <2>2 DEF Die
    <3>3. qemu'[q] = "dead"
      BY <1>2, <3>2 DEF PidInv, TypeOK
    <3>4. qemu' # [qemu EXCEPT ![q] = "boot"]
      BY <1>2, <3>3 DEF PidInv, TypeOK
    <3>5. fwd' \in [Pids -> Ports \cup {0}]
      BY <2>0, <2>2
    <3>6. pidfile' \in [by : Pids \cup {0}, written : BOOLEAN]
      <4>1. NoFile \in [by : Pids \cup {0}, written : BOOLEAN]
        BY DEF NoFile
      <4> QED BY <2>0, <3>2, <4>1
    <3>7. qemu' \in {[qemu EXCEPT ![q] = "boot"], [qemu EXCEPT ![q] = "dead"]}
      BY <3>2
    <3> QED BY <3>1, <3>4, <3>5, <3>6, <3>7, Zenon
  <2> QED BY <2>1, <2>2 DEF InitQemu
<1>5. \A r \in Procs \ {p} : op'[r] = op[r]
  BY <1>4 DEF Stays
<1>6. /\ ~At(p, "init")' /\ ~At(p, "check")' /\ ~At(p, "unlink")'
      /\ Orderly(op[p].todo)' /\ (Idle(p)' => op'[p].todo = << >>)
  BY <1>4 DEF Stays, Good, At, Idle, Orderly
<1>7. qemu \in [Pids -> QemuStates]
  BY DEF PidInv, TypeOK
<1>8. \A x \in Pids : x # q => qemu'[x] = qemu[x]
  BY <1>4, <1>7
<1>9. qemu'[q] \in {"boot", "dead"}
  BY <1>2, <1>4, <1>7
<1>10. TypeOK'
  <2>1. qemu' \in [Pids -> QemuStates]
    BY <1>4, <1>7 DEF QemuStates
  <2> QED BY <1>1, <1>4, <2>1 DEF PidInv, TypeOK, OpType, config, Stays
<1>11. Launching'
  <2>1. \A r \in Procs : At(r, "init")' => r # p /\ At(r, "init") /\ op'[r] = op[r] /\ op[r].pid # q
    BY <1>1, <1>5, <1>6, OthersAt DEF PidInv, Launching
  <2>2. (\A r \in Procs : At(r, "init") => op[r].pid \in Pids /\ qemu[op[r].pid] = "new")'
    BY <1>8, <2>1 DEF PidInv, Launching
  <2>3. (\A r, s \in Procs : At(r, "init") /\ At(s, "init") /\ op[r].pid = op[s].pid => r = s)'
    BY <2>1 DEF PidInv, Launching
  <2>4. ASSUME NEW x \in Pids, qemu'[x] = "new"
        PROVE  \E r \in Procs : At(r, "init")' /\ op'[r].pid = x
    <3>1. x # q /\ qemu[x] = "new"
      BY <1>8, <1>9, <2>4
    <3>2. PICK r \in Procs : At(r, "init") /\ op[r].pid = x
      BY <3>1 DEF PidInv, Launching
    <3>3. r # p
      BY <3>1, <3>2
    <3> QED BY <1>5, <3>2, <3>3, OthersAt
  <2> QED BY <2>2, <2>3, <2>4 DEF Launching
<1>12. Unborn'
  BY <1>3, <1>4 DEF PidInv, Unborn, Stays
<1>13. Known'
  <2> SUFFICES ASSUME made', ~raced' PROVE Known'
    BY DEF Known
  <2>1. made /\ ~raced
    BY <1>1 DEF config
  <2>2. pidfile = [by |-> q, written |-> FALSE] /\ Alive(q)
    BY <1>2, <2>1 DEF PidInv, Known, Alive
  <2>3. \A x \in Pids : x # q => ~Serving(x) /\ qemu[x] # "new"
    BY <2>1, <2>2 DEF PidInv, Known
  <2>4. \A r \in Procs : ~At(r, "check") /\ ~At(r, "unlink")
    BY <1>2, <2>1, <2>2 DEF PidInv, Known
  <2>5. \A r \in Procs : ~At(r, "check")' /\ ~At(r, "unlink")'
    BY <1>5, <1>6, <2>4, OthersAt
  <2>6. \A x \in Pids : qemu'[x] # "new" /\ (Serving(x)' => x = q /\ qemu'[q] = "boot")
    BY <1>8, <1>9, <2>3 DEF Serving
  <2>7. qemu'[q] = "boot" => pidfile' = [by |-> q, written |-> TRUE]
    <3>1. qemu'[q] = "boot" => qemu' = [qemu EXCEPT ![q] = "boot"]
      BY <1>2, <1>4, <1>7
    <3> QED BY <1>4, <2>2, <3>1
  <2> QED BY <2>5, <2>6, <2>7 DEF Known
<1>14. (\A r \in Procs : Orderly(op[r].todo) /\ (Idle(r) => op[r].todo = << >>))'
  <2>1. ASSUME NEW r \in Procs \ {p} PROVE Orderly(op[r].todo)' /\ (Idle(r)' => op'[r].todo = << >>)
    <3>1. op'[r] = op[r] /\ Orderly(op[r].todo) /\ (Idle(r) => op[r].todo = << >>)
      BY <1>5 DEF PidInv
    <3> QED BY <3>1 DEF Idle, Orderly
  <2> QED BY <1>6, <2>1
<1> QED BY <1>10, <1>11, <1>12, <1>13, <1>14 DEF PidInv
-----------------------------------------------------------------------------
(* Commands that are given, and the rest of the world.                     *)

LEMMA GiveMoves ==
    ASSUME TypeOK, NEW p \in Procs, NEW c \in Commands, Give(p, c)
    PROVE  /\ op' \in [Procs -> OpType] /\ \A r \in Procs \ {p} : op'[r] = op[r]
           /\ op'[p].cmd = c /\ op'[p].todo = Script(c) /\ op'[p].seen = "None"
           /\ Good(op'[p].todo) /\ c # "idle"
<1> DEFINE x == [NoOp EXCEPT !.cmd = c, !.todo = Script(c), !.port = saved]
<1>1. op \in [Procs -> OpType] /\ saved \in Ports \cup {SSHPort}
  BY DEF TypeOK, OpType
<1>2. Good(Script(c)) /\ Script(c) \in Seq(Steps)
  BY GoodScript DEF Good
<1>3. x \in OpType /\ x.cmd = c /\ x.todo = Script(c) /\ x.seen = "None"
  BY <1>1, <1>2, NoOpIs DEF OpType
<1>4. op' = [op EXCEPT ![p] = x]
  BY DEF Give
<1> HIDE DEF x
<1>5. op' \in [Procs -> OpType] /\ op'[p] = x /\ \A r \in Procs \ {p} : op'[r] = op[r]
  BY <1>1, <1>3, <1>4
<1>6. c # "idle"
  BY QemuAssumption DEF AllCommands
<1> QED BY <1>2, <1>3, <1>5, <1>6

LEMMA GiveKeeps ==
    ASSUME PidInv, NEW p \in Procs, NEW c \in Commands, Give(p, c)
    PROVE  PidInv'
<1>1. /\ Idle(p) /\ given < MaxCommands /\ (c = "create") = (given = 0) /\ (c # "create" => made)
      /\ given' = given + 1 /\ made' = TRUE
      /\ outcome' = [outcome EXCEPT ![p] = "none"]
      /\ overlap' = (overlap \/ \E q \in Procs : ~Idle(q))
      /\ UNCHANGED <<world, saved, range, net, sshd, faults, raced>>
  BY DEF Give
<1>2. /\ op' \in [Procs -> OpType] /\ \A r \in Procs \ {p} : op'[r] = op[r]
      /\ op'[p].cmd = c /\ Good(op'[p].todo) /\ c # "idle"
  BY GiveMoves DEF PidInv
<1>3. /\ ~At(p, "init")' /\ ~At(p, "check")' /\ ~At(p, "unlink")' /\ Orderly(op[p].todo)'
      /\ ~Idle(p)'
  <2>1. ~At(p, "init")' /\ ~At(p, "check")' /\ ~At(p, "unlink")' /\ ~Idle(p)'
    BY <1>2 DEF Good, At, Idle
  <2>2. Orderly(op[p].todo)'
    BY <1>2 DEF Good, Orderly
  <2> QED BY <2>1, <2>2
<1>4. ~At(p, "init")
  BY <1>1 DEF PidInv, At
<1>5. qemu' = qemu /\ pidfile' = pidfile
  BY <1>1 DEF world
<1>6. TypeOK'
  <2>1. given' \in 0..MaxCommands /\ overlap' \in BOOLEAN
    BY <1>1, QemuAssumption DEF PidInv, TypeOK
  <2> QED BY <1>1, <1>2, <2>1 DEF PidInv, TypeOK, OpType, world
<1>7. Launching'
  BY <1>2, <1>3, <1>4, <1>5, OthersAt DEF PidInv, Launching
<1>8. Unborn'
  BY <1>1, QemuAssumption DEF PidInv, TypeOK, Unborn
<1>9. Known'
  <2> SUFFICES ASSUME ~raced PROVE Known'
    BY <1>1 DEF Known
  <2>1. \A q \in Pids : (Serving(q)' <=> Serving(q)) /\ (Alive(q)' <=> Alive(q))
    BY <1>5 DEF Serving, Alive
  <2>2. \A r \in Procs : /\ At(r, "check")' => At(r, "check") /\ op'[r] = op[r]
                         /\ At(r, "unlink")' => At(r, "unlink")
    BY <1>2, <1>3, OthersAt
  <2>3. CASE made
    BY <1>5, <2>1, <2>2, <2>3 DEF PidInv, Known
  <2>4. CASE ~made
    <3>1. given = 0
      BY <1>1, <2>4
    <3>2. /\ \A q \in Pids : qemu[q] = "unused"
          /\ \A r \in Procs : op[r].todo = << >>
      BY <3>1 DEF PidInv, Unborn
    <3>3. \A q \in Pids : ~Serving(q) /\ qemu[q] # "new"
      BY <3>2 DEF Serving
    <3>4. \A r \in Procs : ~At(r, "check") /\ ~At(r, "unlink")
      BY <3>2 DEF At
    <3> QED BY <1>5, <2>1, <2>2, <3>3, <3>4 DEF Known
  <2> QED BY <2>3, <2>4
<1>10. (\A r \in Procs : Orderly(op[r].todo) /\ (Idle(r) => op[r].todo = << >>))'
  <2>1. ASSUME NEW r \in Procs \ {p} PROVE Orderly(op[r].todo)' /\ (Idle(r)' => op'[r].todo = << >>)
    <3>1. op'[r] = op[r] /\ Orderly(op[r].todo) /\ (Idle(r) => op[r].todo = << >>)
      BY <1>2 DEF PidInv
    <3> QED BY <3>1 DEF Idle, Orderly
  <2> QED BY <1>3, <2>1
<1> QED BY <1>6, <1>7, <1>8, <1>9, <1>10 DEF PidInv

\* QEMUs neither appear nor come up; a pidfile goes only with its QEMU.
Waning ==
    /\ \A q \in Pids : /\ qemu'[q] = "new" <=> qemu[q] = "new"
                       /\ qemu'[q] = "unused" <=> qemu[q] = "unused"
                       /\ Serving(q)' => Serving(q)
                       /\ qemu'[q] \in {"boot", "up", "paused"} => qemu[q] \in {"boot", "up", "paused"}
    /\ \/ pidfile' = pidfile
       \/ \E q \in Pids : Serving(q) /\ ~Serving(q)'

LEMMA WorldIs ==
    ASSUME PidInv, World
    PROVE  /\ Waning /\ TypeOK'
           /\ UNCHANGED <<config, op, outcome, admin, raced>>
<1>1. UNCHANGED <<config, op, outcome, admin, raced>>
  BY DEF World
<1>2. TypeOK
  BY DEF PidInv
<1>3. qemu \in [Pids -> QemuStates]
  BY <1>2 DEF TypeOK
<1>4. ASSUME NEW q \in Pids, NEW s \in QemuStates \ {"new", "unused"},
             qemu[q] \notin {"new", "unused"}, qemu' = [qemu EXCEPT ![q] = s],
             s \in {"boot", "up", "paused"} => qemu[q] \in {"boot", "up", "paused"},
             s \in {"boot", "up", "paused", "off", "ending"} => Serving(q),
             pidfile' = pidfile \/ (Serving(q) /\ s = "dead" /\ pidfile' = NoFile),
             UNCHANGED <<fwd, button, disk, busy>>
      PROVE  Waning /\ TypeOK'
  <2>1. \A x \in Pids : qemu'[x] = IF x = q THEN s ELSE qemu[x]
    BY <1>3, <1>4
  <2>2. \A x \in Pids : /\ qemu'[x] = "new" <=> qemu[x] = "new"
                        /\ qemu'[x] = "unused" <=> qemu[x] = "unused"
                        /\ Serving(x)' => Serving(x)
                        /\ qemu'[x] \in {"boot", "up", "paused"} => qemu[x] \in {"boot", "up", "paused"}
    BY <1>4, <2>1 DEF Serving
  <2>3. pidfile' = pidfile \/ \E x \in Pids : Serving(x) /\ ~Serving(x)'
    BY <1>4, <2>1 DEF Serving
  <2>4. qemu' \in [Pids -> QemuStates]
    BY <1>3, <1>4
  <2>5. pidfile' \in [by : Pids \cup {0}, written : BOOLEAN]
    <3>1. NoFile \in [by : Pids \cup {0}, written : BOOLEAN]
      BY DEF NoFile
    <3> QED BY <1>2, <1>4, <3>1 DEF TypeOK
  <2> QED BY <1>1, <1>2, <1>4, <2>2, <2>3, <2>4, <2>5 DEF Waning, TypeOK, config, admin
<1>5. ASSUME NEW q \in Pids, GuestBoots(q) PROVE Waning /\ TypeOK'
  BY <1>4, <1>5 DEF GuestBoots, Serving, QemuStates
<1>6. ASSUME NEW q \in Pids, GuestPowersOff(q) PROVE Waning /\ TypeOK'
  BY <1>4, <1>6 DEF GuestPowersOff, Serving, QemuStates
<1>7. ASSUME NEW q \in Pids, Exits(q) PROVE Waning /\ TypeOK'
  BY <1>4, <1>7 DEF Exits, Die, Serving, QemuStates
<1>8. ASSUME NEW q \in Pids, Killed(q) PROVE Waning /\ TypeOK'
  BY <1>4, <1>8 DEF Killed, Die, Serving, QemuStates
<1>9. ASSUME NEW q \in Pids, PausesOrResumes(q) PROVE Waning /\ TypeOK'
  BY <1>4, <1>9 DEF PausesOrResumes, Serving, QemuStates
<1>10. ASSUME NEW q \in Pids, PidReused(q) PROVE Waning /\ TypeOK'
  BY <1>4, <1>10 DEF PidReused, Serving, QemuStates
<1>11. ASSUME NEW x \in Ports, OtherProgram(x) PROVE Waning /\ TypeOK'
  <2>1. UNCHANGED <<qemu, fwd, button, pidfile, disk>> /\ busy' \in {busy \cup {x}, busy \ {x}}
    BY <1>11 DEF OtherProgram
  <2>2. Waning
    BY <2>1 DEF Waning, Serving
  <2> QED BY <1>1, <1>2, <2>1, <2>2 DEF TypeOK, config, admin
<1> QED BY <1>1, <1>5, <1>6, <1>7, <1>8, <1>9, <1>10, <1>11 DEF World

LEMMA WorldKeeps ==
    ASSUME PidInv, World
    PROVE  PidInv'
<1>1. /\ Waning /\ TypeOK'
      /\ UNCHANGED <<config, op, outcome, admin, raced>>
  BY WorldIs
<1>2. op' = op /\ made' = made /\ given' = given /\ raced' = raced
  BY <1>1 DEF config, admin
<1>3. \A r \in Procs : /\ At(r, "init")' <=> At(r, "init")
                       /\ At(r, "check")' <=> At(r, "check")
                       /\ At(r, "unlink")' <=> At(r, "unlink")
                       /\ Idle(r)' <=> Idle(r)
  BY <1>2 DEF At, Idle
<1>4. Launching'
  BY <1>1, <1>2, <1>3 DEF PidInv, Launching, Waning
<1>5. Unborn'
  BY <1>1, <1>2, <1>3 DEF PidInv, Unborn, Waning
<1>6. Known'
  <2> SUFFICES ASSUME made, ~raced PROVE Known'
    BY <1>2 DEF Known
  <2>1. \A q \in Pids : Alive(q)' => Alive(q)
    BY <1>1 DEF Waning, Alive, Serving
  <2>2. CASE pidfile' = pidfile
    BY <1>1, <1>2, <1>3, <2>1, <2>2 DEF PidInv, Known, Waning
  <2>3. ASSUME NEW q \in Pids, Serving(q), ~Serving(q)' PROVE Known'
    <3>1. pidfile = [by |-> q, written |-> TRUE]
      BY <2>3 DEF PidInv, Known
    <3>2. \A x \in Pids : qemu[x] # "new" /\ (Serving(x) => x = q)
      BY <3>1 DEF PidInv, Known
    <3>3. \A x \in Pids : ~Serving(x)' /\ qemu'[x] # "new"
      BY <1>1, <2>3, <3>2 DEF Waning
    <3>4. \A x \in Pids : ~Alive(x)'
      BY <3>3 DEF Serving, Alive
    <3> QED BY <3>3, <3>4 DEF Known
  <2> QED BY <1>1, <2>2, <2>3 DEF Waning
<1>7. (\A r \in Procs : Orderly(op[r].todo) /\ (Idle(r) => op[r].todo = << >>))'
  BY <1>2 DEF PidInv, Idle, Orderly
<1> QED BY <1>1, <1>4, <1>5, <1>6, <1>7 DEF PidInv
-----------------------------------------------------------------------------
(* The pidfile.                                                            *)

LEMMA PidInit == Init => PidInv
<1> SUFFICES ASSUME Init PROVE PidInv
  OBVIOUS
<1>1. /\ \A q \in Pids : qemu[q] \in {"unused", "up", "dead"} /\ (qemu[q] # "unused" => q = 1)
      /\ qemu \in [Pids -> QemuStates]
  BY DEF Init, QemuStates
<1>2. op = [p \in Procs |-> NoOp]
  BY DEF Init
<1>3. \A p \in Procs : op[p].todo = << >> /\ op[p].cmd = "idle"
  BY <1>2, NoOpIs
<1>4. range \in Ranges
  BY QemuAssumption DEF Init
<1>5. saved \in Ports \cup {SSHPort} /\ (\A q \in Pids : qemu[q] = "up" /\ net = "user" => saved \in Ports)
  <2>1. ParsePortRange(range) # {} => range[1] \in Ports
    <3>1. range[1] \in Nat /\ range[2] \in Nat
      BY <1>4, QemuAssumption
    <3>2. ParsePortRange(range) # {} => range[1] \in range[1]..range[2]
      BY <3>1 DEF ParsePortRange
    <3> QED BY <1>4, <3>2 DEF Ports
  <2>2. CASE saved = SSHPort /\ qemu = [q \in Pids |-> "unused"]
    BY <2>2
  <2>3. CASE net = "user" /\ saved = range[1] /\ ParsePortRange(range) # {}
    BY <2>1, <2>3
  <2>4. CASE net # "user" /\ saved = SSHPort
    BY <2>4
  <2> QED BY <2>2, <2>3, <2>4 DEF Init
<1>6. TypeOK
  <2>1. op \in [Procs -> OpType]
    BY <1>2, NoOpIs
  <2>2. fwd \in [Pids -> Ports \cup {0}]
    BY <1>5 DEF Init
  <2>3. pidfile \in [by : Pids \cup {0}, written : BOOLEAN]
    <3>1. 1 \in Pids
      BY QemuAssumption DEF Pids
    <3>2. pidfile = NoFile \/ pidfile = [by |-> 1, written |-> TRUE]
      BY DEF Init
    <3>3. NoFile \in [by : Pids \cup {0}, written : BOOLEAN]
      BY DEF NoFile
    <3>4. [by |-> 1, written |-> TRUE] \in [by : Pids \cup {0}, written : BOOLEAN]
      BY <3>1
    <3> QED BY <3>2, <3>3, <3>4
  <2>4. given \in 0..MaxCommands /\ made \in BOOLEAN /\ disk \in BOOLEAN
    <3>1. given = 0 \/ given = 1
      BY DEF Init
    <3>2. given \in 0..MaxCommands
      BY <3>1, QemuAssumption
    <3>3. (made = TRUE \/ made = FALSE) /\ (disk = TRUE \/ disk = FALSE)
      BY DEF Init
    <3> QED BY <3>2, <3>3
  <2>5. net \in Networks /\ sshd \in BOOLEAN /\ faults \in FaultSets
    BY DEF Init
  <2>6. button \subseteq Pids /\ busy \subseteq Ports /\ overlap \in BOOLEAN /\ raced \in BOOLEAN
        /\ outcome \in [Procs -> {"none", "ok", "failed"}]
    BY DEF Init
  <2> QED BY <1>1, <1>4, <1>5, <2>1, <2>2, <2>3, <2>4, <2>5, <2>6 DEF TypeOK, OpType
<1>7. \A p \in Procs : \A s \in Steps : ~At(p, s)
  BY <1>3 DEF At
<1>8. Launching
  BY <1>1, <1>7 DEF Launching, Steps
<1>9. Unborn
  <2> SUFFICES ASSUME given = 0
               PROVE  (\A p \in Procs : Idle(p)) /\ (\A q \in Pids : qemu[q] = "unused")
    BY DEF Unborn
  <2>1. qemu = [q \in Pids |-> "unused"]
    BY DEF Init
  <2> QED BY <1>3, <2>1 DEF Idle
<1>10. Known
  <2> SUFFICES ASSUME made PROVE Known
    BY DEF Known
  <2>1. pidfile = [by |-> 1, written |-> TRUE]
    BY DEF Init
  <2>2. \A q \in Pids : Serving(q) => q = 1
    BY <1>1 DEF Serving
  <2> QED BY <1>1, <1>7, <2>1, <2>2 DEF Known, Steps
<1>11. \A p \in Procs : Orderly(op[p].todo) /\ (Idle(p) => op[p].todo = << >>)
  BY <1>3 DEF Orderly
<1> QED BY <1>6, <1>8, <1>9, <1>10, <1>11 DEF PidInv

LEMMA PidStep == PidInv /\ [Next]_vars => PidInv'
<1> SUFFICES ASSUME PidInv, [Next]_vars PROVE PidInv'
  OBVIOUS
<1>1. ASSUME NEW p \in Procs, Step(p) PROVE PidInv'
  <2>1. CASE WaitForState(p) \/ PollGuest(p)
    BY <2>1, PollKeeps
  <2>2. CASE NotRunningYet(p) \/ NotStoppedYet(p)
    BY <2>2, NotYetIs, DecidedKeeps
  <2> QED
    BY <1>1, <2>1, <2>2, FinishKeeps, StatKeeps, ReadKeeps, CheckKeeps, UnlinkKeeps,
       QueryKeeps, RestartKeeps, RemoveKeeps, RemoveDirKeeps, SaveKeeps, PowerdownKeeps,
       QuitKeeps, SSHPortKeeps, EnginePortKeeps, IsoKeeps, DiskKeeps, SpawnKeeps,
       InitQemuKeeps, WaitKeeps, OnGuestKeeps DEF Step
<1>2. CASE UNCHANGED vars
  <2>1. /\ UNCHANGED <<qemu, fwd, button, pidfile, disk, busy, made, saved, range, net, sshd>>
        /\ UNCHANGED <<op, outcome, given, faults, overlap, raced>>
    BY <1>2 DEF vars, world, config, admin
  <2>2. TypeOK' /\ Launching' /\ Unborn' /\ Known'
    BY <2>1 DEF PidInv, TypeOK, Launching, Unborn, Known, At, Idle, Serving, Alive
  <2>3. (\A r \in Procs : Orderly(op[r].todo) /\ (Idle(r) => op[r].todo = << >>))'
    BY <2>1 DEF PidInv, Idle, Orderly
  <2> QED BY <2>2, <2>3 DEF PidInv
<1> QED BY <1>1, <1>2, GiveKeeps, WorldKeeps DEF Next

\* Together with the places of the operations that look at a pid or launch a
\* QEMU, what is said of the pidfile is inductive.
THEOREM PidfileInductive == Spec => []PidInv
BY PidInit, PidStep, PTL DEF Spec

\* The pidfile of a QEMU that runs stays as long as the machine is there and no
\* QEMU was launched under a GetState that had read the pid of an earlier one,
\* for any number of processes and commands and for all faults (qemu.go:275-295).
THEOREM PidfileStays == Spec => []QemuInv
<1>1. PidInv => QemuInv
  BY DEF PidInv, Known, QemuInv, PidfileKept
<1> QED BY <1>1, PidfileInductive, PTL
-----------------------------------------------------------------------------
(* What GetState returns.                                                  *)

NoGuest == \A q \in Pids : qemu[q] \notin {"boot", "up", "paused"}

\* A step of p leaves what GetState had returned, forgets it, or is the end of a
\* GetState, which says Stopped only where no guest is.  It goes on with the same
\* command or ends it, with success only when all the steps are made.
Sees(p) ==
    /\ \A r \in Procs \ {p} : op'[r] = op[r] /\ outcome'[r] = outcome[r]
    /\ op'[p].cmd \in {op[p].cmd, "idle"} /\ overlap' = overlap
    /\ outcome'[p] = "ok" => outcome[p] = "ok" \/ op[p].todo = << >>
    /\ \/ op'[p].seen \in {op[p].seen, "None"}
       \/ (op'[p].seen = "Stopped" /\ made /\ ~raced) => NoGuest

LEMMA GoSees ==
    ASSUME PidInv, NEW p \in Procs, op[p].todo # << >>, NEW more \in Seq(Steps), Go(p, more)
    PROVE  Sees(p)
<1>1. Forgets(p) \in OpType /\ Forgets(p).cmd = op[p].cmd /\ Forgets(p).seen = "None" /\ TypeOK
  BY Fields DEF PidInv
<1>2. Moved(p, more \o Tail(op[p].todo), Forgets(p))
  BY <1>1, GoMoves DEF Go
<1> QED BY <1>1, <1>2 DEF Moved, Sees

LEMMA WithSees ==
    ASSUME PidInv, NEW p \in Procs, op[p].todo # << >>, NEW more \in Seq(Steps),
           NEW o \in OpType, o.seen \in {op[p].seen, "None"}, o.cmd = op[p].cmd,
           GoWith(p, more, o)
    PROVE  Sees(p)
<1>1. Moved(p, more \o Tail(op[p].todo), o)
  BY GoMoves DEF PidInv
<1> QED BY <1>1 DEF Moved, Sees

LEMMA EndSees ==
    ASSUME PidInv, NEW p \in Procs, NEW r \in {"ok", "failed"}, End(p, r),
           r = "ok" => op[p].todo = << >>
    PROVE  Sees(p)
<1>1. Ended(p, r)
  BY EndEnds DEF PidInv
<1> QED BY <1>1, NoOpIs DEF Ended, Sees

LEMMA SeeSees ==
    ASSUME PidInv, NEW p \in Procs, op[p].todo # << >>, NEW v \in States, See(p, v),
           v = "Stopped" /\ made /\ ~raced => NoGuest
    PROVE  Sees(p)
<1> DEFINE o == [Forgets(p) EXCEPT !.seen = v]
<1>1. o \in OpType /\ o.seen = v /\ o.cmd = op[p].cmd
  BY Fields DEF PidInv
<1>2. GoWith(p, << >>, o) /\ << >> \in Seq(Steps)
  BY DEF See
<1> HIDE DEF o
<1>3. Moved(p, << >> \o Tail(op[p].todo), o)
  BY <1>1, <1>2, GoMoves DEF PidInv
<1> QED BY <1>1, <1>3 DEF Moved, Sees

LEMMA StepSees ==
    ASSUME PidInv, NEW p \in Procs, Step(p)
    PROVE  Sees(p)
<1>0. << >> \in Seq(Steps)
  OBVIOUS
<1>1. CASE Finish(p)
  BY <1>1, EndSees DEF Finish
<1>2. ASSUME op[p].todo # << >>, Go(p, << >>) \/ Fail(p) PROVE Sees(p)
  BY <1>0, <1>2, GoSees, EndSees DEF Fail
<1>3. CASE StatPidfile(p)
  <2>1. op[p].todo # << >>
    BY <1>3 DEF StatPidfile, At
  <2>2. CASE pidfile = NoFile /\ See(p, "Stopped")
    <3>1. made /\ ~raced => NoGuest
      <4>1. \A q \in Pids : NoFile # [by |-> q, written |-> TRUE]
        BY DEF NoFile
      <4> QED BY <2>2, <4>1 DEF PidInv, Known, Serving, NoGuest
    <3> QED BY <2>1, <2>2, <3>1, SeeSees DEF States
  <2>3. CASE Go(p, <<"read">>)
    <3>1. <<"read">> \in Seq(Steps)
      BY DEF Steps
    <3> QED BY <2>1, <2>3, <3>1, GoSees
  <2> QED BY <1>3, <2>2, <2>3 DEF StatPidfile
<1>4. CASE ReadPidfile(p)
  <2>1. op[p].todo # << >>
    BY <1>4 DEF ReadPidfile, At
  <2>2. CASE See(p, "Error")
    BY <2>1, <2>2, SeeSees DEF States
  <2>3. CASE GoWith(p, <<"check">>, [op[p] EXCEPT !.pid = pidfile.by])
    <3> DEFINE o == [op[p] EXCEPT !.pid = pidfile.by]
    <3>1. pidfile.by \in Pids \cup {0}
      BY DEF PidInv, TypeOK
    <3>2. o \in OpType /\ o.seen = op[p].seen /\ o.cmd = op[p].cmd
      BY <3>1, Fields DEF PidInv
    <3>3. GoWith(p, <<"check">>, o) /\ <<"check">> \in Seq(Steps)
      BY <2>3 DEF Steps
    <3> HIDE DEF o
    <3> QED BY <2>1, <3>2, <3>3, WithSees
  <2> QED BY <1>4, <2>2, <2>3 DEF ReadPidfile
<1>5. CASE CheckPid(p)
  <2>1. op[p].todo # << >> /\ <<"query">> \in Seq(Steps) /\ <<"unlink">> \in Seq(Steps)
    BY <1>5 DEF CheckPid, At, Steps
  <2> QED BY <1>5, <2>1, GoSees DEF CheckPid
<1>6. CASE RemovePidfile(p)
  <2>1. At(p, "unlink") /\ op[p].todo # << >> /\ See(p, "Stopped")
    BY <1>6 DEF RemovePidfile, At
  <2>2. made /\ ~raced => NoGuest
    BY <2>1 DEF PidInv, Known, Alive, NoGuest
  <2> QED BY <2>1, <2>2, SeeSees DEF States
<1>7. CASE QueryStatus(p)
  <2>1. op[p].todo # << >>
    BY <1>7 DEF QueryStatus, At
  <2>2. ASSUME NEW q \in Monitor, NEW s \in {StateOf(q), "None", "Error"}, See(p, s)
        PROVE  Sees(p)
    <3>1. q \in Pids /\ Serving(q)
      BY DEF Monitor, Daemon
    <3>2. s \in States /\ (s = "Stopped" => qemu[q] = "off")
      BY <3>1 DEF StateOf, States, Serving
    <3>3. made /\ ~raced => \A x \in Pids : Serving(x) => x = q
      BY <3>1 DEF PidInv, Known
    <3>4. s = "Stopped" /\ made /\ ~raced => NoGuest
      BY <3>2, <3>3 DEF NoGuest, Serving
    <3> QED BY <2>1, <2>2, <3>2, <3>4, SeeSees
  <2>3. CASE See(p, "Error")
    BY <2>1, <2>3, SeeSees DEF States
  <2> QED BY <1>7, <2>2, <2>3 DEF QueryStatus
<1>8. ASSUME Decided(p) PROVE Sees(p)
  <2>1. op[p].todo # << >>
    BY <1>8 DEF Decided, At
  <2> QED BY <1>8, <2>1, GoSees, EndSees DEF Decided, Fail
<1>9. CASE WaitForState(p) \/ PollGuest(p)
  <2>1. PICK s \in Steps : \E m : Good(m) /\ Polled(p, s, m)
    BY <1>9, PollIs
  <2>2. op[p].todo # << >>
    BY <2>1 DEF Polled, At
  <2>3. ASSUME NEW m, NEW o, Good(m), o \in OpType, o.cmd = op[p].cmd, o.seen = "None",
               GoWith(p, m, o)
        PROVE  Sees(p)
    BY <2>2, <2>3, WithSees DEF Good
  <2> QED BY <1>2, <2>1, <2>2, <2>3, PolledMoves
<1>10. CASE RestartStep(p) \/ RemoveStep(p) \/ NotRunningYet(p) \/ NotStoppedYet(p)
  BY <1>8, <1>10, RestartIs, RemoveIs, NotYetIs
<1>11. CASE RemoveDir(p) \/ SaveHost(p) \/ Powerdown(p) \/ Quit(p)
  BY <1>2, <1>11 DEF RemoveDir, SaveHost, Powerdown, Quit, At
<1>12. CASE PickSSHPort(p)
  <2>1. op[p].todo # << >>
    BY <1>12 DEF PickSSHPort, At
  <2>2. ASSUME NEW x \in FreePorts, GoWith(p, << >>, [op[p] EXCEPT !.port = x])
        PROVE  Sees(p)
    <3> DEFINE o == [op[p] EXCEPT !.port = x]
    <3>1. x \in Ports
      BY PortRange DEF FreePorts, PidInv
    <3>2. o \in OpType /\ o.seen = op[p].seen /\ o.cmd = op[p].cmd
      BY <3>1, Fields DEF PidInv
    <3>3. GoWith(p, << >>, o)
      BY <2>2
    <3> HIDE DEF o
    <3> QED BY <1>0, <2>1, <3>2, <3>3, WithSees
  <2> QED BY <1>2, <1>12, <2>1, <2>2 DEF PickSSHPort
<1>13. CASE PickEnginePort(p) \/ IsoAndKey(p) \/ DiskImage(p) \/ WaitForTCP(p) \/ InitQemu(p)
              \/ RunOnGuest(p)
  BY <1>2, <1>13 DEF PickEnginePort, IsoAndKey, DiskImage, WaitForTCP, InitQemu, RunOnGuest, At
<1>14. CASE Spawn(p)
  <2>1. op[p].todo # << >>
    BY <1>14 DEF Spawn, At
  <2>2. ASSUME NEW q \in Pids, GoWith(p, << >>, [op[p] EXCEPT !.pid = q])
        PROVE  Sees(p)
    <3> DEFINE o == [op[p] EXCEPT !.pid = q]
    <3>1. o \in OpType /\ o.seen = op[p].seen /\ o.cmd = op[p].cmd
      BY Fields DEF PidInv
    <3>2. GoWith(p, << >>, o)
      BY <2>2
    <3> HIDE DEF o
    <3> QED BY <1>0, <2>1, <3>1, <3>2, WithSees
  <2> QED BY <1>2, <1>14, <2>1, <2>2 DEF Spawn
<1> QED
  BY <1>1, <1>3, <1>4, <1>5, <1>6, <1>7, <1>9, <1>10, <1>11, <1>12, <1>13, <1>14 DEF Step

\* GetState does not say Stopped of a machine whose guest runs or is paused,
\* with the exception of PidfileStays, for any number of processes and commands
\* and for all faults (qemu.go:275-311).
THEOREM StoppedMeansOff == Spec => StoppedIsOff
<1>1. ASSUME PidInv, [Next]_vars
      PROVE  [\A p \in Procs :
                (op'[p].seen = "Stopped" /\ op[p].seen # "Stopped" /\ made /\ ~raced)
                   => \A q \in Pids : qemu[q] \notin {"boot", "up", "paused"}]_vars
  <2> SUFFICES ASSUME Next, NEW p \in Procs, op'[p].seen = "Stopped", op[p].seen # "Stopped",
                      made, ~raced
               PROVE  NoGuest
    BY <1>1 DEF NoGuest
  <2>1. ASSUME NEW r \in Procs, Step(r) PROVE NoGuest
    BY <1>1, <2>1, StepSees DEF Sees
  <2>2. ASSUME NEW r \in Procs, NEW c \in Commands, Give(r, c) PROVE FALSE
    BY <1>1, <2>2, GiveMoves DEF PidInv
  <2>3. CASE World
    BY <2>3 DEF World
  <2> QED BY <2>1, <2>2, <2>3 DEF Next
<1> QED BY <1>1, PidfileInductive, PTL DEF Spec, StoppedIsOff
-----------------------------------------------------------------------------
(* rm.                                                                     *)

LEMMA RmTails ==
    /\ Tail(R1) = R6 /\ Tail(R2) = R6 /\ Tail(R3) = R6 /\ Tail(R4) = R6 /\ Tail(R5) = R6
    /\ Tail(R6) = R9 /\ Tail(R7) = R8 /\ Tail(R8) = R9 /\ Tail(R9) = << >>
BY DEF R1, R2, R3, R4, R5, R6, R7, R8, R9

LEMMA RmHeads ==
    /\ Head(R1) = "stat" /\ Head(R2) = "read" /\ Head(R3) = "check" /\ Head(R4) = "unlink"
    /\ Head(R5) = "query" /\ Head(R6) = "d_remove" /\ Head(R7) = "powerdown"
    /\ Head(R8) = "quit" /\ Head(R9) = "local"
BY DEF R1, R2, R3, R4, R5, R6, R7, R8, R9

LEMMA RmTyped ==
    /\ R1 \in Seq(Steps) /\ R2 \in Seq(Steps) /\ R3 \in Seq(Steps) /\ R4 \in Seq(Steps)
    /\ R5 \in Seq(Steps) /\ R6 \in Seq(Steps) /\ R7 \in Seq(Steps) /\ R8 \in Seq(Steps)
    /\ R9 \in Seq(Steps) /\ << >> \in Seq(Steps)
BY DEF R1, R2, R3, R4, R5, R6, R7, R8, R9, Steps

LEMMA RmFilled ==
    /\ R1 # << >> /\ R2 # << >> /\ R3 # << >> /\ R4 # << >> /\ R5 # << >> /\ R6 # << >>
    /\ R7 # << >> /\ R8 # << >> /\ R9 # << >>
BY DEF R1, R2, R3, R4, R5, R6, R7, R8, R9

LEMMA ConsIs ==
    ASSUME NEW T, NEW u \in Seq(T), u # << >>
    PROVE  <<Head(u)>> \o Tail(u) = u
<1> DEFINE a == <<Head(u)>>
           t == Tail(u)
<1>1. /\ t \in Seq(T) /\ Len(t) = Len(u) - 1 /\ \A j \in 1..Len(t) : t[j] = u[j + 1]
  BY TailAt
<1>2. a \in Seq(T) /\ Len(a) = 1 /\ a[1] = u[1] /\ Len(u) \in Nat \ {0}
  OBVIOUS
<1> HIDE DEF a, t
<1>3. /\ a \o t \in Seq(T) /\ Len(a \o t) = Len(a) + Len(t)
      /\ \A i \in 1..(Len(a) + Len(t)) : (a \o t)[i] = IF i <= Len(a) THEN a[i] ELSE t[i - Len(a)]
  BY <1>1, <1>2, ConcatProperties
<1>4. Len(a \o t) = Len(u)
  BY <1>1, <1>2, <1>3
<1>5. ASSUME NEW i \in 1..Len(a \o t) PROVE (a \o t)[i] = u[i]
  <2>1. CASE i = 1
    BY <1>1, <1>2, <1>3, <2>1
  <2>2. CASE i > 1
    <3>1. i - 1 \in 1..Len(t) /\ (a \o t)[i] = t[i - 1] /\ i - 1 + 1 = i
      BY <1>1, <1>2, <1>3, <2>2
    <3>2. t[i - 1] = u[i - 1 + 1]
      BY <1>1, <3>1
    <3> QED BY <3>1, <3>2
  <2> QED BY <2>1, <2>2
<1>6. a \o t = u
  BY <1>3, <1>4, <1>5, SameSeq
<1> QED BY <1>6 DEF a, t

LEMMA RmJoins ==
    /\ <<"read">> \o R6 = R2 /\ <<"check">> \o R6 = R3 /\ <<"unlink">> \o R6 = R4
    /\ <<"query">> \o R6 = R5 /\ <<"quit">> \o R9 = R8 /\ <<"powerdown", "quit">> \o R9 = R7
    /\ << >> \o R6 = R6 /\ << >> \o R8 = R8 /\ << >> \o R9 = R9 /\ GetState \o R6 = R1
<1>3. /\ <<"read">> \o R6 = R2 /\ <<"check">> \o R6 = R3 /\ <<"unlink">> \o R6 = R4
      /\ <<"query">> \o R6 = R5 /\ <<"quit">> \o R9 = R8 /\ <<"stat">> \o R6 = R1
      /\ <<"powerdown">> \o R8 = R7
  <2>1. <<Head(R2)>> \o Tail(R2) = R2 /\ <<Head(R3)>> \o Tail(R3) = R3
        /\ <<Head(R4)>> \o Tail(R4) = R4 /\ <<Head(R5)>> \o Tail(R5) = R5
        /\ <<Head(R8)>> \o Tail(R8) = R8 /\ <<Head(R1)>> \o Tail(R1) = R1
        /\ <<Head(R7)>> \o Tail(R7) = R7
    BY RmTyped, RmFilled, ConsIs
  <2> QED BY <2>1, RmHeads, RmTails
<1>4. << >> \o R6 = R6 /\ << >> \o R8 = R8 /\ << >> \o R9 = R9
  BY RmTyped
<1>5. <<"powerdown", "quit">> \o R9 = R7
  <2>1. <<"powerdown">> \in Seq(Steps) /\ <<"quit">> \in Seq(Steps)
    BY DEF Steps
  <2>2. <<"powerdown">> \o <<"quit">> = <<"powerdown", "quit">>
    <3> DEFINE u == <<"powerdown", "quit">>
    <3>1. u \in Seq(Steps) /\ u # << >> /\ Head(u) = "powerdown" /\ Tail(u) = <<"quit">>
      BY DEF Steps
    <3> HIDE DEF u
    <3>2. <<Head(u)>> \o Tail(u) = u
      BY <3>1, ConsIs
    <3> QED BY <3>1, <3>2 DEF u
  <2>3. (<<"powerdown">> \o <<"quit">>) \o R9 = <<"powerdown">> \o (<<"quit">> \o R9)
    BY <2>1, RmTyped, ConcatAssociative
  <2> QED BY <1>3, <2>2, <2>3
<1> QED BY <1>3, <1>4, <1>5 DEF GetState

\* p is a rm that is alone and has steps to make.
Rm(p) == op[p].cmd = "rm" /\ ~overlap /\ op[p].todo # << >>

LEMMA RmPlace ==
    ASSUME RmInv, NEW p \in Procs, Rm(p)
    PROVE  /\ Removing(p) /\ PidInv /\ made /\ ~raced /\ ~Idle(p) /\ ~At(p, "init")
           /\ op[p].todo \in {R1, R2, R3, R4, R5, R6, R7, R8, R9}
           /\ Head(op[p].todo) \in {"stat", "read", "check", "unlink", "query", "d_remove",
                                    "powerdown", "quit", "local"}
           /\ At(p, "stat") => op[p].todo = R1
           /\ At(p, "read") => op[p].todo = R2
           /\ At(p, "check") => op[p].todo = R3
           /\ At(p, "unlink") => op[p].todo = R4
           /\ At(p, "query") => op[p].todo = R5
           /\ At(p, "d_remove") => op[p].todo = R6
           /\ At(p, "powerdown") => op[p].todo = R7
           /\ At(p, "quit") => op[p].todo = R8
           /\ At(p, "local") => op[p].todo = R9
<1>1. Removing(p) /\ PidInv /\ ~raced /\ ~Idle(p)
  BY DEF Rm, RmInv, Lone, Idle
<1>2. made /\ op[p].todo \in {R1, R2, R3, R4, R5, R6, R7, R8, R9}
  BY <1>1 DEF Removing, Rm
<1>3. /\ At(p, "stat") => op[p].todo = R1
      /\ At(p, "read") => op[p].todo = R2
      /\ At(p, "check") => op[p].todo = R3
      /\ At(p, "unlink") => op[p].todo = R4
      /\ At(p, "query") => op[p].todo = R5
      /\ At(p, "d_remove") => op[p].todo = R6
      /\ At(p, "powerdown") => op[p].todo = R7
      /\ At(p, "quit") => op[p].todo = R8
      /\ At(p, "local") => op[p].todo = R9
  BY <1>2, RmHeads DEF At
<1>4. /\ Head(op[p].todo) \in {"stat", "read", "check", "unlink", "query", "d_remove",
                               "powerdown", "quit", "local"}
      /\ ~At(p, "init")
  BY <1>2, RmHeads DEF At
<1> QED BY <1>1, <1>2, <1>3, <1>4

LEMMA NoNew ==
    ASSUME RmInv, NEW p \in Procs, Rm(p)
    PROVE  \A q \in Pids : qemu[q] # "new"
<1> SUFFICES ASSUME NEW q \in Pids, qemu[q] = "new" PROVE FALSE
  OBVIOUS
<1>1. ~At(p, "init") /\ ~Idle(p) /\ ~overlap /\ PidInv
  BY RmPlace DEF Rm
<1>2. PICK r \in Procs : At(r, "init")
  BY <1>1 DEF PidInv, Launching
<1>3. ~Idle(r)
  BY <1>1, <1>2 DEF PidInv, At
<1> QED BY <1>1, <1>2, <1>3 DEF RmInv, Lone

\* If it has Stopped from GetState, there is no guest.
LEMMA StoppedStill ==
    ASSUME RmInv, NEW p \in Procs, Rm(p), Step(p), op'[p].seen = "Stopped"
    PROVE  Still
<1>1. Removing(p) /\ PidInv /\ made /\ ~raced
  BY RmPlace
<1>2. CASE op[p].seen = "Stopped"
  BY <1>1, <1>2 DEF Removing
<1>3. CASE NoGuest
  BY <1>3, NoNew DEF NoGuest, Still
<1> QED BY <1>1, <1>2, <1>3, StepSees DEF Sees

LEMMA RmGoes ==
    ASSUME RmInv, NEW p \in Procs, Rm(p), Step(p), qemu' = qemu,
           \/ made' = made /\ op'[p].todo \in {R1, R2, R3, R4, R5, R6, R7, R8}
           \/ made' = made /\ op'[p].todo = R9 /\ Still
           \/ op'[p].todo = << >> /\ Still
    PROVE  Removing(p)'
<1>1. op'[p].seen = "Stopped" => Still
  BY StoppedStill
<1>2. Still => Still'
  BY DEF Still
<1>3. made
  BY RmPlace
<1>4. R9 \notin {R1, R2, R3, R4, R5, R6, R7, R8} /\ << >> \notin {R1, R2, R3, R4, R5, R6, R7, R8, R9}
  BY RmHeads, RmFilled
<1> QED BY <1>1, <1>2, <1>3, <1>4 DEF Removing

LEMMA RmSees ==
    ASSUME RmInv, NEW p \in Procs, Rm(p), NEW v \in States, See(p, v),
           op[p].todo \in {R1, R2, R4, R5}
    PROVE  op'[p].todo = R6
<1>1. PidInv /\ Head(op[p].todo) # "spawn" /\ op[p].todo # << >>
  BY RmPlace DEF Rm
<1> DEFINE o == [Forgets(p) EXCEPT !.seen = v]
<1>2. o \in OpType /\ o.cmd = op[p].cmd
  BY <1>1, Fields DEF PidInv
<1>3. GoWith(p, << >>, o)
  BY DEF See
<1> HIDE DEF o
<1>4. Moved(p, Tail(op[p].todo), o)
  BY <1>1, <1>2, <1>3, GoOnStays
<1> QED BY <1>4, RmTails DEF Moved

LEMMA RmGo ==
    ASSUME RmInv, NEW p \in Procs, Rm(p), NEW more \in Seq(Steps), Go(p, more)
    PROVE  op'[p].todo = more \o Tail(op[p].todo)
<1>1. PidInv /\ op[p].todo # << >>
  BY RmPlace DEF Rm
<1>2. Forgets(p) \in OpType
  BY <1>1, Fields DEF PidInv
<1>3. Moved(p, more \o Tail(op[p].todo), Forgets(p))
  BY <1>1, <1>2, GoMoves DEF Go, PidInv
<1> QED BY <1>3 DEF Moved

LEMMA RmEnds ==
    ASSUME RmInv, NEW p \in Procs, Fail(p)
    PROVE  op'[p].cmd = "idle"
<1>1. Ended(p, "failed")
  BY EndEnds DEF RmInv, PidInv, Fail
<1> QED BY <1>1, NoOpIs DEF Ended

LEMMA OwnStep ==
    ASSUME RmInv, NEW p \in Procs, Rm(p), Step(p), op'[p].cmd = "rm"
    PROVE  Removing(p)'
<1>0. /\ Removing(p) /\ PidInv /\ made /\ ~raced
      /\ Head(op[p].todo) \in {"stat", "read", "check", "unlink", "query", "d_remove",
                               "powerdown", "quit", "local"}
  BY RmPlace
<1>1. <<"read">> \in Seq(Steps) /\ <<"check">> \in Seq(Steps) /\ <<"unlink">> \in Seq(Steps)
      /\ <<"query">> \in Seq(Steps) /\ <<"quit">> \in Seq(Steps)
      /\ <<"powerdown", "quit">> \in Seq(Steps) /\ << >> \in Seq(Steps)
  BY DEF Steps
<1>2. CASE StatPidfile(p)
  <2>1. At(p, "stat") /\ qemu' = qemu /\ made' = made
    BY <1>2 DEF StatPidfile, world, config
  <2>2. op[p].todo = R1
    BY <2>1, RmPlace
  <2>3. CASE See(p, "Stopped")
    BY <2>1, <2>2, <2>3, RmSees, RmGoes DEF States
  <2>4. CASE Go(p, <<"read">>)
    <3>1. op'[p].todo = R2
      BY <1>1, <2>2, <2>4, RmGo, RmTails, RmJoins
    <3> QED BY <2>1, <3>1, RmGoes
  <2> QED BY <1>2, <2>3, <2>4 DEF StatPidfile
<1>3. CASE ReadPidfile(p)
  <2>1. At(p, "read") /\ qemu' = qemu /\ made' = made
    BY <1>3 DEF ReadPidfile, world, config
  <2>2. op[p].todo = R2
    BY <2>1, RmPlace
  <2>3. CASE See(p, "Error")
    BY <2>1, <2>2, <2>3, RmSees, RmGoes DEF States
  <2>4. CASE GoWith(p, <<"check">>, [op[p] EXCEPT !.pid = pidfile.by])
    <3> DEFINE o == [op[p] EXCEPT !.pid = pidfile.by]
    <3>1. pidfile.by \in Pids \cup {0}
      BY <1>0 DEF PidInv, TypeOK
    <3>2. o \in OpType
      BY <1>0, <3>1, Fields DEF PidInv
    <3>3. GoWith(p, <<"check">>, o)
      BY <2>4
    <3> HIDE DEF o
    <3>4. Moved(p, <<"check">> \o Tail(op[p].todo), o)
      BY <1>0, <1>1, <3>2, <3>3, GoMoves DEF PidInv, Rm
    <3>5. op'[p].todo = R3
      BY <2>2, <3>4, RmTails, RmJoins DEF Moved
    <3> QED BY <2>1, <3>5, RmGoes
  <2> QED BY <1>3, <2>3, <2>4 DEF ReadPidfile
<1>4. CASE CheckPid(p)
  <2>1. At(p, "check") /\ qemu' = qemu /\ made' = made
    BY <1>4 DEF CheckPid, world, config
  <2>2. op[p].todo = R3
    BY <2>1, RmPlace
  <2>3. Go(p, <<"query">>) => op'[p].todo = R5
    BY <1>1, <2>2, RmGo, RmTails, RmJoins
  <2>4. Go(p, <<"unlink">>) => op'[p].todo = R4
    BY <1>1, <2>2, RmGo, RmTails, RmJoins
  <2>5. Go(p, <<"query">>) \/ Go(p, <<"unlink">>)
    BY <1>4 DEF CheckPid
  <2> QED BY <2>1, <2>3, <2>4, <2>5, RmGoes
<1>5. CASE RemovePidfile(p)
  <2>1. At(p, "unlink") /\ qemu' = qemu /\ made' = made /\ See(p, "Stopped")
    BY <1>5 DEF RemovePidfile, config
  <2>2. op[p].todo = R4
    BY <2>1, RmPlace
  <2> QED BY <2>1, <2>2, RmSees, RmGoes DEF States
<1>6. CASE QueryStatus(p)
  <2>1. At(p, "query") /\ qemu' = qemu /\ made' = made
    BY <1>6 DEF QueryStatus, world, config
  <2>2. op[p].todo = R5
    BY <2>1, RmPlace
  <2>3. \E v \in States : See(p, v)
    BY <1>6, QueryIs
  <2> QED BY <2>1, <2>2, <2>3, RmSees, RmGoes
<1>7. CASE RemoveStep(p)
  <2>1. At(p, "d_remove") /\ qemu' = qemu /\ made' = made
    BY <1>7 DEF RemoveStep, Decide, world, config
  <2>2. op[p].todo = R6
    BY <2>1, RmPlace
  <2>3. ~Fail(p)
    BY RmEnds
  <2>4. Go(p, CASE op[p].seen = "Running" -> <<"powerdown", "quit">>
                [] op[p].seen = "Stopped" -> <<>>
                [] OTHER -> <<"quit">>)
    BY <1>7, <2>3 DEF RemoveStep, Decide
  <2>5. CASE op[p].seen = "Running"
    <3>1. Go(p, <<"powerdown", "quit">>)
      BY <2>4, <2>5
    <3>2. op'[p].todo = R7
      BY <1>1, <2>2, <3>1, RmGo, RmTails, RmJoins
    <3> QED BY <2>1, <3>2, RmGoes
  <2>6. CASE op[p].seen = "Stopped"
    <3>1. Go(p, << >>)
      BY <2>4, <2>6
    <3>2. op'[p].todo = R9
      BY <1>1, <2>2, <3>1, RmGo, RmTails, RmJoins
    <3>3. Still
      BY <1>0, <2>6 DEF Removing
    <3> QED BY <2>1, <3>2, <3>3, RmGoes
  <2>7. CASE op[p].seen \notin {"Running", "Stopped"}
    <3>1. Go(p, <<"quit">>)
      BY <2>4, <2>7
    <3>2. op'[p].todo = R8
      BY <1>1, <2>2, <3>1, RmGo, RmTails, RmJoins
    <3> QED BY <2>1, <3>2, RmGoes
  <2> QED BY <2>5, <2>6, <2>7
<1>8. CASE Powerdown(p)
  <2>1. At(p, "powerdown") /\ qemu' = qemu /\ made' = made /\ (Go(p, << >>) \/ Fail(p))
    BY <1>8 DEF Powerdown, config
  <2>2. op[p].todo = R7
    BY <2>1, RmPlace
  <2>3. op'[p].todo = R8
    BY <1>1, <2>1, <2>2, RmEnds, RmGo, RmTails, RmJoins
  <2> QED BY <2>1, <2>3, RmGoes
<1>9. CASE Quit(p)
  <2>1. At(p, "quit") /\ made' = made
    BY <1>9 DEF Quit, config
  <2>2. op[p].todo = R8
    BY <2>1, RmPlace
  <2>3. /\ Go(p, << >>)
        /\ qemu' = [q \in Pids |-> IF q \in Monitor THEN "ending" ELSE qemu[q]]
    BY <1>9, RmEnds DEF Quit
  <2>4. op'[p].todo = R9
    BY <1>1, <2>2, <2>3, RmGo, RmTails, RmJoins
  <2>5. Still'
    <3>1. \A q \in Pids : Serving(q) => q \in Monitor
      BY <1>0 DEF Monitor, Daemon
    <3>2. \A q \in Pids : qemu'[q] = IF q \in Monitor THEN "ending" ELSE qemu[q]
      BY <2>3
    <3> QED BY <3>1, <3>2, NoNew DEF Still, Serving
  <2> QED BY <1>0, <2>1, <2>4, <2>5 DEF Removing
<1>10. CASE RemoveDir(p)
  <2>1. At(p, "local") /\ qemu' = qemu /\ Go(p, << >>)
    BY <1>10 DEF RemoveDir
  <2>2. op[p].todo = R9
    BY <2>1, RmPlace
  <2>3. op'[p].todo = << >>
    <3>1. << >> \o << >> = << >>
      OBVIOUS
    <3> QED BY <1>1, <2>1, <2>2, <3>1, RmGo, RmTails
  <2>4. Still
    BY <1>0, <2>2 DEF Removing
  <2> QED BY <2>1, <2>3, <2>4, RmGoes
<1>11. CASE Finish(p)
  BY <1>11 DEF Finish, Rm
<1>12. CASE NotRunningYet(p) \/ NotStoppedYet(p) \/ WaitForState(p) \/ RestartStep(p) \/ SaveHost(p)
  BY <1>0, <1>12
     DEF NotRunningYet, NotStoppedYet, WaitForState, Poll, RestartStep, SaveHost, Decide, At
<1>13. CASE PickSSHPort(p) \/ PickEnginePort(p) \/ IsoAndKey(p) \/ DiskImage(p) \/ Spawn(p)
              \/ InitQemu(p) \/ WaitForTCP(p) \/ PollGuest(p) \/ RunOnGuest(p)
  BY <1>0, <1>13
     DEF PickSSHPort, PickEnginePort, IsoAndKey, DiskImage, Spawn, InitQemu, WaitForTCP,
         PollGuest, RunOnGuest, At
<1> QED
  BY <1>2, <1>3, <1>4, <1>5, <1>6, <1>7, <1>8, <1>9, <1>10, <1>11, <1>12, <1>13 DEF Step

\* An operation without steps can only end, and who is idle makes no step.
LEMMA EmptyEnds ==
    ASSUME PidInv, NEW p \in Procs, Step(p), op[p].todo = << >>
    PROVE  Finish(p) /\ op'[p].cmd = "idle"
<1>1. Finish(p)
  BY DEF Step, StatPidfile, ReadPidfile, CheckPid, RemovePidfile, QueryStatus,
         NotRunningYet, NotStoppedYet, WaitForState, Poll, RestartStep, RemoveStep, Decide,
         RemoveDir, SaveHost, Powerdown, Quit, PickSSHPort, PickEnginePort, IsoAndKey,
         DiskImage, Spawn, InitQemu, WaitForTCP, PollGuest, RunOnGuest, At
<1>2. Ended(p, "ok")
  BY <1>1, EndEnds DEF PidInv, Finish
<1> QED BY <1>1, <1>2, NoOpIs DEF Ended

LEMMA StepBusy ==
    ASSUME PidInv, NEW p \in Procs, Step(p)
    PROVE  ~Idle(p)
<1>1. CASE op[p].todo = << >>
  BY <1>1, EmptyEnds DEF Finish
<1>2. CASE op[p].todo # << >>
  BY <1>2 DEF PidInv
<1> QED BY <1>1, <1>2

\* A QEMU is launched under a GetState only where two commands are under way.
LEMMA RacedIs ==
    ASSUME PidInv, NEW p \in Procs, Step(p), raced', ~raced
    PROVE  \E r \in Procs \ {p} : ~Idle(p) /\ ~Idle(r)
<1>1. Spawn(p)
  BY DEF Step, Finish, StatPidfile, ReadPidfile, CheckPid, RemovePidfile, QueryStatus,
         NotRunningYet, NotStoppedYet, WaitForState, Poll, RestartStep, RemoveStep, Decide,
         RemoveDir, SaveHost, Powerdown, Quit, PickSSHPort, PickEnginePort, IsoAndKey,
         DiskImage, InitQemu, WaitForTCP, PollGuest, RunOnGuest
<1>2. At(p, "spawn") /\ \E r \in Procs : At(r, "check") \/ At(r, "unlink")
  BY <1>1 DEF Spawn
<1>3. PICK r \in Procs : At(r, "check") \/ At(r, "unlink")
  BY <1>2
<1>4. r # p
  BY <1>2, <1>3 DEF At
<1>5. ~Idle(p) /\ ~Idle(r)
  BY <1>2, <1>3 DEF PidInv, At
<1> QED BY <1>4, <1>5

LEMMA RmInit == Init => RmInv
<1> SUFFICES ASSUME Init PROVE RmInv
  OBVIOUS
<1>1. op = [p \in Procs |-> NoOp] /\ ~overlap /\ ~raced
  BY DEF Init
<1>2. \A p \in Procs : op[p].cmd = "idle"
  BY <1>1, NoOpIs
<1> QED BY <1>1, <1>2, PidInit DEF RmInv, Lone, Idle

\* Once no guest runs, none comes up by itself.
LEMMA WorldRemoves ==
    ASSUME RmInv, World
    PROVE  RmInv'
<1>1. Waning /\ UNCHANGED <<config, op, outcome, admin, raced>>
  BY WorldIs DEF RmInv
<1>2. made' = made /\ op' = op /\ overlap' = overlap /\ raced' = raced
  BY <1>1 DEF config, admin
<1>3. Still => Still'
  BY <1>1 DEF Waning, Still
<1>4. PidInv'
  BY WorldKeeps DEF RmInv
<1>5. Lone'
  BY <1>2 DEF RmInv, Lone, Idle
<1>6. ASSUME NEW p \in Procs, Removing(p) PROVE Removing(p)'
  BY <1>2, <1>3, <1>6 DEF Removing
<1> QED BY <1>2, <1>4, <1>5, <1>6 DEF RmInv

LEMMA GiveRemoves ==
    ASSUME RmInv, NEW p \in Procs, NEW c \in Commands, Give(p, c)
    PROVE  RmInv'
<1>1. /\ \A r \in Procs \ {p} : op'[r] = op[r]
      /\ op'[p].cmd = c /\ op'[p].todo = Script(c) /\ op'[p].seen = "None" /\ c # "idle"
  BY GiveMoves DEF RmInv, PidInv
<1>2. /\ overlap' = (overlap \/ \E q \in Procs : ~Idle(q)) /\ raced' = raced /\ made'
  BY DEF Give
<1>3. PidInv'
  BY GiveKeeps DEF RmInv
<1>4. ~overlap' => ~overlap /\ \A q \in Procs : op[q].cmd = "idle"
  BY <1>2 DEF Idle
<1>5. ~overlap' => \A q \in Procs \ {p} : op'[q].cmd = "idle"
  BY <1>1, <1>4
<1>6. Lone'
  BY <1>2, <1>4, <1>5 DEF RmInv, Lone, Idle
<1>7. ASSUME NEW r \in Procs, op'[r].cmd = "rm", ~overlap' PROVE Removing(r)'
  <2>1. r = p /\ c = "rm"
    BY <1>1, <1>5, <1>7
  <2>2. Script("rm") = R1
    BY RmJoins DEF Script, R6
  <2>3. R1 \notin {R9, << >>}
    BY RmHeads, RmFilled
  <2> QED BY <1>1, <1>2, <2>1, <2>2, <2>3 DEF Removing
<1> QED BY <1>3, <1>6, <1>7 DEF RmInv

LEMMA StepRemoves ==
    ASSUME RmInv, NEW p \in Procs, Step(p)
    PROVE  RmInv'
<1>1. /\ \A r \in Procs \ {p} : op'[r] = op[r]
      /\ op'[p].cmd \in {op[p].cmd, "idle"} /\ overlap' = overlap
  BY StepSees DEF RmInv, Sees
<1>2. ~Idle(p)
  BY StepBusy DEF RmInv
<1>3. PidInv'
  BY PidStep DEF RmInv, Next
<1>4. Lone'
  <2> SUFFICES ASSUME ~overlap PROVE ~raced' /\ \A q, r \in Procs : ~Idle(q)' /\ ~Idle(r)' => q = r
    BY <1>1 DEF Lone
  <2>1. \A q \in Procs : ~Idle(q)' => ~Idle(q)
    BY <1>1 DEF Idle
  <2>2. ~raced'
    BY RacedIs DEF RmInv, Lone
  <2> QED BY <2>1, <2>2 DEF RmInv, Lone
<1>5. ASSUME NEW r \in Procs, op'[r].cmd = "rm", ~overlap' PROVE Removing(r)'
  <2>1. r = p
    BY <1>1, <1>2, <1>5 DEF RmInv, Lone, Idle
  <2>2. op[p].cmd = "rm" /\ ~overlap
    BY <1>1, <1>5, <2>1
  <2>3. op[p].todo # << >>
    BY <1>2, <1>5, <2>1, EmptyEnds DEF RmInv
  <2> QED BY <1>5, <2>1, <2>2, <2>3, OwnStep DEF Rm
<1> QED BY <1>3, <1>4, <1>5 DEF RmInv

LEMMA RmStep == RmInv /\ [Next]_vars => RmInv'
<1> SUFFICES ASSUME RmInv, [Next]_vars PROVE RmInv'
  OBVIOUS
<1>1. CASE UNCHANGED vars
  <2>1. UNCHANGED <<qemu, made, op, overlap, raced>>
    BY <1>1 DEF vars, world, config, admin
  <2>2. PidInv'
    BY PidStep DEF RmInv
  <2>3. Lone'
    BY <2>1 DEF RmInv, Lone, Idle
  <2>4. ASSUME NEW p \in Procs, Removing(p) PROVE Removing(p)'
    BY <2>1, <2>4 DEF Removing, Still
  <2> QED BY <2>1, <2>2, <2>3, <2>4 DEF RmInv
<1> QED BY <1>1, StepRemoves, GiveRemoves, WorldRemoves DEF Next

\* Where a rm that nothing overlaps stands, and what it knows there, is inductive.
THEOREM RemovalInductive == Spec => []RmInv
BY RmInit, RmStep, PTL DEF Spec

\* When a rm that no command overlapped reports success, no guest runs or will
\* run again, whatever the guest did meanwhile and whatever else went wrong:
\* Kill only asks the guest, and it is quit that ends QEMU (qemu.go:590-607).
THEOREM RemovedMeansEnding == Spec => RemovedEnds
<1>1. ASSUME RmInv, [Next]_vars
      PROVE  [\A p \in Procs :
                (op[p].cmd = "rm" /\ outcome'[p] = "ok" /\ outcome[p] = "none" /\ ~overlap)
                   => \A q \in Pids : qemu[q] \notin {"new", "boot", "up", "paused"}]_vars
  <2> SUFFICES ASSUME Next, NEW p \in Procs, op[p].cmd = "rm", outcome'[p] = "ok",
                      outcome[p] = "none", ~overlap
               PROVE  Still
    BY <1>1 DEF Still
  <2>1. ASSUME NEW r \in Procs, Step(r) PROVE Still
    <3>1. Sees(r) /\ Removing(p)
      BY <1>1, <2>1, StepSees DEF RmInv
    <3>2. r = p /\ op[p].todo = << >>
      BY <3>1 DEF Sees
    <3> QED BY <3>1, <3>2 DEF Removing
  <2>2. ASSUME NEW r \in Procs, NEW c \in Commands, Give(r, c) PROVE FALSE
    <3>1. outcome' = [outcome EXCEPT ![r] = "none"] /\ outcome \in [Procs -> {"none", "ok", "failed"}]
      BY <1>1, <2>2 DEF Give, RmInv, PidInv, TypeOK
    <3> QED BY <3>1
  <2>3. CASE World
    BY <2>3 DEF World
  <2> QED BY <2>1, <2>2, <2>3 DEF Next
<1> QED BY <1>1, RemovalInductive, PTL DEF Spec, RemovedEnds
=============================================================================
