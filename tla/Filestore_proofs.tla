-------------------------- MODULE Filestore_proofs --------------------------
(***************************************************************************)
(* For every set of machines and every number of operations:               *)
(*   - StoreInv, for any processes and any mixture of faults;              *)
(*   - NeverLost and OriginalKept, for one process that changes the store, *)
(*     killed anywhere, with renames that fail (OneInv);                   *)
(*   - QuietStoreIsWhole and LoadErrorsAreTransient, for two processes     *)
(*     that save (TwoInv);                                                 *)
(*   - the refinement of StoreSpec, for one process that saves, one that   *)
(*     removes and any number that load (RefInv).                          *)
(***************************************************************************)
EXTENDS Filestore, TLAPS

LEMMA FileTyped ==
    ASSUME NEW d \in Data, NEW ps \in SUBSET Procs
    PROVE  /\ File(d, ps) \in FileType
           /\ File(d, ps).data = d
           /\ File(d, ps).fds = ps
           /\ File(d, ps).there = TRUE
BY DEF File, FileType

LEMMA ConstantsTyped ==
    /\ Empty \in Data /\ Mixed \in Data
    /\ NoFile \in FileType
    /\ NoFile.fds = {} /\ NoFile.there = FALSE
BY StoreAssumption DEF Empty, Mixed, NoFile, FileType, Data, Kinds

LEMMA InitStoreInv == Init => StoreInv
<1> SUFFICES ASSUME Init PROVE StoreInv
  OBVIOUS
<1> USE StoreAssumption, ConstantsTyped
<1>1. PICK i \in [Machines -> Initial] :
        /\ dir = [m \in Machines |-> i[m] # "absent"]
        /\ file = [m \in Machines |-> [f \in Names |->
                     IF f = "cfg" THEN InitialFile(i[m]) ELSE NoFile]]
  BY DEF Init
<1>2. \A m \in Machines : /\ InitialFile(i[m]) \in FileType
                          /\ InitialFile(i[m]).fds = {}
                          /\ InitialFile(i[m]).there => i[m] # "absent"
  <2> TAKE m \in Machines
  <2>1. CASE i[m] = "absent"
    BY <2>1 DEF InitialFile
  <2>2. CASE i[m] # "absent"
    <3>1. i[m] \in Kinds
      <4>1. i[m] \in Initial
        OBVIOUS
      <4> QED BY <4>1, <2>2 DEF Kinds
    <3> DEFINE d == [kind |-> i[m], id |-> 0]
    <3>2. d \in Data
      BY <3>1 DEF Data
    <3> HIDE DEF d
    <3>3. File(d, {}) \in FileType /\ File(d, {}).fds = {}
      BY <3>2 DEF File, FileType
    <3> QED BY <2>2, <3>3 DEF InitialFile, d
  <2> QED BY <2>1, <2>2
<1>3. TypeOK
  <2>1. file \in [Machines -> [Names -> FileType]]
    BY <1>1, <1>2
  <2>2. tmp \in [Procs -> FileType]
    BY DEF Init
  <2>3. arg \in [Procs -> ArgType]
    BY DEF Init, ArgType, Names
  <2>4. result \in [Procs -> Results]
    BY DEF Init, Results, NoResult
  <2> QED BY <1>1, <2>1, <2>2, <2>3, <2>4 DEF Init, TypeOK, Places
<1>4. TempIsWholeBeforeSwap
  BY DEF Init, TempIsWholeBeforeSwap
<1>5. DescriptorsInUse
  BY <1>1, <1>2 DEF DescriptorsInUse
<1>6. FilesHaveDirectory
  BY <1>1, <1>2 DEF Init, FilesHaveDirectory, InDirectory, Names
<1> QED BY <1>3, <1>4, <1>5, <1>6 DEF StoreInv

-----------------------------------------------------------------------------
(* Every step keeps the invariant.                                         *)

\* The process returns from saveToFile with nil.
LEMMA ReturnedTyped ==
    ASSUME TypeOK, NEW p \in Procs, Returned(p)
    PROVE  /\ dir' \in [Machines -> BOOLEAN]
           /\ arg' \in [Procs -> ArgType]
           /\ at' \in [Procs -> Places]
           /\ result' \in [Procs -> Results]
           /\ committed' \in [Machines -> 0..MaxOps]
           /\ \A m \in Machines : dir[m] => dir'[m]
           /\ \A q \in Procs \ {p} : at'[q] = at[q] /\ arg'[q] = arg[q]
           /\ arg'[p].m = arg[p].m
           /\ at'[p] \in {"idle", "stat"}
<1> USE StoreAssumption
<1>1. arg[p] \in ArgType /\ arg[p].d \in Data /\ arg[p].d.id \in 0..MaxOps
  BY DEF TypeOK, ArgType, Data
<1>2. CASE arg[p].then = "return" /\ UNCHANGED <<dir, arg, result>>
           /\ committed' = [committed EXCEPT ![arg[p].m] = arg[p].d.id]
           /\ Goto(p, "idle")
  BY <1>1, <1>2 DEF TypeOK, Goto, Places
<1>3. CASE /\ dir' = [dir EXCEPT ![arg[p].m] = TRUE]
           /\ arg' = [arg EXCEPT ![p].f = "cfg", ![p].d.kind = "hollow",
                             ![p].then = "migrated"]
           /\ Goto(p, "stat")
           /\ UNCHANGED <<committed, result>>
  <2>1. arg' \in [Procs -> ArgType] /\ arg'[p].m = arg[p].m
    BY <1>1, <1>3 DEF TypeOK, ArgType, Data, Kinds, Names
  <2> QED BY <1>1, <1>3, <2>1 DEF TypeOK, Goto, Places
<1>4. CASE /\ result' = [result EXCEPT ![p] = [kind |-> "migrated", id |-> arg[p].d.id]]
           /\ Goto(p, "idle")
           /\ UNCHANGED <<dir, arg, committed>>
  BY <1>1, <1>4 DEF TypeOK, Goto, Places, Results
<1> QED BY <1>2, <1>3, <1>4 DEF Returned

\* The process returns from saveToFile with an error.
LEMMA FailedTyped ==
    ASSUME TypeOK, NEW p \in Procs, Failed(p)
    PROVE  /\ tmp' \in [Procs -> FileType]
           /\ doomed' \in [Procs -> SUBSET (Names \cup Procs)]
           /\ at' \in [Procs -> Places]
           /\ result' \in [Procs -> Results]
           /\ \A q \in Procs \ {p} : at'[q] = at[q] /\ tmp'[q] = tmp[q]
           /\ at'[p] = "idle" /\ ~tmp'[p].there
<1> USE ConstantsTyped, StoreAssumption
<1>1. [kind |-> "saveerr", id |-> 0] \in Results
  BY DEF Results
<1> QED BY <1>1 DEF TypeOK, Failed, TempGone, Goto, Places

\* A step that only removes files, moves process p to a place where it has
\* neither a temporary file nor a descriptor, and keeps the directories.
LEMMA StepBack ==
    ASSUME StoreInv, TypeOK', NEW p \in Procs,
           \A m \in Machines : dir[m] => dir'[m],
           UNCHANGED <<file, strays>>,
           \A q \in Procs \ {p} : at'[q] = at[q] /\ tmp'[q] = tmp[q] /\ arg'[q] = arg[q],
           at[p] # "write",
           ~tmp'[p].there
    PROVE  StoreInv'
<1>1. TempIsWholeBeforeSwap'
  BY DEF StoreInv, TempIsWholeBeforeSwap, TypeOK
<1>2. DescriptorsInUse'
  <2>1. \A m \in Machines, f \in Names : file[m][f].fds \subseteq Procs
    BY DEF StoreInv, TypeOK, FileType
  <2> QED BY <2>1 DEF StoreInv, DescriptorsInUse
<1>3. FilesHaveDirectory'
  BY DEF StoreInv, FilesHaveDirectory, InDirectory, TypeOK
<1> QED BY <1>1, <1>2, <1>3 DEF StoreInv

\* A change of p's target file that leaves it no descriptors but those it had
\* and p's own, which p has open from now on.
LEMMA TargetTyped ==
    ASSUME TypeOK, NEW p \in Procs, NEW x \in FileType, SetTarget(p, x)
    PROVE  /\ file' \in [Machines -> [Names -> FileType]]
           /\ file'[arg[p].m][arg[p].f] = x
           /\ \A m \in Machines, f \in Names :
                 (m # arg[p].m \/ f # arg[p].f) => file'[m][f] = file[m][f]
           /\ arg[p].m \in Machines /\ arg[p].f \in Names
           /\ Target(p) \in FileType
<1>1. arg[p].m \in Machines /\ arg[p].f \in Names
  BY DEF TypeOK, ArgType
<1> QED BY <1>1 DEF TypeOK, SetTarget, Target

LEMMA StepStoreInv == StoreInv /\ [Next]_vars => StoreInv'
<1> SUFFICES ASSUME StoreInv, [Next]_vars PROVE StoreInv'
  OBVIOUS
<1> USE StoreAssumption, ConstantsTyped
<1>0. TypeOK
  BY DEF StoreInv
<1>a. \A p \in Procs : arg[p].m \in Machines /\ arg[p].f \in Names /\ arg[p].d \in Data
  BY <1>0 DEF TypeOK, ArgType
<1>d. arg \in [Procs -> ArgType]
  BY <1>0 DEF TypeOK
<1>1. ASSUME NEW p \in Procs, NEW m \in Machines, Save(p, m) PROVE StoreInv'
  <2>1. TypeOK'
    <3> DEFINE a == [m |-> m, f |-> "cfg", then |-> "return",
                     d |-> [kind |-> "current", id |-> ops']]
    <3>1. ops' \in 0..MaxOps
      BY <1>0, <1>1 DEF Save, TypeOK
    <3>2. a \in ArgType
      BY <3>1 DEF ArgType, Data, Kinds, Names
    <3> QED BY <1>0, <1>1, <3>1, <3>2 DEF Save, TypeOK, Goto, Places
  <2>2. /\ \A k \in Machines : dir[k] => dir'[k]
        /\ \A q \in Procs \ {p} : at'[q] = at[q] /\ tmp'[q] = tmp[q] /\ arg'[q] = arg[q]
        /\ at[p] # "write" /\ ~tmp'[p].there
    BY <1>0, <1>1 DEF Save, TypeOK, Goto, StoreInv, TempIsWholeBeforeSwap
  <2> QED BY <1>1, <2>1, <2>2, StepBack DEF Save
<1>2. ASSUME NEW p \in Procs, NEW m \in Machines, Load(p, m) PROVE StoreInv'
  <2>1. TypeOK'
    <3>1. ops' \in 0..MaxOps
      BY <1>0, <1>2 DEF Load, TypeOK
    <3>2. [kind |-> "notexist", id |-> 0] \in Results
      BY DEF Results
    <3>3. arg' \in [Procs -> ArgType]
      BY <1>2, <1>d DEF Load, ArgType
    <3>4. result' \in [Procs -> Results] /\ at' \in [Procs -> Places]
      <4>1. CASE Answer(p, "notexist", 0)
        BY <1>0, <3>2, <4>1 DEF TypeOK, Goto, Places, Answer
      <4>2. CASE Goto(p, "read") /\ UNCHANGED result
        BY <1>0, <4>2 DEF TypeOK, Goto, Places
      <4> QED BY <1>2, <4>1, <4>2 DEF Load
    <3> QED BY <1>0, <1>2, <3>1, <3>3, <3>4 DEF Load, TypeOK
  <2>2. /\ \A q \in Procs \ {p} : at'[q] = at[q] /\ tmp'[q] = tmp[q] /\ arg'[q] = arg[q]
        /\ at[p] # "write" /\ ~tmp'[p].there
    BY <1>0, <1>2 DEF Load, TypeOK, Goto, Answer, StoreInv, TempIsWholeBeforeSwap
  <2> QED BY <1>2, <2>1, <2>2, StepBack DEF Load
<1>3. ASSUME NEW p \in Procs, NEW m \in Machines, Remove(p, m) PROVE StoreInv'
  <2>1. TypeOK'
    <3>1. ops' \in 0..MaxOps
      BY <1>0, <1>3 DEF Remove, TypeOK
    <3>2. arg' \in [Procs -> ArgType]
      BY <1>3, <1>d DEF Remove, ArgType
    <3>3. doomed' \in [Procs -> SUBSET (Names \cup Procs)]
      BY <1>0, <1>3 DEF Remove, TypeOK
    <3> QED BY <1>0, <1>3, <3>1, <3>2, <3>3 DEF Remove, TypeOK, Goto, Places
  <2>2. ~tmp[p].there /\ tmp' = tmp /\ file' = file /\ dir' = dir
    BY <1>0, <1>3 DEF Remove, TypeOK, StoreInv, TempIsWholeBeforeSwap
  <2>3. \A q \in Procs \ {p} : at'[q] = at[q] /\ arg'[q] = arg[q]
    BY <1>0, <1>3 DEF Remove, TypeOK, Goto
  <2>4. TempIsWholeBeforeSwap'
    BY <2>2, <2>3 DEF StoreInv, TempIsWholeBeforeSwap
  <2>5. DescriptorsInUse'
    <3> SUFFICES ASSUME NEW k \in Machines, NEW f \in Names, NEW q \in file[k][f].fds
                 PROVE  at'[q] = "write" /\ arg'[q].m = k /\ arg'[q].f = f
      BY <2>2 DEF StoreInv, DescriptorsInUse
    <3>1. q \in Procs
      BY <1>0 DEF TypeOK, FileType
    <3>2. q # p
      BY <1>3 DEF Remove, StoreInv, DescriptorsInUse
    <3> QED BY <2>3, <3>1, <3>2 DEF StoreInv, DescriptorsInUse
  <2>6. FilesHaveDirectory'
    <3> SUFFICES ASSUME NEW k \in Machines, InDirectory(k)' PROVE InDirectory(k)
      BY <2>2 DEF StoreInv, FilesHaveDirectory
    <3>1. strays'[k] # {} => strays[k] # {}
      BY <1>0, <1>3 DEF Remove, TypeOK
    <3> QED BY <2>2, <2>3, <3>1 DEF InDirectory
  <2> QED BY <2>1, <2>4, <2>5, <2>6 DEF StoreInv
\* An unlinked entry takes a file away and leaves the others as they are.
<1>15. ASSUME NEW p \in Procs, RemoveEntry(p) PROVE StoreInv'
  <2>1. PICK e \in doomed[p] :
          /\ doomed' = [doomed EXCEPT ![p] = @ \ {e}]
          /\ file' = [file EXCEPT ![arg[p].m] = [f \in Names |->
                         IF f = e THEN NoFile ELSE file[arg[p].m][f]]]
          /\ tmp' = [q \in Procs |-> IF q = e THEN NoFile ELSE tmp[q]]
    BY <1>15 DEF RemoveEntry
  <2>2. \A m \in Machines, f \in Names : file'[m][f] \in {NoFile, file[m][f]}
    BY <1>0, <2>1 DEF TypeOK
  <2>3. \A q \in Procs : tmp'[q] \in {NoFile, tmp[q]}
    BY <1>0, <2>1 DEF TypeOK
  <2>4. TypeOK'
    <3>1. file' \in [Machines -> [Names -> FileType]] /\ tmp' \in [Procs -> FileType]
      BY <1>0, <2>1 DEF TypeOK
    <3>2. doomed' \in [Procs -> SUBSET (Names \cup Procs)]
      BY <1>0, <2>1 DEF TypeOK
    <3>3. committed' \in [Machines -> 0..MaxOps]
      BY <1>0, <1>15, <1>a DEF TypeOK, RemoveEntry
    <3> QED BY <1>0, <1>15, <3>1, <3>2, <3>3 DEF RemoveEntry, TypeOK
  <2>5. at' = at /\ arg' = arg /\ dir' = dir /\ strays' = strays
    BY <1>15 DEF RemoveEntry
  <2>6. TempIsWholeBeforeSwap'
    BY <2>3, <2>5 DEF StoreInv, TempIsWholeBeforeSwap
  <2>7. DescriptorsInUse'
    BY <2>2, <2>5 DEF StoreInv, DescriptorsInUse
  <2>8. FilesHaveDirectory'
    BY <2>2, <2>3, <2>5 DEF StoreInv, FilesHaveDirectory, InDirectory
  <2> QED BY <2>4, <2>6, <2>7, <2>8 DEF StoreInv
<1>4. ASSUME NEW p \in Procs, Stat(p) PROVE StoreInv'
  <2>1. TypeOK'
    BY <1>0, <1>4 DEF Stat, TypeOK, Goto, Places
  <2>2. /\ \A q \in Procs \ {p} : at'[q] = at[q] /\ tmp'[q] = tmp[q] /\ arg'[q] = arg[q]
        /\ at[p] # "write" /\ ~tmp'[p].there
    BY <1>0, <1>4 DEF Stat, TypeOK, Goto, StoreInv, TempIsWholeBeforeSwap
  <2> QED BY <1>4, <2>1, <2>2, StepBack DEF Stat
\* saveToFile gives up: the temporary file goes and nothing else changes.
<1>b. ASSUME NEW p \in Procs, Failed(p), at[p] # "write",
             UNCHANGED <<dir, file, strays, arg, ops, saved>>,
             committed' \in [Machines -> 0..MaxOps]
      PROVE  StoreInv'
  <2>1. TypeOK'
    BY <1>0, <1>b, FailedTyped DEF TypeOK
  <2>2. \A q \in Procs \ {p} : at'[q] = at[q] /\ tmp'[q] = tmp[q]
    BY <1>0, <1>b, FailedTyped
  <2>3. ~tmp'[p].there
    BY <1>0, <1>b, FailedTyped
  <2> QED BY <1>b, <2>1, <2>2, <2>3, StepBack
\* Only the temporary file of p changes, and is there in a directory.
<1>c. ASSUME NEW p \in Procs, NEW l \in {"fill", "unlink"}, NEW d \in Data,
             at[p] # "write", dir[arg[p].m], l = "unlink" => d = arg[p].d,
             tmp' = [tmp EXCEPT ![p] = File(d, {})], Goto(p, l),
             UNCHANGED <<dir, file, strays, arg, result, doomed, ops, saved, committed>>
      PROVE  StoreInv'
  <2>1. File(d, {}) \in FileType /\ File(d, {}).data = d
    BY <1>c DEF File, FileType
  <2>2. TypeOK'
    BY <1>0, <1>c, <2>1 DEF TypeOK, Goto, Places
  <2>3. TempIsWholeBeforeSwap'
    BY <1>0, <1>c, <2>1 DEF TypeOK, Goto, StoreInv, TempIsWholeBeforeSwap
  <2>4. DescriptorsInUse'
    BY <1>0, <1>c DEF TypeOK, FileType, Goto, StoreInv, DescriptorsInUse
  <2>5. FilesHaveDirectory'
    BY <1>0, <1>c DEF TypeOK, StoreInv, FilesHaveDirectory, InDirectory
  <2> QED BY <2>2, <2>3, <2>4, <2>5 DEF StoreInv
<1>5. ASSUME NEW p \in Procs, OpenInPlace(p) PROVE StoreInv'
  <2>1. CASE ~dir[arg[p].m] /\ Failed(p) /\ UNCHANGED file
    BY <1>0, <1>5, <2>1, <1>b DEF OpenInPlace, TypeOK
  <2>2. CASE /\ dir[arg[p].m]
             /\ SetTarget(p, File(Empty, Target(p).fds \cup {p}))
             /\ Goto(p, "write")
             /\ UNCHANGED <<tmp, result, doomed>>
    <3> DEFINE x == File(Empty, Target(p).fds \cup {p})
    <3>1. Target(p) \in FileType
      BY <1>0, <1>a DEF TypeOK, Target
    <3>2. x \in FileType /\ x.fds = Target(p).fds \cup {p} /\ x.there = TRUE
      BY <3>1 DEF File, FileType
    <3> HIDE DEF x
    <3>3. SetTarget(p, x)
      BY <2>2 DEF x
    <3>4. /\ file' \in [Machines -> [Names -> FileType]]
          /\ file'[arg[p].m][arg[p].f] = x
          /\ \A m \in Machines, f \in Names :
                (m # arg[p].m \/ f # arg[p].f) => file'[m][f] = file[m][f]
      BY <1>0, <3>2, <3>3, TargetTyped
    <3>5. TypeOK'
      BY <1>0, <1>5, <2>2, <3>4 DEF OpenInPlace, TypeOK, Goto, Places
    <3>6. TempIsWholeBeforeSwap'
      BY <1>0, <1>5, <2>2 DEF OpenInPlace, TypeOK, Goto, StoreInv, TempIsWholeBeforeSwap
    <3>7. DescriptorsInUse'
      <4> SUFFICES ASSUME NEW m \in Machines, NEW f \in Names, NEW q \in file'[m][f].fds
                   PROVE  /\ file'[m][f].there
                          /\ at'[q] = "write" /\ arg[q].m = m /\ arg[q].f = f
        BY <1>5 DEF OpenInPlace, DescriptorsInUse
      <4>1. q \in Procs
        BY <3>4 DEF FileType
      <4>2. CASE m # arg[p].m \/ f # arg[p].f
        BY <1>0, <1>5, <2>2, <3>4, <4>1, <4>2
           DEF OpenInPlace, StoreInv, DescriptorsInUse, Goto, TypeOK
      <4>3. CASE m = arg[p].m /\ f = arg[p].f
        <5>1. file'[m][f] = x /\ file'[m][f].there
          BY <3>2, <3>4, <4>3
        <5>2. CASE q = p
          BY <1>0, <2>2, <4>3, <5>1, <5>2 DEF Goto, TypeOK
        <5>3. CASE q # p
          <6>1. q \in file[m][f].fds
            BY <3>2, <4>3, <5>1, <5>3 DEF Target
          <6>2. at[q] = "write" /\ arg[q].m = m /\ arg[q].f = f
            BY <6>1 DEF StoreInv, DescriptorsInUse
          <6> QED BY <1>0, <2>2, <4>1, <5>1, <5>3, <6>2 DEF Goto, TypeOK
        <5> QED BY <5>2, <5>3
      <4> QED BY <4>2, <4>3
    <3>8. FilesHaveDirectory'
      <4>1. UNCHANGED <<dir, tmp, strays, arg>>
        BY <1>5, <2>2 DEF OpenInPlace
      <4> QED BY <1>a, <2>2, <3>4, <4>1 DEF StoreInv, FilesHaveDirectory, InDirectory
    <3> QED BY <3>5, <3>6, <3>7, <3>8 DEF StoreInv
  <2> QED BY <1>5, <2>1, <2>2 DEF OpenInPlace
<1>6. ASSUME NEW p \in Procs, WriteInPlace(p) PROVE StoreInv'
  <2>1. /\ file' \in [Machines -> [Names -> FileType]]
        /\ \A m \in Machines, f \in Names :
              /\ file'[m][f].there = file[m][f].there
              /\ file'[m][f].fds \subseteq file[m][f].fds \ {p}
    <3>1. CASE p \in Target(p).fds
      <4>1. PICK d \in Data : SetTarget(p, File(d, Target(p).fds \ {p}))
        BY <1>6, <1>a, <3>1 DEF WriteInPlace
      <4> DEFINE x == File(d, Target(p).fds \ {p})
      <4>2. Target(p) \in FileType /\ Target(p).there
        BY <1>0, <1>a, <3>1 DEF TypeOK, Target, StoreInv, DescriptorsInUse
      <4>3. x \in FileType /\ x.fds = Target(p).fds \ {p} /\ x.there = TRUE
        BY <4>2 DEF File, FileType
      <4> HIDE DEF x
      <4>4. SetTarget(p, x)
        BY <4>1 DEF x
      <4>5. /\ file' \in [Machines -> [Names -> FileType]]
            /\ file'[arg[p].m][arg[p].f] = x
            /\ \A m \in Machines, f \in Names :
                  (m # arg[p].m \/ f # arg[p].f) => file'[m][f] = file[m][f]
        BY <1>0, <4>3, <4>4, TargetTyped
      <4>6. \A m \in Machines, f \in Names :
               (m # arg[p].m \/ f # arg[p].f) => p \notin file[m][f].fds
        BY <1>0 DEF StoreInv, DescriptorsInUse
      <4>7. Target(p).there = TRUE
        BY <4>2 DEF FileType
      <4>8. ASSUME NEW m \in Machines, NEW f \in Names
            PROVE  /\ file'[m][f].there = file[m][f].there
                   /\ file'[m][f].fds \subseteq file[m][f].fds \ {p}
        <5>1. CASE m = arg[p].m /\ f = arg[p].f
          BY <4>3, <4>5, <4>7, <5>1 DEF Target
        <5>2. CASE m # arg[p].m \/ f # arg[p].f
          BY <4>5, <4>6, <5>2
        <5> QED BY <5>1, <5>2
      <4> QED BY <4>5, <4>8
    <3>2. CASE p \notin Target(p).fds /\ UNCHANGED file
      <4>1. \A m \in Machines, f \in Names : p \notin file[m][f].fds
        BY <3>2 DEF StoreInv, DescriptorsInUse, Target
      <4> QED BY <1>0, <3>2, <4>1 DEF TypeOK
    <3> QED BY <1>6, <3>1, <3>2 DEF WriteInPlace
  <2>2. /\ dir' \in [Machines -> BOOLEAN]
        /\ arg' \in [Procs -> ArgType]
        /\ at' \in [Procs -> Places]
        /\ result' \in [Procs -> Results]
        /\ committed' \in [Machines -> 0..MaxOps]
    BY <1>0, <1>6, ReturnedTyped DEF WriteInPlace
  <2>3. /\ \A m \in Machines : dir[m] => dir'[m]
        /\ \A q \in Procs \ {p} : at'[q] = at[q] /\ arg'[q] = arg[q]
    BY <1>0, <1>6, ReturnedTyped DEF WriteInPlace
  <2>4. TypeOK'
    BY <1>0, <1>6, <2>1, <2>2 DEF TypeOK, WriteInPlace
  <2>5. ~tmp[p].there /\ tmp' = tmp /\ strays' = strays
    BY <1>6 DEF WriteInPlace, StoreInv, TempIsWholeBeforeSwap
  <2>6. TempIsWholeBeforeSwap'
    BY <2>3, <2>5 DEF StoreInv, TempIsWholeBeforeSwap
  <2>7. DescriptorsInUse'
    <3> SUFFICES ASSUME NEW m \in Machines, NEW f \in Names, NEW q \in file'[m][f].fds
                 PROVE  /\ file'[m][f].there
                        /\ at'[q] = "write" /\ arg'[q].m = m /\ arg'[q].f = f
      BY DEF DescriptorsInUse
    <3>1. q \in Procs \ {p} /\ q \in file[m][f].fds
      BY <2>1 DEF FileType
    <3> QED BY <2>1, <2>3, <3>1 DEF StoreInv, DescriptorsInUse
  <2>8. FilesHaveDirectory'
    BY <2>1, <2>3, <2>5 DEF StoreInv, FilesHaveDirectory, InDirectory
  <2> QED BY <2>4, <2>6, <2>7, <2>8 DEF StoreInv
<1>7. ASSUME NEW p \in Procs, CreateTemp(p) PROVE StoreInv'
  BY <1>0, <1>7, <1>b, <1>c DEF CreateTemp, TypeOK
<1>8. ASSUME NEW p \in Procs, WriteTemp(p) PROVE StoreInv'
  BY <1>0, <1>a, <1>8, <1>b, <1>c DEF WriteTemp, TypeOK
<1>9. ASSUME NEW p \in Procs, RemoveTarget(p) PROVE StoreInv'
  <2>1. CASE ~Target(p).there /\ Failed(p) /\ UNCHANGED file
    BY <1>0, <1>9, <2>1, <1>b DEF RemoveTarget, TypeOK
  <2>2. CASE /\ SetTarget(p, NoFile)
             /\ Goto(p, "rename")
             /\ UNCHANGED <<tmp, result, doomed>>
    <3>1. /\ file' \in [Machines -> [Names -> FileType]]
          /\ file'[arg[p].m][arg[p].f] = NoFile
          /\ \A m \in Machines, f \in Names :
                (m # arg[p].m \/ f # arg[p].f) => file'[m][f] = file[m][f]
      BY <1>0, <2>2, TargetTyped
    <3>2. TypeOK'
      BY <1>0, <1>9, <2>2, <3>1 DEF RemoveTarget, TypeOK, Goto, Places
    <3>3. TempIsWholeBeforeSwap'
      BY <1>0, <1>9, <2>2 DEF RemoveTarget, TypeOK, Goto, StoreInv, TempIsWholeBeforeSwap
    <3>4. DescriptorsInUse'
      <4> SUFFICES ASSUME NEW m \in Machines, NEW f \in Names, NEW q \in file'[m][f].fds
                   PROVE  /\ file'[m][f].there
                          /\ at'[q] = "write" /\ arg[q].m = m /\ arg[q].f = f
        BY <1>9 DEF RemoveTarget, DescriptorsInUse
      <4>1. q \in Procs /\ file'[m][f] = file[m][f]
        BY <3>1 DEF FileType
      <4>2. at[q] = "write" /\ arg[q].m = m /\ arg[q].f = f /\ file[m][f].there
        BY <4>1 DEF StoreInv, DescriptorsInUse
      <4> QED BY <1>0, <1>9, <2>2, <4>1, <4>2 DEF Goto, TypeOK, RemoveTarget
    <3>5. FilesHaveDirectory'
      <4>1. UNCHANGED <<dir, tmp, strays, arg>>
        BY <1>9, <2>2 DEF RemoveTarget
      <4> QED BY <1>a, <3>1, <4>1 DEF StoreInv, FilesHaveDirectory, InDirectory
    <3> QED BY <3>2, <3>3, <3>4, <3>5 DEF StoreInv
  <2> QED BY <1>9, <2>1, <2>2 DEF RemoveTarget
<1>10. ASSUME NEW p \in Procs, Rename(p) PROVE StoreInv'
  <2>1. CASE /\ Failed(p)
             /\ committed' = [committed EXCEPT ![arg[p].m] = 0]
             /\ UNCHANGED <<dir, file, arg>>
    <3>1. committed' \in [Machines -> 0..MaxOps]
      BY <1>0, <1>a, <2>1 DEF TypeOK
    <3> QED BY <1>10, <2>1, <3>1, <1>b DEF Rename
  <2>2. CASE /\ tmp[p].there
             /\ SetTarget(p, File(tmp[p].data, {}))
             /\ TempGone(p)
             /\ Returned(p)
    <3> DEFINE x == File(tmp[p].data, {})
    <3>1. x \in FileType /\ x.fds = {}
      BY <1>0 DEF File, FileType, TypeOK
    <3> HIDE DEF x
    <3>2. SetTarget(p, x)
      BY <2>2 DEF x
    <3>3. /\ file' \in [Machines -> [Names -> FileType]]
          /\ file'[arg[p].m][arg[p].f] = x
          /\ \A m \in Machines, f \in Names :
                (m # arg[p].m \/ f # arg[p].f) => file'[m][f] = file[m][f]
      BY <1>0, <3>1, <3>2, TargetTyped
    <3>4. /\ dir' \in [Machines -> BOOLEAN]
          /\ arg' \in [Procs -> ArgType]
          /\ at' \in [Procs -> Places]
          /\ result' \in [Procs -> Results]
          /\ committed' \in [Machines -> 0..MaxOps]
      BY <1>0, <2>2, ReturnedTyped
    <3>5. /\ \A m \in Machines : dir[m] => dir'[m]
          /\ \A q \in Procs \ {p} : at'[q] = at[q] /\ arg'[q] = arg[q]
      BY <1>0, <2>2, ReturnedTyped
    <3>6. TypeOK'
      BY <1>0, <1>10, <2>2, <3>3, <3>4 DEF Rename, TypeOK, TempGone
    <3>7. /\ ~tmp'[p].there /\ strays' = strays
          /\ \A q \in Procs \ {p} : tmp'[q] = tmp[q]
      BY <1>0, <1>10, <2>2 DEF TypeOK, Rename, TempGone
    <3>8. TempIsWholeBeforeSwap'
      BY <3>5, <3>7 DEF StoreInv, TempIsWholeBeforeSwap
    <3>9. DescriptorsInUse'
      <4> SUFFICES ASSUME NEW m \in Machines, NEW f \in Names, NEW q \in file'[m][f].fds
                   PROVE  /\ file'[m][f].there
                          /\ at'[q] = "write" /\ arg'[q].m = m /\ arg'[q].f = f
        BY DEF DescriptorsInUse
      <4>1. q \in Procs /\ file'[m][f] = file[m][f]
        BY <3>1, <3>3 DEF FileType
      <4>2. at[q] = "write" /\ arg[q].m = m /\ arg[q].f = f /\ file[m][f].there
        BY <4>1 DEF StoreInv, DescriptorsInUse
      <4>3. q # p
        BY <1>10, <4>2 DEF Rename
      <4> QED BY <3>5, <4>1, <4>2, <4>3
    <3>10. FilesHaveDirectory'
      <4>1. dir[arg[p].m]
        BY <1>a, <2>2 DEF StoreInv, FilesHaveDirectory, InDirectory
      <4> SUFFICES ASSUME NEW m \in Machines, InDirectory(m)', m # arg[p].m
                   PROVE dir[m]
        BY <1>a, <3>5, <4>1 DEF FilesHaveDirectory
      <4>2. CASE \E f \in Names : file'[m][f].there
        BY <3>3, <4>2 DEF StoreInv, FilesHaveDirectory, InDirectory
      <4>3. CASE \E q \in Procs : arg'[q].m = m /\ tmp'[q].there
        BY <3>5, <3>7, <4>3 DEF StoreInv, FilesHaveDirectory, InDirectory
      <4>4. CASE strays'[m] # {}
        BY <3>7, <4>4 DEF StoreInv, FilesHaveDirectory, InDirectory
      <4> QED BY <4>2, <4>3, <4>4 DEF InDirectory
    <3> QED BY <3>6, <3>8, <3>9, <3>10 DEF StoreInv
  <2> QED BY <1>10, <2>1, <2>2 DEF Rename
<1>11. ASSUME NEW p \in Procs, ReadConfig(p) PROVE StoreInv'
  <2> DEFINE f == file[arg[p].m]["cfg"]
  <2>1. f \in FileType /\ f.data \in Data /\ f.data.id \in 0..MaxOps
    BY <1>0, <1>a DEF TypeOK, FileType, Data, Names
  <2>2. TypeOK'
    <3>1. CASE Reading(f) # "migrate" /\ Answer(p, Reading(f), f.data.id) /\ UNCHANGED arg
      <4>1. Reading(f) \in {"readerr", "badjson", "panic", "future", "ok", "migrate"}
        BY <2>1 DEF Reading, Data, Kinds, Whole, FileType
      <4>2. [kind |-> Reading(f), id |-> f.data.id] \in Results
        BY <2>1, <3>1, <4>1 DEF Results
      <4> QED BY <1>0, <1>11, <3>1, <4>2 DEF ReadConfig, Answer, Goto, TypeOK, Places
    <3>2. CASE /\ arg' = [arg EXCEPT ![p].f = "bak", ![p].d = f.data,
                                     ![p].then = "savehost"]
               /\ Goto(p, "stat")
               /\ UNCHANGED result
      <4> HIDE DEF f
      <4>1. arg' \in [Procs -> ArgType]
        <5> DEFINE a == [arg[p] EXCEPT !.f = "bak", !.d = f.data, !.then = "savehost"]
        <5>1. a \in ArgType
          BY <1>d, <2>1 DEF ArgType, Names
        <5>2. arg' = [arg EXCEPT ![p] = a]
          BY <1>0, <3>2 DEF TypeOK
        <5> QED BY <1>0, <5>1, <5>2 DEF TypeOK
      <4> QED BY <1>0, <1>11, <3>2, <4>1 DEF ReadConfig, Goto, TypeOK, Places
    <3> QED BY <1>11, <3>1, <3>2 DEF ReadConfig
  <2>3. /\ \A q \in Procs \ {p} : at'[q] = at[q] /\ tmp'[q] = tmp[q] /\ arg'[q] = arg[q]
        /\ at[p] # "write" /\ ~tmp'[p].there
    BY <1>0, <1>11 DEF ReadConfig, Answer, Goto, TypeOK, StoreInv, TempIsWholeBeforeSwap
  <2> QED BY <1>11, <2>2, <2>3, StepBack DEF ReadConfig
<1>12. ASSUME NEW p \in Procs, RemoveDir(p) PROVE StoreInv'
  <2>1. TypeOK'
    BY <1>0, <1>a, <1>12 DEF RemoveDir, TypeOK, Goto, Places
  <2>2. TempIsWholeBeforeSwap'
    BY <1>0, <1>12 DEF RemoveDir, TypeOK, Goto, StoreInv, TempIsWholeBeforeSwap
  <2>3. DescriptorsInUse'
    BY <1>0, <1>12 DEF RemoveDir, TypeOK, FileType, Goto, StoreInv, DescriptorsInUse
  <2>4. FilesHaveDirectory'
    BY <1>0, <1>a, <1>12 DEF RemoveDir, TypeOK, StoreInv, FilesHaveDirectory, InDirectory
  <2> QED BY <2>1, <2>2, <2>3, <2>4 DEF StoreInv
<1>13. ASSUME NEW p \in Procs, Crash(p) PROVE StoreInv'
  <2>1. \A m \in Machines, f \in Names :
           /\ file'[m][f] \in FileType
           /\ file'[m][f].there = file[m][f].there
           /\ file'[m][f].fds = file[m][f].fds \ {p}
    <3> TAKE m \in Machines, f \in Names
    <3>1. file[m][f] \in FileType
      BY <1>0 DEF TypeOK
    <3>2. file'[m][f] = [file[m][f] EXCEPT !.fds = @ \ {p}]
      BY <1>13 DEF Crash
    <3> QED BY <3>1, <3>2 DEF FileType
  <2>2. strays' \in [Machines -> SUBSET Data]
    BY <1>0, <1>a, <1>13 DEF Crash, TypeOK, FileType
  <2>3. TypeOK'
    <3>1. file' \in [Machines -> [Names -> FileType]]
      BY <1>13, <2>1 DEF Crash
    <3> QED BY <1>0, <1>13, <2>2, <3>1 DEF Crash, TypeOK, Goto, Places
  <2>4. TempIsWholeBeforeSwap'
    BY <1>0, <1>13 DEF Crash, TypeOK, Goto, StoreInv, TempIsWholeBeforeSwap
  <2>5. DescriptorsInUse'
    <3> SUFFICES ASSUME NEW m \in Machines, NEW f \in Names, NEW q \in file'[m][f].fds
                 PROVE  /\ file'[m][f].there
                        /\ at'[q] = "write" /\ arg'[q].m = m /\ arg'[q].f = f
      BY DEF DescriptorsInUse
    <3>1. q \in Procs \ {p} /\ q \in file[m][f].fds
      BY <2>1 DEF FileType
    <3>2. /\ file[m][f].there
          /\ at[q] = "write" /\ arg[q].m = m /\ arg[q].f = f
      BY <3>1 DEF StoreInv, DescriptorsInUse
    <3>3. at'[q] = at[q] /\ arg' = arg
      BY <1>0, <1>13, <3>1 DEF Crash, Goto, TypeOK
    <3> QED BY <2>1, <3>2, <3>3
  <2>6. FilesHaveDirectory'
    BY <1>0, <1>a, <1>13, <2>1 DEF Crash, TypeOK, StoreInv, FilesHaveDirectory, InDirectory
  <2> QED BY <2>3, <2>4, <2>5, <2>6 DEF StoreInv
<1>14. CASE UNCHANGED vars
  BY <1>14 DEF vars, StoreInv, TypeOK, TempIsWholeBeforeSwap, DescriptorsInUse,
               FilesHaveDirectory, InDirectory
<1> QED
  BY <1>1, <1>2, <1>3, <1>4, <1>5, <1>6, <1>7, <1>8, <1>9, <1>10, <1>11, <1>12,
     <1>13, <1>14, <1>15 DEF Next, Advance

\* Any number of podman-machine processes saving, loading, migrating and
\* removing machines without a lock, each killed anywhere: no temporary file
\* replaces a configuration before it is whole, and files lie in directories
\* (filestore.go:33-161).
THEOREM StoreInvariant == Spec => []StoreInv
<1>1. Init => StoreInv
  BY InitStoreInv
<1>2. StoreInv /\ [Next]_vars => StoreInv'
  BY StepStoreInv
<1> QED BY <1>1, <1>2, PTL DEF Spec
-----------------------------------------------------------------------------
(* What a save never loses, when one process at a time changes the store   *)
(* and any number look.                                                    *)

\* A process that loads also saves if there may be an old configuration.
Changers == Writers \cup Removers \cup (IF "old" \in Initial THEN Readers ELSE {})
OneChanger == \A p, q \in Changers : p = q

Busy(p) == at[p] \notin {"idle", "read"}
OldAt(m, f) == file[m][f].there /\ file[m][f].data.kind = "old"
Good(d, m) == d.kind = "current" /\ d.id >= committed[m]

\* Where p is, with nobody else about.
PlaceOf(p) ==
    /\ Busy(p) => p \in Changers
    /\ at[p] = "read" => p \in Readers
    /\ at[p] = "rmdir" => p \in Removers
    /\ doomed[p] # {} => at[p] = "rmdir"
    /\ at[p] = "open" => ~Target(p).there
    /\ at[p] = "write" => p \in Target(p).fds /\ Target(p).there /\ Target(p).data = Empty
    /\ at[p] \in {"unlink", "rename"} => tmp[p].there

\* What p is saving: a host, a backup of the old configuration that is still
\* there, or the migrated host when the backup is.
JobOf(p) ==
    Busy(p) /\ at[p] # "rmdir" =>
        \/ /\ arg[p].then = "return" /\ arg[p].f = "cfg" /\ Good(arg[p].d, arg[p].m)
           /\ arg[p].m \in saved /\ arg[p].d.id <= ops
        \/ /\ arg[p].then = "savehost" /\ arg[p].f = "bak" /\ arg[p].d.kind = "old"
           /\ committed[arg[p].m] = 0 /\ OldAt(arg[p].m, "cfg")
        \/ /\ arg[p].then = "migrated" /\ arg[p].f = "cfg" /\ arg[p].d.kind = "hollow"
           /\ committed[arg[p].m] = 0 /\ OldAt(arg[p].m, "bak")

OldIsInitial ==
    "old" \notin Initial =>
        /\ \A p \in Procs : arg[p].d.kind # "old"
        /\ \A m \in Machines : ~OldAt(m, "cfg")

Counted == \A m \in Machines : committed[m] <= ops /\ (OldAt(m, "cfg") => committed[m] = 0)

\* The witness of NeverLost: the file, the temporary file that is to take its
\* place, or the one that a crash left.
Safe ==
    \A m \in Machines : committed[m] > 0 =>
        \/ \E d \in strays[m] : Good(d, m)
        \/ file[m]["cfg"].there /\ Good(file[m]["cfg"].data, m)
        \/ \E p \in Procs : /\ at[p] = "rename" /\ arg[p].m = m
                            /\ tmp[p].there /\ Good(tmp[p].data, m)

\* The witness of OriginalKept.
HollowAt(m) ==
    \/ \E f \in Names : file[m][f].there /\ file[m][f].data.kind = "hollow"
    \/ \E p \in Procs : tmp[p].there /\ arg[p].m = m /\ tmp[p].data.kind = "hollow"
    \/ \E d \in strays[m] : d.kind = "hollow"
Kept ==
    Removers = {} =>
        \A m \in Machines : m \notin saved /\ HollowAt(m) => OldAt(m, "cfg") \/ OldAt(m, "bak")

StoreParts == OldIsInitial /\ Counted /\ Safe /\ Kept

OneInv == OneChanger /\ StoreInv /\ (\A p \in Procs : PlaceOf(p) /\ JobOf(p)) /\ StoreParts

\* No process but p moves.
Alone(p) ==
    \A q \in Procs \ {p} :
        /\ at'[q] = at[q] /\ arg'[q] = arg[q] /\ doomed'[q] \subseteq doomed[q]
        /\ tmp'[q] \in {NoFile, tmp[q]}

LEMMA OthersLook ==
    ASSUME OneInv, NEW p \in Changers
    PROVE  /\ p \in Procs
           /\ \A q \in Procs \ {p} :
                 at[q] \in {"idle", "read"} /\ doomed[q] = {} /\ ~tmp[q].there
<1>1. p \in Procs
  BY DEF Changers, Procs
<1>2. \A q \in Procs \ {p} : q \notin Changers
  BY DEF OneInv, OneChanger
<1>3. \A q \in Procs \ {p} : at[q] \in {"idle", "read"}
  BY <1>2 DEF OneInv, PlaceOf, Busy
<1>4. \A q \in Procs \ {p} : doomed[q] = {}
  BY <1>3 DEF OneInv, PlaceOf
<1>5. \A q \in Procs \ {p} : ~tmp[q].there
  BY <1>3 DEF OneInv, StoreInv, TempIsWholeBeforeSwap
<1> QED BY <1>1, <1>3, <1>4, <1>5

\* A process that changes the store moves: only its own place matters.
LEMMA ChangerMoves ==
    ASSUME OneInv, NEW p \in Changers, Alone(p), PlaceOf(p)', JobOf(p)'
    PROVE  \A q \in Procs : PlaceOf(q)' /\ JobOf(q)'
<1>1. \A q \in Procs \ {p} : at'[q] \in {"idle", "read"} /\ doomed'[q] = {}
  BY OthersLook DEF Alone
<1>2. \A q \in Procs \ {p} : PlaceOf(q)' /\ JobOf(q)'
  BY <1>1 DEF OneInv, Alone, PlaceOf, JobOf, Busy
<1> QED BY <1>2

\* A process that only looks moves.
LEMMA LookerMoves ==
    ASSUME OneInv, NEW p \in Procs, Alone(p), \A q \in Procs \ {p} : tmp'[q] = tmp[q],
           UNCHANGED <<file, committed, saved>>,
           ops' \in {ops, ops + 1},
           at'[p] \in {"idle", "read"}, at'[p] = "read" => p \in Readers, doomed'[p] = {}
    PROVE  \A q \in Procs : PlaceOf(q)' /\ JobOf(q)'
<1>1. PlaceOf(p)' /\ JobOf(p)'
  BY DEF PlaceOf, JobOf, Busy
<1>2. ASSUME NEW q \in Procs \ {p} PROVE PlaceOf(q)' /\ JobOf(q)'
  <2>1. PlaceOf(q)'
    BY <1>2 DEF OneInv, PlaceOf, Alone, Busy, Target
  <2>2. ops \in Nat /\ arg[q].d.id \in Nat
    BY StoreAssumption DEF OneInv, StoreInv, TypeOK, ArgType, Data
  <2>3. arg[q].d.id <= ops => arg[q].d.id <= ops'
    BY <2>2
  <2>4. JobOf(q)'
    BY <1>2, <2>3 DEF OneInv, JobOf, Alone, Busy, OldAt, Good
  <2> QED BY <2>1, <2>4
<1> QED BY <1>1, <1>2

\* The step leaves all files as they are.
LEMMA FilesKept ==
    ASSUME OneInv, NEW p \in Procs, UNCHANGED <<file, tmp, strays, committed>>,
           \A q \in Procs \ {p} : at'[q] = at[q] /\ arg'[q] = arg[q],
           ~tmp[p].there, saved \subseteq saved', ops \in Nat, ops' \in {ops, ops + 1},
           arg'[p].d.kind = "old" => "old" \in Initial
    PROVE  StoreParts'
<1>0. committed \in [Machines -> 0..MaxOps]
  BY DEF OneInv, StoreInv, TypeOK
<1>1. OldIsInitial'
  BY DEF OneInv, StoreParts, OldIsInitial, OldAt
<1>2. Counted'
  BY <1>0, StoreAssumption DEF OneInv, StoreParts, Counted, OldAt
<1>3. Safe'
  BY DEF OneInv, StoreParts, Safe, Good
<1>4. Kept'
  BY DEF OneInv, StoreParts, Kept, HollowAt, OldAt
<1> QED BY <1>1, <1>2, <1>3, <1>4 DEF StoreParts

\* p moves between operations, or from the look at its file to the choice.
LEMMA LookStep ==
    ASSUME OneInv, StoreInv', NEW p \in Procs,
           \/ Stat(p) \/ ReadConfig(p) \/ RemoveDir(p)
           \/ \E m \in Machines : Save(p, m) \/ Load(p, m)
    PROVE  OneInv'
<1>0. TypeOK /\ StoreInv
  BY DEF OneInv, StoreInv
<1>1. UNCHANGED <<file, tmp, strays, committed>> /\ Alone(p) /\ saved \subseteq saved'
  BY <1>0 DEF TypeOK, Stat, ReadConfig, RemoveDir, Save, Load, Goto, Answer, Alone
<1>2. ~tmp[p].there /\ at[p] \in {"stat", "read", "rmdir", "idle"}
  BY <1>0 DEF StoreInv, TempIsWholeBeforeSwap, Stat, ReadConfig, RemoveDir, Save, Load
<1>3. ops \in Nat /\ ops' \in {ops, ops + 1}
  BY <1>0, StoreAssumption DEF TypeOK, Stat, ReadConfig, RemoveDir, Save, Load
<1>a. arg[p].m \in Machines /\ arg[p] \in ArgType /\ "cfg" \in Names
  BY <1>0 DEF TypeOK, ArgType, Names
<1>4. arg'[p].d.kind = "old" => "old" \in Initial
  <2>1. CASE ReadConfig(p)
    <3>1. arg'[p].d \in {arg[p].d, file[arg[p].m]["cfg"].data}
          /\ (arg'[p].d # arg[p].d => file[arg[p].m]["cfg"].there)
      <4>1. CASE UNCHANGED arg
        BY <4>1
      <4>2. CASE /\ Reading(file[arg[p].m]["cfg"]) = "migrate"
                 /\ arg' = [arg EXCEPT ![p].f = "bak", ![p].d = file[arg[p].m]["cfg"].data,
                                       ![p].then = "savehost"]
        <5>1. file[arg[p].m]["cfg"] \in FileType
          BY <1>0, <1>a DEF TypeOK
        <5>2. file[arg[p].m]["cfg"].there
          BY <4>2, <5>1 DEF Reading, FileType, Data, Kinds, Whole
        <5>3. arg'[p].d = file[arg[p].m]["cfg"].data
          BY <1>0, <1>a, <4>2 DEF TypeOK, ArgType
        <5> QED BY <5>2, <5>3
      <4> QED BY <2>1, <4>1, <4>2 DEF ReadConfig
    <3> QED BY <1>a, <3>1 DEF OneInv, StoreParts, OldIsInitial, OldAt
  <2>2. CASE \E m \in Machines : Save(p, m)
    BY <1>0, <2>2 DEF Save, TypeOK
  <2>3. CASE Stat(p) \/ RemoveDir(p) \/ \E m \in Machines : Load(p, m)
    <3>1. arg'[p].d = arg[p].d
      BY <1>0, <2>3 DEF Stat, RemoveDir, Load, TypeOK, ArgType
    <3> QED BY <3>1 DEF OneInv, StoreParts, OldIsInitial
  <2> QED BY <2>1, <2>2, <2>3
<1>5. StoreParts'
  BY <1>1, <1>2, <1>3, <1>4, FilesKept DEF Alone
<1>6. \A q \in Procs : PlaceOf(q)' /\ JobOf(q)'
  <2>1. CASE Stat(p)
    <3>1. at' = [at EXCEPT ![p] = IF Target(p).there THEN "temp" ELSE "open"]
          /\ UNCHANGED <<file, tmp, arg, doomed, ops, committed, saved>> /\ at[p] = "stat"
      BY <2>1 DEF Stat, Goto
    <3>2. p \in Changers /\ at'[p] = IF Target(p).there THEN "temp" ELSE "open"
      BY <1>0, <3>1 DEF OneInv, PlaceOf, Busy, TypeOK
    <3>3. PlaceOf(p)'
      BY <3>1, <3>2 DEF OneInv, PlaceOf, Target
    <3>4. JobOf(p)'
      BY <3>1, <3>2 DEF OneInv, JobOf, Busy, Good, OldAt
    <3> QED BY <1>1, <3>2, <3>3, <3>4, ChangerMoves
  <2>2. CASE ReadConfig(p)
    <3>1. doomed' = doomed /\ doomed[p] = {} /\ saved' = saved /\ at[p] = "read"
      BY <2>2 DEF ReadConfig, OneInv, PlaceOf
    <3>2. CASE at'[p] = "idle"
      BY <1>1, <1>3, <3>1, <3>2, LookerMoves
    <3>3. CASE at'[p] # "idle"
      <4> DEFINE f == file[arg[p].m]["cfg"]
      <4>1. /\ Reading(f) = "migrate" /\ at'[p] = "stat"
            /\ arg' = [arg EXCEPT ![p].f = "bak", ![p].d = f.data, ![p].then = "savehost"]
        BY <1>0, <2>2, <3>3 DEF ReadConfig, TypeOK, Goto, Answer
      <4>2. f.there /\ f.data.kind = "old"
        <5>1. f \in FileType
          BY <1>0, <1>a DEF TypeOK
        <5> QED BY <4>1, <5>1 DEF Reading, FileType, Data, Kinds, Whole
      <4>3. "old" \in Initial
        BY <1>a, <4>2 DEF OneInv, StoreParts, OldIsInitial, OldAt
      <4>4. p \in Readers
        BY <3>1 DEF OneInv, PlaceOf
      <4>5. p \in Changers
        BY <4>3, <4>4 DEF Changers
      <4>6. arg'[p].m = arg[p].m /\ arg'[p].f = "bak" /\ arg'[p].d = f.data /\ arg'[p].then = "savehost"
        BY <1>0, <1>a, <4>1 DEF TypeOK, ArgType
      <4>7. committed[arg[p].m] = 0
        BY <1>a, <4>2 DEF OneInv, StoreParts, Counted, OldAt
      <4>8. PlaceOf(p)'
        BY <3>1, <4>1, <4>5 DEF PlaceOf, Busy
      <4>9. JobOf(p)'
        BY <1>1, <4>2, <4>6, <4>7 DEF JobOf, OldAt
      <4> QED BY <1>1, <4>5, <4>8, <4>9, ChangerMoves
    <3> QED BY <3>2, <3>3
  <2>3. CASE RemoveDir(p)
    <3>1. at'[p] = "idle" /\ doomed'[p] = {} /\ saved' = saved
      BY <1>0, <2>3 DEF RemoveDir, Goto, TypeOK
    <3> QED BY <1>1, <1>3, <3>1, LookerMoves
  <2>4. ASSUME NEW m \in Machines, Load(p, m) PROVE \A q \in Procs : PlaceOf(q)' /\ JobOf(q)'
    <3>1. at'[p] \in {"idle", "read"} /\ p \in Readers /\ doomed'[p] = {} /\ saved' = saved
      BY <1>0, <2>4 DEF Load, Answer, Goto, TypeOK, OneInv, PlaceOf
    <3> QED BY <1>1, <1>3, <3>1, LookerMoves
  <2>5. ASSUME NEW m \in Machines, Save(p, m) PROVE \A q \in Procs : PlaceOf(q)' /\ JobOf(q)'
    <3>1. /\ p \in Changers /\ at'[p] = "stat" /\ doomed'[p] = {} /\ m \in saved'
          /\ ops' = ops + 1
          /\ arg'[p] = [m |-> m, f |-> "cfg", then |-> "return",
                        d |-> [kind |-> "current", id |-> ops']]
      BY <1>0, <2>5 DEF Save, Goto, TypeOK, OneInv, PlaceOf, Changers
    <3>2. PlaceOf(p)'
      BY <3>1 DEF PlaceOf
    <3>3. committed[m] <= ops /\ committed[m] \in Nat
      BY <1>0, StoreAssumption DEF OneInv, StoreParts, Counted, TypeOK
    <3>4. JobOf(p)'
      BY <1>1, <1>3, <3>1, <3>3 DEF JobOf, Good
    <3> QED BY <1>1, <3>1, <3>2, <3>4, ChangerMoves
  <2> QED BY <2>1, <2>2, <2>3, <2>4, <2>5
<1> QED BY <1>5, <1>6 DEF OneInv

\* saveToFile gives up.
LEMMA FailStep ==
    ASSUME OneInv, StoreInv', NEW p \in Procs, Busy(p), Failed(p), at[p] # "rmdir",
           UNCHANGED <<dir, file, strays, arg, ops, saved>>,
           \/ committed' = [committed EXCEPT ![arg[p].m] = 0]
           \/ at[p] # "rename" /\ committed' = committed
    PROVE  OneInv'
<1>0. TypeOK /\ StoreInv
  BY DEF OneInv, StoreInv
<1>1. /\ p \in Changers /\ at'[p] = "idle" /\ ~tmp'[p].there
      /\ \A q \in Procs \ {p} : at'[q] = at[q] /\ tmp'[q] = tmp[q]
  BY <1>0, FailedTyped DEF OneInv, PlaceOf
<1>2. doomed'[p] = {} /\ Alone(p)
  BY <1>0, <1>1 DEF Failed, TempGone, TypeOK, OneInv, PlaceOf, Alone
<1>3. \A q \in Procs : PlaceOf(q)' /\ JobOf(q)'
  <2>1. PlaceOf(p)' /\ JobOf(p)'
    BY <1>1, <1>2 DEF PlaceOf, JobOf, Busy
  <2> QED BY <1>1, <1>2, <2>1, ChangerMoves
<1>4. OldIsInitial'
  BY DEF OneInv, StoreParts, OldIsInitial, OldAt
<1>5. \A m \in Machines : committed'[m] \in {0, committed[m]} /\ ops \in Nat
  BY <1>0, StoreAssumption DEF TypeOK
<1>6. Counted'
  BY <1>5 DEF OneInv, StoreParts, Counted, OldAt
<1>7. Safe'
  <2> SUFFICES ASSUME NEW m \in Machines, committed'[m] > 0
               PROVE  \/ \E d \in strays[m] : d.kind = "current" /\ d.id >= committed'[m]
                      \/ /\ file[m]["cfg"].there /\ file[m]["cfg"].data.kind = "current"
                         /\ file[m]["cfg"].data.id >= committed'[m]
    BY DEF Safe, Good
  <2>1. committed'[m] = committed[m]
    BY <1>5
  <2>2. ~\E q \in Procs : at[q] = "rename" /\ arg[q].m = m
    BY <1>0, <1>1, <2>1, OthersLook DEF TypeOK
  <2> QED BY <2>1, <2>2 DEF OneInv, StoreParts, Safe, Good
<1>8. Kept'
  BY <1>1 DEF OneInv, StoreParts, Kept, HollowAt, OldAt
<1> QED BY <1>3, <1>4, <1>6, <1>7, <1>8 DEF OneInv, StoreParts

\* The temporary file is made or filled.
LEMMA TempStep ==
    ASSUME OneInv, StoreInv', NEW p \in Procs, NEW d \in Data, NEW l \in {"fill", "unlink"},
           at[p] \in {"temp", "fill"}, d \in {Empty, arg[p].d},
           tmp' = [tmp EXCEPT ![p] = File(d, {})], Goto(p, l),
           UNCHANGED <<dir, file, strays, arg, result, doomed, ops, saved, committed>>
    PROVE  OneInv'
<1>0. TypeOK /\ StoreInv
  BY DEF OneInv, StoreInv
<1>1. /\ p \in Changers /\ at'[p] = l /\ tmp'[p].there /\ tmp'[p].data = d
      /\ \A q \in Procs \ {p} : at'[q] = at[q] /\ tmp'[q] = tmp[q]
  BY <1>0 DEF OneInv, PlaceOf, Busy, Goto, TypeOK, File
<1>2. Alone(p)
  BY <1>1 DEF Alone
<1>j. \/ arg[p].m \in saved
      \/ arg[p].d.kind = "old"
      \/ OldAt(arg[p].m, "bak")
  BY <1>0 DEF OneInv, JobOf, Busy
<1>3. \A q \in Procs : PlaceOf(q)' /\ JobOf(q)'
  <2>1. PlaceOf(p)'
    BY <1>1 DEF OneInv, PlaceOf, Busy
  <2>2. JobOf(p)'
    BY <1>1 DEF OneInv, JobOf, Busy, Good, OldAt
  <2> QED BY <1>1, <1>2, <2>1, <2>2, ChangerMoves
<1>4. OldIsInitial' /\ Counted'
  BY DEF OneInv, StoreParts, OldIsInitial, Counted, OldAt
<1>5. Safe'
  BY <1>1 DEF OneInv, StoreParts, Safe, Good
<1>6. Kept'
  <2> SUFFICES ASSUME Removers = {}, NEW m \in Machines, m \notin saved, HollowAt(m)'
               PROVE  OldAt(m, "cfg") \/ OldAt(m, "bak")
    BY DEF Kept, OldAt
  <2>1. CASE HollowAt(m)
    BY <2>1 DEF OneInv, StoreParts, Kept
  <2>2. CASE ~HollowAt(m)
    <3>1. arg[p].m = m /\ d.kind = "hollow"
      BY <1>1, <2>2 DEF HollowAt
    <3> QED BY <1>j, <3>1 DEF Empty
  <2> QED BY <2>1, <2>2
<1> QED BY <1>3, <1>4, <1>5, <1>6 DEF OneInv, StoreParts

\* The file is opened where none was.
LEMMA OpenStep ==
    ASSUME OneInv, StoreInv', NEW p \in Procs, OpenInPlace(p)
    PROVE  OneInv'
<1>0. TypeOK /\ StoreInv
  BY DEF OneInv, StoreInv
<1>1. CASE Failed(p) /\ UNCHANGED file
  BY <1>1, FailStep DEF OpenInPlace, Busy
<1>2. CASE SetTarget(p, File(Empty, Target(p).fds \cup {p})) /\ Goto(p, "write")
           /\ UNCHANGED <<tmp, result, doomed>>
  <2> DEFINE x == File(Empty, Target(p).fds \cup {p})
             m == arg[p].m
             f == arg[p].f
  <2>0. at[p] = "open" /\ UNCHANGED <<dir, strays, arg, ops, saved, committed, tmp, doomed>>
    BY <1>2 DEF OpenInPlace
  <2>1. m \in Machines /\ f \in Names /\ Target(p) \in FileType /\ ~Target(p).there
    BY <1>0, <2>0 DEF TypeOK, ArgType, Target, OneInv, PlaceOf
  <2>2. x \in FileType /\ x.there /\ x.data = Empty /\ p \in x.fds
    <3>1. Target(p).fds \cup {p} \in SUBSET Procs
      BY <2>1 DEF FileType
    <3> QED BY <3>1, FileTyped, ConstantsTyped
  <2> HIDE DEF x
  <2>3. /\ file'[m][f] = x
        /\ \A k \in Machines, g \in Names : (k # m \/ g # f) => file'[k][g] = file[k][g]
    BY <1>0, <1>2, <2>2, TargetTyped DEF x
  <2>4. p \in Changers /\ at'[p] = "write" /\ \A q \in Procs \ {p} : at'[q] = at[q]
    BY <1>0, <1>2, <2>0 DEF OneInv, PlaceOf, Busy, Goto, TypeOK
  <2>5. Alone(p)
    BY <2>0, <2>4 DEF Alone
  <2>6. \A k \in Machines, g \in Names : OldAt(k, g)' <=> OldAt(k, g)
    BY <2>1, <2>2, <2>3 DEF OldAt, Target, Empty
  <2>7. \A q \in Procs : PlaceOf(q)' /\ JobOf(q)'
    <3>1. PlaceOf(p)'
      BY <2>0, <2>2, <2>3, <2>4 DEF PlaceOf, Target, OneInv
    <3>2. JobOf(p)'
      BY <2>0, <2>1, <2>4, <2>6 DEF OneInv, JobOf, Busy, Good, Names
    <3> QED BY <2>4, <2>5, <3>1, <3>2, ChangerMoves
  <2>8. OldIsInitial' /\ Counted'
    BY <2>0, <2>6 DEF OneInv, StoreParts, OldIsInitial, Counted, Names
  <2>9. Safe'
    <3> SUFFICES ASSUME NEW k \in Machines, committed[k] > 0
                 PROVE  \/ \E d \in strays[k] : Good(d, k)
                        \/ file'[k]["cfg"].there /\ Good(file'[k]["cfg"].data, k)
      BY <2>0 DEF Safe, Good
    <3>1. ~\E q \in Procs : at[q] = "rename"
      BY <2>0, <2>4, OthersLook
    <3>2. file[k]["cfg"].there => file'[k]["cfg"] = file[k]["cfg"]
      BY <2>1, <2>3 DEF Target, Names
    <3> QED BY <3>1, <3>2 DEF OneInv, StoreParts, Safe
  <2>10. Kept'
    <3>1. \A k \in Machines : HollowAt(k)' => HollowAt(k)
      BY <2>0, <2>2, <2>3 DEF HollowAt, Empty
    <3> QED BY <2>0, <2>6, <3>1 DEF OneInv, StoreParts, Kept, Names
  <2> QED BY <2>7, <2>8, <2>9, <2>10 DEF OneInv, StoreParts
<1> QED BY <1>1, <1>2 DEF OpenInPlace

\* The old file is removed: what is to replace it is whole.
LEMMA UnlinkStep ==
    ASSUME OneInv, StoreInv', NEW p \in Procs, RemoveTarget(p)
    PROVE  OneInv'
<1>0. TypeOK /\ StoreInv
  BY DEF OneInv, StoreInv
<1>1. CASE Failed(p) /\ UNCHANGED file
  BY <1>1, FailStep DEF RemoveTarget, Busy
<1>2. CASE SetTarget(p, NoFile) /\ Goto(p, "rename") /\ UNCHANGED <<tmp, result, doomed>>
  <2> DEFINE m == arg[p].m
             f == arg[p].f
  <2>0. at[p] = "unlink" /\ UNCHANGED <<dir, strays, arg, ops, saved, committed, tmp, doomed>>
    BY <1>2 DEF RemoveTarget
  <2>1. m \in Machines /\ f \in Names
    BY <1>0 DEF TypeOK, ArgType
  <2>2. tmp[p].there /\ tmp[p].data = arg[p].d
    BY <1>0, <2>0 DEF OneInv, PlaceOf, StoreInv, TempIsWholeBeforeSwap
  <2>3. /\ file'[m][f] = NoFile
        /\ \A k \in Machines, g \in Names : (k # m \/ g # f) => file'[k][g] = file[k][g]
    BY <1>0, <1>2, TargetTyped, ConstantsTyped
  <2>4. p \in Changers /\ at'[p] = "rename" /\ \A q \in Procs \ {p} : at'[q] = at[q]
    BY <1>0, <1>2, <2>0 DEF OneInv, PlaceOf, Busy, Goto, TypeOK
  <2>5. Alone(p)
    BY <2>0, <2>4 DEF Alone
  <2>j. JobOf(p) /\ Busy(p)
    BY <2>0 DEF OneInv, Busy
  <2>6. \A k \in Machines, g \in Names : OldAt(k, g)' <=> OldAt(k, g) /\ (k # m \/ g # f)
    BY <2>1, <2>3, ConstantsTyped DEF OldAt
  <2>7. \A q \in Procs : PlaceOf(q)' /\ JobOf(q)'
    <3>1. PlaceOf(p)'
      BY <2>0, <2>2, <2>4 DEF PlaceOf, OneInv
    <3>2. JobOf(p)'
      BY <2>0, <2>1, <2>4, <2>6, <2>j DEF JobOf, Good, Names
    <3> QED BY <2>4, <2>5, <3>1, <3>2, ChangerMoves
  <2>8. OldIsInitial' /\ Counted'
    BY <2>0, <2>6 DEF OneInv, StoreParts, OldIsInitial, Counted, Names
  <2>9. Safe'
    <3> SUFFICES ASSUME NEW k \in Machines, committed[k] > 0
                 PROVE  \/ \E d \in strays[k] : Good(d, k)
                        \/ file'[k]["cfg"].there /\ Good(file'[k]["cfg"].data, k)
                        \/ arg[p].m = k /\ Good(tmp[p].data, k)
      BY <2>0, <2>2, <2>4 DEF Safe, Good
    <3>1. ~\E q \in Procs : at[q] = "rename"
      BY <2>0, <2>4, OthersLook
    <3>2. CASE k = m
      BY <2>0, <2>2, <2>j, <3>2 DEF JobOf, Good
    <3>3. CASE k # m
      BY <2>3, <3>1, <3>3 DEF OneInv, StoreParts, Safe, Names
    <3> QED BY <3>2, <3>3
  <2>10. Kept'
    <3> SUFFICES ASSUME Removers = {}, NEW k \in Machines, k \notin saved, HollowAt(k)'
                 PROVE  OldAt(k, "cfg")' \/ OldAt(k, "bak")'
      BY <2>0 DEF Kept
    <3>1. HollowAt(k)
      BY <2>0, <2>3, ConstantsTyped DEF HollowAt
    <3>2. OldAt(k, "cfg") \/ OldAt(k, "bak")
      BY <3>1 DEF OneInv, StoreParts, Kept
    <3>3. CASE k = m
      BY <2>0, <2>1, <2>6, <2>j, <3>3 DEF JobOf, Names
    <3>4. CASE k # m
      BY <2>6, <3>2, <3>4 DEF Names
    <3> QED BY <3>3, <3>4
  <2> QED BY <2>7, <2>8, <2>9, <2>10 DEF OneInv, StoreParts
<1> QED BY <1>1, <1>2 DEF RemoveTarget

\* p's data takes its place, whole, and saveToFile returns nil.
LEMMA InstallStep ==
    ASSUME OneInv, StoreInv', NEW p \in Procs, at[p] \in {"write", "rename"},
           Returned(p), \A q \in Procs \ {p} : tmp'[q] = tmp[q],
           ~tmp'[p].there, doomed'[p] = {},
           \A q \in Procs : doomed'[q] \subseteq doomed[q], UNCHANGED <<strays, ops, saved>>,
           file'[arg[p].m][arg[p].f].there, file'[arg[p].m][arg[p].f].data = arg[p].d,
           \A k \in Machines, g \in Names :
              (k # arg[p].m \/ g # arg[p].f) => file'[k][g] = file[k][g]
    PROVE  OneInv'
<1> DEFINE m == arg[p].m
           f == arg[p].f
<1>0. TypeOK /\ StoreInv
  BY DEF OneInv, StoreInv
<1>1. m \in Machines /\ f \in Names /\ arg[p] \in ArgType /\ arg[p].d.id \in Nat
  BY <1>0, StoreAssumption DEF TypeOK, ArgType, Data
<1>2. /\ \A q \in Procs \ {p} : at'[q] = at[q] /\ arg'[q] = arg[q]
      /\ arg'[p].m = m
  BY <1>0, ReturnedTyped
<1>3. p \in Changers /\ Alone(p)
  BY <1>2 DEF OneInv, PlaceOf, Busy, Alone
<1>j. JobOf(p) /\ Busy(p) /\ at[p] # "rmdir"
  BY DEF OneInv, Busy
<1>l. ~\E q \in Procs \ {p} : at[q] = "rename"
  BY <1>3, OthersLook
<1>4. \A k \in Machines, g \in Names :
         /\ k # m \/ g # f => (OldAt(k, g)' <=> OldAt(k, g))
         /\ k = m /\ g = f => (OldAt(k, g)' <=> arg[p].d.kind = "old")
  BY <1>1 DEF OldAt
\* The ends of the three jobs.
<1>5. CASE arg[p].then = "return"
  <2>1. /\ f = "cfg" /\ Good(arg[p].d, m) /\ m \in saved /\ arg[p].d.kind = "current"
        /\ at'[p] = "idle" /\ arg' = arg /\ committed'[m] = arg[p].d.id
        /\ \A k \in Machines \ {m} : committed'[k] = committed[k]
    BY <1>0, <1>1, <1>5, <1>j DEF JobOf, Returned, TypeOK, Goto, Good
  <2>2. \A q \in Procs : PlaceOf(q)' /\ JobOf(q)'
    <3>1. PlaceOf(p)' /\ JobOf(p)'
      BY <2>1 DEF PlaceOf, JobOf, Busy
    <3> QED BY <1>3, <3>1, ChangerMoves
  <2>3. OldIsInitial'
    BY <1>4, <2>1 DEF OneInv, StoreParts, OldIsInitial, Names
  <2>4. Counted'
    <3>1. arg[p].d.id <= ops
      BY <1>5, <1>j DEF JobOf
    <3> QED BY <1>4, <2>1, <3>1 DEF OneInv, StoreParts, Counted, Names
  <2>5. Safe'
    <3> SUFFICES ASSUME NEW k \in Machines, committed'[k] > 0
                 PROVE  \/ \E d \in strays[k] : d.kind = "current" /\ d.id >= committed'[k]
                        \/ /\ file'[k]["cfg"].there /\ file'[k]["cfg"].data.kind = "current"
                           /\ file'[k]["cfg"].data.id >= committed'[k]
      BY DEF Safe, Good
    <3>1. CASE k = m
      BY <1>1, <2>1, <3>1
    <3>2. CASE k # m
      <4>1. ~\E q \in Procs : at[q] = "rename" /\ arg[q].m = k
        BY <1>l, <3>2
      <4>2. file'[k]["cfg"] = file[k]["cfg"] /\ committed'[k] = committed[k]
        BY <2>1, <3>2 DEF Names
      <4> QED BY <4>1, <4>2 DEF OneInv, StoreParts, Safe, Good
    <3> QED BY <3>1, <3>2
  <2>6. Kept'
    <3> SUFFICES ASSUME Removers = {}, NEW k \in Machines, k \notin saved, HollowAt(k)'
                 PROVE  OldAt(k, "cfg")' \/ OldAt(k, "bak")'
      BY DEF Kept
    <3>1. HollowAt(k)
      BY <1>2, <2>1 DEF HollowAt
    <3> QED BY <1>4, <2>1, <3>1 DEF OneInv, StoreParts, Kept, Names
  <2> QED BY <2>2, <2>3, <2>4, <2>5, <2>6 DEF OneInv, StoreParts
<1>6. CASE arg[p].then # "return"
  <2>1. committed' = committed /\ committed[m] = 0
    BY <1>6, <1>j DEF JobOf, Returned
  <2>2. \A k \in Machines : k = m => OldAt(k, "bak")'
    BY <1>1, <1>4, <1>6, <1>j DEF JobOf, Names
  <2>3. \A k \in Machines : OldAt(k, "cfg")' => OldAt(k, "cfg")
    BY <1>1, <1>4, <1>6, <1>j DEF JobOf, Names
  <2>4. \A q \in Procs : PlaceOf(q)' /\ JobOf(q)'
    <3>1. CASE arg[p].then = "savehost"
      <4>1. /\ at'[p] = "stat" /\ arg'[p].then = "migrated" /\ arg'[p].f = "cfg"
            /\ arg'[p].d.kind = "hollow"
        BY <1>0, <1>1, <3>1 DEF Returned, TypeOK, Goto, ArgType, Data
      <4>2. PlaceOf(p)' /\ JobOf(p)'
        BY <1>1, <1>2, <1>3, <2>1, <2>2, <4>1 DEF PlaceOf, JobOf
      <4> QED BY <1>3, <4>2, ChangerMoves
    <3>2. CASE arg[p].then = "migrated"
      <4>1. at'[p] = "idle"
        BY <1>0, <3>2 DEF Returned, TypeOK, Goto
      <4>2. PlaceOf(p)' /\ JobOf(p)'
        BY <4>1 DEF PlaceOf, JobOf, Busy
      <4> QED BY <1>3, <4>2, ChangerMoves
    <3> QED BY <1>6, <1>j, <3>1, <3>2 DEF JobOf
  <2>5. OldIsInitial'
    <3>1. arg'[p].d.kind = "old" => arg[p].d.kind = "old"
      BY <1>0, <1>1 DEF Returned, TypeOK, ArgType, Data
    <3> QED BY <1>2, <2>3, <3>1 DEF OneInv, StoreParts, OldIsInitial
  <2>6. Counted'
    BY <2>1, <2>3 DEF OneInv, StoreParts, Counted
  <2>7. Safe'
    <3> SUFFICES ASSUME NEW k \in Machines, committed[k] > 0
                 PROVE  \/ \E d \in strays[k] : Good(d, k)
                        \/ file'[k]["cfg"].there /\ Good(file'[k]["cfg"].data, k)
      BY <2>1 DEF Safe, Good
    <3>1. k # m /\ file'[k]["cfg"] = file[k]["cfg"]
      BY <2>1 DEF Names
    <3>2. ~\E q \in Procs : at[q] = "rename" /\ arg[q].m = k
      BY <1>l, <3>1
    <3> QED BY <3>1, <3>2 DEF OneInv, StoreParts, Safe
  <2>8. Kept'
    <3> SUFFICES ASSUME Removers = {}, NEW k \in Machines, k \notin saved, HollowAt(k)', k # m
                 PROVE  OldAt(k, "cfg")' \/ OldAt(k, "bak")'
      BY <2>2 DEF Kept
    <3>1. HollowAt(k)
      BY <1>2 DEF HollowAt
    <3> QED BY <1>4, <3>1 DEF OneInv, StoreParts, Kept, Names
  <2> QED BY <2>4, <2>5, <2>6, <2>7, <2>8 DEF OneInv, StoreParts
<1> QED BY <1>5, <1>6

LEMMA ReturnStep ==
    ASSUME OneInv, StoreInv', NEW p \in Procs, WriteInPlace(p) \/ Rename(p)
    PROVE  OneInv'
<1>0. TypeOK /\ StoreInv
  BY DEF OneInv, StoreInv
<1>1. arg[p].m \in Machines /\ arg[p].f \in Names /\ arg[p].d \in Data /\ Target(p) \in FileType
  BY <1>0 DEF TypeOK, ArgType, Target
<1>2. CASE WriteInPlace(p)
  <2> DEFINE x == File(arg[p].d, Target(p).fds \ {p})
  <2>1. p \in Target(p).fds /\ Target(p).data = Empty /\ at[p] = "write"
    BY <1>2 DEF OneInv, PlaceOf, WriteInPlace
  <2>2. SetTarget(p, x) /\ Returned(p) /\ UNCHANGED <<tmp, strays, doomed, ops, saved>>
    BY <1>2, <2>1 DEF WriteInPlace
  <2>3. x \in FileType /\ x.there /\ x.data = arg[p].d
    BY <1>1, FileTyped DEF FileType
  <2>4. ~tmp[p].there /\ doomed[p] = {}
    BY <1>0, <2>1 DEF StoreInv, TempIsWholeBeforeSwap, OneInv, PlaceOf
  <2> HIDE DEF x
  <2>5. /\ file'[arg[p].m][arg[p].f] = x
        /\ \A k \in Machines, g \in Names :
              (k # arg[p].m \/ g # arg[p].f) => file'[k][g] = file[k][g]
    BY <1>0, <2>2, <2>3, TargetTyped
  <2> QED BY <2>1, <2>2, <2>3, <2>4, <2>5, InstallStep
<1>3. CASE Rename(p)
  <2>1. CASE Failed(p) /\ committed' = [committed EXCEPT ![arg[p].m] = 0] /\ UNCHANGED <<dir, file, arg>>
    BY <1>3, <2>1, FailStep DEF Rename, Busy
  <2>2. CASE SetTarget(p, File(tmp[p].data, {})) /\ TempGone(p) /\ Returned(p)
    <3> DEFINE x == File(tmp[p].data, {})
    <3>1. at[p] = "rename" /\ tmp[p].data = arg[p].d /\ UNCHANGED <<strays, ops, saved>>
      BY <1>0, <1>3 DEF StoreInv, TempIsWholeBeforeSwap, OneInv, PlaceOf, Rename
    <3>2. x \in FileType /\ x.there /\ x.data = arg[p].d
      BY <1>1, <3>1, FileTyped
    <3>3. /\ \A q \in Procs \ {p} : tmp'[q] = tmp[q]
          /\ ~tmp'[p].there /\ doomed'[p] = {} /\ \A q \in Procs : doomed'[q] \subseteq doomed[q]
      BY <1>0, <2>2, <3>1, ConstantsTyped DEF TempGone, TypeOK, OneInv, PlaceOf
    <3> HIDE DEF x
    <3>4. /\ file'[arg[p].m][arg[p].f] = x
          /\ \A k \in Machines, g \in Names :
                (k # arg[p].m \/ g # arg[p].f) => file'[k][g] = file[k][g]
      BY <1>0, <2>2, <3>2, TargetTyped DEF x
    <3> QED BY <2>2, <3>1, <3>2, <3>3, <3>4, InstallStep
  <2> QED BY <1>3, <2>1, <2>2 DEF Rename
<1> QED BY <1>2, <1>3

\* A machine is being removed: what was committed is so no more.
LEMMA RemoveStep ==
    ASSUME OneInv, StoreInv', NEW p \in Procs,
           RemoveEntry(p) \/ \E m \in Machines : Remove(p, m)
    PROVE  OneInv'
<1>0. TypeOK /\ StoreInv
  BY DEF OneInv, StoreInv
<1>1. p \in Removers /\ p \in Changers /\ ~tmp[p].there
  BY <1>0 DEF RemoveEntry, Remove, OneInv, PlaceOf, Changers, StoreInv, TempIsWholeBeforeSwap
<1>2. at'[p] = "rmdir" /\ \A q \in Procs \ {p} : at'[q] = at[q]
  BY <1>0 DEF RemoveEntry, Remove, Goto, TypeOK
<1>3. PICK n \in Machines :
        /\ committed' = [committed EXCEPT ![n] = 0]
        /\ \A k \in Machines \ {n} : file'[k] = file[k] /\ strays'[k] = strays[k]
  <2>1. CASE RemoveEntry(p)
    <3>1. arg[p].m \in Machines
      BY <1>0 DEF TypeOK, ArgType
    <3> QED BY <1>0, <2>1, <3>1 DEF RemoveEntry, TypeOK
  <2>2. CASE \E m \in Machines : Remove(p, m)
    BY <1>0, <2>2 DEF Remove, TypeOK
  <2> QED BY <2>1, <2>2
<1>4. \A k \in Machines, g \in Names : file'[k][g] \in {NoFile, file[k][g]}
  <2>1. CASE RemoveEntry(p)
    BY <1>0, <2>1 DEF RemoveEntry, TypeOK
  <2>2. CASE UNCHANGED file
    BY <2>2
  <2> QED BY <2>1, <2>2 DEF Remove
<1>5. /\ \A q \in Procs : tmp'[q] \in {NoFile, tmp[q]} /\ arg'[q].d = arg[q].d
      /\ \A q \in Procs \ {p} : arg'[q] = arg[q] /\ doomed'[q] = doomed[q]
      /\ ops \in Nat /\ ops' \in {ops, ops + 1}
  <2>1. CASE RemoveEntry(p)
    BY <1>0, <2>1, StoreAssumption DEF RemoveEntry, TypeOK
  <2>2. CASE \E m \in Machines : Remove(p, m)
    BY <1>0, <2>2, StoreAssumption DEF Remove, TypeOK, ArgType
  <2> QED BY <2>1, <2>2
<1>6. \A q \in Procs : PlaceOf(q)' /\ JobOf(q)'
  <2>1. PlaceOf(p)' /\ JobOf(p)'
    BY <1>1, <1>2 DEF PlaceOf, JobOf
  <2>2. Alone(p)
    BY <1>2, <1>5 DEF Alone
  <2> QED BY <1>1, <2>1, <2>2, ChangerMoves
<1>7. /\ \A k \in Machines : committed'[k] \in {0, committed[k]}
      /\ committed'[n] = 0 /\ committed \in [Machines -> 0..MaxOps]
  BY <1>0, <1>3 DEF TypeOK
<1>8. \A k \in Machines : OldAt(k, "cfg")' => OldAt(k, "cfg")
  BY <1>4, ConstantsTyped DEF OldAt, Names
<1>9. OldIsInitial'
  BY <1>5, <1>8 DEF OneInv, StoreParts, OldIsInitial
<1>10. Counted'
  BY <1>5, <1>7, <1>8, StoreAssumption DEF OneInv, StoreParts, Counted
<1>11. Safe'
  <2> SUFFICES ASSUME NEW k \in Machines, committed'[k] > 0
               PROVE  \/ \E d \in strays'[k] : d.kind = "current" /\ d.id >= committed'[k]
                      \/ /\ file'[k]["cfg"].there /\ file'[k]["cfg"].data.kind = "current"
                         /\ file'[k]["cfg"].data.id >= committed'[k]
    BY DEF Safe, Good
  <2>1. k # n /\ committed'[k] = committed[k]
    BY <1>7
  <2>2. file'[k] = file[k] /\ strays'[k] = strays[k]
    BY <1>3, <2>1
  <2>3. ~\E q \in Procs : at[q] = "rename"
    BY <1>1, OthersLook DEF RemoveEntry, Remove
  <2> QED BY <2>1, <2>2, <2>3 DEF OneInv, StoreParts, Safe, Good
<1>12. Kept'
  BY <1>1 DEF Kept
<1> QED BY <1>6, <1>9, <1>10, <1>11, <1>12 DEF OneInv, StoreParts

\* The process is killed.
LEMMA CrashStep ==
    ASSUME OneInv, StoreInv', NEW p \in Procs, Crash(p)
    PROVE  OneInv'
<1>0. TypeOK /\ StoreInv
  BY DEF OneInv, StoreInv
<1>1. /\ at'[p] = "idle" /\ \A q \in Procs \ {p} : at'[q] = at[q]
      /\ UNCHANGED <<arg, ops, saved, committed>>
  BY <1>0 DEF Crash, Goto, TypeOK
<1>2. /\ doomed'[p] = {} /\ \A q \in Procs : doomed'[q] \subseteq doomed[q]
      /\ ~tmp'[p].there /\ \A q \in Procs \ {p} : tmp'[q] = tmp[q]
  BY <1>0, ConstantsTyped DEF Crash, TypeOK
<1>3. \A m \in Machines, f \in Names :
         file'[m][f].there = file[m][f].there /\ file'[m][f].data = file[m][f].data
  <2> SUFFICES ASSUME NEW m \in Machines, NEW f \in Names
               PROVE  file'[m][f].there = file[m][f].there /\ file'[m][f].data = file[m][f].data
    OBVIOUS
  <2>1. file[m][f] \in FileType
    BY <1>0 DEF TypeOK
  <2>2. file'[m][f] = [file[m][f] EXCEPT !.fds = @ \ {p}]
    BY DEF Crash
  <2> QED BY <2>1, <2>2 DEF FileType
<1>4. /\ \A m \in Machines : strays[m] \subseteq strays'[m]
      /\ \A m \in Machines : \A d \in strays'[m] \ strays[m] :
            tmp[p].there /\ arg[p].m = m /\ d = tmp[p].data
      /\ tmp[p].there => tmp[p].data \in strays'[arg[p].m]
  <2>1. tmp[p].there => at[p] \in {"fill", "unlink", "rename"}
    BY <1>0 DEF StoreInv, TempIsWholeBeforeSwap
  <2>2. ASSUME tmp[p].there PROVE \A q \in Procs : doomed[q] = {}
    BY <2>1, <2>2, OthersLook DEF OneInv, PlaceOf, Busy
  <2>3. arg[p].m \in Machines
    BY <1>0 DEF TypeOK, ArgType
  <2> QED BY <1>0, <2>2, <2>3 DEF Crash, TypeOK
<1>5. \A m \in Machines, f \in Names : OldAt(m, f)' <=> OldAt(m, f)
  BY <1>3 DEF OldAt
<1>6. \A q \in Procs : PlaceOf(q)' /\ JobOf(q)'
  <2>1. PlaceOf(p)' /\ JobOf(p)'
    BY <1>1, <1>2 DEF PlaceOf, JobOf, Busy
  <2>2. Alone(p)
    BY <1>1, <1>2 DEF Alone
  <2>3. CASE p \in Changers
    BY <2>1, <2>2, <2>3, ChangerMoves
  <2>4. CASE p \notin Changers
    <3>1. at[p] = "read"
      BY <2>4 DEF OneInv, PlaceOf, Busy, Crash
    <3>2. file' = file
      <4>1. \A m \in Machines, f \in Names : p \notin file[m][f].fds
        BY <1>0, <3>1 DEF StoreInv, DescriptorsInUse
      <4>2. ASSUME NEW m \in Machines, NEW f \in Names PROVE file'[m][f] = file[m][f]
        <5>1. file[m][f] \in FileType /\ file[m][f].fds \ {p} = file[m][f].fds
          BY <1>0, <4>1 DEF TypeOK
        <5>2. file'[m][f] = [file[m][f] EXCEPT !.fds = file[m][f].fds \ {p}]
          BY DEF Crash
        <5> QED BY <5>1, <5>2 DEF FileType
      <4>3. \A m \in Machines : file'[m] = file[m]
        BY <1>0, <4>2 DEF StoreInv, TypeOK
      <4> QED BY <1>0, <4>3 DEF StoreInv, TypeOK
    <3> QED BY <1>1, <1>2, <2>2, <3>2, LookerMoves
  <2> QED BY <2>3, <2>4
<1>7. OldIsInitial' /\ Counted'
  BY <1>1, <1>5 DEF OneInv, StoreParts, OldIsInitial, Counted, Names
<1>8. Safe'
  <2> SUFFICES ASSUME NEW k \in Machines, committed[k] > 0
               PROVE  \/ \E d \in strays'[k] : Good(d, k)
                      \/ file[k]["cfg"].there /\ Good(file[k]["cfg"].data, k)
                      \/ \E q \in Procs : /\ at'[q] = "rename" /\ arg[q].m = k
                                          /\ tmp'[q].there /\ Good(tmp'[q].data, k)
    BY <1>1, <1>3 DEF Safe, Good, Names
  <2>1. CASE \E d \in strays[k] : Good(d, k)
    BY <1>4, <2>1
  <2>2. ASSUME NEW q \in Procs, at[q] = "rename", arg[q].m = k, tmp[q].there, Good(tmp[q].data, k)
        PROVE  \/ \E d \in strays'[k] : Good(d, k)
               \/ \E r \in Procs : /\ at'[r] = "rename" /\ arg[r].m = k
                                   /\ tmp'[r].there /\ Good(tmp'[r].data, k)
    <3>1. CASE q = p
      BY <1>4, <2>2, <3>1
    <3>2. CASE q # p
      BY <1>1, <1>2, <2>2, <3>2
    <3> QED BY <3>1, <3>2
  <2> QED BY <2>1, <2>2 DEF OneInv, StoreParts, Safe
<1>9. Kept'
  <2>1. \A k \in Machines : HollowAt(k)' => HollowAt(k)
    BY <1>1, <1>2, <1>3, <1>4 DEF HollowAt
  <2> QED BY <1>1, <1>5, <2>1 DEF OneInv, StoreParts, Kept, Names
<1> QED BY <1>6, <1>7, <1>8, <1>9 DEF OneInv, StoreParts

LEMMA OneInit == Init /\ OneChanger => OneInv
<1> SUFFICES ASSUME Init, OneChanger PROVE OneInv
  OBVIOUS
<1>1. StoreInv
  BY InitStoreInv
<1>2. PICK i \in [Machines -> Initial] :
        file = [m \in Machines |-> [f \in Names |->
                  IF f = "cfg" THEN InitialFile(i[m]) ELSE NoFile]]
  BY DEF Init
<1>3. \A m \in Machines : /\ OldAt(m, "cfg") => "old" \in Initial
                          /\ file[m]["cfg"].data.kind # "hollow"
                          /\ ~file[m]["bak"].there
  <2> SUFFICES ASSUME NEW m \in Machines
               PROVE  /\ OldAt(m, "cfg") => "old" \in Initial
                      /\ file[m]["cfg"].data.kind # "hollow"
                      /\ ~file[m]["bak"].there
    OBVIOUS
  <2>1. file[m]["cfg"] = InitialFile(i[m]) /\ file[m]["bak"] = NoFile /\ i[m] \in Initial
    BY <1>2 DEF Names
  <2>2. CASE i[m] = "absent"
    BY <2>1, <2>2 DEF OldAt, InitialFile, NoFile, Empty
  <2>3. CASE i[m] # "absent"
    <3>1. file[m]["cfg"].data.kind = i[m]
      BY <2>1, <2>3 DEF InitialFile, File
    <3> QED BY <2>1, <3>1, StoreAssumption, ConstantsTyped DEF OldAt
  <2> QED BY <2>2, <2>3
<1>4. \A p \in Procs : /\ at[p] = "idle" /\ doomed[p] = {} /\ ~tmp[p].there
                       /\ arg[p].d.kind = "empty"
  BY ConstantsTyped DEF Init, Empty
<1>5. \A p \in Procs : PlaceOf(p) /\ JobOf(p)
  BY <1>4 DEF PlaceOf, JobOf, Busy
<1>6. OldIsInitial /\ Counted /\ Safe
  BY <1>3, <1>4 DEF Init, OldIsInitial, Counted, Safe
<1>7. Kept
  BY <1>3, <1>4 DEF Init, Kept, HollowAt, Names
<1> QED BY <1>1, <1>5, <1>6, <1>7 DEF OneInv, StoreParts

LEMMA OneStep == OneInv /\ [Next]_vars => OneInv'
<1> SUFFICES ASSUME OneInv, [Next]_vars PROVE OneInv'
  OBVIOUS
<1>0. TypeOK /\ StoreInv
  BY DEF OneInv, StoreInv
<1>1. StoreInv'
  BY StepStoreInv DEF OneInv
<1>2. ASSUME NEW p \in Procs, CreateTemp(p) \/ WriteTemp(p) PROVE OneInv'
  <2>1. CASE Failed(p)
    BY <1>1, <1>2, <2>1, FailStep DEF CreateTemp, WriteTemp, Busy
  <2>2. CASE ~Failed(p)
    <3>1. arg[p].d \in Data
      BY <1>0 DEF TypeOK, ArgType
    <3> QED BY <1>1, <1>2, <2>2, <3>1, TempStep, ConstantsTyped DEF CreateTemp, WriteTemp
  <2> QED BY <2>1, <2>2
<1>3. CASE UNCHANGED vars
  <2>1. \A q \in Procs : PlaceOf(q)' /\ JobOf(q)'
    BY <1>3 DEF OneInv, vars, PlaceOf, JobOf, Busy, OldAt, Good, Target
  <2>2. OldIsInitial' /\ Counted' /\ Safe'
    BY <1>3 DEF OneInv, vars, StoreParts, OldIsInitial, Counted, Safe, OldAt, Good
  <2>3. Kept'
    BY <1>3 DEF OneInv, vars, StoreParts, Kept, HollowAt, OldAt
  <2> QED BY <1>1, <2>1, <2>2, <2>3 DEF OneInv, StoreParts
<1>4. ASSUME NEW p \in Procs, Advance(p) PROVE OneInv'
  BY <1>1, <1>2, <1>4, LookStep, OpenStep, ReturnStep, UnlinkStep, RemoveStep, Zenon DEF Advance
<1>5. ASSUME NEW p \in Procs, NEW m \in Machines, Save(p, m) \/ Load(p, m) \/ Remove(p, m)
      PROVE  OneInv'
  BY <1>1, <1>5, LookStep, RemoveStep
<1>6. ASSUME NEW p \in Procs, Crash(p) PROVE OneInv'
  BY <1>1, <1>6, CrashStep
<1> QED BY <1>3, <1>4, <1>5, <1>6 DEF Next

\* One process changes the store, any number look: it may be killed at any system
\* call and its renames may fail, yet the last configuration that Save returned
\* nil for, or a later one, is whole on the disk (filestore.go:33-58).
THEOREM SavedIsNeverLost == Spec /\ OneChanger => []NeverLost
<1>1. OneInv => NeverLost
  <2> SUFFICES ASSUME OneInv, NEW m \in Machines, committed[m] > 0
               PROVE  \E d \in Copies(m) : Good(d, m)
    BY DEF NeverLost, Good
  <2>1. CASE \E d \in strays[m] : Good(d, m)
    BY <2>1 DEF Copies
  <2>2. CASE file[m]["cfg"].there /\ Good(file[m]["cfg"].data, m)
    BY <2>2 DEF Copies, Names
  <2>3. CASE \E p \in Procs : arg[p].m = m /\ tmp[p].there /\ Good(tmp[p].data, m)
    BY <2>3 DEF Copies
  <2> QED BY <2>1, <2>2, <2>3 DEF OneInv, StoreParts, Safe
<1> QED BY <1>1, OneInit, OneStep, PTL DEF Spec

\* The same process migrates old configurations; nothing is removed.  Until a
\* command saves the machine, a migration that was killed or whose renames
\* failed, any number of times, has left the original bytes (filestore.go:129-138).
THEOREM OriginalIsKept == Spec /\ OneChanger /\ Removers = {} => []OriginalKept
<1>1. OneInv /\ Removers = {} => OriginalKept
  <2> SUFFICES ASSUME OneInv, Removers = {}, NEW m \in Machines, m \notin saved,
                      NEW d \in Copies(m), d.kind = "hollow"
               PROVE  \E e \in Copies(m) : e.kind = "old"
    BY DEF OriginalKept
  <2>1. HollowAt(m)
    BY DEF Copies, HollowAt
  <2>2. OldAt(m, "cfg") \/ OldAt(m, "bak")
    BY <2>1 DEF OneInv, StoreParts, Kept
  <2> QED BY <2>2 DEF Copies, OldAt, Names
<1>2. Removers = {} => [](Removers = {})
  OBVIOUS
<1> QED BY <1>1, <1>2, OneInit, OneStep, PTL DEF Spec
-----------------------------------------------------------------------------
(* Two processes that save existing machines and any number that load, with *)
(* no crash: a third writer could mix its bytes with those of another.      *)

TwoWriters ==
    /\ \A p, q, r \in Writers : p = q \/ q = r \/ p = r
    /\ Removers = {} /\ Faults = {} /\ Initial \subseteq {"current"}

\* Only writers are busy, and with a Save.
WriterOf(p) ==
    /\ Busy(p) => /\ p \in Writers /\ at[p] # "rmdir"
                  /\ arg[p].then = "return" /\ arg[p].f = "cfg" /\ arg[p].d.kind = "current"
    /\ at[p] \in {"unlink", "rename"} => tmp[p].there

\* config.json is whole, or open for writing, or about to be put in its place.
ConfigOf(m) ==
    /\ dir[m]
    /\ file[m]["cfg"].there /\ file[m]["cfg"].fds = {} => file[m]["cfg"].data.kind = "current"
    /\ file[m]["cfg"].fds # {} => file[m]["cfg"].data = Empty
    /\ ~file[m]["cfg"].there => \E p \in Procs : at[p] = "rename" /\ arg[p].m = m

\* Two processes do not write the same file in place.
InPlace == {"open", "write"}
Apart ==
    \A p, q \in Procs : p # q /\ arg[p].m = arg[q].m /\ at[p] \in InPlace => at[q] \notin InPlace

TwoInv ==
    /\ TwoWriters /\ StoreInv
    /\ \A p \in Procs : WriterOf(p)
    /\ \A m \in Machines : ConfigOf(m)
    /\ Apart

\* p moves, and config.json is as it was.
LEMMA TwoMoves ==
    ASSUME TwoInv, StoreInv', NEW p \in Procs, UNCHANGED file, at[p] # "rename",
           \A m \in Machines : dir[m] => dir'[m],
           \A q \in Procs \ {p} : at'[q] = at[q] /\ arg'[q] = arg[q] /\ tmp'[q] = tmp[q],
           WriterOf(p)',
           \/ at'[p] \notin InPlace
           \/ \A q \in Procs \ {p} : at[q] \in InPlace => arg[q].m # arg'[p].m
    PROVE  TwoInv'
<1>1. \A q \in Procs \ {p} : WriterOf(q)'
  BY DEF TwoInv, WriterOf, Busy
<1>2. \A m \in Machines : ConfigOf(m)'
  BY DEF TwoInv, ConfigOf
<1>3. Apart'
  BY DEF TwoInv, Apart
<1> QED BY <1>1, <1>2, <1>3 DEF TwoInv

LEMMA TwoLook ==
    ASSUME TwoInv, StoreInv', NEW p \in Procs,
           \/ Stat(p) \/ ReadConfig(p) \/ CreateTemp(p) \/ WriteTemp(p)
           \/ \E m \in Machines : Save(p, m) \/ Load(p, m)
    PROVE  TwoInv'
<1>0. TypeOK /\ StoreInv
  BY DEF TwoInv, StoreInv
<1>a. arg[p] \in ArgType /\ arg[p].m \in Machines /\ "cfg" \in Names
  BY <1>0 DEF TypeOK, ArgType, Names
<1>b. dir[arg[p].m]
  BY <1>a DEF TwoInv, ConfigOf
<1>1. /\ UNCHANGED file /\ at[p] # "rename"
      /\ \A m \in Machines : dir[m] => dir'[m]
      /\ \A q \in Procs \ {p} : at'[q] = at[q] /\ arg'[q] = arg[q] /\ tmp'[q] = tmp[q]
  <2>1. CASE \/ Stat(p) \/ ReadConfig(p) \/ \E m \in Machines : Save(p, m) \/ Load(p, m)
    BY <1>0, <2>1 DEF TypeOK, Stat, ReadConfig, Save, Load, Goto, Answer
  <2>2. CASE CreateTemp(p) \/ WriteTemp(p)
    BY <1>0, <1>b, <2>2 DEF TypeOK, CreateTemp, WriteTemp, Goto
  <2> QED BY <2>1, <2>2
<1>2. CASE Stat(p)
  <2>1. /\ at[p] = "stat" /\ UNCHANGED <<arg, tmp>>
        /\ at'[p] = IF Target(p).there THEN "temp" ELSE "open"
    BY <1>0, <1>2 DEF Stat, Goto, TypeOK
  <2>2. WriterOf(p)'
    BY <2>1 DEF TwoInv, WriterOf, Busy
  <2>3. ASSUME at'[p] = "open", NEW q \in Procs \ {p}, at[q] \in InPlace, arg[q].m = arg[p].m
        PROVE  FALSE
    <3>1. ~file[arg[p].m]["cfg"].there
      BY <2>1, <2>3 DEF Target, TwoInv, WriterOf, Busy
    <3>2. PICK r \in Procs : at[r] = "rename" /\ arg[r].m = arg[p].m
      BY <1>a, <3>1 DEF TwoInv, ConfigOf
    <3>3. p \in Writers /\ q \in Writers /\ r \in Writers
      BY <2>1, <2>3, <3>2 DEF TwoInv, WriterOf, Busy, InPlace
    <3> QED BY <2>1, <2>3, <3>2, <3>3 DEF TwoInv, TwoWriters, InPlace
  <2> QED BY <1>1, <2>1, <2>2, <2>3, TwoMoves DEF InPlace
<1>3. CASE ReadConfig(p)
  <2>1. Reading(file[arg[p].m]["cfg"]) # "migrate"
    <3> DEFINE f == file[arg[p].m]["cfg"]
    <3>1. f \in FileType
      BY <1>0, <1>a DEF TypeOK
    <3>2. f.there => f.data.kind \in {"current", "empty"}
      BY <1>a DEF TwoInv, ConfigOf, Empty
    <3> HIDE DEF f
    <3>3. Reading(f) # "migrate"
      BY <3>1, <3>2 DEF Reading, Whole, FileType
    <3> QED BY <3>3 DEF f
  <2>2. at'[p] = "idle"
    BY <1>0, <1>3, <2>1 DEF ReadConfig, Answer, Goto, TypeOK
  <2>3. WriterOf(p)'
    BY <2>2 DEF WriterOf, Busy
  <2> QED BY <1>1, <2>2, <2>3, TwoMoves DEF InPlace
<1>4. CASE CreateTemp(p) \/ WriteTemp(p)
  <2>1. /\ at[p] \in {"temp", "fill"} /\ arg' = arg /\ at'[p] \in {"fill", "unlink"}
        /\ at'[p] = "unlink" => tmp'[p].there
    BY <1>0, <1>b, <1>4 DEF CreateTemp, WriteTemp, Goto, TypeOK, File
  <2>2. WriterOf(p)'
    BY <2>1 DEF TwoInv, WriterOf, Busy
  <2> QED BY <1>1, <2>1, <2>2, TwoMoves DEF InPlace
<1>5. CASE \E m \in Machines : Save(p, m)
  <2>1. /\ p \in Writers /\ at'[p] = "stat" /\ arg'[p].then = "return" /\ arg'[p].f = "cfg"
        /\ arg'[p].d.kind = "current"
    BY <1>0, <1>5 DEF Save, Goto, TypeOK
  <2>2. WriterOf(p)'
    BY <2>1 DEF WriterOf
  <2> QED BY <1>1, <2>1, <2>2, TwoMoves DEF InPlace
<1>6. CASE \E m \in Machines : Load(p, m)
  <2>1. at'[p] \in {"idle", "read"}
    BY <1>0, <1>6 DEF Load, Answer, Goto, TypeOK
  <2>2. WriterOf(p)'
    BY <2>1 DEF WriterOf, Busy
  <2> QED BY <1>1, <2>1, <2>2, TwoMoves DEF InPlace
<1> QED BY <1>2, <1>3, <1>4, <1>5, <1>6

\* p's step makes its config.json the file x.
LEMMA TwoWrites ==
    ASSUME TwoInv, StoreInv', NEW p \in Procs, NEW x \in FileType,
           at[p] \in {"open", "write", "unlink", "rename"}, SetTarget(p, x), UNCHANGED dir,
           \A q \in Procs \ {p} : at'[q] = at[q] /\ arg'[q] = arg[q] /\ tmp'[q] = tmp[q],
           arg' = arg, WriterOf(p)', at'[p] \in InPlace => at[p] \in InPlace,
           x.there /\ x.fds = {} => x.data.kind = "current",
           x.fds # {} => x.data = Empty,
           ~x.there => at'[p] = "rename",
           at[p] = "rename" => x.there
    PROVE  TwoInv'
<1>0. TypeOK /\ StoreInv
  BY DEF TwoInv, StoreInv
<1>1. arg[p].f = "cfg"
  BY DEF TwoInv, WriterOf, Busy
<1>2. /\ arg[p].m \in Machines /\ file'[arg[p].m]["cfg"] = x
      /\ \A m \in Machines \ {arg[p].m} : file'[m]["cfg"] = file[m]["cfg"]
  BY <1>0, <1>1, TargetTyped DEF Names
<1>3. \A q \in Procs : WriterOf(q)'
  BY DEF TwoInv, WriterOf, Busy
<1>4. \A m \in Machines : ConfigOf(m)'
  <2> SUFFICES ASSUME NEW m \in Machines PROVE ConfigOf(m)'
    OBVIOUS
  <2>1. CASE m = arg[p].m
    BY <1>2, <2>1 DEF TwoInv, ConfigOf
  <2>2. CASE m # arg[p].m
    BY <1>2, <2>2 DEF TwoInv, ConfigOf
  <2> QED BY <2>1, <2>2
<1>5. Apart'
  BY DEF TwoInv, Apart
<1> QED BY <1>3, <1>4, <1>5 DEF TwoInv

LEMMA TwoChange ==
    ASSUME TwoInv, StoreInv', NEW p \in Procs,
           OpenInPlace(p) \/ WriteInPlace(p) \/ RemoveTarget(p) \/ Rename(p)
    PROVE  TwoInv'
<1>0. TypeOK /\ StoreInv
  BY DEF TwoInv, StoreInv
<1>a. arg[p] \in ArgType /\ arg[p].m \in Machines /\ arg[p].d \in Data /\ Target(p) \in FileType
  BY <1>0 DEF TypeOK, ArgType, Target
<1>b. dir[arg[p].m]
  BY <1>a DEF TwoInv, ConfigOf
<1>w. arg[p].then = "return" /\ arg[p].f = "cfg" /\ arg[p].d.kind = "current"
  BY DEF OpenInPlace, WriteInPlace, RemoveTarget, Rename, TwoInv, WriterOf, Busy
<1>c. Target(p) = file[arg[p].m]["cfg"]
  BY <1>w DEF Target
<1>r. ASSUME Returned(p)
      PROVE  /\ arg' = arg /\ at'[p] = "idle" /\ WriterOf(p)' /\ dir' = dir
             /\ \A q \in Procs \ {p} : at'[q] = at[q]
  BY <1>0, <1>r, <1>w DEF Returned, Goto, TypeOK, WriterOf, Busy
<1>1. CASE OpenInPlace(p)
  <2> DEFINE x == File(Empty, Target(p).fds \cup {p})
  <2>1. SetTarget(p, x) /\ at[p] = "open" /\ UNCHANGED <<dir, arg, tmp>>
        /\ at'[p] = "write" /\ \A q \in Procs \ {p} : at'[q] = at[q]
    BY <1>0, <1>1, <1>b DEF OpenInPlace, Goto, TypeOK
  <2>2. Target(p).fds \cup {p} \in SUBSET Procs
    BY <1>a DEF FileType
  <2>3. x \in FileType /\ x.there /\ x.data = Empty /\ x.fds # {}
    BY <2>2, FileTyped, ConstantsTyped
  <2>4. WriterOf(p)'
    BY <2>1 DEF TwoInv, WriterOf, Busy
  <2> HIDE DEF x
  <2> QED BY <2>1, <2>3, <2>4, TwoWrites DEF InPlace
<1>2. CASE WriteInPlace(p)
  <2>1. /\ at[p] = "write" /\ tmp' = tmp /\ arg' = arg /\ at'[p] = "idle" /\ WriterOf(p)'
        /\ dir' = dir /\ \A q \in Procs \ {p} : at'[q] = at[q]
    BY <1>2, <1>r DEF WriteInPlace
  <2>2. CASE p \notin Target(p).fds /\ UNCHANGED file
    BY <2>1, <2>2, TwoMoves DEF InPlace
  <2>3. CASE p \in Target(p).fds
    <3>1. Target(p).data = Empty
      BY <1>a, <1>c, <2>3 DEF TwoInv, ConfigOf
    <3>2. Target(p).fds \ {p} = {}
      <4> SUFFICES ASSUME NEW q \in Target(p).fds, q # p PROVE FALSE
        OBVIOUS
      <4>1. q \in Procs /\ at[q] = "write" /\ arg[q].m = arg[p].m
        BY <1>0, <1>a, <1>c DEF StoreInv, DescriptorsInUse, FileType, Names
      <4> QED BY <2>1, <4>1 DEF TwoInv, Apart, InPlace
    <3> DEFINE x == File(arg[p].d, {})
    <3>3. SetTarget(p, x)
      BY <1>2, <2>3, <3>1, <3>2 DEF WriteInPlace
    <3>4. x \in FileType /\ x.there /\ x.data.kind = "current" /\ x.fds = {}
      BY <1>a, <1>w, FileTyped
    <3> HIDE DEF x
    <3> QED BY <2>1, <3>3, <3>4, TwoWrites DEF InPlace
  <2> QED BY <1>2, <2>2, <2>3 DEF WriteInPlace
<1>3. CASE RemoveTarget(p)
  <2>1. at[p] = "unlink" /\ UNCHANGED <<dir, arg>>
    BY <1>3 DEF RemoveTarget
  <2>2. CASE Failed(p) /\ UNCHANGED file
    <3>1. at'[p] = "idle" /\ \A q \in Procs \ {p} : at'[q] = at[q] /\ tmp'[q] = tmp[q]
      BY <1>0, <2>2, FailedTyped
    <3>2. WriterOf(p)'
      BY <3>1 DEF WriterOf, Busy
    <3> QED BY <2>1, <2>2, <3>1, <3>2, TwoMoves DEF InPlace
  <2>3. CASE SetTarget(p, NoFile) /\ Goto(p, "rename") /\ UNCHANGED tmp
    <3>1. at'[p] = "rename" /\ \A q \in Procs \ {p} : at'[q] = at[q]
      BY <1>0, <2>3 DEF Goto, TypeOK
    <3>2. WriterOf(p)'
      BY <2>1, <2>3, <3>1 DEF TwoInv, WriterOf, Busy
    <3> QED BY <2>1, <2>3, <3>1, <3>2, TwoWrites, ConstantsTyped DEF InPlace
  <2> QED BY <1>3, <2>2, <2>3 DEF RemoveTarget
<1>4. CASE Rename(p)
  <2>1. at[p] = "rename" /\ tmp[p].there /\ tmp[p].data = arg[p].d
    BY <1>0, <1>4 DEF Rename, TwoInv, WriterOf, StoreInv, TempIsWholeBeforeSwap
  <2> DEFINE x == File(tmp[p].data, {})
  <2>2. SetTarget(p, x) /\ TempGone(p) /\ Returned(p)
    BY <1>4, <2>1 DEF Rename, TwoInv, TwoWriters
  <2>3. \A q \in Procs \ {p} : tmp'[q] = tmp[q]
    BY <1>0, <2>2 DEF TempGone, TypeOK
  <2>4. x \in FileType /\ x.there /\ x.data = arg[p].d /\ x.fds = {}
    BY <1>a, <2>1, FileTyped
  <2> HIDE DEF x
  <2> QED BY <1>r, <1>w, <2>1, <2>2, <2>3, <2>4, TwoWrites DEF InPlace
<1> QED BY <1>1, <1>2, <1>3, <1>4

LEMMA TwoInit == Init /\ TwoWriters => TwoInv
<1> SUFFICES ASSUME Init, TwoWriters PROVE TwoInv
  OBVIOUS
<1>1. StoreInv
  BY InitStoreInv
<1>2. PICK i \in [Machines -> Initial] :
        /\ dir = [m \in Machines |-> i[m] # "absent"]
        /\ file = [m \in Machines |-> [f \in Names |->
                     IF f = "cfg" THEN InitialFile(i[m]) ELSE NoFile]]
  BY DEF Init
<1>3. \A p \in Procs : at[p] = "idle"
  BY DEF Init
<1>4. ASSUME NEW m \in Machines PROVE ConfigOf(m)
  <2>1. i[m] = "current"
    BY DEF TwoWriters
  <2>2. file[m]["cfg"] = File([kind |-> "current", id |-> 0], {}) /\ dir[m]
    BY <1>2, <2>1 DEF InitialFile, Names
  <2> QED BY <2>2 DEF ConfigOf, File
<1>5. Apart /\ \A p \in Procs : WriterOf(p)
  BY <1>3 DEF Apart, InPlace, WriterOf, Busy
<1> QED BY <1>1, <1>4, <1>5 DEF TwoInv

LEMMA TwoStep == TwoInv /\ [Next]_vars => TwoInv'
<1> SUFFICES ASSUME TwoInv, [Next]_vars PROVE TwoInv'
  OBVIOUS
<1>1. StoreInv'
  BY StepStoreInv DEF TwoInv
<1>2. ASSUME NEW p \in Procs, Advance(p) PROVE TwoInv'
  <2>1. ~RemoveEntry(p) /\ ~RemoveDir(p)
    BY DEF RemoveEntry, RemoveDir, TwoInv, WriterOf, Busy
  <2> QED BY <1>1, <1>2, <2>1, TwoLook, TwoChange, Zenon DEF Advance
<1>3. ASSUME NEW p \in Procs, NEW m \in Machines, Save(p, m) \/ Load(p, m) \/ Remove(p, m)
      PROVE  TwoInv'
  <2>1. ~Remove(p, m)
    BY DEF Remove, TwoInv, TwoWriters
  <2> QED BY <1>1, <1>3, <2>1, TwoLook
<1>4. \A p \in Procs : ~Crash(p)
  BY DEF Crash, TwoInv, TwoWriters
<1>5. CASE UNCHANGED vars
  BY <1>1, <1>5 DEF TwoInv, vars, WriterOf, Busy, ConfigOf, Apart
<1> QED BY <1>2, <1>3, <1>4, <1>5 DEF Next

\* Two writers keep TwoInv: only they are busy, each with its own temporary
\* file, and config.json is whole, being written or being replaced by one of
\* them (filestore.go:33-58).
THEOREM TwoWritersInductive == Spec /\ TwoWriters => []TwoInv
BY TwoInit, TwoStep, PTL DEF Spec

\* Two processes save the same existing machine without a lock, any number load
\* it: when all have returned config.json is there and whole (filestore.go:33-58).
THEOREM QuietStoreWhole == Spec /\ TwoWriters => []QuietStoreIsWhole
<1>1. TwoInv => QuietStoreIsWhole
  <2> SUFFICES ASSUME TwoInv, Quiet, NEW m \in Machines
               PROVE  file[m]["cfg"].there /\ file[m]["cfg"].data.kind = "current"
    BY DEF QuietStoreIsWhole
  <2>1. file[m]["cfg"].fds = {}
    <3>1. file[m]["cfg"].fds \subseteq Procs
      BY DEF TwoInv, StoreInv, TypeOK, FileType, Names
    <3> QED BY <3>1 DEF TwoInv, StoreInv, DescriptorsInUse, Quiet, Names
  <2> QED BY <2>1 DEF TwoInv, ConfigOf, Quiet
<1> QED BY <1>1, TwoWritersInductive, PTL

\* While they do, a Load fails only when another process is inside Save
\* (filestore.go:110-123).
THEOREM LoadErrorsPass == Spec /\ TwoWriters => LoadErrorsAreTransient
<1>1. TwoInv /\ [Next]_vars =>
        [\A p \in Readers :
           (at[p] = "read" /\ at'[p] = "idle" /\ result'[p].kind # "ok")
              => \E q \in Procs \ {p} : at[q] \notin {"idle", "read"}]_vars
  <2> SUFFICES ASSUME TwoInv, Next, NEW p \in Readers, at[p] = "read", at'[p] = "idle",
                      result'[p].kind # "ok"
               PROVE  \E q \in Procs \ {p} : at[q] \notin {"idle", "read"}
    OBVIOUS
  <2>0. TypeOK /\ p \in Procs
    BY DEF TwoInv, StoreInv, Procs
  <2>1. ReadConfig(p)
    <3>1. \A q \in Procs \ {p} : \A m \in Machines : ~Save(q, m) /\ ~Load(q, m) /\ ~Remove(q, m)
      BY <2>0 DEF Save, Load, Remove, Goto, Answer, TypeOK
    <3>2. \A q \in Procs \ {p} : ~Advance(q)
      BY <2>0 DEF Advance, Stat, OpenInPlace, WriteInPlace, CreateTemp, WriteTemp, RemoveTarget,
           Rename, ReadConfig, RemoveEntry, RemoveDir, Goto, Answer, Failed, Returned, TypeOK
    <3>3. \A q \in Procs : ~Crash(q)
      BY DEF Crash, TwoInv, TwoWriters
    <3>4. \A m \in Machines : ~Save(p, m) /\ ~Load(p, m) /\ ~Remove(p, m)
      BY DEF Save, Load, Remove
    <3>5. Advance(p)
      BY <3>1, <3>2, <3>3, <3>4 DEF Next
    <3> QED BY <3>5 DEF Advance, Stat, OpenInPlace, WriteInPlace, CreateTemp, WriteTemp,
                 RemoveTarget, Rename, RemoveEntry, RemoveDir
  <2> DEFINE f == file[arg[p].m]["cfg"]
  <2>2. arg[p].m \in Machines /\ f \in FileType
    BY <2>0 DEF TypeOK, ArgType, Names
  <2>3. CASE ~f.there
    <3>1. PICK q \in Procs : at[q] = "rename"
      BY <2>2, <2>3 DEF TwoInv, ConfigOf
    <3> QED BY <3>1
  <2>4. CASE f.fds # {}
    <3>1. PICK q \in f.fds : q \in Procs /\ at[q] = "write"
      BY <2>2, <2>4 DEF TwoInv, StoreInv, DescriptorsInUse, FileType, Names
    <3> QED BY <3>1
  <2>5. CASE f.there /\ f.fds = {}
    <3>1. f.data.kind = "current"
      BY <2>2, <2>5 DEF TwoInv, ConfigOf
    <3>2. Reading(f) = "ok"
      BY <2>5, <3>1 DEF Reading, Whole
    <3> QED BY <2>0, <2>1, <3>2 DEF ReadConfig, Answer, TypeOK
  <2> QED BY <2>3, <2>4, <2>5
<1> QED BY <1>1, TwoWritersInductive, PTL DEF Spec, LoadErrorsAreTransient
-----------------------------------------------------------------------------
(* The system calls implement StoreSpec for one process that saves, one    *)
(* that removes and any number that load.                                  *)

OneEach ==
    /\ \A p, q \in Writers : p = q
    /\ \A p, q \in Removers : p = q
    /\ Faults = {} /\ Initial \subseteq {"absent", "current"}
    /\ Procs \cap Names = {}

\* Where p is; a Remove that has taken the temporary file of a Save about to
\* swap has yet to unlink the file that it would replace.
RoleOf(p) ==
    /\ at[p] = "read" => p \in Readers
    /\ at[p] = "rmdir" => p \in Removers
    /\ Busy(p) /\ at[p] # "rmdir" =>
          /\ p \in Writers /\ arg[p].then = "return" /\ arg[p].f = "cfg"
          /\ arg[p].d.kind = "current"
    /\ doomed[p] # {} => at[p] = "rmdir"
    /\ at[p] \in {"open", "rename"} => ~file[arg[p].m]["cfg"].there
    /\ at[p] = "unlink" /\ ~tmp[p].there /\ file[arg[p].m]["cfg"].there =>
          \E r \in Procs : arg[r].m = arg[p].m /\ "cfg" \in doomed[r]

\* The temporary files a Remove has listed are there, and if there is a
\* config.json then it has listed that too.
Lists(p) ==
    \A q \in doomed[p] \cap Procs :
        /\ tmp[q].there /\ arg[q].m = arg[p].m
        /\ file[arg[p].m]["cfg"].there => "cfg" \in doomed[p]

WholeOf(m) ==
    /\ file[m]["cfg"].there /\ file[m]["cfg"].fds = {} => file[m]["cfg"].data.kind = "current"
    /\ file[m]["cfg"].fds # {} => file[m]["cfg"].data = Empty

RefInv ==
    /\ OneEach /\ StoreInv
    /\ \A p \in Procs : RoleOf(p) /\ Lists(p)
    /\ \A m \in Machines : WholeOf(m)

\* The process inside Save is the only one there, and has the only temporary
\* file.
LEMMA OneSaver ==
    ASSUME RefInv, NEW p \in Procs, Busy(p), at[p] # "rmdir"
    PROVE  /\ p \in Writers /\ doomed[p] = {}
           /\ arg[p].m \in Machines /\ arg[p].f = "cfg" /\ arg[p].then = "return"
           /\ arg[p].d.kind = "current" /\ arg[p].d.id \in 0..MaxOps
           /\ \A q \in Procs \ {p} : at[q] \in {"idle", "read", "rmdir"} /\ ~tmp[q].there
           /\ \A q, r \in Procs : r \in doomed[q] => r = p /\ tmp[p].there /\ arg[q].m = arg[p].m
<1>0. TypeOK /\ StoreInv /\ \A q \in Procs : RoleOf(q) /\ Lists(q)
  BY DEF RefInv, StoreInv
<1>1. \A q \in Procs : Busy(q) /\ at[q] # "rmdir" => q = p
  BY <1>0 DEF RefInv, OneEach, RoleOf
<1>2. \A q \in Procs \ {p} : at[q] \in {"idle", "read", "rmdir"} /\ ~tmp[q].there
  BY <1>0, <1>1 DEF Busy, StoreInv, TempIsWholeBeforeSwap
<1>3. \A q, r \in Procs : r \in doomed[q] => r = p /\ tmp[p].there /\ arg[q].m = arg[p].m
  BY <1>0, <1>2 DEF Lists
<1>4. arg[p] \in ArgType
  BY <1>0 DEF TypeOK
<1>5. arg[p].m \in Machines /\ arg[p].d.id \in 0..MaxOps
  BY <1>4 DEF ArgType, Data
<1> QED BY <1>0, <1>2, <1>3, <1>5 DEF RoleOf

\* A process that is in no Save has no temporary file.
LEMMA NoTemp ==
    ASSUME RefInv, NEW p \in Procs, at[p] \in {"idle", "read", "rmdir"}
    PROVE  /\ ~tmp[p].there
           /\ \A q \in Procs : p \notin doomed[q]
           /\ at[p] # "rmdir" => doomed[p] = {}
BY DEF RefInv, StoreInv, TempIsWholeBeforeSwap, Lists, RoleOf

\* A step of the Save of p.
LEMMA SaverStep ==
    ASSUME RefInv, StoreInv', NEW p \in Procs, Busy(p), at[p] # "rmdir", arg' = arg,
           \A q \in Procs \ {p} : at'[q] = at[q] /\ tmp'[q] = tmp[q],
           \A q \in Procs : /\ doomed'[q] \subseteq doomed[q]
                            /\ "cfg" \in doomed[q] => "cfg" \in doomed'[q]
                            /\ p \in doomed'[q] =>
                                  /\ tmp'[p].there
                                  /\ file'[arg[p].m]["cfg"].there => file[arg[p].m]["cfg"].there,
           \A k \in Machines \ {arg[p].m} : file'[k] = file[k],
           \A k \in Machines : k = arg[p].m => WholeOf(k)',
           at'[p] \notin {"read", "rmdir"},
           at'[p] \in {"open", "rename"} => ~file'[arg[p].m]["cfg"].there,
           at'[p] = "unlink" => tmp'[p].there
    PROVE  RefInv'
<1>1. /\ p \in Writers /\ doomed[p] = {}
      /\ arg[p].m \in Machines /\ arg[p].f = "cfg" /\ arg[p].then = "return"
      /\ arg[p].d.kind = "current"
      /\ \A q \in Procs \ {p} : at[q] \in {"idle", "read", "rmdir"} /\ ~tmp[q].there
      /\ \A q, r \in Procs : r \in doomed[q] => r = p /\ tmp[p].there /\ arg[q].m = arg[p].m
  BY OneSaver
<1>2. \A q \in Procs : RoleOf(q)'
  <2>1. RoleOf(p)'
    BY <1>1 DEF RoleOf, Busy
  <2>2. \A q \in Procs \ {p} : RoleOf(q)'
    BY <1>1 DEF RefInv, RoleOf, Busy
  <2> QED BY <2>1, <2>2
<1>3. \A q \in Procs : Lists(q)'
  BY <1>1 DEF RefInv, Lists
<1>4. \A m \in Machines : WholeOf(m)'
  BY DEF RefInv, WholeOf
<1> QED BY <1>2, <1>3, <1>4 DEF RefInv, OneEach

\* A step that leaves the files alone, of a process outside Save.
LEMMA CallStep ==
    ASSUME RefInv, StoreInv', NEW p \in Procs, at[p] \in {"idle", "read", "rmdir"},
           file' = file, tmp' = tmp, doomed[p] = {},
           \A q \in Procs \ {p} : at'[q] = at[q] /\ arg'[q] = arg[q] /\ doomed'[q] = doomed[q],
           at'[p] \in {"idle", "stat", "read", "rmdir"},
           at'[p] = "read" => p \in Readers,
           at'[p] = "stat" => /\ p \in Writers /\ arg'[p].then = "return" /\ arg'[p].f = "cfg"
                              /\ arg'[p].d.kind = "current",
           at'[p] = "rmdir" => p \in Removers,
           doomed'[p] # {} => at'[p] = "rmdir",
           \A q \in doomed'[p] \cap Procs :
              /\ tmp[q].there /\ arg[q].m = arg'[p].m
              /\ file[arg'[p].m]["cfg"].there => "cfg" \in doomed'[p]
    PROVE  RefInv'
<1>1. ~tmp[p].there /\ \A q \in Procs : p \notin doomed[q]
  BY NoTemp
<1>2. \A q \in Procs : RoleOf(q)'
  <2>1. RoleOf(p)'
    BY DEF RoleOf, Busy
  <2>2. \A q \in Procs \ {p} : RoleOf(q)'
    BY DEF RefInv, RoleOf, Busy
  <2> QED BY <2>1, <2>2
<1>3. \A q \in Procs : Lists(q)'
  <2>1. Lists(p)'
    BY <1>1 DEF Lists
  <2>2. \A q \in Procs \ {p} : Lists(q)'
    BY <1>1 DEF RefInv, Lists
  <2> QED BY <2>1, <2>2
<1>4. \A m \in Machines : WholeOf(m)'
  BY DEF RefInv, WholeOf
<1> QED BY <1>2, <1>3, <1>4 DEF RefInv, OneEach
-----------------------------------------------------------------------------
(* The steps of the abstract store, from what becomes of each process and  *)
(* each machine.                                                           *)

CallsKept(p) == \A q \in Procs \ {p} : CallOf(q)' = CallOf(q)
AnswersKept(p) == \A q \in Procs \ {p} : AnswerOf(q)' = AnswerOf(q)
StoreKept(m) == \A k \in Machines \ {m} : InEffect(k)' = InEffect(k)
AllAnswersKept == \A q \in Procs : AnswerOf(q)' = AnswerOf(q)
AllStoreKept == \A k \in Machines : InEffect(k)' = InEffect(k)
AllCallsKept == \A q \in Procs : CallOf(q)' = CallOf(q)

AbstractStep == [Abstract!Next]_(Abstract!vars)

LEMMA Stutter ==
    ASSUME AllCallsKept, AllAnswersKept, AllStoreKept, committed' = committed
    PROVE  AbstractStep
BY DEF AbstractStep, Abstract!vars, AllCallsKept, AllAnswersKept, AllStoreKept

LEMMA DoBeginSave ==
    ASSUME NEW p \in Writers, NEW m \in Machines, NEW i \in 1..MaxOps,
           CallsKept(p), AllAnswersKept, AllStoreKept, committed' = committed,
           CallOf(p) = [phase |-> "idle"],
           CallOf(p)' = [phase |-> "saving", m |-> m, i |-> i]
    PROVE  AbstractStep
<1>0. p \in Procs
  BY DEF Procs
<1>1. Abstract!BeginSave(p, m, i)
  BY <1>0 DEF Abstract!BeginSave, Abstract!Idle, Abstract!Call, CallsKept,
              AllAnswersKept, AllStoreKept
<1> QED BY <1>0, <1>1 DEF AbstractStep, Abstract!Next, Abstract!Procs, Procs

LEMMA DoInstall ==
    ASSUME NEW p \in Procs, NEW m \in Machines, NEW i,
           CallsKept(p), AllAnswersKept, StoreKept(m), committed' = committed,
           CallOf(p) = [phase |-> "saving", m |-> m, i |-> i],
           CallOf(p)' = [phase |-> "saved", m |-> m, i |-> i],
           \/ InEffect(m)' = i
           \/ /\ InEffect(m)' = MaxOps + 1
              /\ \E q \in Procs : CallOf(q) = [phase |-> "removing", m |-> m, i |-> 0]
    PROVE  AbstractStep
<1>1. Abstract!Install(p)
  <2>0. CallOf(p).phase = "saving" /\ CallOf(p).m = m /\ CallOf(p).i = i
    OBVIOUS
  <2>1. [q \in Procs |-> CallOf(q)]' =
           [[q \in Procs |-> CallOf(q)] EXCEPT ![p].phase = "saved"]
    <3>1. CallOf(p)' = [CallOf(p) EXCEPT !.phase = "saved"]
      OBVIOUS
    <3> QED BY <3>1 DEF CallsKept
  <2>2. [k \in Machines |-> InEffect(k)]' =
           [[k \in Machines |-> InEffect(k)] EXCEPT ![m] = InEffect(m)']
    BY DEF StoreKept
  <2>3. [q \in Procs |-> AnswerOf(q)]' = [q \in Procs |-> AnswerOf(q)]
    BY DEF AllAnswersKept
  <2> QED BY <2>0, <2>1, <2>2, <2>3 DEF Abstract!Install, Abstract!Call, Abstract!None, Abstract!Procs, Procs
<1> QED BY <1>1 DEF AbstractStep, Abstract!Next, Abstract!Procs, Procs

LEMMA DoReturnNil ==
    ASSUME NEW p \in Procs, NEW m \in Machines, NEW i,
           CallsKept(p), AllAnswersKept, AllStoreKept,
           committed' = [committed EXCEPT ![m] = i],
           CallOf(p) = [phase |-> "saved", m |-> m, i |-> i],
           CallOf(p)' = [phase |-> "idle"]
    PROVE  AbstractStep
<1>0. CallOf(p).phase = "saved" /\ CallOf(p).m = m /\ CallOf(p).i = i
  OBVIOUS
<1>1. Abstract!ReturnNil(p)
  BY <1>0 DEF Abstract!ReturnNil, Abstract!Idle, CallsKept, AllAnswersKept, AllStoreKept
<1> QED BY <1>1 DEF AbstractStep, Abstract!Next, Abstract!Procs, Procs

LEMMA DoReturnError ==
    ASSUME NEW p \in Procs, NEW m \in Machines, NEW i, NEW ph \in {"saving", "saved"},
           CallsKept(p), AllAnswersKept, AllStoreKept,
           committed' = committed \/ committed' = [committed EXCEPT ![m] = 0],
           CallOf(p) = [phase |-> ph, m |-> m, i |-> i], InEffect(m) # i,
           CallOf(p)' = [phase |-> "idle"]
    PROVE  AbstractStep
<1>0. CallOf(p).phase = ph /\ CallOf(p).m = m /\ CallOf(p).i = i
  OBVIOUS
<1>1. Abstract!ReturnError(p)
  BY <1>0 DEF Abstract!ReturnError, Abstract!Idle, CallsKept, AllAnswersKept, AllStoreKept
<1> QED BY <1>1 DEF AbstractStep, Abstract!Next, Abstract!Procs, Procs

LEMMA DoBeginRemove ==
    ASSUME NEW p \in Removers, NEW m \in Machines,
           CallsKept(p), AllAnswersKept, AllStoreKept,
           committed' = [committed EXCEPT ![m] = 0],
           CallOf(p) = [phase |-> "idle"],
           CallOf(p)' = [phase |-> "removing", m |-> m, i |-> 0]
    PROVE  AbstractStep
<1>0. p \in Procs
  BY DEF Procs
<1>1. Abstract!BeginRemove(p, m)
  BY <1>0 DEF Abstract!BeginRemove, Abstract!Idle, Abstract!Call, CallsKept,
              AllAnswersKept, AllStoreKept
<1> QED BY <1>0, <1>1 DEF AbstractStep, Abstract!Next, Abstract!Procs, Procs

LEMMA DoErase ==
    ASSUME NEW p \in Procs, NEW m \in Machines,
           AllCallsKept, AllAnswersKept, StoreKept(m),
           committed' = [committed EXCEPT ![m] = 0],
           CallOf(p) = [phase |-> "removing", m |-> m, i |-> 0],
           InEffect(m)' = MaxOps + 1 \/ InEffect(m)' = InEffect(m)
    PROVE  AbstractStep
<1>1. Abstract!Erase(p)
  <2>0. CallOf(p).phase = "removing" /\ CallOf(p).m = m
    OBVIOUS
  <2>1. [q \in Procs |-> CallOf(q)]' = [q \in Procs |-> CallOf(q)]
    BY DEF AllCallsKept
  <2>2. [k \in Machines |-> InEffect(k)]' =
           [[k \in Machines |-> InEffect(k)] EXCEPT ![m] = InEffect(m)']
    BY DEF StoreKept
  <2>3. [q \in Procs |-> AnswerOf(q)]' = [q \in Procs |-> AnswerOf(q)]
    BY DEF AllAnswersKept
  <2>4. InEffect(m)' = InEffect(m) =>
           [k \in Machines |-> InEffect(k)]' = [k \in Machines |-> InEffect(k)]
    BY DEF StoreKept
  <2> QED BY <2>0, <2>1, <2>2, <2>3, <2>4 DEF Abstract!Erase, Abstract!None
<1> QED BY <1>1 DEF AbstractStep, Abstract!Next, Abstract!Procs, Procs

LEMMA DoEndRemove ==
    ASSUME NEW p \in Procs, NEW m \in Machines,
           CallsKept(p), AllAnswersKept, AllStoreKept, committed' = committed,
           CallOf(p) = [phase |-> "removing", m |-> m, i |-> 0],
           CallOf(p)' = [phase |-> "idle"]
    PROVE  AbstractStep
<1>0. CallOf(p).phase = "removing"
  OBVIOUS
<1>1. Abstract!EndRemove(p)
  BY <1>0 DEF Abstract!EndRemove, Abstract!Idle, CallsKept, AllAnswersKept, AllStoreKept
<1> QED BY <1>1 DEF AbstractStep, Abstract!Next, Abstract!Procs, Procs

LEMMA DoLoad ==
    ASSUME NEW p \in Readers, NEW m \in Machines,
           AllCallsKept, AnswersKept(p), AllStoreKept, committed' = committed,
           CallOf(p) = [phase |-> "idle"],
           \/ InEffect(m) # MaxOps + 1 /\ AnswerOf(p)' = InEffect(m)
           \/ /\ AnswerOf(p)' = MaxOps + 1
              /\ \/ InEffect(m) = MaxOps + 1
                 \/ \E q \in Procs : CallOf(q) # [phase |-> "idle"] /\ CallOf(q).m = m
    PROVE  AbstractStep
<1>0. p \in Procs
  BY DEF Procs
<1>1. Abstract!Load(p, m)
  <2>1. [q \in Procs |-> CallOf(q)]' = [q \in Procs |-> CallOf(q)]
    BY DEF AllCallsKept
  <2>2. [k \in Machines |-> InEffect(k)]' = [k \in Machines |-> InEffect(k)]
    BY DEF AllStoreKept
  <2>3. [q \in Procs |-> AnswerOf(q)]' =
           [[q \in Procs |-> AnswerOf(q)] EXCEPT ![p] = AnswerOf(p)']
    BY DEF AnswersKept
  <2> QED BY <1>0, <2>1, <2>2, <2>3 DEF Abstract!Load, Abstract!None, Abstract!Idle, Abstract!Busy,
             Abstract!Procs, Procs
<1> QED BY <1>0, <1>1 DEF AbstractStep, Abstract!Next, Abstract!Procs, Procs
-----------------------------------------------------------------------------
(* What is in effect, and what the other processes keep.                   *)

\* Save p has taken effect and its configuration is not yet at the path.
Pending(p, m) ==
    /\ arg[p].m = m
    /\ \/ at[p] = "write" /\ p \in file[m]["cfg"].fds
       \/ at[p] = "rename" /\ tmp[p].there /\ ~file[m]["cfg"].there

AtPath(m) == IF file[m]["cfg"].there THEN file[m]["cfg"].data.id ELSE MaxOps + 1

\* InEffect of one machine, with the processes that are Pending given.
EffectOf(pending, a, otherwise) ==
    IF pending # {} THEN a[CHOOSE p \in pending : TRUE].d.id ELSE otherwise

LEMMA EffectOfOne ==
    ASSUME NEW P, NEW a, NEW z, \A p, q \in P : p = q
    PROVE  /\ \A p \in P : EffectOf(P, a, z) = a[p].d.id
           /\ P = {} => EffectOf(P, a, z) = z
<1>1. ASSUME NEW p \in P PROVE EffectOf(P, a, z) = a[p].d.id
  <2>1. (CHOOSE q \in P : TRUE) \in P
    OBVIOUS
  <2>2. (CHOOSE q \in P : TRUE) = p
    BY <2>1
  <2> QED BY <2>2 DEF EffectOf
<1>2. P = {} => EffectOf(P, a, z) = z
  BY DEF EffectOf
<1> QED BY <1>1, <1>2

LEMMA EffectNow ==
    ASSUME RefInv, NEW m \in Machines
    PROVE  /\ \A p \in Procs : Pending(p, m) => InEffect(m) = arg[p].d.id
           /\ (\A p \in Procs : ~Pending(p, m)) => InEffect(m) = AtPath(m)
<1> DEFINE P == {p \in Procs : Pending(p, m)}
<1>1. InEffect(m) = EffectOf(P, arg, AtPath(m))
  BY DEF InEffect, EffectOf, Pending, AtPath
<1>2. \A p, q \in P : p = q
  BY DEF RefInv, RoleOf, OneEach, Pending, Busy
<1>3. \A p \in P : EffectOf(P, arg, AtPath(m)) = arg[p].d.id
  BY <1>2, EffectOfOne
<1>4. P = {} => EffectOf(P, arg, AtPath(m)) = AtPath(m)
  BY <1>2, EffectOfOne
<1> QED BY <1>1, <1>3, <1>4

LEMMA EffectNext ==
    ASSUME RefInv', NEW m \in Machines
    PROVE  /\ \A p \in Procs : Pending(p, m)' => InEffect(m)' = arg'[p].d.id
           /\ (\A p \in Procs : ~Pending(p, m)') => InEffect(m)' = AtPath(m)'
<1> DEFINE P == {p \in Procs : Pending(p, m)'}
<1>1. InEffect(m)' = EffectOf(P, arg', AtPath(m)')
  BY DEF InEffect, EffectOf, Pending, AtPath
<1>2. \A p, q \in P : p = q
  BY DEF RefInv, RoleOf, OneEach, Pending, Busy
<1>3. \A p \in P : EffectOf(P, arg', AtPath(m)') = arg'[p].d.id
  BY <1>2, EffectOfOne
<1>4. P = {} => EffectOf(P, arg', AtPath(m)') = AtPath(m)'
  BY <1>2, EffectOfOne
<1> QED BY <1>1, <1>3, <1>4

\* The effect on a machine stays when its config.json and its pending Saves do.
LEMMA EffectSame ==
    ASSUME RefInv, RefInv', NEW m \in Machines, file'[m]["cfg"] = file[m]["cfg"],
           \A p \in Procs : \/ ~Pending(p, m) /\ ~Pending(p, m)'
                            \/ Pending(p, m) /\ Pending(p, m)' /\ arg'[p] = arg[p]
    PROVE  InEffect(m)' = InEffect(m)
<1>1. AtPath(m)' = AtPath(m)
  BY DEF AtPath
<1> QED BY <1>1, EffectNow, EffectNext

LEMMA OtherCalls ==
    ASSUME NEW p \in Procs,
           \A q \in Procs \ {p} : at'[q] = at[q] /\ arg'[q] = arg[q]
    PROVE  CallsKept(p)
BY DEF CallsKept, CallOf, Phase

LEMMA SameAnswers ==
    ASSUME result' = result
    PROVE  AllAnswersKept
BY DEF AllAnswersKept, AnswerOf

\* A Load that finds no whole config.json runs beside a Save or a Remove, or
\* the machine has no configuration.
LEMMA LoadExcused ==
    ASSUME RefInv, NEW m \in Machines,
           ~(file[m]["cfg"].there /\ file[m]["cfg"].data.kind = "current")
    PROVE  \/ InEffect(m) = MaxOps + 1
           \/ \E q \in Procs : CallOf(q) # [phase |-> "idle"] /\ CallOf(q).m = m
<1>0. TypeOK /\ StoreInv /\ WholeOf(m)
  BY DEF RefInv, StoreInv
<1>1. ASSUME NEW q \in Procs, at[q] \in {"write", "rename"}, arg[q].m = m
      PROVE  CallOf(q) # [phase |-> "idle"] /\ CallOf(q).m = m
  <2>1. CallOf(q) = [phase |-> "saved", m |-> m, i |-> arg[q].d.id]
    BY <1>1 DEF CallOf, Phase
  <2> QED BY <2>1
<1>2. CASE \E q \in Procs : Pending(q, m)
  BY <1>1, <1>2 DEF Pending
<1>3. CASE file[m]["cfg"].fds # {}
  <2>1. PICK q \in file[m]["cfg"].fds : TRUE
    BY <1>3
  <2>2. q \in Procs /\ at[q] = "write" /\ arg[q].m = m
    BY <1>0, <2>1 DEF StoreInv, TypeOK, DescriptorsInUse, FileType, Names
  <2> QED BY <1>1, <2>2
<1>4. CASE ~file[m]["cfg"].there /\ \A q \in Procs : ~Pending(q, m)
  <2>1. InEffect(m) = AtPath(m)
    BY <1>4, EffectNow
  <2> QED BY <1>4, <2>1 DEF AtPath
<1>5. file[m]["cfg"].there => file[m]["cfg"].fds # {}
  BY <1>0 DEF WholeOf
<1> QED BY <1>2, <1>3, <1>4, <1>5

LEMMA CallEffects ==
    ASSUME RefInv, RefInv', NEW p \in Procs, at[p] \in {"idle", "read", "rmdir"},
           at'[p] \in {"idle", "stat", "read", "rmdir"}, file' = file, tmp' = tmp,
           \A q \in Procs \ {p} : at'[q] = at[q] /\ arg'[q] = arg[q]
    PROVE  AllStoreKept /\ CallsKept(p)
<1>1. ASSUME NEW m \in Machines PROVE InEffect(m)' = InEffect(m)
  <2>1. \A q \in Procs : \/ ~Pending(q, m) /\ ~Pending(q, m)'
                         \/ Pending(q, m) /\ Pending(q, m)' /\ arg'[q] = arg[q]
    BY DEF Pending
  <2> QED BY <2>1, EffectSame
<1> QED BY <1>1, OtherCalls DEF AllStoreKept

\* Save, Load and Remove are called.
LEMMA RefBegin ==
    ASSUME RefInv, StoreInv', NEW p \in Procs, NEW n \in Machines,
           Save(p, n) \/ Load(p, n) \/ Remove(p, n)
    PROVE  RefInv' /\ AbstractStep
<1>0. TypeOK /\ StoreInv
  BY DEF RefInv, StoreInv
<1>1. /\ at[p] = "idle" /\ file' = file /\ tmp' = tmp /\ doomed[p] = {}
      /\ CallOf(p) = [phase |-> "idle"]
  BY DEF Save, Load, Remove, RefInv, RoleOf, CallOf, Phase
<1>2. /\ \A q \in Procs \ {p} : at'[q] = at[q] /\ arg'[q] = arg[q] /\ doomed'[q] = doomed[q]
      /\ arg'[p].m = n
  BY <1>0 DEF Save, Load, Remove, Goto, Answer, TypeOK, ArgType
<1>3. CASE Save(p, n)
  <2>1. /\ p \in Writers /\ at'[p] = "stat" /\ doomed'[p] = {}
        /\ arg'[p] = [m |-> n, f |-> "cfg", then |-> "return",
                      d |-> [kind |-> "current", id |-> ops']]
    BY <1>0, <1>1, <1>3 DEF Save, Goto, TypeOK
  <2>2. RefInv'
    BY <1>1, <1>2, <2>1, CallStep
  <2>3. AllStoreKept /\ CallsKept(p) /\ AllAnswersKept /\ committed' = committed
    BY <1>1, <1>2, <1>3, <2>1, <2>2, CallEffects, SameAnswers DEF Save
  <2>4. CallOf(p)' = [phase |-> "saving", m |-> n, i |-> ops']
    BY <2>1 DEF CallOf, Phase
  <2>5. ops' \in 1..MaxOps
    BY <1>0, <1>3, StoreAssumption DEF Save, TypeOK
  <2> QED BY <1>1, <2>1, <2>2, <2>3, <2>4, <2>5, DoBeginSave
<1>4. CASE Load(p, n)
  <2>1. /\ p \in Readers /\ at'[p] \in {"idle", "read"} /\ doomed'[p] = {}
    BY <1>0, <1>1, <1>4 DEF Load, Goto, Answer, TypeOK
  <2>2. RefInv'
    BY <1>1, <1>2, <2>1, CallStep
  <2>3. AllStoreKept /\ CallsKept(p) /\ committed' = committed
    BY <1>1, <1>2, <1>4, <2>1, <2>2, CallEffects DEF Load
  <2>4. CallOf(p)' = [phase |-> "idle"] /\ AllCallsKept
    BY <1>1, <2>1, <2>3 DEF CallOf, Phase, AllCallsKept, CallsKept
  <2>5. CASE UNCHANGED result
    BY <2>2, <2>3, <2>4, <2>5, SameAnswers, Stutter
  <2>6. CASE ~dir[n] /\ Answer(p, "notexist", 0)
    <3>1. ~file[n]["cfg"].there
      BY <1>0, <2>6 DEF StoreInv, FilesHaveDirectory, InDirectory, Names
    <3>2. result'[p].kind = "notexist" /\ \A q \in Procs \ {p} : result'[q] = result[q]
      BY <1>0, <2>6 DEF Answer, TypeOK
    <3>3. AnswerOf(p)' = MaxOps + 1 /\ AnswersKept(p)
      BY <3>2 DEF AnswerOf, AnswersKept
    <3> QED BY <1>1, <2>1, <2>2, <2>3, <2>4, <3>1, <3>3, LoadExcused, DoLoad
  <2> QED BY <1>4, <2>5, <2>6 DEF Load
<1>5. CASE Remove(p, n)
  <2>1. /\ p \in Removers /\ at'[p] = "rmdir" /\ result' = result
        /\ committed' = [committed EXCEPT ![n] = 0]
        /\ doomed'[p] = {f \in Names : file[n][f].there}
                        \cup {q \in Procs : arg[q].m = n /\ tmp[q].there}
    BY <1>0, <1>5 DEF Remove, Goto, TypeOK
  <2>2. Procs \cap Names = {} /\ "cfg" \in Names
    BY DEF RefInv, OneEach, Names
  <2>3. RefInv'
    BY <1>1, <1>2, <2>1, <2>2, CallStep
  <2>4. AllStoreKept /\ CallsKept(p) /\ AllAnswersKept
    BY <1>1, <1>2, <2>1, <2>3, CallEffects, SameAnswers
  <2>5. CallOf(p)' = [phase |-> "removing", m |-> n, i |-> 0]
    BY <1>2, <2>1 DEF CallOf, Phase
  <2> QED BY <1>1, <2>1, <2>3, <2>4, <2>5, DoBeginRemove
<1> QED BY <1>3, <1>4, <1>5

\* Load reads config.json; Remove has unlinked all that it listed.
LEMMA RefEnd ==
    ASSUME RefInv, StoreInv', NEW p \in Procs, ReadConfig(p) \/ RemoveDir(p)
    PROVE  RefInv' /\ AbstractStep
<1>0. TypeOK /\ StoreInv
  BY DEF RefInv, StoreInv
<1>1. /\ arg[p] \in ArgType /\ arg[p].m \in Machines
      /\ file[arg[p].m]["cfg"] \in FileType
  BY <1>0 DEF TypeOK, ArgType, Names
<1>2. CASE ReadConfig(p)
  <2> DEFINE m == arg[p].m
             f == file[m]["cfg"]
  <2>1. at[p] = "read" /\ p \in Readers /\ doomed[p] = {} /\ CallOf(p) = [phase |-> "idle"]
    BY <1>2 DEF ReadConfig, RefInv, RoleOf, CallOf, Phase
  <2>2. f.there /\ f.data.kind # "current" => f.data = Empty
    BY <1>1 DEF RefInv, WholeOf
  <2>3. Reading(f) \in {"readerr", "badjson", "ok"}
        /\ (Reading(f) = "ok" <=> f.there /\ f.data.kind = "current")
    <3>1. CASE ~f.there
      BY <3>1 DEF Reading
    <3>2. CASE f.there /\ f.data.kind = "current"
      BY <3>2 DEF Reading, Whole
    <3>3. CASE f.there /\ f.data.kind # "current"
      <4>1. f.data.kind = "empty"
        BY <2>2, <3>3 DEF Empty
      <4> QED BY <3>3, <4>1 DEF Reading, Whole
    <3> QED BY <3>1, <3>2, <3>3
  <2>4. Answer(p, Reading(f), f.data.id) /\ UNCHANGED <<dir, arg, file, tmp, doomed, committed>>
    BY <1>2, <2>3 DEF ReadConfig
  <2>5. /\ at'[p] = "idle" /\ \A q \in Procs \ {p} : at'[q] = at[q] /\ result'[q] = result[q]
        /\ result'[p] = [kind |-> Reading(f), id |-> f.data.id]
    BY <1>0, <2>4 DEF Answer, Goto, TypeOK
  <2>6. RefInv'
    BY <2>1, <2>4, <2>5, CallStep
  <2>7. AllStoreKept /\ CallsKept(p)
    BY <2>1, <2>4, <2>5, <2>6, CallEffects
  <2>8. CallOf(p)' = [phase |-> "idle"] /\ AllCallsKept /\ AnswersKept(p)
    BY <2>1, <2>5, <2>7 DEF CallOf, Phase, AllCallsKept, CallsKept, AnswersKept, AnswerOf
  <2>9. CASE Reading(f) = "ok"
    <3>1. f.there /\ f.fds = {}
      BY <1>1, <2>3, <2>9 DEF RefInv, WholeOf, Empty
    <3>2. InEffect(m) = f.data.id
      <4>1. \A q \in Procs : ~Pending(q, m)
        BY <3>1 DEF Pending
      <4> QED BY <1>1, <3>1, <4>1, EffectNow DEF AtPath
    <3>3. f.data.id \in 0..MaxOps
      BY <1>1 DEF FileType, Data
    <3>4. InEffect(m) # MaxOps + 1
      BY <3>2, <3>3, StoreAssumption
    <3>5. AnswerOf(p)' = InEffect(m)
      BY <2>5, <2>9, <3>2 DEF AnswerOf
    <3> HIDE DEF m
    <3> QED BY <1>1, <2>1, <2>4, <2>6, <2>7, <2>8, <3>4, <3>5, DoLoad DEF m
  <2>10. CASE Reading(f) # "ok"
    <3>1. AnswerOf(p)' = MaxOps + 1
      BY <2>5, <2>10 DEF AnswerOf
    <3> QED BY <1>1, <2>1, <2>3, <2>4, <2>6, <2>7, <2>8, <2>10, <3>1, LoadExcused, DoLoad
  <2> QED BY <2>9, <2>10
<1>3. CASE RemoveDir(p)
  <2>1. /\ at[p] = "rmdir" /\ doomed[p] = {} /\ UNCHANGED <<file, tmp, arg, doomed, result, committed>>
        /\ at'[p] = "idle" /\ \A q \in Procs \ {p} : at'[q] = at[q]
    BY <1>0, <1>3 DEF RemoveDir, Goto, TypeOK
  <2>2. RefInv'
    BY <2>1, CallStep
  <2>3. AllStoreKept /\ CallsKept(p) /\ AllAnswersKept
    BY <2>1, <2>2, CallEffects, SameAnswers
  <2>4. CallOf(p) = [phase |-> "removing", m |-> arg[p].m, i |-> 0]
        /\ CallOf(p)' = [phase |-> "idle"]
    BY <2>1 DEF CallOf, Phase
  <2> QED BY <1>1, <2>1, <2>2, <2>3, <2>4, DoEndRemove
<1> QED BY <1>2, <1>3

\* What a step of the Save of p leaves alone.
LEMMA SaverEffects ==
    ASSUME RefInv, RefInv', NEW p \in Procs, arg' = arg, result' = result,
           \A q \in Procs \ {p} : at'[q] = at[q] /\ tmp'[q] = tmp[q],
           \A k \in Machines \ {arg[p].m} : file'[k] = file[k]
    PROVE  StoreKept(arg[p].m) /\ CallsKept(p) /\ AllAnswersKept
<1>1. ASSUME NEW k \in Machines \ {arg[p].m} PROVE InEffect(k)' = InEffect(k)
  <2>1. \A q \in Procs : \/ ~Pending(q, k) /\ ~Pending(q, k)'
                         \/ Pending(q, k) /\ Pending(q, k)' /\ arg'[q] = arg[q]
    BY DEF Pending
  <2> QED BY <2>1, EffectSame
<1>2. StoreKept(arg[p].m)
  BY <1>1 DEF StoreKept
<1> QED BY <1>2, OtherCalls, SameAnswers

\* saveToFile looks at the path and fills its temporary file.
LEMMA RefPrepare ==
    ASSUME RefInv, StoreInv', NEW p \in Procs, at[p] \in {"stat", "temp", "fill"},
           UNCHANGED <<arg, file, result, doomed, committed>>,
           at'[p] \in {"open", "temp", "fill", "unlink"},
           \A q \in Procs \ {p} : at'[q] = at[q] /\ tmp'[q] = tmp[q],
           tmp[p].there => tmp'[p].there,
           at'[p] = "open" => ~file[arg[p].m]["cfg"].there,
           at'[p] = "unlink" => tmp'[p].there
    PROVE  RefInv' /\ AbstractStep
<1>1. Busy(p) /\ at[p] # "rmdir"
  BY DEF Busy
<1>2. arg[p].m \in Machines /\ \A q \in Procs : p \in doomed[q] => tmp[p].there
  BY <1>1, OneSaver
<1>3. \A k \in Machines : k = arg[p].m => WholeOf(k)'
  BY DEF RefInv, WholeOf
<1>4. RefInv'
  BY <1>1, <1>2, <1>3, SaverStep
<1>5. StoreKept(arg[p].m) /\ CallsKept(p) /\ AllAnswersKept
  BY <1>4, SaverEffects
<1>6. InEffect(arg[p].m)' = InEffect(arg[p].m)
  <2> SUFFICES ASSUME NEW k \in Machines, k = arg[p].m PROVE InEffect(k)' = InEffect(k)
    BY <1>2
  <2>1. \A q \in Procs : \/ ~Pending(q, k) /\ ~Pending(q, k)'
                         \/ Pending(q, k) /\ Pending(q, k)' /\ arg'[q] = arg[q]
    BY DEF Pending
  <2> QED BY <1>4, <2>1, EffectSame
<1>7. AllStoreKept
  BY <1>5, <1>6 DEF StoreKept, AllStoreKept
<1>8. CallOf(p)' = CallOf(p)
  BY DEF CallOf, Phase
<1>9. AllCallsKept
  BY <1>5, <1>8 DEF CallsKept, AllCallsKept
<1> QED BY <1>4, <1>5, <1>7, <1>9, Stutter

\* saveToFile returns an error, with no config.json at the path.
LEMMA RefFail ==
    ASSUME RefInv, StoreInv', NEW p \in Procs,
           at[p] \in {"open", "temp", "fill", "unlink", "rename"},
           Failed(p), UNCHANGED <<arg, file>>,
           ~file[arg[p].m]["cfg"].there, at[p] = "rename" => ~tmp[p].there,
           committed' = committed \/ committed' = [committed EXCEPT ![arg[p].m] = 0]
    PROVE  RefInv' /\ AbstractStep
<1>0. TypeOK
  BY DEF RefInv, StoreInv
<1>1. Busy(p) /\ at[p] # "rmdir"
  BY DEF Busy
<1>2. /\ arg[p].m \in Machines /\ arg[p].then = "return" /\ arg[p].d.id \in 0..MaxOps
      /\ \A q \in Procs \ {p} : at[q] \in {"idle", "read", "rmdir"}
  BY <1>1, OneSaver
<1>3. /\ at'[p] = "idle" /\ result' = result
      /\ \A q \in Procs \ {p} : at'[q] = at[q] /\ tmp'[q] = tmp[q]
      /\ \A q \in Procs : doomed'[q] = doomed[q] \ {p}
  BY <1>0, <1>2 DEF Failed, TempGone, Goto, TypeOK
<1>4. "cfg" # p
  BY DEF RefInv, OneEach, Names
<1>5. \A k \in Machines : k = arg[p].m => WholeOf(k)'
  BY DEF RefInv, WholeOf
<1>6. RefInv'
  BY <1>1, <1>3, <1>4, <1>5, SaverStep
<1>7. StoreKept(arg[p].m) /\ CallsKept(p) /\ AllAnswersKept
  BY <1>3, <1>6, SaverEffects
<1>8. ASSUME NEW k \in Machines, k = arg[p].m
      PROVE  InEffect(k) = MaxOps + 1 /\ InEffect(k)' = MaxOps + 1
  <2>1. \A q \in Procs : ~Pending(q, k) /\ ~Pending(q, k)'
    BY <1>2, <1>3, <1>8 DEF Pending
  <2>2. AtPath(k) = MaxOps + 1 /\ AtPath(k)' = MaxOps + 1
    BY <1>8 DEF AtPath
  <2> QED BY <1>6, <2>1, <2>2, EffectNow, EffectNext
<1>9. AllStoreKept
  BY <1>2, <1>7, <1>8 DEF StoreKept, AllStoreKept
<1>10. InEffect(arg[p].m) # arg[p].d.id
  BY <1>2, <1>8, StoreAssumption
<1>11. /\ CallOf(p)' = [phase |-> "idle"]
       /\ \E ph \in {"saving", "saved"} :
             CallOf(p) = [phase |-> ph, m |-> arg[p].m, i |-> arg[p].d.id]
  BY <1>3 DEF CallOf, Phase
<1> QED BY <1>2, <1>6, <1>7, <1>9, <1>10, <1>11, DoReturnError

LEMMA RefSaver ==
    ASSUME RefInv, StoreInv', NEW p \in Procs,
           Stat(p) \/ CreateTemp(p) \/ WriteTemp(p)
    PROVE  RefInv' /\ AbstractStep
<1>0. TypeOK /\ StoreInv
  BY DEF RefInv, StoreInv
<1>1. Busy(p) /\ at[p] # "rmdir"
  BY DEF Busy, Stat, CreateTemp, WriteTemp
<1>2. arg[p].m \in Machines /\ arg[p].f = "cfg" /\ arg[p].d \in Data
  BY <1>0, <1>1, OneSaver DEF TypeOK, ArgType
<1>3. CASE Stat(p)
  <2>1. /\ at[p] = "stat" /\ UNCHANGED <<arg, file, tmp, result, doomed, committed>>
        /\ at'[p] \in {"open", "temp"}
        /\ at'[p] = "open" => ~file[arg[p].m]["cfg"].there
        /\ \A q \in Procs \ {p} : at'[q] = at[q]
    BY <1>0, <1>2, <1>3 DEF Stat, Goto, TypeOK, Target
  <2> QED BY <2>1, RefPrepare
<1>4. CASE CreateTemp(p) \/ WriteTemp(p)
  <2>1. CASE ~dir[arg[p].m] /\ Failed(p)
    <3>1. ~file[arg[p].m]["cfg"].there
      BY <1>0, <1>2, <2>1 DEF StoreInv, FilesHaveDirectory, InDirectory, Names
    <3> QED BY <1>4, <2>1, <3>1, RefFail DEF CreateTemp, WriteTemp
  <2>2. CASE dir[arg[p].m]
    <3>1. PICK d \in Data : tmp' = [tmp EXCEPT ![p] = File(d, {})]
      BY <1>2, <1>4, <2>2, ConstantsTyped DEF CreateTemp, WriteTemp
    <3>2. File(d, {}).there
      BY FileTyped
    <3>3. tmp'[p].there /\ \A q \in Procs \ {p} : tmp'[q] = tmp[q]
      BY <1>0, <3>1, <3>2 DEF TypeOK
    <3>4. /\ at[p] \in {"temp", "fill"} /\ UNCHANGED <<arg, file, result, doomed, committed>>
          /\ at'[p] \in {"fill", "unlink"}
          /\ \A q \in Procs \ {p} : at'[q] = at[q]
      BY <1>0, <1>4, <2>2 DEF CreateTemp, WriteTemp, Goto, TypeOK
    <3> QED BY <3>3, <3>4, RefPrepare
  <2> QED BY <1>4, <2>1, <2>2 DEF CreateTemp, WriteTemp
<1> QED BY <1>3, <1>4

\* A step of Save that makes its config.json the file x.  The Save takes effect,
\* or returns nil with nothing changed in effect.
LEMMA RefSwap ==
    ASSUME RefInv, StoreInv', NEW p \in Procs, NEW x \in FileType,
           at[p] \in {"open", "write", "unlink", "rename"}, SetTarget(p, x),
           UNCHANGED <<arg, result>>,
           at'[p] \in {"write", "rename", "idle"},
           \A q \in Procs \ {p} : at'[q] = at[q] /\ tmp'[q] = tmp[q],
           \A q \in Procs : /\ doomed'[q] \subseteq doomed[q]
                            /\ "cfg" \in doomed[q] => "cfg" \in doomed'[q]
                            /\ p \in doomed'[q] => tmp'[p].there /\ ~x.there,
           x.there /\ x.fds = {} => x.data.kind = "current",
           x.fds # {} => x.data = Empty,
           at'[p] = "rename" => ~x.there
    PROVE  /\ RefInv' /\ file'[arg[p].m]["cfg"] = x
           /\ StoreKept(arg[p].m) /\ CallsKept(p) /\ AllAnswersKept
<1>0. TypeOK
  BY DEF RefInv, StoreInv
<1>1. Busy(p) /\ at[p] # "rmdir"
  BY DEF Busy
<1>2. arg[p].m \in Machines /\ arg[p].f = "cfg"
  BY <1>1, OneSaver
<1>3. /\ file'[arg[p].m]["cfg"] = x
      /\ \A k \in Machines \ {arg[p].m} : file'[k] = file[k]
  BY <1>0, <1>2 DEF SetTarget, TypeOK, Names
<1>4. \A k \in Machines : k = arg[p].m => WholeOf(k)'
  BY <1>3 DEF WholeOf
<1>5. RefInv'
  BY <1>1, <1>3, <1>4, SaverStep
<1> QED BY <1>3, <1>5, SaverEffects

LEMMA RefOpen ==
    ASSUME RefInv, StoreInv', NEW p \in Procs, OpenInPlace(p)
    PROVE  RefInv' /\ AbstractStep
<1>0. TypeOK /\ StoreInv
  BY DEF RefInv, StoreInv
<1>1. at[p] = "open" /\ Busy(p) /\ UNCHANGED <<arg, committed>>
  BY DEF Busy, OpenInPlace
<1>2. /\ arg[p].m \in Machines /\ arg[p].f = "cfg"
      /\ \A q \in Procs : p \in doomed[q] => tmp[p].there
      /\ \A q \in Procs \ {p} : at[q] \in {"idle", "read", "rmdir"}
  BY <1>1, OneSaver
<1>3. Target(p) = file[arg[p].m]["cfg"] /\ Target(p) \in FileType /\ ~Target(p).there
  BY <1>0, <1>1, <1>2 DEF Target, TypeOK, Names, RefInv, RoleOf
<1>4. CASE ~dir[arg[p].m] /\ Failed(p) /\ UNCHANGED file
  BY <1>1, <1>3, <1>4, RefFail
<1>5. CASE /\ SetTarget(p, File(Empty, Target(p).fds \cup {p})) /\ Goto(p, "write")
           /\ UNCHANGED <<tmp, result, doomed>>
  <2> DEFINE x == File(Empty, Target(p).fds \cup {p})
  <2>1. Target(p).fds \cup {p} \in SUBSET Procs
    BY <1>3 DEF FileType
  <2>2. x \in FileType /\ x.there /\ x.data = Empty /\ p \in x.fds
    BY <2>1, FileTyped, ConstantsTyped
  <2>3. at'[p] = "write" /\ \A q \in Procs \ {p} : at'[q] = at[q]
    BY <1>0, <1>5 DEF Goto, TypeOK
  <2>4. SetTarget(p, x) /\ UNCHANGED <<tmp, result, doomed>>
    BY <1>5
  <2>5. \A q \in Procs : p \notin doomed[q]
    BY <1>0, <1>1, <1>2 DEF StoreInv, TempIsWholeBeforeSwap
  <2> HIDE DEF x
  <2>6. /\ RefInv' /\ file'[arg[p].m]["cfg"] = x
        /\ StoreKept(arg[p].m) /\ CallsKept(p) /\ AllAnswersKept
    BY <1>1, <2>2, <2>3, <2>4, <2>5, RefSwap
  <2>7. ASSUME NEW k \in Machines, k = arg[p].m PROVE InEffect(k)' = arg[p].d.id
    <3>1. Pending(p, k)'
      BY <1>1, <2>2, <2>3, <2>6, <2>7 DEF Pending
    <3> QED BY <1>1, <2>6, <3>1, EffectNext
  <2>8. /\ CallOf(p) = [phase |-> "saving", m |-> arg[p].m, i |-> arg[p].d.id]
        /\ CallOf(p)' = [phase |-> "saved", m |-> arg[p].m, i |-> arg[p].d.id]
    BY <1>1, <2>3 DEF CallOf, Phase
  <2> QED BY <1>1, <1>2, <2>6, <2>7, <2>8, DoInstall
<1> QED BY <1>4, <1>5 DEF OpenInPlace

LEMMA RefUnlink ==
    ASSUME RefInv, StoreInv', NEW p \in Procs, RemoveTarget(p)
    PROVE  RefInv' /\ AbstractStep
<1>0. TypeOK /\ StoreInv
  BY DEF RefInv, StoreInv
<1>1. at[p] = "unlink" /\ Busy(p) /\ UNCHANGED <<arg, committed>>
  BY DEF Busy, RemoveTarget
<1>2. /\ arg[p].m \in Machines /\ arg[p].f = "cfg"
      /\ \A q \in Procs : p \in doomed[q] => tmp[p].there
      /\ \A q \in Procs \ {p} : at[q] \in {"idle", "read", "rmdir"}
  BY <1>1, OneSaver
<1>3. Target(p) = file[arg[p].m]["cfg"]
  BY <1>2 DEF Target
<1>4. CASE ~Target(p).there /\ Failed(p) /\ UNCHANGED file
  BY <1>1, <1>3, <1>4, RefFail
<1>5. CASE /\ Target(p).there /\ SetTarget(p, NoFile) /\ Goto(p, "rename")
           /\ UNCHANGED <<tmp, result, doomed>>
  <2>1. at'[p] = "rename" /\ \A q \in Procs \ {p} : at'[q] = at[q]
    BY <1>0, <1>5 DEF Goto, TypeOK
  <2>2. /\ RefInv' /\ file'[arg[p].m]["cfg"] = NoFile
        /\ StoreKept(arg[p].m) /\ CallsKept(p) /\ AllAnswersKept
    BY <1>1, <1>2, <1>5, <2>1, ConstantsTyped, RefSwap
  <2>3. /\ CallOf(p) = [phase |-> "saving", m |-> arg[p].m, i |-> arg[p].d.id]
        /\ CallOf(p)' = [phase |-> "saved", m |-> arg[p].m, i |-> arg[p].d.id]
    BY <1>1, <2>1 DEF CallOf, Phase
  <2>4. CASE tmp[p].there
    <3>1. ASSUME NEW k \in Machines, k = arg[p].m PROVE InEffect(k)' = arg[p].d.id
      <4>1. Pending(p, k)'
        BY <1>1, <1>5, <2>1, <2>2, <2>4, <3>1, ConstantsTyped DEF Pending
      <4> QED BY <1>1, <2>2, <4>1, EffectNext
    <3> QED BY <1>1, <1>2, <2>2, <2>3, <3>1, DoInstall
  <2>5. CASE ~tmp[p].there
    <3>1. ASSUME NEW k \in Machines, k = arg[p].m PROVE InEffect(k)' = MaxOps + 1
      <4>1. \A q \in Procs : ~Pending(q, k)'
        BY <1>2, <1>5, <2>1, <2>5 DEF Pending
      <4>2. AtPath(k)' = MaxOps + 1
        BY <2>2, <3>1, ConstantsTyped DEF AtPath
      <4> QED BY <2>2, <4>1, <4>2, EffectNext
    <3>2. PICK r \in Procs : arg[r].m = arg[p].m /\ "cfg" \in doomed[r]
      BY <1>1, <1>3, <1>5, <2>5 DEF RefInv, RoleOf
    <3>3. at[r] = "rmdir"
      BY <3>2 DEF RefInv, RoleOf
    <3>4. CallOf(r) = [phase |-> "removing", m |-> arg[p].m, i |-> 0]
      BY <3>2, <3>3 DEF CallOf, Phase
    <3> QED BY <1>1, <1>2, <2>2, <2>3, <3>1, <3>4, DoInstall
  <2> QED BY <2>4, <2>5
<1> QED BY <1>4, <1>5 DEF RemoveTarget

LEMMA RefReturn ==
    ASSUME RefInv, StoreInv', NEW p \in Procs, WriteInPlace(p) \/ Rename(p)
    PROVE  RefInv' /\ AbstractStep
<1>0. TypeOK /\ StoreInv
  BY DEF RefInv, StoreInv
<1>1. at[p] \in {"write", "rename"} /\ Busy(p)
  BY DEF Busy, WriteInPlace, Rename
<1>2. /\ arg[p].m \in Machines /\ arg[p].f = "cfg" /\ arg[p].then = "return"
      /\ arg[p].d.kind = "current" /\ arg[p].d \in Data
      /\ \A q \in Procs : p \in doomed[q] => tmp[p].there
      /\ \A q \in Procs \ {p} : at[q] \in {"idle", "read", "rmdir"}
  BY <1>0, <1>1, OneSaver DEF TypeOK, ArgType
<1>3. Target(p) = file[arg[p].m]["cfg"] /\ Target(p) \in FileType
  BY <1>0, <1>2 DEF Target, TypeOK, Names
<1>4. ASSUME Returned(p)
      PROVE  /\ UNCHANGED <<arg, result>> /\ at'[p] = "idle"
             /\ \A q \in Procs \ {p} : at'[q] = at[q]
             /\ committed' = [committed EXCEPT ![arg[p].m] = arg[p].d.id]
             /\ CallOf(p) = [phase |-> "saved", m |-> arg[p].m, i |-> arg[p].d.id]
             /\ CallOf(p)' = [phase |-> "idle"]
  <2>1. /\ UNCHANGED <<arg, result>> /\ Goto(p, "idle")
        /\ committed' = [committed EXCEPT ![arg[p].m] = arg[p].d.id]
    BY <1>2, <1>4 DEF Returned
  <2>2. at'[p] = "idle" /\ \A q \in Procs \ {p} : at'[q] = at[q]
    BY <1>0, <2>1 DEF Goto, TypeOK
  <2> QED BY <1>1, <2>1, <2>2 DEF CallOf, Phase
<1>5. ASSUME RefInv', AllAnswersKept, StoreKept(arg[p].m), CallsKept(p), Returned(p),
             \A k \in Machines : k = arg[p].m => InEffect(k)' = InEffect(k)
      PROVE  AbstractStep
  <2>1. AllStoreKept
    BY <1>5 DEF StoreKept, AllStoreKept
  <2> QED BY <1>2, <1>4, <1>5, <2>1, DoReturnNil
<1>6. ASSUME SetTarget(p, File(arg[p].d, {})), Returned(p),
             \A q \in Procs \ {p} : tmp'[q] = tmp[q],
             \A q \in Procs : doomed'[q] = doomed[q] \ {p} \/ doomed'[q] = doomed[q],
             \A q \in Procs : p \notin doomed'[q],
             \A k \in Machines : k = arg[p].m => Pending(p, k)
      PROVE  RefInv' /\ AbstractStep
  <2> DEFINE x == File(arg[p].d, {})
  <2>0. arg[p].d \in Data /\ {} \in SUBSET Procs
    BY <1>2
  <2>1. x \in FileType /\ x.there /\ x.data = arg[p].d /\ x.fds = {}
    BY <2>0, FileTyped
  <2>2. SetTarget(p, x) /\ "cfg" # p
    BY <1>6 DEF RefInv, OneEach, Names
  <2> HIDE DEF x
  <2>3. /\ RefInv' /\ file'[arg[p].m]["cfg"] = x
        /\ StoreKept(arg[p].m) /\ CallsKept(p) /\ AllAnswersKept
    BY <1>1, <1>2, <1>4, <1>6, <2>1, <2>2, RefSwap
  <2>4. ASSUME NEW k \in Machines, k = arg[p].m PROVE InEffect(k)' = InEffect(k)
    <3>1. InEffect(k) = arg[p].d.id
      BY <1>6, <2>4, EffectNow
    <3>2. \A q \in Procs : ~Pending(q, k)'
      BY <1>2, <1>4, <1>6 DEF Pending
    <3>3. AtPath(k)' = arg[p].d.id
      BY <2>1, <2>3, <2>4 DEF AtPath
    <3> QED BY <2>3, <3>1, <3>2, <3>3, EffectNext
  <2> QED BY <1>5, <1>6, <2>3, <2>4
<1>7. CASE WriteInPlace(p)
  <2>1. at[p] = "write" /\ Returned(p) /\ UNCHANGED <<tmp, doomed>>
    BY <1>7 DEF WriteInPlace
  <2>2. \A q \in Procs : p \notin doomed[q]
    BY <1>0, <1>2, <2>1 DEF StoreInv, TempIsWholeBeforeSwap
  <2>3. CASE p \in Target(p).fds
    <3>1. Target(p).data = Empty
      BY <1>2, <1>3, <2>3 DEF RefInv, WholeOf
    <3>2. Target(p).fds \ {p} = {}
      <4> SUFFICES ASSUME NEW q \in Target(p).fds, q # p PROVE FALSE
        OBVIOUS
      <4>1. q \in Procs /\ at[q] = "write"
        BY <1>0, <1>2, <1>3 DEF StoreInv, DescriptorsInUse, FileType, Names
      <4> QED BY <1>2, <4>1
    <3>3. SetTarget(p, File(arg[p].d, {}))
      BY <1>7, <2>3, <3>1, <3>2 DEF WriteInPlace
    <3>4. \A k \in Machines : k = arg[p].m => Pending(p, k)
      BY <1>3, <2>1, <2>3 DEF Pending
    <3> QED BY <1>6, <2>1, <2>2, <3>3, <3>4
  <2>4. CASE p \notin Target(p).fds /\ UNCHANGED file
    <3>1. \A k \in Machines : k = arg[p].m => WholeOf(k)'
      BY <2>4 DEF RefInv, WholeOf
    <3>2. RefInv'
      BY <1>1, <1>4, <2>1, <2>2, <2>4, <3>1, SaverStep
    <3>3. StoreKept(arg[p].m) /\ CallsKept(p) /\ AllAnswersKept
      BY <1>4, <2>1, <2>4, <3>2, SaverEffects
    <3>4. ASSUME NEW k \in Machines, k = arg[p].m PROVE InEffect(k)' = InEffect(k)
      <4>1. \A q \in Procs : \/ ~Pending(q, k) /\ ~Pending(q, k)'
                             \/ Pending(q, k) /\ Pending(q, k)' /\ arg'[q] = arg[q]
        BY <1>2, <1>3, <1>4, <2>1, <2>4, <3>4 DEF Pending
      <4> QED BY <2>4, <3>2, <4>1, EffectSame
    <3> QED BY <1>5, <2>1, <3>2, <3>3, <3>4
  <2> QED BY <1>7, <2>3, <2>4 DEF WriteInPlace
<1>8. CASE Rename(p)
  <2>0. at[p] = "rename" /\ ~file[arg[p].m]["cfg"].there /\ Faults = {}
    BY <1>8 DEF Rename, RefInv, RoleOf, OneEach
  <2>1. CASE tmp[p].there /\ SetTarget(p, File(tmp[p].data, {})) /\ TempGone(p) /\ Returned(p)
    <3>1. tmp[p].data = arg[p].d
      BY <1>0, <2>0, <2>1 DEF StoreInv, TempIsWholeBeforeSwap
    <3>2. /\ \A q \in Procs \ {p} : tmp'[q] = tmp[q]
          /\ \A q \in Procs : doomed'[q] = doomed[q] \ {p}
      BY <1>0, <2>1 DEF TempGone, TypeOK
    <3>3. \A k \in Machines : k = arg[p].m => Pending(p, k)
      BY <2>0, <2>1 DEF Pending
    <3> QED BY <1>6, <2>1, <3>1, <3>2, <3>3
  <2>2. CASE /\ ~tmp[p].there /\ Failed(p) /\ UNCHANGED <<dir, file, arg>>
             /\ committed' = [committed EXCEPT ![arg[p].m] = 0]
    BY <2>0, <2>2, RefFail
  <2> QED BY <1>8, <2>0, <2>1, <2>2 DEF Rename
<1> QED BY <1>7, <1>8

\* RemoveAll unlinks one of the entries it listed.
LEMMA RefErase ==
    ASSUME RefInv, StoreInv', NEW p \in Procs, RemoveEntry(p)
    PROVE  RefInv' /\ AbstractStep
<1>0. TypeOK /\ StoreInv
  BY DEF RefInv, StoreInv
<1> DEFINE m == arg[p].m
<1>1. PICK e \in doomed[p] :
        /\ doomed' = [doomed EXCEPT ![p] = @ \ {e}]
        /\ file' = [file EXCEPT ![m] = [f \in Names |->
                       IF f = e THEN NoFile ELSE file[m][f]]]
        /\ tmp' = [q \in Procs |-> IF q = e THEN NoFile ELSE tmp[q]]
  BY DEF RemoveEntry
<1>2. /\ at[p] = "rmdir" /\ UNCHANGED <<at, arg, result>> /\ m \in Machines
      /\ committed' = [committed EXCEPT ![m] = 0]
  BY <1>0 DEF RemoveEntry, TypeOK, ArgType
<1>3. /\ \A k \in Machines \ {m} : file'[k] = file[k]
      /\ file'[m]["cfg"] = IF e = "cfg" THEN NoFile ELSE file[m]["cfg"]
      /\ \A q \in Procs : tmp'[q] = IF q = e THEN NoFile ELSE tmp[q]
      /\ \A q \in Procs \ {p} : doomed'[q] = doomed[q]
      /\ doomed'[p] = doomed[p] \ {e}
  BY <1>0, <1>1, <1>2 DEF TypeOK, Names
<1>4. /\ "cfg" \notin Procs /\ \A q \in Procs : doomed[q] # {} => q = p
      /\ e \in Procs => tmp[e].there /\ arg[e].m = m /\ (file[m]["cfg"].there => "cfg" \in doomed[p])
  BY <1>2 DEF RefInv, RoleOf, OneEach, Lists, Names
<1>5. RefInv'
  <2>1. \A q \in Procs : RoleOf(q)'
    <3> SUFFICES ASSUME NEW q \in Procs PROVE RoleOf(q)'
      OBVIOUS
    <3>0. RoleOf(q) /\ arg[q].m \in Machines
      BY <1>0 DEF RefInv, TypeOK, ArgType
    <3>1. file'[arg[q].m]["cfg"].there => /\ file[arg[q].m]["cfg"].there
                                          /\ arg[q].m = m => e # "cfg"
      BY <1>3, <3>0, ConstantsTyped
    <3>2. ASSUME at[q] = "unlink", ~tmp'[q].there, file'[arg[q].m]["cfg"].there
          PROVE  \E r \in Procs : arg'[r].m = arg'[q].m /\ "cfg" \in doomed'[r]
      <4>1. CASE tmp[q].there
        <5>1. q = e
          BY <1>3, <3>2, <4>1
        <5> QED BY <1>2, <1>3, <1>4, <3>1, <3>2, <5>1
      <4>2. CASE ~tmp[q].there
        <5>1. PICK r \in Procs : arg[r].m = arg[q].m /\ "cfg" \in doomed[r]
          BY <3>0, <3>1, <3>2, <4>2 DEF RoleOf
        <5>2. r = p
          BY <1>4, <5>1
        <5> QED BY <1>2, <1>3, <3>1, <3>2, <5>1, <5>2
      <4> QED BY <4>1, <4>2
    <3>3. doomed'[q] # {} => doomed[q] # {}
      BY <1>3
    <3> HIDE DEF m
    <3> QED BY <1>2, <3>0, <3>1, <3>2, <3>3 DEF RoleOf, Busy
  <2>2. \A q \in Procs : Lists(q)'
    <3>1. \A q \in Procs \ {p} : Lists(q)'
      BY <1>3, <1>4 DEF Lists
    <3>2. Lists(p)'
      BY <1>2, <1>3, <1>4, ConstantsTyped DEF RefInv, Lists
    <3> QED BY <3>1, <3>2
  <2>3. \A k \in Machines : WholeOf(k)'
    BY <1>3, ConstantsTyped DEF RefInv, WholeOf
  <2> QED BY <2>1, <2>2, <2>3 DEF RefInv, OneEach
<1>6. ASSUME NEW k \in Machines, k # m PROVE InEffect(k)' = InEffect(k)
  <2>1. \A q \in Procs : \/ ~Pending(q, k) /\ ~Pending(q, k)'
                         \/ Pending(q, k) /\ Pending(q, k)' /\ arg'[q] = arg[q]
    BY <1>2, <1>3, <1>4, <1>6 DEF Pending
  <2>2. file'[k]["cfg"] = file[k]["cfg"]
    BY <1>3, <1>6
  <2> QED BY <1>5, <2>1, <2>2, EffectSame
<1>7. ASSUME NEW k \in Machines, k = m
      PROVE  InEffect(k)' = MaxOps + 1 \/ InEffect(k)' = InEffect(k)
  <2>1. CASE \E q \in Procs : Pending(q, k)'
    <3>1. PICK q \in Procs : Pending(q, k)'
      BY <2>1
    <3>2. Pending(q, k)
      BY <1>2, <1>3, <1>7, <3>1, ConstantsTyped DEF Pending, RefInv, RoleOf
    <3> QED BY <1>2, <1>5, <3>1, <3>2, EffectNow, EffectNext
  <2>2. CASE \A q \in Procs : ~Pending(q, k)'
    <3>1. InEffect(k)' = AtPath(k)'
      BY <1>5, <2>2, EffectNext
    <3>2. CASE ~file'[k]["cfg"].there
      BY <3>1, <3>2 DEF AtPath
    <3>3. CASE file'[k]["cfg"].there
      <4>1. file'[k]["cfg"] = file[k]["cfg"]
        BY <1>3, <1>7, <3>3, ConstantsTyped
      <4>2. \A q \in Procs : ~Pending(q, k)
        BY <1>2, <2>2, <3>3, <4>1 DEF Pending
      <4> QED BY <1>5, <2>2, <4>1, <4>2, EffectSame
    <3> QED BY <3>2, <3>3
  <2> QED BY <2>1, <2>2
<1>8. /\ AllCallsKept /\ AllAnswersKept
      /\ CallOf(p) = [phase |-> "removing", m |-> m, i |-> 0]
  BY <1>2, SameAnswers DEF AllCallsKept, CallOf, Phase
<1>9. ASSUME NEW k \in Machines, k = m PROVE AbstractStep
  <2>1. StoreKept(k)
    BY <1>6, <1>9 DEF StoreKept
  <2> QED BY <1>2, <1>7, <1>8, <1>9, <2>1, DoErase
<1> QED BY <1>2, <1>5, <1>9

LEMMA RefInit == Init /\ OneEach => RefInv /\ Abstract!Init
<1> SUFFICES ASSUME Init, OneEach PROVE RefInv /\ Abstract!Init
  OBVIOUS
<1>0. StoreInv /\ TypeOK
  BY InitStoreInv DEF StoreInv
<1>1. \A p \in Procs : /\ at[p] = "idle" /\ doomed[p] = {} /\ result[p].kind = "none"
                       /\ CallOf(p) = [phase |-> "idle"] /\ AnswerOf(p) = MaxOps + 1
  BY DEF Init, NoResult, CallOf, Phase, AnswerOf
<1>2. \A m \in Machines : \/ file[m]["cfg"] = NoFile
                          \/ file[m]["cfg"] = File([kind |-> "current", id |-> 0], {})
  <2>1. PICK i \in [Machines -> Initial] :
          file = [m \in Machines |-> [f \in Names |->
                    IF f = "cfg" THEN InitialFile(i[m]) ELSE NoFile]]
    BY DEF Init
  <2>2. \A m \in Machines : i[m] \in {"absent", "current"}
    BY DEF OneEach
  <2>3. \A m \in Machines : file[m]["cfg"] = InitialFile(i[m])
    BY <2>1 DEF Names
  <2> QED BY <2>2, <2>3 DEF InitialFile
<1>3. [kind |-> "current", id |-> 0] \in Data
  BY StoreAssumption DEF Data, Kinds
<1>4. \A m \in Machines : /\ file[m]["cfg"].fds = {}
                          /\ file[m]["cfg"].there => file[m]["cfg"].data = [kind |-> "current", id |-> 0]
  <2> DEFINE d == [kind |-> "current", id |-> 0]
             x == File(d, {})
  <2>1. x.fds = {} /\ x.data = d
    BY <1>3, FileTyped
  <2> HIDE DEF x, d
  <2> QED BY <1>2, <2>1, ConstantsTyped DEF x, d
<1>5. RefInv
  <2>1. \A p \in Procs : RoleOf(p) /\ Lists(p)
    BY <1>1 DEF RoleOf, Lists, Busy
  <2>2. \A m \in Machines : WholeOf(m)
    <3>1. [kind |-> "current", id |-> 0].kind = "current"
      OBVIOUS
    <3> QED BY <1>4, <3>1 DEF WholeOf
  <2> QED BY <1>0, <2>1, <2>2 DEF RefInv
<1>6. \A m \in Machines : InEffect(m) \in {0, MaxOps + 1}
  <2> SUFFICES ASSUME NEW m \in Machines PROVE InEffect(m) \in {0, MaxOps + 1}
    OBVIOUS
  <2>1. \A p \in Procs : ~Pending(p, m)
    BY <1>1 DEF Pending
  <2>2. AtPath(m) \in {0, MaxOps + 1}
    BY <1>4 DEF AtPath
  <2> QED BY <1>5, <2>1, <2>2, EffectNow
<1>7. Abstract!Init
  BY <1>1, <1>6 DEF Abstract!Init, Abstract!None, Abstract!Idle, Abstract!Procs, Procs, Init
<1> QED BY <1>5, <1>7

LEMMA RefStep == RefInv /\ [Next]_vars => RefInv' /\ AbstractStep
<1> SUFFICES ASSUME RefInv, [Next]_vars PROVE RefInv' /\ AbstractStep
  OBVIOUS
<1>0. StoreInv'
  BY StepStoreInv DEF RefInv
<1>1. ASSUME NEW p \in Procs, NEW n \in Machines, Save(p, n) \/ Load(p, n) \/ Remove(p, n)
      PROVE  RefInv' /\ AbstractStep
  BY <1>0, <1>1, RefBegin
<1>2. ASSUME NEW p \in Procs, Advance(p) PROVE RefInv' /\ AbstractStep
  BY <1>0, <1>2, RefSaver, RefOpen, RefUnlink, RefReturn, RefEnd, RefErase DEF Advance
<1>3. ASSUME NEW p \in Procs, Crash(p) PROVE FALSE
  BY <1>3 DEF Crash, RefInv, OneEach
<1>4. CASE UNCHANGED vars
  <2>1. RefInv'
    BY <1>0, <1>4 DEF vars, RefInv, RoleOf, Lists, WholeOf, Busy, OneEach
  <2>2. \A q \in Procs : CallOf(q)' = CallOf(q) /\ AnswerOf(q)' = AnswerOf(q)
    BY <1>4 DEF vars, CallOf, Phase, AnswerOf
  <2>3. \A k \in Machines : InEffect(k)' = InEffect(k)
    BY <1>4 DEF vars, InEffect
  <2> QED BY <1>4, <2>1, <2>2, <2>3, Stutter DEF AllCallsKept, AllAnswersKept, AllStoreKept, vars
<1> QED BY <1>1, <1>2, <1>3, <1>4 DEF Next

\* saveToFile's system calls, loadConfig and RemoveAll implement the store of
\* atomic operations for one process that saves and one that removes any of the
\* machines, and any number that load them: a Load never sees a configuration
\* but the one in effect, and a Save that reports an error leaves nothing
\* behind (filestore.go:33-161).
THEOREM StoreImplemented == Spec /\ OneEach => ImplementsStore
<1>1. Init /\ OneEach => RefInv /\ Abstract!Init
  BY RefInit
<1>2. RefInv /\ [Next]_vars => RefInv' /\ [Abstract!Next]_(Abstract!vars)
  BY RefStep DEF AbstractStep
<1> QED BY <1>1, <1>2, PTL DEF Spec, ImplementsStore, Abstract!Spec
=============================================================================
