----------------------------- MODULE Filestore -----------------------------
(***************************************************************************)
(* The machine store on disk (libmachine/persist/filestore.go) and the     *)
(* migration of old configurations (libmachine/host/migrate.go), as used   *)
(* by several podman-machine processes with no lock between them.          *)
(*                                                                         *)
(* A machine is a directory with config.json ("cfg") and perhaps           *)
(* config.json.bak ("bak").  saveToFile writes a new file in place, and    *)
(* replaces an existing one by way of a temporary file, in the system      *)
(* calls the code makes: each is a step.                                   *)
(***************************************************************************)
EXTENDS Naturals

CONSTANTS
    Machines,
    Writers,    \* processes that may Save
    Readers,    \* processes that may Load
    Removers,   \* processes that may Remove
    MaxOps,     \* bound: operations begun in a run
    Faults,     \* subset of {"crash", "rename"}
    Initial     \* what config.json may be at the start: a subset of
                \* {"absent", "current", "old", "future"}

Procs == Writers \cup Readers \cup Removers

ASSUME StoreAssumption ==
    /\ MaxOps \in Nat
    /\ Faults \subseteq {"crash", "rename"}
    /\ Initial \subseteq {"absent", "current", "old", "future"}

\* The data of a configuration is its ConfigVersion against the program's
\* ("current" is equal, "old" less, "future" greater) and a number that tells
\* one Save from another.  "hollow" is the data of a host that migration left
\* without driver and options.  A file opened for writing is "empty" until it
\* is written, and "mixed" when two writers of different length overlapped.
Kinds == {"current", "old", "future", "hollow", "empty", "mixed"}
Data == [kind : Kinds, id : 0..MaxOps]
Empty == [kind |-> "empty", id |-> 0]
Mixed == [kind |-> "mixed", id |-> 0]
Whole(d) == d.kind \notin {"empty", "mixed"}

\* A file at a path: its data and the processes writing it through an open
\* descriptor.  A descriptor of a file since removed or replaced is in no set.
NoFile == [data |-> Empty, fds |-> {}, there |-> FALSE]
File(d, ps) == [data |-> d, fds |-> ps, there |-> TRUE]

VARIABLES
    dir,        \* dir[m]: the machine's directory exists
    file,       \* file[m][f], f \in {"cfg", "bak"}
    tmp,        \* tmp[p]: the temporary file of process p, or NoFile
    strays,     \* strays[m]: data of temporary files that crashes left
    at,         \* at[p]: where process p is
    arg,        \* arg[p]: the operation's machine, target file, data to write
                \* and, for a Load that migrates, what is left to do
    result,     \* result[p]: how the last Load of p ended
    doomed,     \* doomed[p]: what the Remove of p listed and has yet to
                \* unlink: names, and processes for their temporary files
    ops,        \* operations begun so far
    \* History.
    committed,  \* committed[m]: number of the last Save of m that returned
                \* nil; 0 when there is none, a Remove has begun to unlink,
                \* or a Save has since reported that its rename failed
    saved       \* machines that a command has begun to Save

vars == <<dir, file, tmp, strays, at, arg, result, doomed, ops, committed, saved>>

Places == {"idle", "stat", "open", "write", "temp", "fill", "unlink",
           "rename", "read", "rmdir"}

Results == [kind : {"none", "ok", "notexist", "readerr", "badjson", "future",
                    "migrated", "saveerr", "panic"}, id : 0..MaxOps]
NoResult == [kind |-> "none", id |-> 0]

Names == {"cfg", "bak"}
FileType == [data : Data, fds : SUBSET Procs, there : BOOLEAN]
ArgType == [m : Machines, f : Names, d : Data,
            then : {"return", "savehost", "migrated"}]

TypeOK ==
    /\ dir \in [Machines -> BOOLEAN]
    /\ file \in [Machines -> [Names -> FileType]]
    /\ tmp \in [Procs -> FileType]
    /\ strays \in [Machines -> SUBSET Data]
    /\ at \in [Procs -> Places]
    /\ arg \in [Procs -> ArgType]
    /\ result \in [Procs -> Results]
    /\ doomed \in [Procs -> SUBSET (Names \cup Procs)]
    /\ ops \in 0..MaxOps
    /\ committed \in [Machines -> 0..MaxOps]
    /\ saved \subseteq Machines

InitialFile(i) ==
    IF i = "absent" THEN NoFile ELSE File([kind |-> i, id |-> 0], {})

Init ==
    /\ \E i \in [Machines -> Initial] :
          /\ dir = [m \in Machines |-> i[m] # "absent"]
          /\ file = [m \in Machines |->
                       [f \in Names |->
                          IF f = "cfg" THEN InitialFile(i[m]) ELSE NoFile]]
    /\ tmp = [p \in Procs |-> NoFile]
    /\ strays = [m \in Machines |-> {}]
    /\ at = [p \in Procs |-> "idle"]
    /\ arg \in [Procs -> {[m |-> m, f |-> "cfg", d |-> Empty, then |-> "return"]
                            : m \in Machines}]
    /\ result = [p \in Procs |-> NoResult]
    /\ doomed = [p \in Procs |-> {}]
    /\ ops = 0
    /\ committed = [m \in Machines |-> 0]
    /\ saved = {}

Goto(p, l) == at' = [at EXCEPT ![p] = l]
-----------------------------------------------------------------------------
(* Filestore.Save and saveToFile.                                          *)

\* saveToFile returned nil.  For Save that is the end; a migrating Load saved
\* its backup and goes on to Save the host, or has done that too.
Returned(p) ==
    LET a == arg[p] IN
    \/ /\ a.then = "return"
       /\ committed' = [committed EXCEPT ![a.m] = a.d.id]
       /\ Goto(p, "idle")
       /\ UNCHANGED <<dir, arg, result>>
    \/ /\ a.then = "savehost"
       /\ dir' = [dir EXCEPT ![a.m] = TRUE]
       /\ arg' = [arg EXCEPT ![p].f = "cfg", ![p].d.kind = "hollow",
                             ![p].then = "migrated"]
       /\ Goto(p, "stat")
       /\ UNCHANGED <<committed, result>>
    \/ /\ a.then = "migrated"
       /\ result' = [result EXCEPT ![p] = [kind |-> "migrated", id |-> a.d.id]]
       /\ Goto(p, "idle")
       /\ UNCHANGED <<dir, arg, committed>>

\* The temporary file of p is no longer under its name, where a Remove that
\* listed it would look.
TempGone(p) ==
    /\ tmp' = [tmp EXCEPT ![p] = NoFile]
    /\ doomed' = [q \in Procs |-> doomed[q] \ {p}]

\* saveToFile returned an error, after the deferred removal of the temporary
\* file.
Failed(p) ==
    /\ TempGone(p)
    /\ Goto(p, "idle")
    /\ result' = IF arg[p].then = "return" THEN result
                 ELSE [result EXCEPT ![p] = [kind |-> "saveerr", id |-> 0]]

\* Save(host): os.MkdirAll of the machine's directory, then saveToFile.
Save(p, m) ==
    /\ p \in Writers
    /\ at[p] = "idle"
    /\ ops < MaxOps
    /\ ops' = ops + 1
    /\ saved' = saved \cup {m}
    /\ dir' = [dir EXCEPT ![m] = TRUE]
    /\ arg' = [arg EXCEPT ![p] = [m |-> m, f |-> "cfg", then |-> "return",
                                  d |-> [kind |-> "current", id |-> ops']]]
    /\ Goto(p, "stat")
    /\ UNCHANGED <<file, tmp, strays, result, doomed, committed>>

Target(p) == file[arg[p].m][arg[p].f]

SetTarget(p, x) == file' = [file EXCEPT ![arg[p].m][arg[p].f] = x]

\* Mutant of Stat: always write in place.
StatAlwaysInPlace(p) ==
    /\ at[p] = "stat"
    /\ Goto(p, "open")
    /\ UNCHANGED <<dir, file, tmp, strays, arg, result, doomed, ops, saved, committed>>

\* os.Stat(file) decides between writing in place and replacing.
Stat(p) ==
    /\ at[p] = "stat"
    /\ Goto(p, IF Target(p).there THEN "temp" ELSE "open")
    /\ UNCHANGED <<dir, file, tmp, strays, arg, result, doomed, ops, saved, committed>>

\* ioutil.WriteFile(file): open with create and truncate ...
OpenInPlace(p) ==
    /\ at[p] = "open"
    /\ \/ /\ dir[arg[p].m]
          /\ SetTarget(p, File(Empty, Target(p).fds \cup {p}))
          /\ Goto(p, "write")
          /\ UNCHANGED <<tmp, result, doomed>>
       \/ ~dir[arg[p].m] /\ Failed(p) /\ UNCHANGED file
    /\ UNCHANGED <<dir, strays, arg, ops, saved, committed>>

\* ... then write.  The path may have another file by now; and on top of
\* another writer's data the longer of the two shows through.
WriteInPlace(p) ==
    /\ at[p] = "write"
    /\ \/ /\ p \in Target(p).fds
          /\ \E d \in {arg[p].d}
                       \cup (IF Target(p).data \in {Empty, arg[p].d}
                             THEN {} ELSE {Mixed}) :
                SetTarget(p, File(d, Target(p).fds \ {p}))
       \/ p \notin Target(p).fds /\ UNCHANGED file
    /\ Returned(p)
    /\ UNCHANGED <<tmp, strays, doomed, ops, saved>>

\* Mutant of CreateTemp: the temporary file is never filled.
CreateTempOnly(p) ==
    /\ at[p] = "temp"
    /\ \/ /\ dir[arg[p].m]
          /\ tmp' = [tmp EXCEPT ![p] = File(Empty, {})]
          /\ Goto(p, "unlink")
          /\ UNCHANGED <<result, doomed>>
       \/ ~dir[arg[p].m] /\ Failed(p)
    /\ UNCHANGED <<dir, file, strays, arg, ops, saved, committed>>

\* ioutil.TempFile: a new file of a name of its own in the same directory.
CreateTemp(p) ==
    /\ at[p] = "temp"
    /\ \/ /\ dir[arg[p].m]
          /\ tmp' = [tmp EXCEPT ![p] = File(Empty, {})]
          /\ Goto(p, "fill")
          /\ UNCHANGED <<result, doomed>>
       \/ ~dir[arg[p].m] /\ Failed(p)
    /\ UNCHANGED <<dir, file, strays, arg, ops, saved, committed>>

\* Mutant of WriteTemp: the old file goes before the new one is written.
WriteTempLate(p) ==
    /\ at[p] = "fill"
    /\ Goto(p, "unlink")
    /\ SetTarget(p, NoFile)
    /\ UNCHANGED <<dir, tmp, strays, arg, result, doomed, ops, saved, committed>>

\* ioutil.WriteFile(tmpfi.Name()) creates the file anew if a Remove took it.
WriteTemp(p) ==
    /\ at[p] = "fill"
    /\ \/ /\ dir[arg[p].m]
          /\ tmp' = [tmp EXCEPT ![p] = File(arg[p].d, {})]
          /\ Goto(p, "unlink")
          /\ UNCHANGED <<result, doomed>>
       \/ ~dir[arg[p].m] /\ Failed(p)
    /\ UNCHANGED <<dir, file, strays, arg, ops, saved, committed>>

\* os.Remove(file); an error when another process removed it first.
RemoveTarget(p) ==
    /\ at[p] = "unlink"
    /\ \/ /\ Target(p).there
          /\ SetTarget(p, NoFile)
          /\ Goto(p, "rename")
          /\ UNCHANGED <<tmp, result, doomed>>
       \/ ~Target(p).there /\ Failed(p) /\ UNCHANGED file
    /\ UNCHANGED <<dir, strays, arg, ops, saved, committed>>

\* os.Rename(tmpfi.Name(), file) replaces what is at the path.  When it fails
\* the deferred os.Remove takes the only copy that is left.
Rename(p) ==
    /\ at[p] = "rename"
    /\ \/ /\ tmp[p].there
          /\ SetTarget(p, File(tmp[p].data, {}))
          /\ TempGone(p)
          /\ Returned(p)
       \/ /\ ~tmp[p].there \/ "rename" \in Faults
          /\ Failed(p)
          /\ committed' = [committed EXCEPT ![arg[p].m] = 0]
          /\ UNCHANGED <<dir, file, arg>>
    /\ UNCHANGED <<strays, ops, saved>>
-----------------------------------------------------------------------------
(* Filestore.Load, loadConfig and MigrateHost.                             *)

Answer(p, k, i) ==
    /\ result' = [result EXCEPT ![p] = [kind |-> k, id |-> i]]
    /\ Goto(p, "idle")

\* Load(name): os.Stat of the machine's directory.
Load(p, m) ==
    /\ p \in Readers
    /\ at[p] = "idle"
    /\ ops < MaxOps
    /\ ops' = ops + 1
    /\ arg' = [arg EXCEPT ![p].m = m]
    /\ \/ ~dir[m] /\ Answer(p, "notexist", 0)
       \/ dir[m] /\ Goto(p, "read") /\ UNCHANGED result
    /\ UNCHANGED <<dir, file, tmp, strays, doomed, committed, saved>>

\* How MigrateHost takes the bytes of config.json.  A host without AuthOptions
\* is a nil dereference.
Reading(f) ==
    CASE ~f.there -> "readerr"
      [] f.there /\ ~Whole(f.data) -> "badjson"
      [] f.there /\ f.data.kind = "hollow" -> "panic"
      [] f.there /\ f.data.kind = "future" -> "future"
      [] f.there /\ f.data.kind = "current" -> "ok"
      [] f.there /\ f.data.kind = "old" -> "migrate"

\* Mutant of ReadConfig: the migrated host is saved and no backup is made.
ReadConfigNoBackup(p) ==
    LET f == file[arg[p].m]["cfg"] IN
    /\ at[p] = "read"
    /\ \/ Reading(f) # "migrate" /\ Answer(p, Reading(f), f.data.id) /\ UNCHANGED arg
       \/ /\ Reading(f) = "migrate"
          /\ arg' = [arg EXCEPT ![p].f = "cfg", ![p].then = "migrated",
                                ![p].d = [f.data EXCEPT !.kind = "hollow"]]
          /\ Goto(p, "stat")
          /\ UNCHANGED result
    /\ UNCHANGED <<dir, file, tmp, strays, doomed, ops, saved, committed>>

\* ioutil.ReadFile of config.json and MigrateHost; after a migration the bytes
\* read go to config.json.bak and the migrated host to config.json.
ReadConfig(p) ==
    LET f == file[arg[p].m]["cfg"] IN
    /\ at[p] = "read"
    /\ \/ Reading(f) # "migrate" /\ Answer(p, Reading(f), f.data.id) /\ UNCHANGED arg
       \/ /\ Reading(f) = "migrate"
          /\ arg' = [arg EXCEPT ![p].f = "bak", ![p].d = f.data,
                                ![p].then = "savehost"]
          /\ Goto(p, "stat")
          /\ UNCHANGED result
    /\ UNCHANGED <<dir, file, tmp, strays, doomed, ops, saved, committed>>
-----------------------------------------------------------------------------
(* Filestore.Remove, and the death of a process.                           *)

\* Remove(name): os.RemoveAll lists the directory, the temporary files of
\* other processes too.  Those of processes long dead go with the listing.
Remove(p, m) ==
    /\ p \in Removers
    /\ at[p] = "idle"
    /\ ops < MaxOps
    /\ ops' = ops + 1
    /\ arg' = [arg EXCEPT ![p].m = m]
    /\ doomed' = [doomed EXCEPT ![p] =
                     {f \in Names : file[m][f].there}
                     \cup {q \in Procs : arg[q].m = m /\ tmp[q].there}]
    /\ strays' = [strays EXCEPT ![m] = {}]
    /\ committed' = [committed EXCEPT ![m] = 0]
    /\ Goto(p, "rmdir")
    /\ UNCHANGED <<dir, file, tmp, result, saved>>

\* It unlinks what it listed one by one, whatever is at the name by then ...
RemoveEntry(p) ==
    LET m == arg[p].m IN
    /\ at[p] = "rmdir"
    /\ \E e \in doomed[p] :
          /\ doomed' = [doomed EXCEPT ![p] = @ \ {e}]
          /\ file' = [file EXCEPT ![m] = [f \in Names |->
                         IF f = e THEN NoFile ELSE file[m][f]]]
          /\ tmp' = [q \in Procs |-> IF q = e THEN NoFile ELSE tmp[q]]
    /\ committed' = [committed EXCEPT ![m] = 0]
    /\ UNCHANGED <<dir, strays, at, arg, result, ops, saved>>

InDirectory(m) ==
    \/ \E f \in Names : file[m][f].there
    \/ \E q \in Procs : arg[q].m = m /\ tmp[q].there
    \/ strays[m] # {}

\* ... then the directory itself, which fails if files were added since.
RemoveDir(p) ==
    /\ at[p] = "rmdir"
    /\ doomed[p] = {}
    /\ \/ ~InDirectory(arg[p].m) /\ dir' = [dir EXCEPT ![arg[p].m] = FALSE]
       \/ InDirectory(arg[p].m) /\ UNCHANGED dir
    /\ Goto(p, "idle")
    /\ UNCHANGED <<file, tmp, strays, arg, result, doomed, ops, saved, committed>>

\* The process is killed inside an operation.  Its temporary file stays and
\* nothing will look at it again but a Remove that has listed it, which takes
\* it; what it had not written is not written.
Crash(p) ==
    /\ "crash" \in Faults
    /\ at[p] # "idle"
    /\ strays' = [strays EXCEPT ![arg[p].m] =
                     @ \cup (IF tmp[p].there /\ \A q \in Procs : p \notin doomed[q]
                             THEN {tmp[p].data} ELSE {})]
    /\ tmp' = [tmp EXCEPT ![p] = NoFile]
    /\ doomed' = [q \in Procs |-> IF q = p THEN {} ELSE doomed[q] \ {p}]
    /\ file' = [m \in Machines |-> [f \in Names |->
                   [file[m][f] EXCEPT !.fds = @ \ {p}]]]
    /\ Goto(p, "idle")
    /\ UNCHANGED <<dir, arg, result, ops, saved, committed>>

Advance(p) ==
    \/ Stat(p) \/ OpenInPlace(p) \/ WriteInPlace(p)
    \/ CreateTemp(p) \/ WriteTemp(p) \/ RemoveTarget(p) \/ Rename(p)
    \/ ReadConfig(p) \/ RemoveEntry(p) \/ RemoveDir(p)

Next ==
    \E p \in Procs :
       \/ \E m \in Machines : Save(p, m) \/ Load(p, m) \/ Remove(p, m)
       \/ Advance(p)
       \/ Crash(p)

Spec == Init /\ [][Next]_vars
-----------------------------------------------------------------------------
(* Properties.                                                             *)

\* A temporary file is on the disk only between its creation and the return of
\* the saveToFile that made it, and has all of the data before the file it
\* replaces is removed, however many processes share the directory and
\* whichever of them are killed (filestore.go:38-57).
TempIsWholeBeforeSwap ==
    \A p \in Procs :
        tmp[p].there => /\ at[p] \in {"fill", "unlink", "rename"}
                        /\ at[p] # "fill" => tmp[p].data = arg[p].d

\* An open descriptor belongs to a process inside WriteFile of that very path.
DescriptorsInUse ==
    \A m \in Machines, f \in Names : \A p \in file[m][f].fds :
        /\ file[m][f].there
        /\ at[p] = "write" /\ arg[p].m = m /\ arg[p].f = f

\* RemoveAll removes a directory only when nothing is left in it, and no
\* writer puts a file into a directory that is gone.
FilesHaveDirectory == \A m \in Machines : InDirectory(m) => dir[m]

\* For any number of processes that save, load, migrate and remove the same
\* machines with no lock, and are killed anywhere: temporary files are whole
\* before they replace anything and are left only by a crash, descriptors are
\* in use, and files lie in directories (filestore.go:33-161).
StoreInv ==
    /\ TypeOK
    /\ TempIsWholeBeforeSwap
    /\ DescriptorsInUse
    /\ FilesHaveDirectory

\* Copies of m's configuration that a person could still find on the disk.
Copies(m) ==
    {file[m][f].data : f \in {g \in Names : file[m][g].there}}
    \cup {tmp[q].data : q \in {r \in Procs : tmp[r].there /\ arg[r].m = m}}
    \cup strays[m]

\* What saveToFile's temporary file is for: whatever the moment at which the
\* process is killed, the configuration of the last Save that returned nil, or
\* of a later one, is whole on the disk, until the machine is removed or a
\* Save has reported a failed rename (filestore.go:33-58).
NeverLost ==
    \A m \in Machines : committed[m] > 0 =>
        \E d \in Copies(m) : d.kind = "current" /\ d.id >= committed[m]

\* loadConfig replaces an old configuration only after the backup of it was
\* written: the process may be killed anywhere and run again, and its renames
\* may fail; until a command saves the machine, the original bytes are on the
\* disk or about to be written to the backup that is open (filestore.go:129-138).
OriginalKept ==
    \A m \in Machines :
        m \notin saved /\ (\E d \in Copies(m) : d.kind = "hollow")
            => \/ \E d \in Copies(m) : d.kind = "old"
               \/ \E p \in file[m]["bak"].fds : arg[p].d.kind = "old"

Quiet == \A p \in Procs : at[p] = "idle"

\* Two processes saving the same existing machine without a lock, in any
\* interleaving of their system calls: once both have returned, config.json is
\* there and is exactly one of the configurations saved (filestore.go:33-58).
QuietStoreIsWhole ==
    Quiet => \A m \in Machines :
               file[m]["cfg"].there /\ file[m]["cfg"].data.kind = "current"

\* A Load of an existing machine gets a missing or unreadable config.json only
\* while some other process is inside Save: no interleaving of saves leaves
\* behind a machine that cannot be loaded (filestore.go:110-123).
LoadErrorsAreTransient ==
    [][\A p \in Readers :
          (at[p] = "read" /\ at'[p] = "idle" /\ result'[p].kind # "ok")
              => \E q \in Procs \ {p} : at[q] \notin {"idle", "read"}]_vars
-----------------------------------------------------------------------------
(* The abstract store that the system calls implement, for one process     *)
(* that saves, one that removes, any that load, and no crash.  A Save takes *)
(* effect when it opens the new file, or when it removes the old one: from  *)
(* then on every Load fails or finds its configuration.                     *)

Phase(p) ==
    CASE at[p] \in {"stat", "open", "temp", "fill", "unlink"} -> "saving"
      [] at[p] \in {"write", "rename"} -> "saved"
      [] at[p] = "rmdir" -> "removing"
      [] OTHER -> "idle"

InEffect(m) ==
    LET c == file[m]["cfg"]
        pending == {p \in Procs :
                      /\ arg[p].m = m
                      /\ \/ at[p] = "write" /\ p \in c.fds
                         \/ at[p] = "rename" /\ tmp[p].there /\ ~c.there}
    IN  IF pending # {} THEN arg[CHOOSE p \in pending : TRUE].d.id
        ELSE IF c.there THEN c.data.id ELSE MaxOps + 1

CallOf(p) ==
    IF Phase(p) = "idle" THEN [phase |-> "idle"]
    ELSE [phase |-> Phase(p), m |-> arg[p].m,
          i |-> IF Phase(p) = "removing" THEN 0 ELSE arg[p].d.id]

AnswerOf(p) == IF result[p].kind = "ok" THEN result[p].id ELSE MaxOps + 1

Abstract == INSTANCE StoreSpec WITH
    store  <- [m \in Machines |-> InEffect(m)],
    call   <- [p \in Procs |-> CallOf(p)],
    answer <- [p \in Procs |-> AnswerOf(p)],
    acked  <- committed

\* The code's sequence of stat, open, write, temporary file, remove and rename
\* behaves as a store of atomic operations: a Load never finds an older
\* configuration than an earlier Load did, never one that no Save installed,
\* and a Save that reports an error leaves nothing behind (filestore.go:33-161).
ImplementsStore == Abstract!Spec
=============================================================================
