------------------------------ MODULE IsoCache ------------------------------
(***************************************************************************)
(* The boot2podman ISO: the copy that all machines share in the cache      *)
(* directory, and the copy in the directory of each machine                *)
(* (libmachine/mcnutils/b2p.go, CopyFile in mcnutils/utils.go).  Processes *)
(* that create or upgrade machines bring the cache up to date and copy     *)
(* from it with no lock between them, in the system calls and the HTTP     *)
(* requests the code makes: each is a step.  Meanwhile new releases come   *)
(* out, requests fail, and processes are killed.                           *)
(***************************************************************************)
EXTENDS Integers, TLC

CONSTANTS
    Procs,
    Machines,
    Urls,        \* the URLs asked for: a subset of AllUrls
    MaxRelease,  \* bound: releases 1 .. MaxRelease come out, in this order
    MaxRuns,     \* bound: calls begun in a run
    FaultSets    \* a set of subsets of AllFaults: which of them go together

\* CopyIsoToMachineDir, or UpdateISOCache alone (copy is FALSE), for the default
\* release, for the releases of another GitHub repository, or for any other URL.
AllUrls == {"default", "github", "direct"}
Jobs == [m : Machines, url : Urls, copy : BOOLEAN]

\* A request gets no answer or a broken one; the server answers with an error
\* page, whose status download does not look at; a local file cannot be
\* created or written; a process is killed.
AllFaults == {"net", "page", "disk", "crash"}

ASSUME IsoAssumption ==
    /\ Urls \subseteq AllUrls /\ Urls # {}
    /\ MaxRelease \in Nat \ {0}
    /\ MaxRuns \in Nat
    /\ FaultSets \subseteq SUBSET AllFaults

\* What a file holds: it does not exist, it is being written, it is an error
\* page, a release of boot2podman, or an ISO from somewhere else.
None    == -2
Partial == -1
Junk    == 0
Custom  == MaxRelease + 1
Content == None .. Custom

VARIABLES
    latest,     \* the newest release
    cacheDir,   \* the cache directory exists
    cache,      \* the ISO in it
    iso,        \* iso[m]: the ISO in the directory of machine m
    tmp,        \* tmp[p]: the temporary file of p's download
    at,         \* at[p]: where p is
    job,        \* job[p]: the call p makes, or made last
    hand,       \* hand[p]: the version p read, the release it downloads, or
                \* the content of the file it has open
    result,     \* result[p]: how its last call ended; "race" is an error that
                \* no fault explains
    runs,       \* calls begun so far
    faults,     \* what may go wrong in this run
    \* History.
    since,      \* since[p]: newest release when p began, 0 once it got a page
    floor,      \* floor[p]: since[q] of p and of all q that used the cache
                \* when p began; with 0 once there is an excuse to be older
    met         \* met[p]: another process was under way during p's call

vars == <<latest, cacheDir, cache, iso, tmp, at, job, hand, result, runs, faults,
          since, floor, met>>
history == <<since, floor, met>>

Places == {"idle", "statdir", "mkdir", "exists", "version", "tag", "url", "get",
           "temp", "fetch", "stat", "unlink", "rename", "open", "create", "fill",
           "restat"}

TypeOK ==
    /\ latest \in 1..MaxRelease
    /\ cacheDir \in BOOLEAN
    /\ cache \in Content
    /\ iso \in [Machines -> Content]
    /\ tmp \in [Procs -> Content]
    /\ at \in [Procs -> Places]
    /\ job \in [Procs -> Jobs]
    /\ hand \in [Procs -> Content]
    /\ result \in [Procs -> {"none", "ok", "fault", "race", "killed"}]
    /\ runs \in 0..MaxRuns
    /\ faults \in FaultSets
    /\ since \in [Procs -> 0..MaxRelease]
    /\ floor \in [Procs -> SUBSET (0..MaxRelease)]
    /\ met \in [Procs -> BOOLEAN]

\* The first use of the program, or a later one.
Init ==
    /\ latest = 1
    /\ \/ cacheDir = FALSE /\ cache = None
       \/ cacheDir = TRUE /\ cache \in {None, Junk, 1}
    /\ iso = [m \in Machines |-> None]
    /\ tmp = [p \in Procs |-> None]
    /\ at = [p \in Procs |-> "idle"]
    /\ \E m \in Machines : job = [p \in Procs |-> 
          [m |-> m, url |-> CHOOSE u \in Urls : TRUE, copy |-> FALSE]]
    /\ hand = [p \in Procs |-> None]
    /\ result = [p \in Procs |-> "none"]
    /\ runs = 0
    /\ faults \in FaultSets
    /\ since = [p \in Procs |-> 0]
    /\ floor = [p \in Procs |-> {}]
    /\ met = [p \in Procs |-> FALSE]

Active(p) == at[p] # "idle"
Default(p) == job[p].url = "default"
Updating(p) == Active(p) /\ Default(p)

\* p goes on at l, its temporary file and what it knows being x and h.
GotoWith(p, l, x, h) ==
    /\ at' = [at EXCEPT ![p] = l]
    /\ tmp' = [tmp EXCEPT ![p] = x]
    /\ hand' = [hand EXCEPT ![p] = h]
    /\ UNCHANGED result

Goto(p, l) == GotoWith(p, l, tmp[p], hand[p])

\* The call returns, after the deferred removal of the temporary file.
Return(p, r) ==
    /\ at' = [at EXCEPT ![p] = "idle"]
    /\ result' = [result EXCEPT ![p] = r]
    /\ tmp' = [tmp EXCEPT ![p] = None]
    /\ hand' = [hand EXCEPT ![p] = None]

\* Something that may go wrong does: the call returns the error.
FaultReturn(p, fs) == fs \cap faults # {} /\ Return(p, "fault")

\* UpdateISOCache is done; CopyFile follows in CopyIsoToMachineDir.
Updated(p) ==
    \/ job[p].copy /\ GotoWith(p, "open", None, None)
    \/ ~job[p].copy /\ Return(p, "ok")

\* A process calls CopyIsoToMachineDir or UpdateISOCache.  A machine is created
\* or upgraded by one process at a time.
Begin(p, j) ==
    /\ ~Active(p)
    /\ \A q \in Procs : Active(q) => job[q].m # j.m
    /\ runs < MaxRuns
    /\ runs' = runs + 1
    /\ job' = [job EXCEPT ![p] = j]
    /\ at' = [at EXCEPT ![p] = "statdir"]
    /\ result' = [result EXCEPT ![p] = "none"]
    /\ since' = [since EXCEPT ![p] = latest]
    /\ floor' = [floor EXCEPT ![p] =
                    {latest} \cup {since[q] : q \in {r \in Procs : Updating(r)}}]
    /\ met' = [q \in Procs |->
                 IF q = p THEN \E r \in Procs : Active(r) ELSE met[q] \/ Active(q)]
    /\ UNCHANGED <<latest, cacheDir, cache, iso, tmp, hand, faults>>
-----------------------------------------------------------------------------
(* UpdateISOCache and isLatest.                                            *)

\* os.Stat of the cache directory ...
StatCacheDir(p) ==
    /\ at[p] = "statdir"
    /\ Goto(p, IF cacheDir THEN "exists" ELSE "mkdir")
    /\ UNCHANGED <<latest, cacheDir, cache, iso, job, runs, faults, history>>

\* ... and os.Mkdir, which fails if another process made it first.
MkCacheDir(p) ==
    /\ at[p] = "mkdir"
    /\ \/ ~cacheDir /\ Goto(p, "exists")
       \/ cacheDir /\ Return(p, "race")
    /\ cacheDir' = TRUE
    /\ UNCHANGED <<latest, cache, iso, job, runs, faults, history>>

\* Mutant of Exists: an ISO that is there is not compared with the releases.
ExistsIsEnough(p) ==
    /\ at[p] = "exists"
    /\ \/ Default(p) /\ cache # None /\ Updated(p)
       \/ Default(p) /\ cache = None /\ Goto(p, "url")
       \/ ~Default(p) /\ job[p].copy /\ Goto(p, "url")
       \/ ~Default(p) /\ ~job[p].copy /\ Return(p, "ok")
    /\ UNCHANGED <<latest, cacheDir, cache, iso, job, runs, faults, history>>

\* Only the default release is cached.
Exists(p) ==
    /\ at[p] = "exists"
    /\ \/ Default(p) /\ cache # None /\ Goto(p, "version")
       \/ Default(p) /\ cache = None /\ Goto(p, "url")
       \/ ~Default(p) /\ job[p].copy /\ Goto(p, "url")
       \/ ~Default(p) /\ ~job[p].copy /\ Return(p, "ok")
    /\ UNCHANGED <<latest, cacheDir, cache, iso, job, runs, faults, history>>

\* The volume ID of a file has a version: the file is there and is an ISO.
HasVersion(x) == x \notin {None, Junk}

\* isLatest reads the version; without one the file counts as out of date.
ReadVersion(p) ==
    /\ at[p] = "version"
    /\ \/ ~HasVersion(cache) /\ Goto(p, "url")
       \/ HasVersion(cache) /\ GotoWith(p, "tag", tmp[p], cache)
    /\ UNCHANGED <<latest, cacheDir, cache, iso, job, runs, faults, history>>

\* It then asks for the tag of the newest release; without an answer the local
\* ISO counts as up to date.
CompareTag(p) ==
    /\ at[p] = "tag"
    /\ \/ hand[p] # latest /\ Goto(p, "url") /\ UNCHANGED floor
       \/ hand[p] = latest /\ Updated(p) /\ UNCHANGED floor
       \/ /\ "net" \in faults
          /\ floor' = [floor EXCEPT ![p] = @ \cup {0}]
          /\ Updated(p)
    /\ UNCHANGED <<latest, cacheDir, cache, iso, job, runs, faults, since, met>>
-----------------------------------------------------------------------------
(* getReleaseURL and download, into the cache or the machine's directory.  *)

\* A GitHub releases URL is resolved to the newest release of that repository.
ReleaseURL(p) ==
    /\ at[p] = "url"
    /\ \/ GotoWith(p, "get", tmp[p], IF Default(p) THEN latest ELSE Custom)
       \/ job[p].url # "direct" /\ FaultReturn(p, {"net"})
    /\ UNCHANGED <<latest, cacheDir, cache, iso, job, runs, faults, history>>

\* The body of the answer is what will be downloaded, whatever its status.
Get(p) ==
    /\ at[p] = "get"
    /\ \/ Goto(p, "temp") /\ UNCHANGED <<since, floor>>
       \/ /\ "page" \in faults
          /\ since' = [since EXCEPT ![p] = 0]
          /\ floor' = [q \in Procs |->
                        IF q = p \/ (Active(q) /\ Default(p)) THEN floor[q] \cup {0} ELSE floor[q]]
          /\ GotoWith(p, "temp", tmp[p], Junk)
       \/ FaultReturn(p, {"net", "disk"}) /\ UNCHANGED <<since, floor>>
    /\ UNCHANGED <<latest, cacheDir, cache, iso, job, runs, faults, met>>

Dest(p) == IF Default(p) THEN cache ELSE iso[job[p].m]

SetDest(p, x) ==
    \/ Default(p) /\ cache' = x /\ UNCHANGED iso
    \/ ~Default(p) /\ iso' = [iso EXCEPT ![job[p].m] = x] /\ UNCHANGED cache

\* Mutant of CreateTemp: the download goes to the file itself.
CreateTempInPlace(p) ==
    /\ at[p] = "temp"
    /\ SetDest(p, Partial)
    /\ GotoWith(p, "fetch", Partial, hand[p])
    /\ UNCHANGED <<latest, cacheDir, job, runs, faults, history>>

\* ioutil.TempFile: a name of its own in the same directory.
CreateTemp(p) ==
    /\ at[p] = "temp"
    /\ \/ GotoWith(p, "fetch", Partial, hand[p])
       \/ FaultReturn(p, {"disk"})
    /\ UNCHANGED <<latest, cacheDir, cache, iso, job, runs, faults, history>>

\* io.Copy to the temporary file; a body that ends early is an error.
Fetch(p) ==
    /\ at[p] = "fetch"
    /\ \/ GotoWith(p, "stat", hand[p], hand[p])
       \/ FaultReturn(p, {"net", "disk"})
    /\ UNCHANGED <<latest, cacheDir, cache, iso, job, runs, faults, history>>

\* Mutant of StatDest: the old file is removed without a look.
StatDestNever(p) ==
    /\ at[p] = "stat"
    /\ Goto(p, "unlink")
    /\ UNCHANGED <<latest, cacheDir, cache, iso, job, runs, faults, history>>

\* removeFileIfExists of the old file: os.Stat ...
StatDest(p) ==
    /\ at[p] = "stat"
    /\ Goto(p, IF Dest(p) = None THEN "rename" ELSE "unlink")
    /\ UNCHANGED <<latest, cacheDir, cache, iso, job, runs, faults, history>>

\* ... and os.Remove, an error if another process has removed it.
RemoveDest(p) ==
    /\ at[p] = "unlink"
    /\ \/ Dest(p) # None /\ SetDest(p, None) /\ Goto(p, "rename")
       \/ Dest(p) = None /\ Return(p, "race") /\ UNCHANGED <<cache, iso>>
    /\ UNCHANGED <<latest, cacheDir, job, runs, faults, history>>

RenameTemp(p) ==
    /\ at[p] = "rename"
    /\ SetDest(p, tmp[p])
    /\ \/ Default(p) /\ Updated(p)
       \/ ~Default(p) /\ Return(p, "ok")
    /\ UNCHANGED <<latest, cacheDir, job, runs, faults, history>>
-----------------------------------------------------------------------------
(* CopyFile, from the cache to the machine's directory.                    *)

\* os.Open of the cached file: what is read from now on is this file, even if
\* it is removed or replaced.
OpenCache(p) ==
    /\ at[p] = "open"
    /\ \/ cache # None /\ GotoWith(p, "create", None, cache)
       \/ cache = None /\ Return(p, "race")
    /\ UNCHANGED <<latest, cacheDir, cache, iso, job, runs, faults, history>>

\* os.Create of the copy truncates the ISO the machine had.
CreateCopy(p) ==
    /\ at[p] = "create"
    /\ \/ /\ iso' = [iso EXCEPT ![job[p].m] = Partial]
          /\ Goto(p, "fill")
       \/ FaultReturn(p, {"disk"}) /\ UNCHANGED iso
    /\ UNCHANGED <<latest, cacheDir, cache, job, runs, faults, history>>

\* io.Copy.
FillCopy(p) ==
    /\ at[p] = "fill"
    /\ \/ /\ iso' = [iso EXCEPT ![job[p].m] = hand[p]]
          /\ Goto(p, "restat")
       \/ FaultReturn(p, {"disk"}) /\ UNCHANGED iso
    /\ UNCHANGED <<latest, cacheDir, cache, job, runs, faults, history>>

\* os.Stat of the path copied from, for its mode: an error while another
\* process is between removing it and renaming its own download to it.
StatCache(p) ==
    /\ at[p] = "restat"
    /\ Return(p, IF cache = None THEN "race" ELSE "ok")
    /\ UNCHANGED <<latest, cacheDir, cache, iso, job, runs, faults, history>>
-----------------------------------------------------------------------------
(* The world.                                                              *)

Publish ==
    /\ latest < MaxRelease
    /\ latest' = latest + 1
    /\ UNCHANGED <<cacheDir, cache, iso, tmp, at, job, hand, result, runs, faults, history>>

\* The process is killed; nothing looks at its temporary file again.
Crash(p) ==
    /\ "crash" \in faults
    /\ Active(p)
    /\ Return(p, "killed")
    /\ UNCHANGED <<latest, cacheDir, cache, iso, job, runs, faults, history>>

Update(p) ==
    \/ StatCacheDir(p) \/ MkCacheDir(p) \/ Exists(p) \/ ReadVersion(p) \/ CompareTag(p)
Download(p) ==
    \/ ReleaseURL(p) \/ Get(p) \/ CreateTemp(p) \/ Fetch(p)
    \/ StatDest(p) \/ RemoveDest(p) \/ RenameTemp(p)
CopyFile(p) ==
    \/ OpenCache(p) \/ CreateCopy(p) \/ FillCopy(p) \/ StatCache(p)

Next ==
    \/ \E p \in Procs :
          \/ \E j \in Jobs : Begin(p, j)
          \/ Update(p) \/ Download(p) \/ CopyFile(p) \/ Crash(p)
    \/ Publish

Spec == Init /\ [][Next]_vars

\* Neither processes nor machines have an order.
Symmetry == Permutations(Procs) \cup Permutations(Machines)
-----------------------------------------------------------------------------
(* Properties.                                                             *)

\* "Download to a temp file first then rename it to avoid partial download":
\* whoever is killed wherever, the cache never holds a file that is being
\* written, so that it cannot be copied to a machine (b2p.go:208-236).
CacheWhole ==
    /\ cache # Partial
    /\ cache # None => cacheDir
    /\ \A p \in Procs : tmp[p] # None => at[p] \in {"fetch", "stat", "unlink", "rename"}

\* The same, together with the types of the variables.
IsoInv == TypeOK /\ CacheWhole

\* A call that reports success has left the machine a whole ISO, and one no
\* older than the newest release at the start of the call or of another that
\* was then under way, however their downloads, replacements of the cache and
\* copies interleave and whatever releases come out meanwhile.  The excuses are
\* the code's own: the tag could not be fetched, or one of these calls took an
\* error page for the ISO.  A call that begins after such a call has ended does
\* not get its error page (b2p.go:392-475).
FreshIso ==
    [][\A p \in Procs :
          (Active(p) /\ result'[p] = "ok" /\ job[p].copy)
              => /\ iso'[job[p].m] \notin {None, Partial}
                 /\ \E x \in floor'[p] : x <= iso'[job[p].m]]_vars

\* Whatever earlier calls that were killed left in the cache directory, a call
\* that no other is concurrent with fails only when a request or a local write
\* fails: "race" errors need another process (b2p.go:215-236, utils.go:53-79).
AloneSucceeds == \A p \in Procs : result[p] = "race" => met[p]
=============================================================================
