--------------------------- MODULE IsoCache_proofs ---------------------------
(***************************************************************************)
(* Proofs about the ISO cache, for every set of processes and machines and *)
(* any number of releases and calls: the cache never holds an ISO that is  *)
(* being written, a call that nobody else's call overlaps does not meet an *)
(* error that no fault explains, and a call that succeeds leaves the       *)
(* machine a whole ISO that is not an old one.                             *)
(***************************************************************************)
EXTENDS IsoCache, TLAPS

Downloaded == {"stat", "unlink", "rename"}
Copying == {"open", "create", "fill", "restat"}

\* What p knows and has downloaded is a whole file; the file it stores in the
\* cache directory finds that directory.
WholeInv ==
    \A p \in Procs :
        /\ hand[p] # Partial
        /\ at[p] \in {"get", "temp", "fetch"} => hand[p] # None
        /\ at[p] \in Downloaded => tmp[p] \notin {None, Partial}
        /\ at[p] \notin {"idle", "statdir", "mkdir"} => cacheDir

\* Two calls under way have met, and what a call that has met no other saw is
\* still so.
AloneInv ==
    /\ \A p, q \in Procs : p # q /\ Active(p) /\ Active(q) => met[p]
    /\ \A p \in Procs : ~met[p] =>
          /\ at[p] = "mkdir" => ~cacheDir
          /\ at[p] = "unlink" => Dest(p) # None
          /\ at[p] \in Copying \cup {"tag"} => cache # None

IInv == TypeOK /\ CacheWhole /\ WholeInv /\ AloneInv /\ AloneSucceeds
-----------------------------------------------------------------------------
LEMMA ContentFacts ==
    /\ None \in Content /\ Partial \in Content /\ Junk \in Content /\ Custom \in Content
    /\ 1..MaxRelease \subseteq Content
    /\ 1 \in 1..MaxRelease
    /\ None # Partial /\ None # Junk /\ Partial # Junk
    /\ \A x \in 1..MaxRelease \cup {Custom} : x # None /\ x # Partial
BY IsoAssumption DEF None, Partial, Junk, Custom, Content

LEMMA InitInv == Init => IInv
<1> SUFFICES ASSUME Init PROVE IInv
  OBVIOUS
<1> USE ContentFacts
<1>1. TypeOK
  <2> DEFINE u == CHOOSE x \in Urls : TRUE
  <2>a. u \in Urls
    BY IsoAssumption
  <2> HIDE DEF u
  <2>b. \A m \in Machines : [m |-> m, url |-> u, copy |-> FALSE] \in Jobs
    BY <2>a DEF Jobs
  <2>c. PICK m \in Machines : job = [p \in Procs |-> [m |-> m, url |-> u, copy |-> FALSE]]
    BY DEF Init, u
  <2>1. job \in [Procs -> Jobs]
    BY <2>b, <2>c
  <2>2. latest \in 1..MaxRelease /\ runs \in 0..MaxRuns /\ 0 \in 0..MaxRelease
    BY IsoAssumption DEF Init
  <2>3. cache \in Content /\ cacheDir \in BOOLEAN
    BY DEF Init
  <2> QED
    BY <2>1, <2>2, <2>3 DEF Init, TypeOK, Places
<1>2. CacheWhole /\ WholeInv
  BY DEF Init, CacheWhole, WholeInv, Downloaded
<1>3. AloneInv /\ AloneSucceeds
  BY DEF Init, AloneInv, AloneSucceeds, Active, Copying
<1> QED
  BY <1>1, <1>2, <1>3 DEF IInv

\* Every step leaves the types of the variables as they are.
LEMMA TypeStep == TypeOK /\ [Next]_vars => TypeOK'
<1> SUFFICES ASSUME TypeOK, [Next]_vars PROVE TypeOK'
  OBVIOUS
<1> USE ContentFacts, IsoAssumption DEF TypeOK, Places, GotoWith, Goto, Return, history
<1>1. ASSUME NEW p \in Procs, StatCacheDir(p) PROVE TypeOK'
  BY <1>1 DEF StatCacheDir
<1>2. ASSUME NEW p \in Procs, MkCacheDir(p) PROVE TypeOK'
  BY <1>2 DEF MkCacheDir
<1>3. ASSUME NEW p \in Procs, Exists(p) PROVE TypeOK'
  BY <1>3 DEF Exists, Default, Updated
<1>4. ASSUME NEW p \in Procs, ReadVersion(p) PROVE TypeOK'
  BY <1>4 DEF ReadVersion, HasVersion
<1>5. ASSUME NEW p \in Procs, CompareTag(p) PROVE TypeOK'
  BY <1>5 DEF CompareTag, Updated
<1>6. ASSUME NEW p \in Procs, ReleaseURL(p) PROVE TypeOK'
  BY <1>6 DEF ReleaseURL, Default, FaultReturn
<1>7. ASSUME NEW p \in Procs, Get(p) PROVE TypeOK'
  BY <1>7 DEF Get, Default, FaultReturn, Active
<1>8. ASSUME NEW p \in Procs, CreateTemp(p) PROVE TypeOK'
  BY <1>8 DEF CreateTemp, FaultReturn
<1>9. ASSUME NEW p \in Procs, Fetch(p) PROVE TypeOK'
  BY <1>9 DEF Fetch, FaultReturn
<1>10. ASSUME NEW p \in Procs, StatDest(p) PROVE TypeOK'
  BY <1>10 DEF StatDest, Dest, Default
<1>11. ASSUME NEW p \in Procs, RemoveDest(p) PROVE TypeOK'
  BY <1>11 DEF RemoveDest, Dest, SetDest, Default
<1>12. ASSUME NEW p \in Procs, RenameTemp(p) PROVE TypeOK'
  BY <1>12 DEF RenameTemp, SetDest, Default, Updated
<1>13. ASSUME NEW p \in Procs, OpenCache(p) PROVE TypeOK'
  BY <1>13 DEF OpenCache
<1>14. ASSUME NEW p \in Procs, CreateCopy(p) PROVE TypeOK'
  BY <1>14 DEF CreateCopy, FaultReturn
<1>15. ASSUME NEW p \in Procs, FillCopy(p) PROVE TypeOK'
  BY <1>15 DEF FillCopy, FaultReturn
<1>16. ASSUME NEW p \in Procs, StatCache(p) PROVE TypeOK'
  BY <1>16 DEF StatCache
<1>17. ASSUME NEW p \in Procs, Crash(p) PROVE TypeOK'
  BY <1>17 DEF Crash, Active
<1>18. ASSUME NEW p \in Procs, NEW j \in Jobs, Begin(p, j) PROVE TypeOK'
  <2>1. runs' \in 0..MaxRuns
    BY <1>18 DEF Begin
  <2>2. floor' \in [Procs -> SUBSET (0..MaxRelease)]
    BY <1>18 DEF Begin
  <2>3. met' \in [Procs -> BOOLEAN]
    BY <1>18 DEF Begin
  <2> QED
    BY <2>1, <2>2, <2>3, <1>18 DEF Begin
<1>19. CASE Publish
  BY <1>19 DEF Publish
<1>20. CASE UNCHANGED vars
  BY <1>20 DEF vars
<1> QED
  BY <1>1, <1>2, <1>3, <1>4, <1>5, <1>6, <1>7, <1>8, <1>9, <1>10, <1>11, <1>12, <1>13,
       <1>14, <1>15, <1>16, <1>17, <1>18, <1>19, <1>20
     DEF Next, Update, Download, CopyFile

\* Every step keeps what is in the cache, in hand and in temporary files whole.
LEMMA WholeStep ==
    TypeOK /\ CacheWhole /\ WholeInv /\ [Next]_vars => CacheWhole' /\ WholeInv'
<1> SUFFICES ASSUME TypeOK, CacheWhole, WholeInv, [Next]_vars
     PROVE CacheWhole' /\ WholeInv'
  OBVIOUS
<1> USE ContentFacts DEF TypeOK, CacheWhole, WholeInv, Downloaded,
       GotoWith, Goto, Return, history
<1>1. ASSUME NEW p \in Procs, StatCacheDir(p) PROVE CacheWhole' /\ WholeInv'
  BY <1>1 DEF StatCacheDir
<1>2. ASSUME NEW p \in Procs, MkCacheDir(p) PROVE CacheWhole' /\ WholeInv'
  BY <1>2 DEF MkCacheDir
<1>3. ASSUME NEW p \in Procs, Exists(p) PROVE CacheWhole' /\ WholeInv'
  BY <1>3 DEF Exists, Default, Updated
<1>4. ASSUME NEW p \in Procs, ReadVersion(p) PROVE CacheWhole' /\ WholeInv'
  BY <1>4 DEF ReadVersion, HasVersion
<1>5. ASSUME NEW p \in Procs, CompareTag(p) PROVE CacheWhole' /\ WholeInv'
  BY <1>5 DEF CompareTag, Updated
<1>6. ASSUME NEW p \in Procs, ReleaseURL(p) PROVE CacheWhole' /\ WholeInv'
  BY <1>6 DEF ReleaseURL, Default, FaultReturn
<1>7. ASSUME NEW p \in Procs, Get(p) PROVE CacheWhole' /\ WholeInv'
  BY <1>7 DEF Get, Default, FaultReturn, Active
<1>8. ASSUME NEW p \in Procs, CreateTemp(p) PROVE CacheWhole' /\ WholeInv'
  BY <1>8 DEF CreateTemp, FaultReturn
<1>9. ASSUME NEW p \in Procs, Fetch(p) PROVE CacheWhole' /\ WholeInv'
  BY <1>9 DEF Fetch, FaultReturn
<1>10. ASSUME NEW p \in Procs, StatDest(p) PROVE CacheWhole' /\ WholeInv'
  BY <1>10 DEF StatDest, Dest, Default
<1>11. ASSUME NEW p \in Procs, RemoveDest(p) PROVE CacheWhole' /\ WholeInv'
  BY <1>11 DEF RemoveDest, Dest, SetDest, Default
<1>12. ASSUME NEW p \in Procs, RenameTemp(p) PROVE CacheWhole' /\ WholeInv'
  BY <1>12 DEF RenameTemp, SetDest, Default, Updated
<1>13. ASSUME NEW p \in Procs, OpenCache(p) PROVE CacheWhole' /\ WholeInv'
  BY <1>13 DEF OpenCache
<1>14. ASSUME NEW p \in Procs, CreateCopy(p) PROVE CacheWhole' /\ WholeInv'
  BY <1>14 DEF CreateCopy, FaultReturn
<1>15. ASSUME NEW p \in Procs, FillCopy(p) PROVE CacheWhole' /\ WholeInv'
  BY <1>15 DEF FillCopy, FaultReturn
<1>16. ASSUME NEW p \in Procs, StatCache(p) PROVE CacheWhole' /\ WholeInv'
  BY <1>16 DEF StatCache
<1>17. ASSUME NEW p \in Procs, Crash(p) PROVE CacheWhole' /\ WholeInv'
  BY <1>17 DEF Crash, Active
<1>18. ASSUME NEW p \in Procs, NEW j \in Jobs, Begin(p, j) PROVE CacheWhole' /\ WholeInv'
  BY <1>18 DEF Begin, Active
<1>19. CASE Publish
  BY <1>19 DEF Publish
<1>20. CASE UNCHANGED vars
  BY <1>20 DEF vars
<1> QED
  BY <1>1, <1>2, <1>3, <1>4, <1>5, <1>6, <1>7, <1>8, <1>9, <1>10, <1>11, <1>12, <1>13,
       <1>14, <1>15, <1>16, <1>17, <1>18, <1>19, <1>20
     DEF Next, Update, Download, CopyFile

\* Every step of a process that another one watches has met that process.
LEMMA AloneStep == IInv /\ [Next]_vars => AloneInv' /\ AloneSucceeds'
<1> SUFFICES ASSUME IInv, [Next]_vars PROVE AloneInv' /\ AloneSucceeds'
  OBVIOUS
<1> USE ContentFacts DEF IInv, TypeOK, CacheWhole, WholeInv, Downloaded, AloneInv,
     AloneSucceeds, Active, Copying, Dest, Default,
       GotoWith, Goto, Return, history
<1>1. ASSUME NEW p \in Procs, StatCacheDir(p) PROVE AloneInv' /\ AloneSucceeds'
  BY <1>1 DEF StatCacheDir
<1>2. ASSUME NEW p \in Procs, MkCacheDir(p) PROVE AloneInv' /\ AloneSucceeds'
  BY <1>2 DEF MkCacheDir
<1>3. ASSUME NEW p \in Procs, Exists(p) PROVE AloneInv' /\ AloneSucceeds'
  BY <1>3 DEF Exists, Updated
<1>4. ASSUME NEW p \in Procs, ReadVersion(p) PROVE AloneInv' /\ AloneSucceeds'
  BY <1>4 DEF ReadVersion, HasVersion
<1>5. ASSUME NEW p \in Procs, CompareTag(p) PROVE AloneInv' /\ AloneSucceeds'
  BY <1>5 DEF CompareTag, Updated
<1>6. ASSUME NEW p \in Procs, ReleaseURL(p) PROVE AloneInv' /\ AloneSucceeds'
  BY <1>6 DEF ReleaseURL, FaultReturn
<1>7. ASSUME NEW p \in Procs, Get(p) PROVE AloneInv' /\ AloneSucceeds'
  BY <1>7 DEF Get, FaultReturn
<1>8. ASSUME NEW p \in Procs, CreateTemp(p) PROVE AloneInv' /\ AloneSucceeds'
  BY <1>8 DEF CreateTemp, FaultReturn
<1>9. ASSUME NEW p \in Procs, Fetch(p) PROVE AloneInv' /\ AloneSucceeds'
  BY <1>9 DEF Fetch, FaultReturn
<1>10. ASSUME NEW p \in Procs, StatDest(p) PROVE AloneInv' /\ AloneSucceeds'
  BY <1>10 DEF StatDest
<1>11. ASSUME NEW p \in Procs, RemoveDest(p) PROVE AloneInv' /\ AloneSucceeds'
  BY <1>11 DEF RemoveDest, SetDest
<1>12. ASSUME NEW p \in Procs, RenameTemp(p) PROVE AloneInv' /\ AloneSucceeds'
  BY <1>12 DEF RenameTemp, SetDest, Updated
<1>13. ASSUME NEW p \in Procs, OpenCache(p) PROVE AloneInv' /\ AloneSucceeds'
  BY <1>13 DEF OpenCache
<1>14. ASSUME NEW p \in Procs, CreateCopy(p) PROVE AloneInv' /\ AloneSucceeds'
  BY <1>14 DEF CreateCopy, FaultReturn
<1>15. ASSUME NEW p \in Procs, FillCopy(p) PROVE AloneInv' /\ AloneSucceeds'
  BY <1>15 DEF FillCopy, FaultReturn
<1>16. ASSUME NEW p \in Procs, StatCache(p) PROVE AloneInv' /\ AloneSucceeds'
  BY <1>16 DEF StatCache
<1>17. ASSUME NEW p \in Procs, Crash(p) PROVE AloneInv' /\ AloneSucceeds'
  BY <1>17 DEF Crash
<1>18. ASSUME NEW p \in Procs, NEW j \in Jobs, Begin(p, j)
      PROVE AloneInv' /\ AloneSucceeds'
  BY <1>18 DEF Begin
<1>19. CASE Publish
  BY <1>19 DEF Publish
<1>20. CASE UNCHANGED vars
  BY <1>20 DEF vars
<1> QED
  BY <1>1, <1>2, <1>3, <1>4, <1>5, <1>6, <1>7, <1>8, <1>9, <1>10, <1>11, <1>12, <1>13,
       <1>14, <1>15, <1>16, <1>17, <1>18, <1>19, <1>20
     DEF Next, Update, Download, CopyFile

LEMMA Inductive == Spec => []IInv
<1>1. IInv /\ [Next]_vars => IInv'
  BY TypeStep, WholeStep, AloneStep DEF IInv
<1> QED
  BY InitInv, <1>1, PTL DEF Spec

\* For every set of processes and machines, any number of releases and calls, and
\* wherever requests and writes fail and processes are killed: the cache holds no
\* ISO that is being written, and lies in a directory that exists.
THEOREM CacheIsWhole == Spec => []IsoInv
<1>1. IInv => IsoInv
  BY DEF IInv, IsoInv
<1> QED
  BY Inductive, <1>1, PTL

\* For as many processes and machines: an error of CopyIsoToMachineDir or
\* UpdateISOCache that no failing request or write explains needs another call
\* under way at the same time.
THEOREM AloneCallsSucceed == Spec => []AloneSucceeds
<1>1. IInv => AloneSucceeds
  BY DEF IInv
<1> QED
  BY Inductive, <1>1, PTL
-----------------------------------------------------------------------------
(* A call that succeeds leaves no old ISO.                                 *)

\* x is no older than the oldest release that p may have been given.
NoOlder(p, x) == \E y \in floor[p] : y <= x

\* The calls under way that change the cache began with a release that is new
\* enough for all the others, and what they fetch is no older than that: so the
\* cache may be replaced any number of times between a look at it and its use.
Entry(p) ==
    /\ result[p] = "none" /\ NoOlder(p, latest)
    /\ \A q \in Procs : Updating(q) => NoOlder(p, since[q])
    /\ \A q \in Procs : Active(q) /\ job[q].m = job[p].m => q = p
    /\ at[p] \in {"get", "temp", "fetch"} =>
          NoOlder(p, hand[p]) /\ (Default(p) => since[p] <= hand[p])
    /\ at[p] \in Downloaded => NoOlder(p, tmp[p]) /\ (Default(p) => since[p] <= tmp[p])
    /\ at[p] = "tag" => cache \in {None, hand[p]} \/ NoOlder(p, cache)
    /\ at[p] = "open" => cache = None \/ NoOlder(p, cache)
    /\ at[p] \in {"create", "fill"} => hand[p] # None /\ NoOlder(p, hand[p])
    /\ at[p] = "restat" =>
          iso[job[p].m] \notin {None, Partial} /\ NoOlder(p, iso[job[p].m])

FreshInv ==
    \A p \in Procs : since[p] <= latest /\ (Active(p) => Entry(p))

\* A step of p leaves the places of the others, what they hold and the ISOs of
\* their machines; what it puts into the cache is good for them.
Aside(p) ==
    /\ job' = job /\ latest' = latest
    /\ \A r \in Procs \ {p} :
          /\ at'[r] = at[r] /\ tmp'[r] = tmp[r] /\ hand'[r] = hand[r] /\ result'[r] = result[r]
          /\ since'[r] = since[r] /\ floor[r] \subseteq floor'[r]
          /\ Active(r) => iso'[job[r].m] = iso[job[r].m]
          /\ Active(r) => cache' \in {cache, None} \/ NoOlder(r, cache')
          /\ Active(r) /\ Updating(p)' => since'[p] = since[p] \/ (since'[p] = 0 /\ 0 \in floor'[r])

LEMMA OthersFresh ==
    ASSUME IInv, FreshInv, NEW p \in Procs, NEW r \in Procs \ {p}, Aside(p), Active(p), Active(r)
    PROVE  Entry(r)'
<1> USE DEF FreshInv, Aside
<1>1. Entry(r) /\ at'[r] = at[r]
  OBVIOUS
<1>2. \A x : NoOlder(r, x) => NoOlder(r, x)'
  BY DEF NoOlder
<1>3. result'[r] = "none" /\ NoOlder(r, latest)'
  BY <1>1, <1>2 DEF Entry, NoOlder
<1>4. \A q \in Procs : Updating(q)' => NoOlder(r, since[q])'
  <2> SUFFICES ASSUME NEW q \in Procs, Updating(q)' PROVE NoOlder(r, since[q])'
    OBVIOUS
  <2>1. Updating(q)
    BY DEF Updating, Active, Default
  <2>2. CASE since'[q] = since[q]
    BY <1>1, <1>2, <2>1, <2>2 DEF Entry, NoOlder
  <2>3. CASE since'[q] = 0 /\ 0 \in floor'[r]
    BY <2>3 DEF NoOlder
  <2> QED BY <2>2, <2>3
<1>5. \A q \in Procs : Active(q)' /\ job'[q].m = job'[r].m => q = r
  BY <1>1 DEF Entry, Active
<1>6. /\ at'[r] = "tag" => cache' \in {None, hand'[r]} \/ NoOlder(r, cache)'
      /\ at'[r] = "open" => cache' = None \/ NoOlder(r, cache)'
  BY <1>1, <1>2 DEF Entry, NoOlder
<1>7. /\ at'[r] \in {"get", "temp", "fetch"} =>
            NoOlder(r, hand[r])' /\ (Default(r)' => since'[r] <= hand'[r])
      /\ at'[r] \in Downloaded => NoOlder(r, tmp[r])' /\ (Default(r)' => since'[r] <= tmp'[r])
      /\ at'[r] \in {"create", "fill"} => hand'[r] # None /\ NoOlder(r, hand[r])'
      /\ at'[r] = "restat" =>
            iso'[job'[r].m] \notin {None, Partial} /\ NoOlder(r, iso[job[r].m])'
  BY <1>1, <1>2 DEF Entry, NoOlder, Default
<1> QED BY <1>3, <1>4, <1>5, <1>6, <1>7 DEF Entry

\* Machines under way are different ones.
LEMMA MachineOf ==
    ASSUME IInv, FreshInv, NEW p \in Procs, Active(p)
    PROVE  /\ job[p].m \in Machines
           /\ \A r \in Procs \ {p} : job[r].m \in Machines /\ (Active(r) => job[r].m # job[p].m)
<1>1. \A r \in Procs : job[r].m \in Machines
  BY DEF IInv, TypeOK, Jobs
<1> QED BY <1>1 DEF FreshInv, Entry

\* What p has to show of itself, where p has given or taken no new excuse.
LEMMA OwnFresh ==
    ASSUME IInv, FreshInv, NEW p \in Procs, Active(p), Aside(p),
           result'[p] = result[p], floor[p] \subseteq floor'[p],
           since'[p] = since[p] \/ (since'[p] = 0 /\ 0 \in floor'[p])
    PROVE  /\ result'[p] = "none" /\ NoOlder(p, latest)'
           /\ \A q \in Procs : Updating(q)' => NoOlder(p, since[q])'
           /\ \A q \in Procs : Active(q)' /\ job'[q].m = job'[p].m => q = p
<1>1. Entry(p)
  BY DEF FreshInv
<1>2. \A x : NoOlder(p, x) => NoOlder(p, x)'
  BY DEF NoOlder
<1>3. result'[p] = "none" /\ NoOlder(p, latest)'
  BY <1>1, <1>2 DEF Entry, NoOlder, Aside
<1>4. ASSUME NEW q \in Procs, Updating(q)' PROVE NoOlder(p, since[q])'
  <2>1. Updating(q)
    BY <1>4 DEF Updating, Active, Default, Aside
  <2>2. CASE since'[q] = since[q]
    BY <1>1, <1>2, <2>1, <2>2 DEF Entry, NoOlder
  <2>3. CASE q = p /\ since'[q] = 0 /\ 0 \in floor'[p]
    BY <2>3 DEF NoOlder
  <2> QED BY <2>2, <2>3 DEF Aside
<1>5. ASSUME NEW q \in Procs, Active(q)', job'[q].m = job'[p].m PROVE q = p
  BY <1>1, <1>5 DEF Entry, Active, Aside
<1> QED BY <1>3, <1>4, <1>5

LEMMA StepFresh ==
    ASSUME IInv, FreshInv, NEW p \in Procs, Aside(p), Active(p),
           since'[p] <= latest, Active(p)' => Entry(p)'
    PROVE  FreshInv'
<1>1. ASSUME NEW r \in Procs \ {p} PROVE since'[r] <= latest' /\ (Active(r)' => Entry(r)')
  <2>1. since'[r] <= latest'
    BY DEF FreshInv, Aside
  <2>2. Active(r)' => Active(r)
    BY DEF Active, Aside
  <2> QED BY <2>1, <2>2, OthersFresh
<1>2. since'[p] <= latest'
  BY DEF Aside
<1> QED BY <1>1, <1>2 DEF FreshInv

LEMMA FreshStep == IInv /\ FreshInv /\ [Next]_vars => FreshInv'
<1> SUFFICES ASSUME IInv, FreshInv, [Next]_vars PROVE FreshInv'
  OBVIOUS
<1> USE ContentFacts, IsoAssumption
     DEF IInv, TypeOK, CacheWhole, WholeInv, Downloaded, FreshInv, Entry, NoOlder,
         Active, Default, Updating, GotoWith, Goto, Return, history
<1>1. ASSUME NEW p \in Procs, StatCacheDir(p) PROVE FreshInv'
  BY <1>1 DEF StatCacheDir
<1>2. ASSUME NEW p \in Procs, MkCacheDir(p) PROVE FreshInv'
  BY <1>2 DEF MkCacheDir
<1>3. ASSUME NEW p \in Procs, Exists(p) PROVE FreshInv'
  BY <1>3 DEF Exists, Updated
<1>4. ASSUME NEW p \in Procs, ReadVersion(p) PROVE FreshInv'
  BY <1>4 DEF ReadVersion, HasVersion
<1>5. ASSUME NEW p \in Procs, CompareTag(p) PROVE FreshInv'
  <2>1. Aside(p)
    BY <1>5 DEF CompareTag, Aside, Updated, FaultReturn, SetDest
  <2>2. Active(p) /\ Entry(p) /\ since'[p] <= latest
    BY <1>5 DEF CompareTag
  <2>3. Active(p)' => Entry(p)'
    <3> SUFFICES ASSUME Active(p)' PROVE Entry(p)'
      OBVIOUS
    <3>1. /\ at'[p] \in {"url", "open"} /\ result' = result /\ cache' = cache
          /\ floor[p] \subseteq floor'[p] /\ since' = since
      BY <1>5 DEF CompareTag, Updated
    <3>2. /\ result'[p] = "none" /\ NoOlder(p, latest)'
          /\ \A q \in Procs : Updating(q)' => NoOlder(p, since[q])'
          /\ \A q \in Procs : Active(q)' /\ job'[q].m = job'[p].m => q = p
      BY <2>1, <2>2, <3>1, OwnFresh
    <3>3. cache = None \/ (cache \in Int /\ 0 <= cache)
      BY DEF Content, None, Partial
    <3>4. at'[p] = "open" => cache' = None \/ NoOlder(p, cache)'
      <4>1. CASE hand[p] = latest /\ floor' = floor
        BY <2>2, <3>1, <4>1, <1>5 DEF CompareTag
      <4>2. CASE 0 \in floor'[p]
        BY <3>1, <3>3, <4>2
      <4> QED BY <1>5, <4>1, <4>2 DEF CompareTag
    <3> QED BY <3>1, <3>2, <3>4
  <2> QED BY <2>1, <2>2, <2>3, StepFresh
<1>6. ASSUME NEW p \in Procs, ReleaseURL(p) PROVE FreshInv'
  <2>1. Aside(p)
    BY <1>6 DEF ReleaseURL, Aside, Updated, FaultReturn, SetDest
  <2>2. Active(p) /\ Entry(p) /\ since'[p] <= latest
    BY <1>6 DEF ReleaseURL
  <2>3. Active(p)' => Entry(p)'
    <3> SUFFICES ASSUME Active(p)' PROVE Entry(p)'
      OBVIOUS
    <3>1. /\ at'[p] = "get" /\ result' = result /\ floor' = floor /\ since' = since
          /\ latest' = latest /\ job' = job
          /\ hand'[p] = IF Default(p) THEN latest ELSE Custom
      BY <1>6 DEF ReleaseURL, FaultReturn
    <3>2. /\ result'[p] = "none" /\ NoOlder(p, latest)'
          /\ \A q \in Procs : Updating(q)' => NoOlder(p, since[q])'
          /\ \A q \in Procs : Active(q)' /\ job'[q].m = job'[p].m => q = p
      BY <2>1, <2>2, <3>1, OwnFresh
    <3>3. latest <= Custom /\ \A y \in floor[p] : y \in Int
      BY DEF Custom
    <3>4. NoOlder(p, hand[p])' /\ (Default(p)' => since'[p] <= hand'[p])
      <4>1. PICK y \in floor[p] : y <= latest
        BY <2>2
      <4>2. y <= Custom
        BY <3>3, <4>1 DEF Custom
      <4>3. y <= hand'[p] /\ y \in floor'[p]
        BY <3>1, <4>1, <4>2
      <4>4. NoOlder(p, hand[p])'
        BY <4>3
      <4>5. Default(p)' => since'[p] <= hand'[p]
        BY <3>1
      <4> QED BY <4>4, <4>5
    <3> QED BY <3>1, <3>2, <3>4
  <2> QED BY <2>1, <2>2, <2>3, StepFresh
<1>7. ASSUME NEW p \in Procs, Get(p) PROVE FreshInv'
  <2>1. Aside(p)
    BY <1>7 DEF Get, Aside, Updated, FaultReturn, SetDest
  <2>2. Active(p) /\ Entry(p) /\ since'[p] <= latest
    BY <1>7 DEF Get
  <2>3. Active(p)' => Entry(p)'
    <3> SUFFICES ASSUME Active(p)' PROVE Entry(p)'
      OBVIOUS
    <3>1. /\ at'[p] = "temp" /\ result' = result /\ floor[p] \subseteq floor'[p]
          /\ latest' = latest /\ job' = job
          /\ \/ since'[p] = since[p] /\ hand'[p] = hand[p]
             \/ since'[p] = 0 /\ 0 \in floor'[p] /\ hand'[p] = Junk
      BY <1>7 DEF Get, FaultReturn
    <3>2. /\ result'[p] = "none" /\ NoOlder(p, latest)'
          /\ \A q \in Procs : Updating(q)' => NoOlder(p, since[q])'
          /\ \A q \in Procs : Active(q)' /\ job'[q].m = job'[p].m => q = p
      BY <2>1, <2>2, <3>1, OwnFresh
    <3>3. NoOlder(p, hand[p])' /\ (Default(p)' => since'[p] <= hand'[p])
      BY <1>7, <2>2, <3>1 DEF Get, Junk
    <3> QED BY <3>1, <3>2, <3>3
  <2> QED BY <2>1, <2>2, <2>3, StepFresh
<1>8. ASSUME NEW p \in Procs, CreateTemp(p) PROVE FreshInv'
  BY <1>8 DEF CreateTemp, FaultReturn
<1>9. ASSUME NEW p \in Procs, Fetch(p) PROVE FreshInv'
  BY <1>9 DEF Fetch, FaultReturn
<1>10. ASSUME NEW p \in Procs, StatDest(p) PROVE FreshInv'
  BY <1>10 DEF StatDest, Dest
<1>11. ASSUME NEW p \in Procs, RemoveDest(p) PROVE FreshInv'
  <2>1. Aside(p)
    <3>1. Active(p)
      BY <1>11 DEF RemoveDest
    <3>2. /\ job' = job /\ latest' = latest /\ since' = since /\ floor' = floor
          /\ \A r \in Procs \ {p} : at'[r] = at[r] /\ tmp'[r] = tmp[r] /\ hand'[r] = hand[r]
                                   /\ result'[r] = result[r]
      BY <1>11 DEF RemoveDest
    <3>3. cache' \in {cache, None} /\ iso' \in {iso, [iso EXCEPT ![job[p].m] = None]}
      BY <1>11 DEF RemoveDest, SetDest
    <3>4. \A r \in Procs \ {p} : Active(r) => iso'[job[r].m] = iso[job[r].m]
      BY <3>1, <3>3, MachineOf
    <3> QED BY <3>2, <3>3, <3>4 DEF Aside
  <2>2. Active(p) /\ Entry(p) /\ since'[p] <= latest
    BY <1>11 DEF RemoveDest, Dest
  <2>3. Active(p)' => Entry(p)'
    BY <1>11, <2>2 DEF RemoveDest, Dest, Updated, FaultReturn, SetDest
  <2> QED BY <2>1, <2>2, <2>3, StepFresh
<1>12. ASSUME NEW p \in Procs, RenameTemp(p) PROVE FreshInv'
  <2>1. Aside(p)
    <3>1. Active(p) /\ Entry(p)
      BY <1>12 DEF RenameTemp
    <3>2. /\ job' = job /\ latest' = latest /\ since' = since /\ floor' = floor
          /\ \A r \in Procs \ {p} : at'[r] = at[r] /\ tmp'[r] = tmp[r] /\ hand'[r] = hand[r]
                                   /\ result'[r] = result[r]
      BY <1>12 DEF RenameTemp, Updated
    <3>3. \/ Default(p) /\ cache' = tmp[p] /\ iso' = iso
          \/ cache' = cache /\ iso' = [iso EXCEPT ![job[p].m] = tmp[p]]
      BY <1>12 DEF RenameTemp, SetDest
    <3>4. \A r \in Procs \ {p} : Active(r) => iso'[job[r].m] = iso[job[r].m]
      BY <3>1, <3>3, MachineOf
    <3>5. \A r \in Procs \ {p} : Active(r) => cache' = cache \/ NoOlder(r, cache')
      <4> SUFFICES ASSUME NEW r \in Procs \ {p}, Active(r), Default(p), cache' = tmp[p]
                   PROVE  NoOlder(r, cache')
        BY <3>3
      <4>1. since[p] <= tmp[p] /\ since[p] \in Int /\ tmp[p] \in Int
        BY <1>12, <3>1 DEF RenameTemp, Content, None, Custom
      <4>2. PICK y \in floor[r] : y <= since[p]
        BY <3>1
      <4>3. y \in Int
        OBVIOUS
      <4> QED BY <4>1, <4>2, <4>3
    <3> QED BY <3>2, <3>4, <3>5 DEF Aside
  <2>2. Active(p) /\ Entry(p) /\ since'[p] <= latest
    BY <1>12 DEF RenameTemp
  <2>3. Active(p)' => Entry(p)'
    BY <1>12, <2>2 DEF RenameTemp, Updated, FaultReturn, SetDest
  <2> QED BY <2>1, <2>2, <2>3, StepFresh
<1>13. ASSUME NEW p \in Procs, OpenCache(p) PROVE FreshInv'
  BY <1>13 DEF OpenCache
<1>14. ASSUME NEW p \in Procs, CreateCopy(p) PROVE FreshInv'
  <2>1. Aside(p)
    <3>1. Active(p)
      BY <1>14 DEF CreateCopy
    <3>2. /\ job' = job /\ latest' = latest /\ since' = since /\ floor' = floor /\ cache' = cache
          /\ \A r \in Procs \ {p} : at'[r] = at[r] /\ tmp'[r] = tmp[r] /\ hand'[r] = hand[r]
                                   /\ result'[r] = result[r]
      BY <1>14 DEF CreateCopy, FaultReturn
    <3>3. iso' \in {iso, [iso EXCEPT ![job[p].m] = Partial]}
      BY <1>14 DEF CreateCopy
    <3>4. \A r \in Procs \ {p} : Active(r) => iso'[job[r].m] = iso[job[r].m]
      BY <3>1, <3>3, MachineOf
    <3> QED BY <3>2, <3>4 DEF Aside
  <2>2. Active(p) /\ Entry(p) /\ since'[p] <= latest
    BY <1>14 DEF CreateCopy
  <2>3. Active(p)' => Entry(p)'
    BY <1>14, <2>2 DEF CreateCopy, Updated, FaultReturn, SetDest
  <2> QED BY <2>1, <2>2, <2>3, StepFresh
<1>15. ASSUME NEW p \in Procs, FillCopy(p) PROVE FreshInv'
  <2>1. Aside(p)
    <3>1. Active(p)
      BY <1>15 DEF FillCopy
    <3>2. /\ job' = job /\ latest' = latest /\ since' = since /\ floor' = floor /\ cache' = cache
          /\ \A r \in Procs \ {p} : at'[r] = at[r] /\ tmp'[r] = tmp[r] /\ hand'[r] = hand[r]
                                   /\ result'[r] = result[r]
      BY <1>15 DEF FillCopy, FaultReturn
    <3>3. iso' \in {iso, [iso EXCEPT ![job[p].m] = hand[p]]}
      BY <1>15 DEF FillCopy
    <3>4. \A r \in Procs \ {p} : Active(r) => iso'[job[r].m] = iso[job[r].m]
      BY <3>1, <3>3, MachineOf
    <3> QED BY <3>2, <3>4 DEF Aside
  <2>2. Active(p) /\ Entry(p) /\ since'[p] <= latest
    BY <1>15 DEF FillCopy
  <2>3. Active(p)' => Entry(p)'
    <3> SUFFICES ASSUME Active(p)' PROVE Entry(p)'
      OBVIOUS
    <3>1. /\ at[p] = "fill" /\ at'[p] = "restat" /\ result' = result /\ floor' = floor
          /\ since' = since /\ job' = job /\ iso' = [iso EXCEPT ![job[p].m] = hand[p]]
      BY <1>15 DEF FillCopy, FaultReturn
    <3>2. /\ result'[p] = "none" /\ NoOlder(p, latest)'
          /\ \A q \in Procs : Updating(q)' => NoOlder(p, since[q])'
          /\ \A q \in Procs : Active(q)' /\ job'[q].m = job'[p].m => q = p
      BY <2>1, <2>2, <3>1, OwnFresh
    <3>3. iso'[job'[p].m] = hand[p]
      BY <2>2, <3>1, MachineOf
    <3>4. hand[p] \notin {None, Partial} /\ NoOlder(p, hand[p])
      BY <2>2, <3>1
    <3>5. NoOlder(p, iso[job[p].m])'
      BY <3>1, <3>3, <3>4
    <3> QED BY <3>1, <3>2, <3>3, <3>4, <3>5
  <2> QED BY <2>1, <2>2, <2>3, StepFresh
<1>16. ASSUME NEW p \in Procs, StatCache(p) PROVE FreshInv'
  BY <1>16 DEF StatCache
<1>17. ASSUME NEW p \in Procs, Crash(p) PROVE FreshInv'
  BY <1>17 DEF Crash
<1>18. ASSUME NEW p \in Procs, NEW j \in Jobs, Begin(p, j) PROVE FreshInv'
  BY <1>18 DEF Begin
<1>19. CASE Publish
  BY <1>19 DEF Publish
<1>20. CASE UNCHANGED vars
  BY <1>20 DEF vars
<1> QED
  BY <1>1, <1>2, <1>3, <1>4, <1>5, <1>6, <1>7, <1>8, <1>9, <1>10, <1>11, <1>12, <1>13,
       <1>14, <1>15, <1>16, <1>17, <1>18, <1>19, <1>20
     DEF Next, Update, Download, CopyFile
LEMMA FreshInductive == Spec => [](IInv /\ FreshInv)
<1>1. Init => FreshInv
  <2> SUFFICES ASSUME Init, NEW p \in Procs PROVE since[p] <= latest /\ ~Active(p)
    BY DEF FreshInv
  <2>1. since[p] = 0 /\ latest = 1 /\ at[p] = "idle"
    BY DEF Init
  <2> QED BY <2>1 DEF Active
<1>2. IInv /\ FreshInv /\ [Next]_vars => (IInv /\ FreshInv)'
  BY TypeStep, WholeStep, AloneStep, FreshStep DEF IInv
<1> QED BY <1>1, <1>2, InitInv, PTL DEF Spec

\* A call that reports success has left the machine a whole ISO that is no older
\* than the newest release when it, or a call it met at its start, began, but for
\* the code's own excuses: for any number of processes, machines, releases and
\* calls and all faults (b2p.go:392-475).
THEOREM SuccessIsFresh == Spec => FreshIso
<1>1. ASSUME IInv, FreshInv, [Next]_vars
      PROVE  [\A p \in Procs :
                (Active(p) /\ result'[p] = "ok" /\ job[p].copy)
                   => /\ iso'[job[p].m] \notin {None, Partial}
                      /\ \E x \in floor'[p] : x <= iso'[job[p].m]]_vars
  <2> SUFFICES ASSUME Next, NEW p \in Procs, Active(p), result'[p] = "ok", job[p].copy
               PROVE  /\ iso'[job[p].m] \notin {None, Partial}
                      /\ \E x \in floor'[p] : x <= iso'[job[p].m]
    BY <1>1
  <2>1. Entry(p) /\ result[p] = "none" /\ job[p].m \in Machines
    BY <1>1, MachineOf DEF FreshInv, Entry
  <2>2. RenameTemp(p) \/ StatCache(p)
    <3>1. result \in [Procs -> {"none", "ok", "fault", "race", "killed"}] /\ result' # result
      BY <1>1, <2>1 DEF IInv, TypeOK
    <3> USE DEF GotoWith, Goto, Return, FaultReturn, Updated
    <3>2. ASSUME NEW q \in Procs, Update(q) PROVE FALSE
      BY <2>1, <3>1, <3>2 DEF Update, StatCacheDir, MkCacheDir, Exists, ReadVersion, CompareTag
    <3>3. ASSUME NEW q \in Procs, Download(q) PROVE RenameTemp(p)
      BY <2>1, <3>1, <3>3
         DEF Download, ReleaseURL, Get, CreateTemp, Fetch, StatDest, RemoveDest, RenameTemp
    <3>4. ASSUME NEW q \in Procs, CopyFile(q) PROVE StatCache(p)
      BY <2>1, <3>1, <3>4 DEF CopyFile, OpenCache, CreateCopy, FillCopy, StatCache
    <3>5. ASSUME NEW q \in Procs, Crash(q) \/ \E j \in Jobs : Begin(q, j) PROVE FALSE
      BY <2>1, <3>1, <3>5 DEF Crash, Begin
    <3>6. ~Publish
      BY <3>1 DEF Publish
    <3> QED BY <3>2, <3>3, <3>4, <3>5, <3>6 DEF Next
  <2>3. CASE RenameTemp(p)
    <3>1. /\ at[p] = "rename" /\ ~Default(p) /\ floor' = floor
          /\ iso' = [iso EXCEPT ![job[p].m] = tmp[p]]
      BY <1>1, <2>1, <2>3 DEF RenameTemp, Updated, SetDest, GotoWith, Return, history, IInv, TypeOK
    <3>2. tmp[p] \notin {None, Partial} /\ NoOlder(p, tmp[p])
      BY <1>1, <2>1, <3>1 DEF IInv, WholeInv, Downloaded, Entry
    <3>3. iso'[job[p].m] = tmp[p]
      BY <1>1, <2>1, <3>1 DEF IInv, TypeOK
    <3> QED BY <3>1, <3>2, <3>3 DEF NoOlder
  <2>4. CASE StatCache(p)
    BY <2>1, <2>4 DEF StatCache, Entry, NoOlder, history
  <2> QED BY <2>2, <2>3, <2>4
<1> QED BY <1>1, FreshInductive, PTL DEF Spec, FreshIso
=============================================================================
