----------------------------- MODULE LsCommand -----------------------------
(***************************************************************************)
(* The commands ls and active (commands/ls.go, commands/active.go): one    *)
(* goroutine per host that waits for its state or gives up after the       *)
(* timeout (getHostState), one that asks the driver (attemptGetHostState), *)
(* and main, which filters the hosts first and then collects one item per  *)
(* host.  Drivers of virtualbox hosts are SerialDrivers: each of their     *)
(* calls holds one lock for the whole process (libmachine/drivers/         *)
(* serial.go).  The timeout is untimed: it may fire whenever it is waited  *)
(* for.                                                                    *)
(***************************************************************************)
EXTENDS Naturals, FiniteSets

CONSTANTS
    Hosts,      \* the hosts that were loaded
    Serial,     \* the virtualbox hosts among them
    MayHang,    \* hosts whose hypervisor may never answer GetURL and GetState
    Active,     \* the host that PODMAN_MACHINE_NAME names: {h} or {}
    StateFilters \* values of --filter state= that are tried: a subset of
                \* {"any", "running", "stopped"}, "any" being no filter

ASSUME LsAssumption ==
    /\ IsFiniteSet(Hosts)
    /\ Serial \subseteq Hosts
    /\ MayHang \subseteq Hosts
    /\ Active \subseteq Hosts
    /\ StateFilters \subseteq {"any", "running", "stopped"}

\* The goroutines: <<"main", h>> is main while it filters h.
Goroutines == {"main", "query", "wait"} \X Hosts

VARIABLES
    hung,       \* hosts whose hypervisor does not answer in this run
    want,       \* the state filter of the command line
    main,       \* "filter", "collect", "return"
    unfiltered, \* hosts main has still to filter
    list,       \* hostList after the filter
    query,      \* query[h]: where attemptGetHostState is
    found,      \* found[h]: its state and error so far
    wait,       \* wait[h]: where getHostState is
    item,       \* item[h]: what getHostState sends to main
    collected,  \* hosts whose item main received
    calling,    \* goroutines inside a driver call
    holder,     \* {} or {g}: who holds stdLock
    answer      \* cmdActive: "pending", "active", "timeout", "nohost"

vars == <<hung, want, main, unfiltered, list, query, found, wait, item,
          collected, calling, holder, answer>>

States == {"none", "running", "stopped", "timeout"}
Errors == {"", "empty", "notrunning", "error"}

TypeOK ==
    /\ hung \subseteq Hosts
    /\ want \in {"any", "running", "stopped"}
    /\ main \in {"filter", "collect", "return"}
    /\ unfiltered \subseteq Hosts
    /\ list \subseteq Hosts
    /\ query \in [Hosts -> {"off", "url", "state", "name", "send", "done"}]
    /\ found \in [Hosts -> [state : States \ {"timeout"}, err : Errors]]
    /\ wait \in [Hosts -> {"off", "select", "name", "deliver", "done"}]
    /\ item \in [Hosts -> States]
    /\ collected \subseteq Hosts
    /\ calling \subseteq Goroutines
    /\ holder \subseteq Goroutines
    /\ answer \in {"pending", "active", "timeout", "nohost"}

Init ==
    /\ hung \in SUBSET MayHang
    /\ want \in StateFilters
    /\ main = "filter"
    /\ unfiltered = IF want = "any" THEN {} ELSE Hosts
    /\ list = IF want = "any" THEN Hosts ELSE {}
    /\ query = [h \in Hosts |-> "off"]
    /\ found = [h \in Hosts |-> [state |-> "none", err |-> ""]]
    /\ wait = [h \in Hosts |-> "off"]
    /\ item = [h \in Hosts |-> "none"]
    /\ collected = {}
    /\ calling = {}
    /\ holder = {}
    /\ answer = "pending"
-----------------------------------------------------------------------------
(* Driver calls.                                                           *)

\* The goroutine's next step is a call of the driver of h.
AtCall(g, h) ==
    \/ g = <<"main", h>> /\ main = "filter" /\ h \in unfiltered
    \/ g = <<"query", h>> /\ query[h] \in {"url", "state", "name"}
    \/ g = <<"wait", h>> /\ wait[h] = "name"

\* The calls that ask the hypervisor; DriverName does not.
AsksHypervisor(g, h) ==
    g = <<"main", h>> \/ (g = <<"query", h>> /\ query[h] # "name")

\* Mutant of BeginCall: DriverName takes no lock.
BeginCallUnlockedName(g) ==
    LET h == g[2] IN
    /\ AtCall(g, h)
    /\ g \notin calling
    /\ g[1] = "main" => \A k \in Hosts : <<"main", k>> \notin calling
    /\ calling' = calling \cup {g}
    /\ \/ AsksHypervisor(g, h) /\ h \in Serial /\ holder = {} /\ holder' = {g}
       \/ ~(AsksHypervisor(g, h) /\ h \in Serial) /\ UNCHANGED holder
    /\ UNCHANGED <<hung, want, main, unfiltered, list, query, found, wait, item,
                   collected, answer>>

\* A method of the driver is called; a SerialDriver's takes stdLock first.
BeginCall(g) ==
    LET h == g[2] IN
    /\ AtCall(g, h)
    /\ g \notin calling
    /\ g[1] = "main" => \A k \in Hosts : <<"main", k>> \notin calling
    /\ calling' = calling \cup {g}
    /\ \/ h \in Serial /\ holder = {} /\ holder' = {g}
       \/ h \notin Serial /\ UNCHANGED holder
    /\ UNCHANGED <<hung, want, main, unfiltered, list, query, found, wait, item,
                   collected, answer>>

\* The method returns, and the deferred Unlock with it.
EndCall(g, h) ==
    /\ g \in calling
    /\ AsksHypervisor(g, h) => h \notin hung
    /\ calling' = calling \ {g}
    /\ holder' = holder \ {g}
-----------------------------------------------------------------------------
(* filterHosts, in main, before any timeout runs.                          *)

\* matchesState of one host returns.
FilterHost(h) ==
    /\ main = "filter" /\ h \in unfiltered
    /\ EndCall(<<"main", h>>, h)
    /\ unfiltered' = unfiltered \ {h}
    /\ \E s \in {"none", "running", "stopped"} :
          list' = IF s = want THEN list \cup {h} ELSE list
    /\ UNCHANGED <<hung, want, main, query, found, wait, item, collected, answer>>

\* getHostListItems starts a getHostState per host, which starts an
\* attemptGetHostState.
StartQueries ==
    /\ main = "filter"
    /\ unfiltered = {}
    /\ main' = "collect"
    /\ query' = [h \in Hosts |-> IF h \in list THEN "url" ELSE "off"]
    /\ wait' = [h \in Hosts |-> IF h \in list THEN "select" ELSE "off"]
    /\ UNCHANGED <<hung, want, unfiltered, list, found, item, collected,
                   calling, holder, answer>>
-----------------------------------------------------------------------------
(* attemptGetHostState.                                                    *)

QueryGoesOn(h, place, s, e) ==
    /\ query' = [query EXCEPT ![h] = place]
    /\ found' = [found EXCEPT ![h] = [state |-> s, err |-> e]]
    /\ UNCHANGED <<hung, want, main, unfiltered, list, wait, item, collected, answer>>

\* h.URL() returns.  With a URL the host is taken to be running; without one,
\* or with an error, GetState is asked.
URLReturns(h) ==
    /\ query[h] = "url"
    /\ EndCall(<<"query", h>>, h)
    /\ \/ QueryGoesOn(h, "name", "running", "")
       \/ \E e \in {"empty", "notrunning", "error"} : QueryGoesOn(h, "state", "none", e)

\* GetState returns.  Its error is reported only after an empty URL, and
\* ErrHostIsNotRunning is no error for the listing.
StateReturns(h) ==
    /\ query[h] = "state"
    /\ EndCall(<<"query", h>>, h)
    /\ \E s \in {"none", "running", "stopped"} :
          QueryGoesOn(h, "name", s,
              CASE found[h].err = "empty" -> IF s = "none" THEN "error" ELSE ""
                [] found[h].err = "notrunning" -> ""
                [] OTHER -> found[h].err)

\* DriverName returns, and the item is ready to send.
NameReturns(h) ==
    /\ query[h] = "name"
    /\ EndCall(<<"query", h>>, h)
    /\ QueryGoesOn(h, "send", found[h].state, found[h].err)
-----------------------------------------------------------------------------
(* getHostState.                                                           *)

\* The select takes the item from the unbuffered stateQueryChan.
SelectItem(h) ==
    /\ query[h] = "send" /\ wait[h] = "select"
    /\ query' = [query EXCEPT ![h] = "done"]
    /\ wait' = [wait EXCEPT ![h] = "deliver"]
    /\ item' = [item EXCEPT ![h] = found[h].state]
    /\ UNCHANGED <<hung, want, main, unfiltered, list, found, collected, calling,
                   holder, answer>>

\* The select takes the timeout; its item needs DriverName first.  From now on
\* nobody receives what the query sends.
SelectTimeout(h) ==
    /\ wait[h] = "select"
    /\ wait' = [wait EXCEPT ![h] = "name"]
    /\ item' = [item EXCEPT ![h] = "timeout"]
    /\ UNCHANGED <<hung, want, main, unfiltered, list, query, found, collected,
                   calling, holder, answer>>

TimeoutNameReturns(h) ==
    /\ wait[h] = "name"
    /\ EndCall(<<"wait", h>>, h)
    /\ wait' = [wait EXCEPT ![h] = "deliver"]
    /\ UNCHANGED <<hung, want, main, unfiltered, list, query, found, item,
                   collected, answer>>

\* Mutant of Deliver: getHostState forgets to send the item of a timeout.
DeliverNoTimeout(h) ==
    /\ main = "collect"
    /\ wait[h] = "deliver"
    /\ wait' = [wait EXCEPT ![h] = "done"]
    /\ collected' = IF item[h] = "timeout" THEN collected ELSE collected \cup {h}
    /\ UNCHANGED <<hung, want, main, unfiltered, list, query, found, item, calling,
                   holder, answer>>

\* main receives the item from the unbuffered hostListItemsChan.
Deliver(h) ==
    /\ main = "collect"
    /\ wait[h] = "deliver"
    /\ wait' = [wait EXCEPT ![h] = "done"]
    /\ collected' = collected \cup {h}
    /\ UNCHANGED <<hung, want, main, unfiltered, list, query, found, item, calling,
                   holder, answer>>
-----------------------------------------------------------------------------
(* The end of getHostListItems, and activeHost on its items.               *)

\* isActive: the item is of the host the environment names, and running.
ActiveItem == \E h \in list \cap Active : item[h] = "running"

\* Mutant of ActiveAnswer: timeouts are not told apart.
ActiveAnswerNoTimeout ==
    IF ActiveItem THEN "active" ELSE "nohost"

ActiveAnswer ==
    IF ActiveItem THEN "active"
    ELSE IF \E h \in list : item[h] = "timeout" THEN "timeout"
    ELSE "nohost"

\* One item per host was received: the channel is closed and the command
\* prints its answer.
Return ==
    /\ main = "collect"
    /\ Cardinality(collected) = Cardinality(list)
    /\ main' = "return"
    /\ answer' = ActiveAnswer
    /\ UNCHANGED <<hung, want, unfiltered, list, query, found, wait, item,
                   collected, calling, holder>>

\* The command has returned and its goroutines, stuck or not, end with it.
Terminated == main = "return" /\ UNCHANGED vars

Next ==
    \/ StartQueries
    \/ Return
    \/ \E g \in Goroutines : BeginCall(g)
    \/ \E h \in Hosts :
          \/ FilterHost(h)
          \/ URLReturns(h) \/ StateReturns(h) \/ NameReturns(h)
          \/ SelectItem(h) \/ SelectTimeout(h) \/ TimeoutNameReturns(h)
          \/ Deliver(h)
    \/ Terminated

\* Goroutines run, timers fire, sync.Mutex admits each waiter in the end, and
\* calls return unless the hypervisor hangs.
Fairness ==
    /\ WF_vars(StartQueries)
    /\ WF_vars(Return)
    /\ \A g \in Goroutines : SF_vars(BeginCall(g))
    /\ \A h \in Hosts :
          /\ WF_vars(FilterHost(h))
          /\ WF_vars(URLReturns(h) \/ StateReturns(h) \/ NameReturns(h))
          /\ WF_vars(SelectTimeout(h) \/ TimeoutNameReturns(h) \/ Deliver(h))

Spec == Init /\ [][Next]_vars

FairSpec == Spec /\ Fairness
-----------------------------------------------------------------------------
(* Properties.                                                             *)

\* "RPC calls to a driver only occur one at a time": of all the goroutines of
\* the command at most one is inside a call on a virtualbox host, and it is the
\* one that holds the lock (serial.go:14-18).
OneCallAtATime ==
    /\ \A g \in calling : g[2] \in Serial => holder = {g}
    /\ holder \subseteq calling

\* The goroutines and main agree on who has sent: an item was received from
\* exactly the hosts whose getHostState is done, so no item is counted twice,
\* and when the channel is closed nobody is left that would send on it, which
\* would be a panic (ls.go:341-355).
ItemsAccountedFor ==
    /\ collected = {h \in Hosts : wait[h] = "done"}
    /\ \A h \in Hosts :
          IF main # "filter" /\ h \in list THEN wait[h] # "off" /\ query[h] # "off"
          ELSE wait[h] = "off" /\ query[h] = "off"
    /\ main = "return" => \A h \in list : wait[h] = "done"

\* A goroutine inside a call stands where the call is made, whatever timeouts
\* have fired meanwhile (ls.go:266-339).
CallsArePending == \A g \in calling : AtCall(g, g[2])

\* A query whose answer was taken is done, and one that lost to the timeout is
\* never taken: the listing of one host has one source (ls.go:317-339).
OneSource ==
    \A h \in Hosts :
        /\ query[h] = "done" => wait[h] \in {"deliver", "done"} /\ item[h] = found[h].state
        /\ item[h] = "timeout" => query[h] # "done"
        /\ wait[h] = "name" => item[h] = "timeout"
        /\ wait[h] \in {"deliver", "done"} => item[h] = "timeout" \/ query[h] = "done"

\* The safety of ls and active, in one inductive invariant (ls.go:266-363).
LsInv ==
    /\ TypeOK
    /\ OneCallAtATime
    /\ ItemsAccountedFor
    /\ CallsArePending
    /\ OneSource

\* cmdActive says that no host is active only when no driver was too slow to
\* say, and names a host only when its driver said it runs (active.go:46-60).
ActiveAnswerIsRight ==
    /\ answer = "nohost" => \A h \in list : query[h] = "done"
    /\ answer = "active" => \E h \in Active : query[h] = "done" /\ found[h].state = "running"

\* What is left of "give up after a predetermined duration" with the lock of the
\* serial drivers: ls returns although hosts never answer, as long as none of them
\* is a virtualbox host, and when one is, the items of all other hosts still reach
\* main.  The virtualbox host itself is not given up: its unanswered query keeps
\* stdLock, which DriverName in the timeout's own item waits for (ls.go:334).  The
\* filter by state asks the drivers before any timeout runs: with it every host
\* has to answer.  (ls.go:330-353)
LsReturns ==
    /\ hung = {} \/ (want = "any" /\ hung \cap Serial = {}) => <>(main = "return")
    /\ want = "any" => \A h \in Hosts \ Serial : <>(h \in collected)
=============================================================================
