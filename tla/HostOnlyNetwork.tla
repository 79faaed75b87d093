-------------------------- MODULE HostOnlyNetwork --------------------------
(***************************************************************************)
(* The host-only networks of VirtualBox machines: what the driver's Start  *)
(* does to find or create the adapter of a machine's CIDR, to clean up and *)
(* set up DHCP servers, to attach the machine, and to repair the adapter   *)
(* afterwards (drivers/virtualbox/network.go, virtualbox.go).  VirtualBox  *)
(* is shared by all processes and has no lock that spans two VBoxManage    *)
(* calls: each call is a step.                                             *)
(***************************************************************************)
EXTENDS Naturals, FiniteSets, TLC

CONSTANTS
    Procs,
    Machines,
    CIDRFunctions, \* the HostOnlyCIDRs the machines may have
    MaxAdapters, \* bound: names VirtualBox has for adapters
    MaxStarts,   \* bound: starts begun in a run
    Randoms,     \* what RandomInt(24) + 1 may give, a subset of 1..24
    Taken,       \* CIDRs whose network a host interface has
    FaultSets    \* a set of subsets of AllFaults: which of them go together

\* A process is killed; a VBoxManage call fails; hostonlyif create reports an
\* error or its adapter does not show up in time; starting the machine corrupts
\* its adapter; the user removes an adapter; creating an adapter also makes a
\* DHCP server for it, as on some platforms.
AllFaults == {"crash", "vbm", "hidden", "corrupt", "user", "default"}

\* An address is its last byte, the other three being the network's; a CIDR is
\* the host's address and the length of the mask.  Machines with different CIDRs
\* are in different networks: two masks over one address are left out.
CIDRs == [host : 0..255, ones : 1..32]
NoCIDR == [host |-> 0, ones |-> 0]

ASSUME NetworkAssumption ==
    /\ CIDRFunctions \subseteq [Machines -> CIDRs]
    /\ MaxAdapters \in Nat /\ MaxStarts \in Nat
    /\ Randoms \subseteq 1..24
    /\ Taken \subseteq CIDRs
    /\ FaultSets \subseteq SUBSET AllFaults

Adapters == 1..MaxAdapters
-----------------------------------------------------------------------------
(* Addresses.                                                              *)

HostBits(c) == IF c.ones <= 24 THEN 8 ELSE 32 - c.ones

\* The last byte of the network address.
Base(c) == c.host - (c.host % (2 ^ HostBits(c)))

\* parseAndValidateCIDR refuses a CIDR whose address is the network's.
ValidCIDR(c) == c.host # Base(c)

\* getRandomIPinSubnet: a random last byte that is not the host's.
DHCPAddresses(c) == Randoms \ {c.host}

\* Mutant of DHCPAddressRange: the range begins at the bottom of the subnet.
DHCPAddressRangeAll(a, c) == [lower |-> 1, upper |-> 254]

\* getDHCPAddressRange, in bytes that wrap around.
DHCPAddressRange(a, c) ==
    IF c.ones <= 24
    THEN [lower |-> 100, upper |-> 254]
    ELSE [lower |-> (a + 1) % 256, upper |-> (2 ^ (32 - c.ones) - 2) % 256]
-----------------------------------------------------------------------------
VARIABLES
    adapter,    \* adapter[a]: "absent", "hidden" from lists or "listed", and
                \* its CIDR, NoCIDR for an address nobody asked for
    server,     \* server[a]: the DHCP server of the network of a: its address,
                \* CIDR and range; NoServer when there is none
    guest,      \* guest[m]: the adapter of the machine's second card (0 for
                \* none) and, while the machine is up, its address from DHCP
    at,         \* at[p]: where p is in Start
    mach,       \* mach[p]: its machine
    seen,       \* seen[p]: the adapters it listed first, with their CIDRs
    names,      \* names[p]: the DHCP servers it listed
    ad,         \* ad[p]: the adapter it found or made, or 0
    result,     \* result[p]: how its last Start ended; "error" when no fault
                \* that the run allows explains it
    starts,     \* starts begun so far
    cidrOf,     \* cidrOf[m]: the machine's HostOnlyCIDR
    faults,     \* what may go wrong in this run
    \* History.
    met,        \* met[p]: another Start, or the user, was active meanwhile
    clashed     \* an adapter was configured while another Start was about to
                \* configure one

vars == <<adapter, server, guest, at, mach, seen, names, ad, result, starts,
          cidrOf, faults, met, clashed>>

NoServer == [addr |-> 0, cidr |-> NoCIDR, on |-> FALSE, lower |-> 0, upper |-> 0]
DefaultServer == [NoServer EXCEPT !.on = TRUE]
NoAdapter == [st |-> "absent", cidr |-> NoCIDR]
NoGuest == [nic |-> 0, ip |-> 0]

Places == {"idle", "list", "collide", "create", "poll", "ipconfig", "dhcps", "nets",
           "orphans", "servers", "add", "modify", "nic", "boot", "recheck", "fix"}

MachineCIDRs == {cidrOf[m] : m \in Machines} \cup {NoCIDR}
Byte == 0..255

TypeOK ==
    /\ adapter \in [Adapters -> [st : {"absent", "hidden", "listed"}, cidr : MachineCIDRs]]
    /\ server \in [Adapters -> [addr : Byte, cidr : MachineCIDRs, on : BOOLEAN,
                                lower : Byte, upper : Byte]]
    /\ guest \in [Machines -> [nic : Adapters \cup {0}, ip : Byte]]
    /\ at \in [Procs -> Places]
    /\ mach \in [Procs -> Machines]
    /\ seen \in [Procs -> SUBSET [a : Adapters, cidr : MachineCIDRs]]
    /\ names \in [Procs -> SUBSET Adapters]
    /\ ad \in [Procs -> Adapters \cup {0}]
    /\ result \in [Procs -> {"none", "ok", "fault", "error", "killed"}]
    /\ starts \in 0..MaxStarts
    /\ cidrOf \in CIDRFunctions
    /\ faults \in FaultSets
    /\ met \in [Procs -> BOOLEAN]
    /\ clashed \in BOOLEAN

Init ==
    /\ adapter = [a \in Adapters |-> NoAdapter]
    /\ server = [a \in Adapters |-> NoServer]
    /\ guest = [m \in Machines |-> NoGuest]
    /\ at = [p \in Procs |-> "idle"]
    /\ \E m \in Machines : mach = [p \in Procs |-> m]
    /\ seen = [p \in Procs |-> {}]
    /\ names = [p \in Procs |-> {}]
    /\ ad = [p \in Procs |-> 0]
    /\ result = [p \in Procs |-> "none"]
    /\ starts = 0
    /\ cidrOf \in CIDRFunctions
    /\ faults \in FaultSets
    /\ met = [p \in Procs |-> FALSE]
    /\ clashed = FALSE

Active(p) == at[p] # "idle"
CIDR(p) == cidrOf[mach[p]]
control == <<mach, starts, cidrOf, faults, met>>

\* p goes on at l with what it has listed and found; Return forgets these.
GotoWith(p, l, s, n, a) ==
    /\ at' = [at EXCEPT ![p] = l]
    /\ seen' = [seen EXCEPT ![p] = s]
    /\ names' = [names EXCEPT ![p] = n]
    /\ ad' = [ad EXCEPT ![p] = a]
    /\ UNCHANGED <<result, control>>

Goto(p, l) == GotoWith(p, l, seen[p], names[p], ad[p])

Return(p, r) ==
    /\ at' = [at EXCEPT ![p] = "idle"]
    /\ seen' = [seen EXCEPT ![p] = {}]
    /\ names' = [names EXCEPT ![p] = {}]
    /\ ad' = [ad EXCEPT ![p] = 0]
    /\ result' = [result EXCEPT ![p] = r]
    /\ UNCHANGED control

Fault(p, f) == f \in faults /\ Return(p, "fault")

Listed == {[a |-> a, cidr |-> adapter[a].cidr] : a \in {b \in Adapters : adapter[b].st = "listed"}}

\* listHostOnlyAdapters fails on two adapters with the same address.
Duplicate ==
    \E x, y \in Listed : x.a # y.a /\ x.cidr = y.cidr /\ x.cidr # NoCIDR

\* Start of a stopped machine.
Begin(p, m) ==
    /\ ~Active(p)
    /\ guest[m].ip = 0
    /\ \A q \in Procs : Active(q) => mach[q] # m
    /\ starts < MaxStarts
    /\ starts' = starts + 1
    /\ mach' = [mach EXCEPT ![p] = m]
    /\ at' = [at EXCEPT ![p] = "list"]
    /\ result' = [result EXCEPT ![p] = "none"]
    /\ met' = [q \in Procs |->
                 IF q = p THEN \E r \in Procs : Active(r) ELSE met[q] \/ Active(q)]
    /\ UNCHANGED <<adapter, server, guest, seen, names, ad, cidrOf, faults, clashed>>
-----------------------------------------------------------------------------
(* setupHostOnlyNetwork: the adapter.                                      *)

ListAdapters(p) ==
    /\ at[p] = "list"
    /\ \/ ValidCIDR(CIDR(p)) /\ ~Duplicate /\ GotoWith(p, "collide", Listed, {}, 0)
       \/ (~ValidCIDR(CIDR(p)) \/ Duplicate) /\ Return(p, "error")
       \/ Fault(p, "vbm")
    /\ UNCHANGED <<adapter, server, guest, clashed>>

\* Mutant of Found: the mask in the list never is the one that was set.
FoundNever(p, nets) == {}

\* getHostOnlyAdapter.
Found(p, nets) == {x.a : x \in {y \in nets : y.cidr = CIDR(p)}}

\* validateNoIPCollisions: interfaces of the host, host-only adapters left out
\* if they were in the list; getOrCreateHostOnlyNetwork looks in that same list.
CheckCollisions(p) ==
    LET unlisted == {adapter[a].cidr : a \in Adapters} \ {x.cidr : x \in seen[p]}
        found == Found(p, seen[p])
    IN
    /\ at[p] = "collide"
    /\ \/ /\ CIDR(p) \notin Taken
          /\ \/ \E a \in found : GotoWith(p, "dhcps", {}, {}, a)
             \/ found = {} /\ Goto(p, "create")
       \/ CIDR(p) \in Taken \cup unlisted /\ Return(p, "error")
    /\ UNCHANGED <<adapter, server, guest, clashed>>

\* createHostonlyAdapter: VirtualBox takes the first free name.  An error is
\* only logged, because the adapter may be there in spite of it.
CreateAdapter(p) ==
    LET free == {a \in Adapters : adapter[a].st = "absent"}
        a == CHOOSE x \in free : \A y \in free : x <= y
    IN
    /\ at[p] = "create"
    /\ \/ /\ free # {}
          /\ \E st \in {"listed"} \cup (IF "hidden" \in faults THEN {"hidden"} ELSE {}) :
                adapter' = [adapter EXCEPT ![a] = [st |-> st, cidr |-> NoCIDR]]
          /\ server' = IF "default" \in faults THEN [server EXCEPT ![a] = DefaultServer]
                       ELSE server
       \/ (free = {} \/ "vbm" \in faults) /\ UNCHANGED <<adapter, server>>
    /\ Goto(p, "poll")
    /\ UNCHANGED <<guest, clashed>>

\* waitForNewHostOnlyNetwork: one of the adapters that were not in the first
\* list, whoever made it; an error when none shows up in ten seconds.
WaitForAdapter(p) ==
    LET new == {x.a : x \in Listed} \ {x.a : x \in seen[p]} IN
    /\ at[p] = "poll"
    /\ \/ ~Duplicate /\ \E a \in new : GotoWith(p, "ipconfig", {}, {}, a)
       \/ Duplicate /\ Return(p, "error")
       \/ new = {} /\ (\A a \in Adapters : adapter[a].st # "hidden") /\ Return(p, "fault")
       \/ new = {} /\ Fault(p, "hidden")
       \/ Fault(p, "vbm")
    /\ UNCHANGED <<adapter, server, guest, clashed>>

\* p configures an adapter while another Start may still configure one on the
\* strength of a list it made before.
Configure(p) ==
    /\ adapter' = [adapter EXCEPT ![ad[p]].cidr = CIDR(p)]
    /\ clashed' = (clashed \/ \E q \in Procs \ {p} :
                      at[q] \in {"collide", "create", "poll", "ipconfig", "fix"})

\* Save: hostonlyif ipconfig.
ConfigureAdapter(p) ==
    /\ at[p] = "ipconfig"
    /\ \/ /\ adapter[ad[p]].st = "listed"
          /\ Configure(p)
          /\ Goto(p, "dhcps")
       \/ /\ adapter[ad[p]].st # "listed" /\ Return(p, "error")
          /\ UNCHANGED <<adapter, clashed>>
       \/ Fault(p, "vbm") /\ UNCHANGED <<adapter, clashed>>
    /\ UNCHANGED <<server, guest>>
-----------------------------------------------------------------------------
(* setupHostOnlyNetwork: DHCP servers and the machine's card.              *)

Servers == {a \in Adapters : server[a].on}

\* Mutant of ListServers: adapters are listed before servers, and the orphans
\* are found in the later list.
ListServersStale(p) ==
    /\ at[p] = "dhcps"
    /\ GotoWith(p, "orphans", {}, Adapters \ {x.a : x \in Listed}, ad[p])
    /\ UNCHANGED <<adapter, server, guest, clashed>>

\* removeOrphanDHCPServers lists the servers first ...
ListServers(p) ==
    /\ at[p] = "dhcps"
    /\ \/ GotoWith(p, IF Servers = {} THEN "servers" ELSE "nets", {}, Servers, ad[p])
       \/ Fault(p, "vbm")
    /\ UNCHANGED <<adapter, server, guest, clashed>>

\* ... then the adapters ...
ListOrphans(p) ==
    /\ at[p] = "nets"
    /\ \/ ~Duplicate /\ GotoWith(p, "orphans", {}, names[p] \ {x.a : x \in Listed}, ad[p])
       \/ Duplicate /\ Return(p, "error")
       \/ Fault(p, "vbm")
    /\ UNCHANGED <<adapter, server, guest, clashed>>

\* ... and removes servers of names that have no adapter.  Errors are logged.
RemoveOrphan(p) ==
    /\ at[p] = "orphans"
    /\ \/ \E a \in names[p] :
             /\ \/ server' = [server EXCEPT ![a] = NoServer]
                \/ "vbm" \in faults /\ UNCHANGED server
             /\ GotoWith(p, "orphans", {}, names[p] \ {a}, ad[p])
       \/ names[p] = {} /\ Goto(p, "servers") /\ UNCHANGED server
    /\ UNCHANGED <<adapter, guest, clashed>>

\* Mutant of ChooseCommand: a server is always added.
ChooseCommandAdd(p) ==
    /\ at[p] = "servers"
    /\ Goto(p, "add")
    /\ UNCHANGED <<adapter, server, guest, clashed>>

\* addHostOnlyDHCPServer lists the servers to choose between add and modify;
\* getRandomIPinSubnet may have found no address but the host's in five tries.
ChooseCommand(p) ==
    /\ at[p] = "servers"
    /\ \/ Goto(p, IF ad[p] \in Servers THEN "modify" ELSE "add")
       \/ CIDR(p).host \in Randoms /\ Return(p, "fault")
       \/ Fault(p, "vbm")
    /\ UNCHANGED <<adapter, server, guest, clashed>>

\* dhcpserver add of a name that has a server, and modify of one that has none,
\* are refused.
SetServer(p) ==
    /\ at[p] \in {"add", "modify"}
    /\ \/ /\ (at[p] = "modify") = (ad[p] \in Servers)
          /\ \E x \in DHCPAddresses(CIDR(p)) :
                LET r == DHCPAddressRange(x, CIDR(p)) IN
                server' = [server EXCEPT ![ad[p]] =
                    [addr |-> x, cidr |-> CIDR(p), on |-> TRUE,
                     lower |-> r.lower, upper |-> r.upper]]
          /\ Goto(p, "nic")
       \/ (at[p] = "modify") # (ad[p] \in Servers) /\ Return(p, "error") /\ UNCHANGED server
       \/ Fault(p, "vbm") /\ UNCHANGED server
    /\ UNCHANGED <<adapter, guest, clashed>>

\* modifyvm --hostonlyadapter2.
AttachMachine(p) ==
    /\ at[p] = "nic"
    /\ \/ guest' = [guest EXCEPT ![mach[p]].nic = ad[p]] /\ Goto(p, "boot")
       \/ Fault(p, "vbm") /\ UNCHANGED guest
    /\ UNCHANGED <<adapter, server, clashed>>
-----------------------------------------------------------------------------
(* The rest of Start.                                                      *)

OnNetwork(a) == {m \in Machines : guest[m].nic = a /\ guest[m].ip # 0}

\* VirtualBox's DHCP server leases an address of its range that no other guest
\* has: its ends stand for all of it while they last.
Leases(a) ==
    LET s == server[a]
        free == (s.lower .. s.upper) \ {guest[m].ip : m \in OnNetwork(a)}
        ends == free \cap {s.lower, s.lower + 1, s.upper}
    IN
    IF ~s.on \/ s.cidr = NoCIDR \/ adapter[a].st # "listed" THEN {}
    ELSE IF ends # {} THEN ends ELSE free

\* startvm, and the wait for an address.  Starting the machine may corrupt the
\* adapter.
BootMachine(p) ==
    LET a == guest[mach[p]].nic IN
    /\ at[p] = "boot"
    /\ \/ /\ \E x \in Leases(a) : guest' = [guest EXCEPT ![mach[p]].ip = x]
          /\ Goto(p, "recheck")
       \/ Leases(a) = {} /\ Return(p, "error") /\ UNCHANGED guest
       \/ Fault(p, "vbm") /\ UNCHANGED guest
    /\ \/ UNCHANGED adapter
       \/ /\ "corrupt" \in faults
          /\ adapter' = [adapter EXCEPT ![a].cidr = NoCIDR]
    /\ UNCHANGED <<server, clashed>>

\* The adapter is looked for again: an error if there are duplicates or a
\* collision, done if it is found, repaired if it is not.
Recheck(p) ==
    /\ at[p] = "recheck"
    /\ \/ ~Duplicate /\ Found(p, Listed) # {} /\ Return(p, "ok")
       \/ ~Duplicate /\ Found(p, Listed) = {} /\ Goto(p, "fix")
       \/ (Duplicate \/ CIDR(p) \in Taken) /\ Return(p, "error")
       \/ Fault(p, "vbm")
    /\ UNCHANGED <<adapter, server, guest, clashed>>

\* Mutant of FixAdapter: the machine is started again and nothing is repaired.
FixAdapterNot(p) ==
    /\ at[p] = "fix"
    /\ Return(p, "ok")
    /\ UNCHANGED <<adapter, server, guest, clashed>>

\* Stop, SaveIPv4 of the adapter Start has in hand, and startvm.
FixAdapter(p) ==
    /\ at[p] = "fix"
    /\ \/ /\ adapter[ad[p]].st = "listed"
          /\ Configure(p)
          /\ Return(p, "ok")
          /\ UNCHANGED guest
       \/ /\ adapter[ad[p]].st # "listed"
          /\ guest' = [guest EXCEPT ![mach[p]].ip = 0]
          /\ Return(p, "error")
          /\ UNCHANGED <<adapter, clashed>>
       \/ /\ Fault(p, "vbm")
          /\ \E x \in {0, guest[mach[p]].ip} : guest' = [guest EXCEPT ![mach[p]].ip = x]
          /\ UNCHANGED <<adapter, clashed>>
    /\ UNCHANGED server
-----------------------------------------------------------------------------
(* The world.                                                              *)

StopMachine(m) ==
    /\ guest[m].ip # 0
    /\ \A p \in Procs : Active(p) => mach[p] # m
    /\ guest' = [guest EXCEPT ![m].ip = 0]
    /\ UNCHANGED <<adapter, server, at, mach, seen, names, ad, result, starts, cidrOf, faults,
                   met, clashed>>

\* An adapter shows up at last.
Appear(a) ==
    /\ adapter[a].st = "hidden"
    /\ adapter' = [adapter EXCEPT ![a].st = "listed"]
    /\ UNCHANGED <<server, guest, at, mach, seen, names, ad, result, starts, cidrOf, faults,
                   met, clashed>>

\* The user removes an adapter no machine uses; VirtualBox keeps its server.
UserRemoves(a) ==
    /\ "user" \in faults
    /\ adapter[a].st = "listed"
    /\ OnNetwork(a) = {}
    /\ adapter' = [adapter EXCEPT ![a] = NoAdapter]
    /\ met' = [p \in Procs |-> met[p] \/ Active(p)]
    /\ UNCHANGED <<server, guest, at, mach, seen, names, ad, result, starts, cidrOf, faults,
                   clashed>>

Crash(p) ==
    /\ "crash" \in faults
    /\ Active(p)
    /\ Return(p, "killed")
    /\ UNCHANGED <<adapter, server, guest, clashed>>

Setup(p) ==
    \/ ListAdapters(p) \/ CheckCollisions(p) \/ CreateAdapter(p) \/ WaitForAdapter(p)
    \/ ConfigureAdapter(p) \/ ListServers(p) \/ ListOrphans(p) \/ RemoveOrphan(p)
    \/ ChooseCommand(p) \/ SetServer(p) \/ AttachMachine(p)

Next ==
    \/ \E p \in Procs :
          \/ \E m \in Machines : Begin(p, m)
          \/ Setup(p) \/ BootMachine(p) \/ Recheck(p) \/ FixAdapter(p) \/ Crash(p)
    \/ \E m \in Machines : StopMachine(m)
    \/ \E a \in Adapters : Appear(a) \/ UserRemoves(a)

Spec == Init /\ [][Next]_vars
-----------------------------------------------------------------------------
(* Properties.                                                             *)

\* Two adapters with the same address make every later Start fail, so that only
\* the user can help.  Whatever calls fail, whatever adapters show up late and
\* whichever process is killed between creating an adapter and configuring it,
\* this comes about only when one Start configured an adapter after another,
\* which then configured one too, had listed them (network.go:142-149, 182-237).
NoDuplicates == Duplicate => clashed

\* The same, together with the types of the variables.
NetInv == TypeOK /\ NoDuplicates

\* A Start that nobody else was active with and that reports success has its
\* machine on an adapter with its CIDR and a DHCP server of that CIDR, whatever
\* failures, crashes and the user left behind before (virtualbox.go:785-848,
\* 517-560).
GoodNetwork ==
    [][\A p \in Procs :
          (Active(p) /\ result'[p] = "ok" /\ ~met[p])
              => LET a == guest'[mach[p]].nic IN
                 /\ a # 0 /\ adapter'[a] = [st |-> "listed", cidr |-> CIDR(p)]
                 /\ server'[a].on /\ server'[a].cidr = CIDR(p)]_vars

\* There may be no address between the DHCP server's and the end of the range.
Narrow(c) == 2 ^ HostBits(c) - 2 < 25

\* The guests of the network have all the addresses its server leases.
Full(a) ==
    /\ server[a].lower <= server[a].upper
    /\ (server[a].lower .. server[a].upper) \subseteq {guest[m].ip : m \in OnNetwork(a)}

\* A Start that nobody else was active with does not fail but for a failing
\* call, a network that is taken, narrow or full, or a refused CIDR; earlier
\* crashes and half-made adapters do not stop it (virtualbox.go:785-848,
\* network.go:182-213).
AloneWorks ==
    [][\A p \in Procs :
          (Active(p) /\ result'[p] = "error" /\ ~met[p])
              => \/ Duplicate \/ CIDR(p) \in Taken
                 \/ ~ValidCIDR(CIDR(p)) \/ Narrow(CIDR(p))
                 \/ at[p] = "boot" /\ Full(ad[p])]_vars

\* removeOrphanDHCPServers lists the servers before the adapters, so that a server
\* whose adapter another process is just making is never an orphan: as long as
\* adapters show up when they are made and the user removes none, the network
\* of a running machine keeps its DHCP server through all concurrent Starts
\* (network.go:245-272).
ServersStay ==
    faults \cap {"hidden", "user"} = {}
        => \A m \in Machines : guest[m].ip # 0 => server[guest[m].nic].on

\* A network of eight host bits, the host at its lower end.
Roomy(c) == c.ones <= 24 /\ c.host < 100

\* Every Start gives the DHCP server of a shared network another address while
\* the machines started before keep their leases: where all networks are roomy
\* that address is never that of a running guest or of the host, nor is the
\* host's ever leased (virtualbox.go:850-872, 958-979).  Not so next to a narrow
\* network, when two Starts have taken the same new adapter: the range of the one
\* holds addresses that the other may give to the server.
NoAddressClash ==
    (\A n \in Machines : Roomy(cidrOf[n]))
        => \A m \in Machines :
              LET s == server[guest[m].nic] IN
              (guest[m].ip # 0 /\ s.cidr # NoCIDR)
                  => s.addr # guest[m].ip /\ s.cidr.host \notin {s.addr, guest[m].ip}
=============================================================================
