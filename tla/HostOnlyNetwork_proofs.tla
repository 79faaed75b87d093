----------------------- MODULE HostOnlyNetwork_proofs -----------------------
(***************************************************************************)
(* Proofs about the host-only networks, for every set of processes and     *)
(* machines, all CIDRs, any number of adapters and Starts and all faults:  *)
(* duplicate adapters come only of two Starts that configure on the        *)
(* strength of old lists, a running machine keeps its DHCP server, in      *)
(* roomy networks no address is given twice, and a Start that met no other *)
(* works and has a good network.                                           *)
(***************************************************************************)
EXTENDS HostOnlyNetwork, WellFoundedInduction, TLAPS

\* Places between the list of adapters and the Configure that rests on it.
Unsettled == {"create", "poll", "ipconfig", "fix"}
HasAdapter == {"ipconfig", "dhcps", "nets", "orphans", "servers", "add", "modify", "nic",
               "boot", "recheck", "fix"}

\* Only an adapter that shows in lists was ever configured.
HiddenBare == \A a \in Adapters : adapter[a].st # "listed" => adapter[a].cidr = NoCIDR

\* Before a clash addresses differ, and what a Start has seen of the adapters
\* that have its CIDR is still so when it configures one.
Settled ==
    ~clashed =>
        /\ \A a, b \in Adapters :
              adapter[a].cidr = adapter[b].cidr /\ adapter[a].cidr # NoCIDR => a = b
        /\ \A p \in Procs, a \in Adapters :
              adapter[a].cidr = CIDR(p) =>
                 /\ at[p] = "collide" => [a |-> a, cidr |-> CIDR(p)] \in seen[p]
                 /\ at[p] \notin Unsettled

\* A machine is started by one process at a time, and has no address before it
\* boots.
SoleStart ==
    /\ \A p, q \in Procs : Active(p) /\ Active(q) /\ mach[p] = mach[q] => p = q
    /\ \A p \in Procs :
          Active(p) /\ at[p] \notin {"recheck", "fix"} => guest[mach[p]].ip = 0

\* A Start past the choice of an adapter has one, and so has a machine that boots
\* or is up.
Attached ==
    /\ \A p \in Procs : at[p] \in HasAdapter => ad[p] \in Adapters
    /\ \A p \in Procs : at[p] = "boot" => guest[mach[p]].nic \in Adapters
    /\ \A m \in Machines : guest[m].ip # 0 => guest[m].nic \in Adapters

\* When adapters show up at once and stay, none that a Start knows of goes away,
\* every server has its adapter, and there are no orphans.
NoOrphans ==
    faults \cap {"hidden", "user"} = {} =>
        /\ \A a \in Adapters : adapter[a].st # "hidden" /\ (server[a].on => adapter[a].st = "listed")
        /\ \A p \in Procs :
              /\ ad[p] # 0 => adapter[ad[p]].st = "listed"
              /\ \A x \in seen[p] : adapter[x.a].st = "listed"
              /\ \A a \in names[p] : adapter[a].st = "listed"
              /\ at[p] = "orphans" => names[p] = {}

\* Servers and leases of roomy networks: the servers below 25, the leases from
\* 100 on.
AllRoomy == \A n \in Machines : Roomy(cidrOf[n])
RoomyLeases ==
    AllRoomy =>
        /\ \A a \in Adapters : server[a].on /\ server[a].cidr # NoCIDR =>
              /\ server[a].addr \in 1..24 /\ server[a].addr # server[a].cidr.host
              /\ server[a].lower = 100 /\ server[a].upper = 254
        /\ \A a \in Adapters : server[a].cidr # NoCIDR =>
              /\ server[a].on /\ server[a].cidr.host < 100
        /\ \A m \in Machines : guest[m].ip # 0 => guest[m].ip >= 100

IInv ==
    /\ TypeOK /\ HiddenBare /\ Settled /\ SoleStart /\ Attached
    /\ NoOrphans /\ ServersStay /\ RoomyLeases
-----------------------------------------------------------------------------
(* Types.                                                                  *)

NetType ==
    /\ adapter \in [Adapters -> [st : {"absent", "hidden", "listed"}, cidr : MachineCIDRs]]
    /\ server \in [Adapters -> [addr : Byte, cidr : MachineCIDRs, on : BOOLEAN,
                                lower : Byte, upper : Byte]]
    /\ guest \in [Machines -> [nic : Adapters \cup {0}, ip : Byte]]
    /\ clashed \in BOOLEAN

Views == [a : Adapters, cidr : MachineCIDRs]

ProcType ==
    /\ at \in [Procs -> Places]
    /\ mach \in [Procs -> Machines]
    /\ seen \in [Procs -> SUBSET Views]
    /\ names \in [Procs -> SUBSET Adapters]
    /\ ad \in [Procs -> Adapters \cup {0}]
    /\ result \in [Procs -> {"none", "ok", "fault", "error", "killed"}]
    /\ starts \in 0..MaxStarts
    /\ cidrOf \in CIDRFunctions
    /\ faults \in FaultSets
    /\ met \in [Procs -> BOOLEAN]

LEMMA TypeSplit == TypeOK <=> NetType /\ ProcType
BY DEF TypeOK, NetType, ProcType, Views

\* A machine's CIDR is none of those that nobody asked for.
LEMMA CIDRTyped ==
    ASSUME ProcType
    PROVE  /\ NoCIDR \in MachineCIDRs
           /\ \A m \in Machines : cidrOf[m] \in MachineCIDRs /\ cidrOf[m] \in CIDRs /\ cidrOf[m] # NoCIDR
           /\ \A p \in Procs : CIDR(p) \in MachineCIDRs /\ CIDR(p) \in CIDRs /\ CIDR(p) # NoCIDR
<1>1. \A m \in Machines : cidrOf[m] \in CIDRs
  BY NetworkAssumption DEF ProcType
<1>2. \A c \in CIDRs : c # NoCIDR
  BY DEF CIDRs, NoCIDR
<1> QED BY <1>1, <1>2 DEF MachineCIDRs, CIDR, ProcType

\* VirtualBox has a first free name if it has one.
LEMMA FirstFree ==
    ASSUME NEW T \in SUBSET Adapters, T # {}
    PROVE  (CHOOSE x \in T : \A y \in T : x <= y) \in T
<1>1. T \subseteq Nat
  BY NetworkAssumption DEF Adapters
<1>2. \E x \in T : \A y \in T : ~(<<y, x>> \in OpToRel(<, Nat))
  BY <1>1, WFMin, NatLessThanWellFounded
<1>3. \A x, y \in Nat : x < y => <<x, y>> \in OpToRel(<, Nat)
  BY Zenon DEF OpToRel
<1>4. \E x \in T : \A y \in T : ~(y < x)
  BY <1>1, <1>2, <1>3, Zenon
<1>5. \E x \in T : \A y \in T : x <= y
  BY <1>1, <1>4
<1> QED BY <1>5

LEMMA ListedTyped ==
    ASSUME NetType
    PROVE  /\ Listed \in SUBSET Views
           /\ \A x \in Listed : adapter[x.a].st = "listed" /\ adapter[x.a].cidr = x.cidr
           /\ \A a \in Adapters : adapter[a].st = "listed"
                 => [a |-> a, cidr |-> adapter[a].cidr] \in Listed
BY DEF NetType, Listed, Views

LEMMA GotoTyped ==
    ASSUME ProcType, NEW p \in Procs, NEW l \in Places, NEW s \in SUBSET Views,
           NEW n \in SUBSET Adapters, NEW a \in Adapters \cup {0}, GotoWith(p, l, s, n, a)
    PROVE  ProcType'
<1>1. cidrOf' = cidrOf
  BY DEF GotoWith, control
<1>2. Views' = Views
  BY <1>1 DEF Views, MachineCIDRs
<1> QED BY <1>2 DEF ProcType, GotoWith, control

LEMMA StayTyped ==
    ASSUME ProcType, NEW p \in Procs, NEW l \in Places, Goto(p, l)
    PROVE  ProcType'
<1>1. seen[p] \in SUBSET Views /\ names[p] \in SUBSET Adapters /\ ad[p] \in Adapters \cup {0}
  BY DEF ProcType
<1> QED BY <1>1, GotoTyped DEF Goto

LEMMA ReturnTyped ==
    ASSUME ProcType, NEW p \in Procs, NEW r \in {"ok", "fault", "error", "killed"}, Return(p, r)
    PROVE  ProcType'
<1>1. Views' = Views
  BY DEF Views, MachineCIDRs, Return, control
<1> QED BY <1>1 DEF ProcType, Return, control, Places

LEMMA FaultTyped ==
    ASSUME ProcType, NEW p \in Procs, NEW f, Fault(p, f)
    PROVE  ProcType'
BY ReturnTyped DEF Fault

LEMMA InitType == Init => TypeOK
<1> SUFFICES ASSUME Init PROVE TypeOK
  OBVIOUS
<1>1. NoCIDR \in MachineCIDRs /\ 0 \in Byte
  BY DEF MachineCIDRs, Byte
<1>2. /\ NoAdapter \in [st : {"absent", "hidden", "listed"}, cidr : MachineCIDRs]
      /\ NoServer \in [addr : Byte, cidr : MachineCIDRs, on : BOOLEAN, lower : Byte, upper : Byte]
      /\ NoGuest \in [nic : Adapters \cup {0}, ip : Byte]
  BY <1>1 DEF NoAdapter, NoServer, NoGuest
<1>3. NetType
  BY <1>2 DEF Init, NetType
<1>4. ProcType
  BY NetworkAssumption DEF Init, ProcType, Places
<1> QED BY <1>3, <1>4, TypeSplit

\* The DHCP server's address and range fit into a byte.
LEMMA RangeTyped ==
    ASSUME NEW x \in 1..24, NEW c \in CIDRs
    PROVE  /\ DHCPAddressRange(x, c).lower \in Byte
           /\ DHCPAddressRange(x, c).upper \in Byte
<1>1. c.ones \in 1..32 /\ 32 - c.ones \in 0..31
  BY DEF CIDRs
<1>2. \A k \in 0..31 : (2 ^ k - 2) % 256 \in 0..255
  OBVIOUS
<1>3. (x + 1) % 256 \in 0..255
  OBVIOUS
<1> QED BY <1>1, <1>2, <1>3 DEF DHCPAddressRange, Byte

\* Leases come out of the server's range.
LEMMA LeaseTyped ==
    ASSUME NetType, NEW a \in Adapters, NEW x \in Leases(a)
    PROVE  /\ x \in Byte /\ x \in server[a].lower..server[a].upper
           /\ server[a].on /\ server[a].cidr # NoCIDR /\ adapter[a].st = "listed"
<1>1. server[a].lower \in Byte /\ server[a].upper \in Byte
  BY DEF NetType
<1>2. server[a].on /\ server[a].cidr # NoCIDR /\ adapter[a].st = "listed"
  BY DEF Leases
<1>3. x \in server[a].lower..server[a].upper
  BY <1>2 DEF Leases
<1> QED BY <1>1, <1>2, <1>3 DEF Byte

LEMMA GuestTyped ==
    ASSUME NetType, NEW m \in Machines, NEW x \in Byte, guest' = [guest EXCEPT ![m].ip = x]
    PROVE  guest' \in [Machines -> [nic : Adapters \cup {0}, ip : Byte]]
BY DEF NetType

LEMMA TypeStep == TypeOK /\ Attached /\ [Next]_vars => TypeOK'
<1> SUFFICES ASSUME TypeOK, Attached, [Next]_vars PROVE TypeOK'
  OBVIOUS
<1>0. NetType /\ ProcType
  BY TypeSplit
<1> SUFFICES NetType' /\ ProcType'
  BY TypeSplit DEF TypeOK, NetType, ProcType, Views
<1>c. /\ NoCIDR \in MachineCIDRs
      /\ \A p \in Procs : CIDR(p) \in MachineCIDRs /\ CIDR(p) \in CIDRs
  BY <1>0, CIDRTyped
<1>l. /\ Listed \in SUBSET Views
      /\ \A p \in Procs : seen[p] \in SUBSET Views /\ names[p] \in SUBSET Adapters
                          /\ ad[p] \in Adapters \cup {0} /\ mach[p] \in Machines
  BY <1>0, ListedTyped DEF ProcType
<1>m. cidrOf' = cidrOf => MachineCIDRs' = MachineCIDRs
  BY DEF MachineCIDRs
<1>q. ASSUME UNCHANGED <<adapter, server, guest, clashed, cidrOf>> PROVE NetType'
  BY <1>0, <1>m, <1>q DEF NetType
\* Every move of one process keeps CIDRs.
<1>g. ASSUME NEW p \in Procs, NEW l, NEW s, NEW n, NEW a, GotoWith(p, l, s, n, a)
      PROVE  cidrOf' = cidrOf
  BY <1>g DEF GotoWith, control
<1>r. ASSUME NEW p \in Procs, NEW r, Return(p, r) PROVE cidrOf' = cidrOf
  BY <1>r DEF Return, control
<1>1. ASSUME NEW p \in Procs, NEW m \in Machines, Begin(p, m) PROVE NetType' /\ ProcType'
  <2>1. Views' = Views /\ cidrOf' = cidrOf
    BY <1>1 DEF Views, MachineCIDRs, Begin
  <2>2. NetType'
    BY <1>1, <1>q DEF Begin
  <2>3. starts' \in 0..MaxStarts
    BY <1>0, <1>1, NetworkAssumption DEF ProcType, Begin
  <2>4. met' \in [Procs -> BOOLEAN]
    BY <1>0, <1>1 DEF ProcType, Begin, Active
  <2>5. at' \in [Procs -> Places]
    BY <1>0, <1>1 DEF ProcType, Begin, Places
  <2> QED BY <1>0, <1>1, <2>1, <2>2, <2>3, <2>4, <2>5 DEF ProcType, Begin
<1>2. ASSUME NEW p \in Procs, ListAdapters(p) PROVE NetType' /\ ProcType'
  <2>1. CASE GotoWith(p, "collide", Listed, {}, 0)
    BY <1>0, <1>2, <1>l, <1>q, <1>g, <2>1, GotoTyped DEF ListAdapters, Places
  <2>2. CASE Return(p, "error")
    BY <1>0, <1>2, <1>q, <1>r, <2>2, ReturnTyped DEF ListAdapters
  <2>3. CASE Fault(p, "vbm")
    BY <1>0, <1>2, <1>q, <1>r, <2>3, FaultTyped DEF ListAdapters, Fault
  <2> QED BY <1>2, <2>1, <2>2, <2>3 DEF ListAdapters
<1>3. ASSUME NEW p \in Procs, CheckCollisions(p) PROVE NetType' /\ ProcType'
  <2>1. ASSUME NEW a \in Found(p, seen[p]), GotoWith(p, "dhcps", {}, {}, a)
        PROVE  NetType' /\ ProcType'
    <3>1. a \in Adapters
      BY <1>l DEF Found, Views
    <3> QED BY <1>0, <1>3, <1>q, <1>g, <2>1, <3>1, GotoTyped DEF CheckCollisions, Places
  <2>2. CASE Goto(p, "create")
    BY <1>0, <1>3, <1>q, <1>g, <2>2, StayTyped DEF CheckCollisions, Places, Goto
  <2>3. CASE Return(p, "error")
    BY <1>0, <1>3, <1>q, <1>r, <2>3, ReturnTyped DEF CheckCollisions
  <2> QED BY <1>3, <2>1, <2>2, <2>3 DEF CheckCollisions
<1>4. ASSUME NEW p \in Procs, CreateAdapter(p) PROVE NetType' /\ ProcType'
  <2>1. ProcType' /\ cidrOf' = cidrOf
    BY <1>0, <1>4, <1>g, StayTyped DEF CreateAdapter, Places, Goto
  <2>2. adapter' \in [Adapters -> [st : {"absent", "hidden", "listed"}, cidr : MachineCIDRs]]
    <3> DEFINE free == {a \in Adapters : adapter[a].st = "absent"}
               f == CHOOSE x \in free : \A y \in free : x <= y
    <3> HIDE DEF f
    <3>1. ASSUME NEW st \in {"listed", "hidden"},
                 adapter' = [adapter EXCEPT ![f] = [st |-> st, cidr |-> NoCIDR]]
          PROVE  adapter' \in [Adapters -> [st : {"absent", "hidden", "listed"}, cidr : MachineCIDRs]]
      BY <1>0, <1>c, <3>1 DEF NetType
    <3> QED BY <1>0, <1>4, <3>1 DEF CreateAdapter, NetType, f
  <2>3. DefaultServer \in [addr : Byte, cidr : MachineCIDRs, on : BOOLEAN, lower : Byte, upper : Byte]
    <3>1. NoServer \in [addr : Byte, cidr : MachineCIDRs, on : BOOLEAN, lower : Byte, upper : Byte]
      BY <1>c DEF NoServer, Byte
    <3> QED BY <3>1 DEF DefaultServer
  <2>4. server' \in [Adapters -> [addr : Byte, cidr : MachineCIDRs, on : BOOLEAN,
                                  lower : Byte, upper : Byte]]
    BY <1>0, <1>4, <2>3 DEF CreateAdapter, NetType
  <2> QED BY <1>0, <1>4, <1>m, <2>1, <2>2, <2>4 DEF CreateAdapter, NetType
<1>5. ASSUME NEW p \in Procs, WaitForAdapter(p) PROVE NetType' /\ ProcType'
  <2>1. ASSUME NEW a \in {x.a : x \in Listed}, GotoWith(p, "ipconfig", {}, {}, a)
        PROVE  NetType' /\ ProcType'
    <3>1. a \in Adapters
      BY <1>l DEF Views
    <3> QED BY <1>0, <1>5, <1>q, <1>g, <2>1, <3>1, GotoTyped DEF WaitForAdapter, Places
  <2>2. ASSUME NEW r \in {"error", "fault"}, Return(p, r) PROVE NetType' /\ ProcType'
    BY <1>0, <1>5, <1>q, <1>r, <2>2, ReturnTyped DEF WaitForAdapter
  <2> QED BY <1>5, <2>1, <2>2 DEF WaitForAdapter, Fault
<1>6. ASSUME NEW p \in Procs, ConfigureAdapter(p) PROVE NetType' /\ ProcType'
  <2>1. CASE Configure(p) /\ Goto(p, "dhcps")
    <3>1. ProcType' /\ cidrOf' = cidrOf
      BY <1>0, <1>g, <2>1, StayTyped DEF Places, Goto
    <3> QED BY <1>0, <1>6, <1>c, <1>m, <2>1, <3>1 DEF ConfigureAdapter, Configure, NetType
  <2>2. ASSUME NEW r \in {"error", "fault"}, Return(p, r), UNCHANGED <<adapter, clashed>>
        PROVE  NetType' /\ ProcType'
    BY <1>0, <1>6, <1>q, <1>r, <2>2, ReturnTyped DEF ConfigureAdapter
  <2> QED BY <1>6, <2>1, <2>2 DEF ConfigureAdapter, Fault
<1>7. ASSUME NEW p \in Procs, ListServers(p) PROVE NetType' /\ ProcType'
  <2>1. ASSUME NEW l \in {"servers", "nets"}, GotoWith(p, l, {}, Servers, ad[p])
        PROVE  NetType' /\ ProcType'
    <3>1. Servers \in SUBSET Adapters
      BY DEF Servers
    <3> QED BY <1>0, <1>7, <1>l, <1>q, <1>g, <2>1, <3>1, GotoTyped DEF ListServers, Places
  <2>2. CASE Fault(p, "vbm")
    BY <1>0, <1>7, <1>q, <1>r, <2>2, FaultTyped DEF ListServers, Fault
  <2> QED BY <1>7, <2>1, <2>2 DEF ListServers
<1>8. ASSUME NEW p \in Procs, ListOrphans(p) PROVE NetType' /\ ProcType'
  <2>1. ASSUME GotoWith(p, "orphans", {}, names[p] \ {x.a : x \in Listed}, ad[p])
        PROVE  NetType' /\ ProcType'
    <3>1. names[p] \ {x.a : x \in Listed} \in SUBSET Adapters
      BY <1>l
    <3> QED BY <1>0, <1>8, <1>l, <1>q, <1>g, <2>1, <3>1, GotoTyped DEF ListOrphans, Places
  <2>2. ASSUME NEW r \in {"error", "fault"}, Return(p, r) PROVE NetType' /\ ProcType'
    BY <1>0, <1>8, <1>q, <1>r, <2>2, ReturnTyped DEF ListOrphans
  <2> QED BY <1>8, <2>1, <2>2 DEF ListOrphans, Fault
<1>9. ASSUME NEW p \in Procs, RemoveOrphan(p) PROVE NetType' /\ ProcType'
  <2>1. ASSUME NEW a \in names[p], GotoWith(p, "orphans", {}, names[p] \ {a}, ad[p])
        PROVE  ProcType'
    <3>1. names[p] \ {a} \in SUBSET Adapters
      BY <1>l
    <3> QED BY <1>0, <1>l, <2>1, <3>1, GotoTyped DEF Places
  <2>2. ProcType' /\ cidrOf' = cidrOf
    BY <1>0, <1>9, <1>g, <2>1, StayTyped DEF RemoveOrphan, Places, Goto
  <2>3. NoServer \in [addr : Byte, cidr : MachineCIDRs, on : BOOLEAN, lower : Byte, upper : Byte]
    BY <1>c DEF NoServer, Byte
  <2>4. server' \in [Adapters -> [addr : Byte, cidr : MachineCIDRs, on : BOOLEAN,
                                  lower : Byte, upper : Byte]]
    BY <1>0, <1>9, <2>3 DEF RemoveOrphan, NetType
  <2> QED BY <1>0, <1>9, <1>m, <2>2, <2>4 DEF RemoveOrphan, NetType
<1>10. ASSUME NEW p \in Procs, ChooseCommand(p) PROVE NetType' /\ ProcType'
  <2>1. ASSUME NEW l \in {"modify", "add"}, Goto(p, l) PROVE NetType' /\ ProcType'
    BY <1>0, <1>10, <1>q, <1>g, <2>1, StayTyped DEF ChooseCommand, Places, Goto
  <2>2. CASE Return(p, "fault")
    BY <1>0, <1>10, <1>q, <1>r, <2>2, ReturnTyped DEF ChooseCommand
  <2> QED BY <1>10, <2>1, <2>2 DEF ChooseCommand, Fault
<1>11. ASSUME NEW p \in Procs, SetServer(p) PROVE NetType' /\ ProcType'
  <2>1. ASSUME NEW x \in DHCPAddresses(CIDR(p)), Goto(p, "nic"),
               server' = [server EXCEPT ![ad[p]] =
                    [addr |-> x, cidr |-> CIDR(p), on |-> TRUE,
                     lower |-> DHCPAddressRange(x, CIDR(p)).lower,
                     upper |-> DHCPAddressRange(x, CIDR(p)).upper]]
        PROVE  NetType' /\ ProcType'
    <3>1. ProcType' /\ cidrOf' = cidrOf
      BY <1>0, <1>g, <2>1, StayTyped DEF Places, Goto
    <3>2. x \in 1..24
      BY NetworkAssumption DEF DHCPAddresses
    <3>3. /\ DHCPAddressRange(x, CIDR(p)).lower \in Byte
          /\ DHCPAddressRange(x, CIDR(p)).upper \in Byte
      BY <1>c, <3>2, RangeTyped
    <3> DEFINE r == [addr |-> x, cidr |-> CIDR(p), on |-> TRUE,
                     lower |-> DHCPAddressRange(x, CIDR(p)).lower,
                     upper |-> DHCPAddressRange(x, CIDR(p)).upper]
    <3>4. r \in [addr : Byte, cidr : MachineCIDRs, on : BOOLEAN, lower : Byte, upper : Byte]
      BY <1>c, <3>2, <3>3 DEF Byte
    <3> HIDE DEF r
    <3>5. server' = [server EXCEPT ![ad[p]] = r]
      BY <2>1 DEF r
    <3> QED BY <1>0, <1>11, <1>m, <3>1, <3>4, <3>5 DEF SetServer, NetType
  <2>2. ASSUME NEW r \in {"error", "fault"}, Return(p, r), UNCHANGED server
        PROVE  NetType' /\ ProcType'
    BY <1>0, <1>11, <1>q, <1>r, <2>2, ReturnTyped DEF SetServer
  <2> QED BY <1>11, <2>1, <2>2 DEF SetServer, Fault
<1>12. ASSUME NEW p \in Procs, AttachMachine(p) PROVE NetType' /\ ProcType'
  <2>1. CASE guest' = [guest EXCEPT ![mach[p]].nic = ad[p]] /\ Goto(p, "boot")
    <3>1. ProcType' /\ cidrOf' = cidrOf
      BY <1>0, <1>g, <2>1, StayTyped DEF Places, Goto
    <3> QED BY <1>0, <1>12, <1>l, <1>m, <2>1, <3>1 DEF AttachMachine, NetType
  <2>2. CASE Fault(p, "vbm") /\ UNCHANGED guest
    BY <1>0, <1>12, <1>q, <1>r, <2>2, FaultTyped DEF AttachMachine, Fault
  <2> QED BY <1>12, <2>1, <2>2 DEF AttachMachine
<1>13. ASSUME NEW p \in Procs, BootMachine(p) PROVE NetType' /\ ProcType'
  <2>1. ProcType' /\ cidrOf' = cidrOf
    BY <1>0, <1>13, <1>g, <1>r, StayTyped, ReturnTyped, FaultTyped DEF BootMachine, Places, Goto, Fault
  <2>2. adapter' \in [Adapters -> [st : {"absent", "hidden", "listed"}, cidr : MachineCIDRs]]
    BY <1>0, <1>13, <1>c DEF BootMachine, NetType
  <2>3. guest' \in [Machines -> [nic : Adapters \cup {0}, ip : Byte]]
    <3>1. guest[mach[p]].nic \in Adapters
      BY <1>13 DEF Attached, BootMachine
    <3>2. ASSUME NEW x \in Leases(guest[mach[p]].nic), guest' = [guest EXCEPT ![mach[p]].ip = x]
          PROVE  guest' \in [Machines -> [nic : Adapters \cup {0}, ip : Byte]]
      BY <1>0, <1>l, <3>1, <3>2, LeaseTyped, GuestTyped
    <3> QED BY <1>0, <1>13, <3>2 DEF BootMachine, NetType
  <2> QED BY <1>0, <1>13, <1>m, <2>1, <2>2, <2>3 DEF BootMachine, NetType
<1>14. ASSUME NEW p \in Procs, Recheck(p) PROVE NetType' /\ ProcType'
  <2>1. CASE Goto(p, "fix")
    BY <1>0, <1>14, <1>q, <1>g, <2>1, StayTyped DEF Recheck, Places, Goto
  <2>2. ASSUME NEW r \in {"ok", "error", "fault"}, Return(p, r) PROVE NetType' /\ ProcType'
    BY <1>0, <1>14, <1>q, <1>r, <2>2, ReturnTyped DEF Recheck
  <2> QED BY <1>14, <2>1, <2>2 DEF Recheck, Fault
<1>15. ASSUME NEW p \in Procs, FixAdapter(p) PROVE NetType' /\ ProcType'
  <2>1. ProcType' /\ cidrOf' = cidrOf
    BY <1>0, <1>15, <1>r, ReturnTyped, FaultTyped DEF FixAdapter, Fault
  <2>2. /\ adapter' \in [Adapters -> [st : {"absent", "hidden", "listed"}, cidr : MachineCIDRs]]
        /\ clashed' \in BOOLEAN
    <3>1. CASE Configure(p)
      BY <1>0, <1>c, <3>1 DEF Configure, NetType
    <3>2. CASE UNCHANGED <<adapter, clashed>>
      BY <1>0, <3>2 DEF NetType
    <3> QED BY <1>15, <3>1, <3>2 DEF FixAdapter
  <2>3. guest' \in [Machines -> [nic : Adapters \cup {0}, ip : Byte]]
    <3>1. 0 \in Byte /\ guest[mach[p]].ip \in Byte
      BY <1>0, <1>l DEF NetType, Byte
    <3>2. ASSUME NEW x \in {0, guest[mach[p]].ip}, guest' = [guest EXCEPT ![mach[p]].ip = x]
          PROVE  guest' \in [Machines -> [nic : Adapters \cup {0}, ip : Byte]]
      BY <1>0, <1>l, <3>1, <3>2, GuestTyped
    <3>3. CASE UNCHANGED guest
      BY <1>0, <3>3 DEF NetType
    <3> QED BY <1>15, <3>2, <3>3 DEF FixAdapter
  <2> QED BY <1>0, <1>15, <1>m, <2>1, <2>2, <2>3 DEF FixAdapter, NetType
<1>16. ASSUME NEW p \in Procs, Crash(p) PROVE NetType' /\ ProcType'
  BY <1>0, <1>16, <1>q, <1>r, ReturnTyped DEF Crash
<1>17. ASSUME NEW m \in Machines, StopMachine(m) PROVE NetType' /\ ProcType'
  <2>1. 0 \in Byte
    BY DEF Byte
  <2>2. guest' \in [Machines -> [nic : Adapters \cup {0}, ip : Byte]]
    BY <1>0, <1>17, <2>1, GuestTyped DEF StopMachine
  <2> QED BY <1>0, <1>17, <1>m, <2>2 DEF StopMachine, NetType, ProcType, Views
<1>18. ASSUME NEW a \in Adapters, Appear(a) PROVE NetType' /\ ProcType'
  BY <1>0, <1>18, <1>m DEF Appear, NetType, ProcType, Views
<1>19. ASSUME NEW a \in Adapters, UserRemoves(a) PROVE NetType' /\ ProcType'
  BY <1>0, <1>19, <1>c, <1>m DEF UserRemoves, NetType, ProcType, Views, NoAdapter, Active
<1>20. CASE UNCHANGED vars
  BY <1>0, <1>20, <1>m DEF vars, NetType, ProcType, Views
<1> QED
  BY <1>1, <1>2, <1>3, <1>4, <1>5, <1>6, <1>7, <1>8, <1>9, <1>10, <1>11, <1>12, <1>13,
     <1>14, <1>15, <1>16, <1>17, <1>18, <1>19, <1>20 DEF Next, Setup
-----------------------------------------------------------------------------
(* The other parts of the invariant.                                       *)

Rest == HiddenBare /\ Settled /\ SoleStart /\ Attached /\ NoOrphans /\ ServersStay /\ RoomyLeases

\* p goes to l with the lists s and n and the adapter a, and no one else moves.
Move(p, l, s, n, a) ==
    /\ at'[p] = l /\ seen'[p] = s /\ names'[p] = n /\ ad'[p] = a
    /\ \A q \in Procs \ {p} :
          at'[q] = at[q] /\ seen'[q] = seen[q] /\ names'[q] = names[q] /\ ad'[q] = ad[q]
    /\ mach' = mach /\ cidrOf' = cidrOf /\ faults' = faults

LEMMA GotoMoves ==
    ASSUME ProcType, NEW p \in Procs, NEW l, NEW s, NEW n, NEW a, GotoWith(p, l, s, n, a)
    PROVE  Move(p, l, s, n, a)
BY DEF ProcType, GotoWith, Move, control

LEMMA StayMoves ==
    ASSUME ProcType, NEW p \in Procs, NEW l, Goto(p, l)
    PROVE  Move(p, l, seen[p], names[p], ad[p])
BY GotoMoves DEF Goto

LEMMA ReturnMoves ==
    ASSUME ProcType, NEW p \in Procs, NEW r, Return(p, r)
    PROVE  Move(p, "idle", {}, {}, 0)
BY DEF ProcType, Return, Move, control

\* What must be known for p to be at l with a's adapter and its lists.
Known(p, l, s, n, a) ==
    /\ l \in HasAdapter => a \in Adapters
    /\ l = "boot" => guest[mach[p]].nic \in Adapters
    /\ ~clashed => \A b \in Adapters : adapter[b].cidr = CIDR(p) =>
          /\ l = "collide" => [a |-> b, cidr |-> CIDR(p)] \in s
          /\ l \notin Unsettled
    /\ faults \cap {"hidden", "user"} = {} =>
          /\ a # 0 => adapter[a].st = "listed"
          /\ \A x \in s : adapter[x.a].st = "listed"
          /\ \A b \in n : adapter[b].st = "listed"
          /\ l = "orphans" => n = {}

\* A step of one process that leaves VirtualBox as it is.
LEMMA MoveKeeps ==
    ASSUME TypeOK, Rest, NEW p \in Procs, NEW l, NEW s, NEW n, NEW a,
           Move(p, l, s, n, a), UNCHANGED <<adapter, server, guest, clashed>>,
           Active(p), l \in {"idle", "recheck", "fix"} \/ at[p] \notin {"recheck", "fix"},
           Known(p, l, s, n, a)
    PROVE  Rest'
<1>1. HiddenBare'
  BY DEF Rest, HiddenBare
<1>2. Settled'
  BY DEF Rest, Settled, Move, Known, CIDR
<1>3. SoleStart'
  BY DEF Rest, SoleStart, Move, Active
<1>4. Attached'
  BY DEF Rest, Attached, Move, Known
<1>5. NoOrphans'
  BY DEF Rest, NoOrphans, Move, Known
<1>6. ServersStay' /\ RoomyLeases'
  BY DEF Rest, ServersStay, RoomyLeases, AllRoomy, Move
<1> QED BY <1>1, <1>2, <1>3, <1>4, <1>5, <1>6 DEF Rest

LEMMA ReturnKeeps ==
    ASSUME TypeOK, Rest, NEW p \in Procs, NEW r, Return(p, r), Active(p),
           UNCHANGED <<adapter, server, guest, clashed>>
    PROVE  Rest'
<1>1. Move(p, "idle", {}, {}, 0)
  BY ReturnMoves, TypeSplit
<1>2. Known(p, "idle", {}, {}, 0)
  BY DEF Known, HasAdapter, Unsettled
<1> QED BY <1>1, <1>2, MoveKeeps

\* The process keeps its lists and its adapter.
LEMMA StayKeeps ==
    ASSUME TypeOK, Rest, NEW p \in Procs, NEW l, Goto(p, l), Active(p),
           UNCHANGED <<adapter, server, guest, clashed>>,
           l \in {"recheck", "fix"} \/ at[p] \notin {"recheck", "fix"},
           l \in HasAdapter => at[p] \in HasAdapter,
           l \notin {"boot", "collide", "orphans"},
           l \in Unsettled /\ ~clashed => \A b \in Adapters : adapter[b].cidr # CIDR(p)
    PROVE  Rest'
<1>1. Move(p, l, seen[p], names[p], ad[p])
  BY StayMoves, TypeSplit
<1>2. Known(p, l, seen[p], names[p], ad[p])
  BY DEF Known, Rest, Attached, NoOrphans
<1> QED BY <1>1, <1>2, MoveKeeps

LEMMA FoundAll ==
    ASSUME NEW p, NEW nets, NEW b, [a |-> b, cidr |-> CIDR(p)] \in nets
    PROVE  b \in Found(p, nets)
<1> DEFINE x == [a |-> b, cidr |-> CIDR(p)]
<1>1. x \in {y \in nets : y.cidr = CIDR(p)} /\ x.a = b
  OBVIOUS
<1> HIDE DEF x
<1> QED BY <1>1 DEF Found

\* The steps of a Start that only look.
LEMMA LookSteps ==
    ASSUME TypeOK, Rest, NEW p \in Procs,
           \/ ListAdapters(p) \/ CheckCollisions(p) \/ WaitForAdapter(p) \/ ListServers(p)
           \/ ListOrphans(p) \/ ChooseCommand(p) \/ Recheck(p) \/ Crash(p)
    PROVE  Rest'
<1>0. NetType /\ ProcType
  BY TypeSplit
<1>c. CIDR(p) # NoCIDR
  BY <1>0, CIDRTyped
<1>l. \A b \in Adapters : adapter[b].cidr = CIDR(p) => [a |-> b, cidr |-> CIDR(p)] \in Listed
  BY <1>0, <1>c, ListedTyped DEF Rest, HiddenBare, NetType
<1>m. \A x \in Listed : x.a \in Adapters /\ adapter[x.a].st = "listed"
  BY <1>0, ListedTyped DEF Views
<1>1. CASE ListAdapters(p)
  <2>1. CASE GotoWith(p, "collide", Listed, {}, 0)
    <3>1. Move(p, "collide", Listed, {}, 0)
      BY <1>0, <2>1, GotoMoves
    <3>2. Known(p, "collide", Listed, {}, 0)
      BY <1>l, <1>m DEF Known, HasAdapter, Unsettled
    <3> QED BY <1>1, <3>1, <3>2, MoveKeeps DEF ListAdapters, Active
  <2>2. ASSUME NEW r, Return(p, r) PROVE Rest'
    BY <1>1, <2>2, ReturnKeeps DEF ListAdapters, Active
  <2> QED BY <1>1, <2>1, <2>2 DEF ListAdapters, Fault
<1>2. CASE CheckCollisions(p)
  <2>1. ASSUME NEW a \in Found(p, seen[p]), GotoWith(p, "dhcps", {}, {}, a) PROVE Rest'
    <3>1. Move(p, "dhcps", {}, {}, a)
      BY <1>0, <2>1, GotoMoves
    <3>2. PICK x \in seen[p] : x.a = a
      BY DEF Found
    <3>3. a \in Adapters /\ a # 0
      BY <1>0, <3>2 DEF ProcType, Views, Adapters
    <3>4. Known(p, "dhcps", {}, {}, a)
      BY <3>2, <3>3 DEF Known, Unsettled, Rest, NoOrphans
    <3> QED BY <1>2, <3>1, <3>4, MoveKeeps DEF CheckCollisions, Active
  <2>2. CASE Found(p, seen[p]) = {} /\ Goto(p, "create")
    <3>1. ~clashed => \A b \in Adapters : adapter[b].cidr # CIDR(p)
      BY <1>2, <2>2, FoundAll DEF CheckCollisions, Rest, Settled
    <3> QED BY <1>2, <2>2, <3>1, StayKeeps DEF CheckCollisions, Active, HasAdapter
  <2>3. CASE Return(p, "error")
    BY <1>2, <2>3, ReturnKeeps DEF CheckCollisions, Active
  <2> QED BY <1>2, <2>1, <2>2, <2>3 DEF CheckCollisions
<1>3. CASE WaitForAdapter(p)
  <2>1. ASSUME NEW a \in {x.a : x \in Listed}, GotoWith(p, "ipconfig", {}, {}, a) PROVE Rest'
    <3>1. Move(p, "ipconfig", {}, {}, a)
      BY <1>0, <2>1, GotoMoves
    <3>2. a \in Adapters /\ adapter[a].st = "listed"
      BY <1>m
    <3>3. ~clashed => \A b \in Adapters : adapter[b].cidr # CIDR(p)
      BY <1>3 DEF WaitForAdapter, Rest, Settled, Unsettled
    <3>4. Known(p, "ipconfig", {}, {}, a)
      BY <3>2, <3>3 DEF Known
    <3> QED BY <1>3, <3>1, <3>4, MoveKeeps DEF WaitForAdapter, Active
  <2>2. ASSUME NEW r, Return(p, r) PROVE Rest'
    BY <1>3, <2>2, ReturnKeeps DEF WaitForAdapter, Active
  <2> QED BY <1>3, <2>1, <2>2 DEF WaitForAdapter, Fault
<1>4. CASE ListServers(p)
  <2>1. ASSUME NEW l \in {"servers", "nets"}, GotoWith(p, l, {}, Servers, ad[p]) PROVE Rest'
    <3>1. Move(p, l, {}, Servers, ad[p])
      BY <1>0, <2>1, GotoMoves
    <3>2. Known(p, l, {}, Servers, ad[p])
      BY <1>4 DEF Known, Unsettled, HasAdapter, Servers, ListServers, Rest, NoOrphans, Attached
    <3> QED BY <1>4, <3>1, <3>2, MoveKeeps DEF ListServers, Active
  <2>2. ASSUME NEW r, Return(p, r) PROVE Rest'
    BY <1>4, <2>2, ReturnKeeps DEF ListServers, Active
  <2> QED BY <1>4, <2>1, <2>2 DEF ListServers, Fault
<1>5. CASE ListOrphans(p)
  <2> DEFINE n == names[p] \ {x.a : x \in Listed}
  <2>1. CASE GotoWith(p, "orphans", {}, n, ad[p])
    <3>1. Move(p, "orphans", {}, n, ad[p])
      BY <1>0, <2>1, GotoMoves
    <3>2. faults \cap {"hidden", "user"} = {} => n = {}
      <4> SUFFICES ASSUME faults \cap {"hidden", "user"} = {}, NEW a \in names[p]
                   PROVE  a \in {x.a : x \in Listed}
        OBVIOUS
      <4>1. a \in Adapters /\ adapter[a].st = "listed"
        BY <1>0 DEF ProcType, Rest, NoOrphans
      <4>2. [a |-> a, cidr |-> adapter[a].cidr] \in Listed
        BY <1>0, <4>1, ListedTyped
      <4> QED BY <4>2
    <3>3. Known(p, "orphans", {}, n, ad[p])
      BY <1>5, <3>2 DEF Known, Unsettled, HasAdapter, ListOrphans, Rest, NoOrphans, Attached
    <3> QED BY <1>5, <3>1, <3>3, MoveKeeps DEF ListOrphans, Active
  <2>2. ASSUME NEW r, Return(p, r) PROVE Rest'
    BY <1>5, <2>2, ReturnKeeps DEF ListOrphans, Active
  <2> QED BY <1>5, <2>1, <2>2 DEF ListOrphans, Fault
<1>6. CASE ChooseCommand(p)
  <2>1. ASSUME NEW l \in {"modify", "add"}, Goto(p, l) PROVE Rest'
    BY <1>6, <2>1, StayKeeps DEF ChooseCommand, Active, HasAdapter, Unsettled
  <2>2. ASSUME NEW r, Return(p, r) PROVE Rest'
    BY <1>6, <2>2, ReturnKeeps DEF ChooseCommand, Active
  <2> QED BY <1>6, <2>1, <2>2 DEF ChooseCommand, Fault
<1>7. CASE Recheck(p)
  <2>1. CASE Found(p, Listed) = {} /\ Goto(p, "fix")
    <3>1. \A b \in Adapters : adapter[b].cidr # CIDR(p)
      BY <1>l, <2>1, FoundAll
    <3> QED BY <1>7, <2>1, <3>1, StayKeeps DEF Recheck, Active, HasAdapter
  <2>2. ASSUME NEW r, Return(p, r) PROVE Rest'
    BY <1>7, <2>2, ReturnKeeps DEF Recheck, Active
  <2> QED BY <1>7, <2>1, <2>2 DEF Recheck, Fault
<1>8. CASE Crash(p)
  BY <1>8, ReturnKeeps DEF Crash
<1> QED BY <1>1, <1>2, <1>3, <1>4, <1>5, <1>6, <1>7, <1>8

LEMMA BeginKeeps ==
    ASSUME TypeOK, Rest, NEW p \in Procs, NEW m \in Machines, Begin(p, m)
    PROVE  Rest'
<1>0. NetType /\ ProcType
  BY TypeSplit
<1>1. /\ at'[p] = "list" /\ mach'[p] = m /\ at[p] = "idle" /\ guest[m].ip = 0
      /\ \A q \in Procs \ {p} : at'[q] = at[q] /\ mach'[q] = mach[q]
      /\ \A q \in Procs : at[q] # "idle" => mach[q] # m
      /\ UNCHANGED <<adapter, server, guest, seen, names, ad, cidrOf, faults, clashed>>
  BY <1>0 DEF ProcType, Begin, Active
<1>2. HiddenBare'
  BY <1>1 DEF Rest, HiddenBare
<1>3. Settled'
  BY <1>1 DEF Rest, Settled, CIDR, Unsettled
<1>4. SoleStart'
  BY <1>1 DEF Rest, SoleStart, Active
<1>5. Attached'
  BY <1>1 DEF Rest, Attached, HasAdapter
<1>6. NoOrphans'
  BY <1>1 DEF Rest, NoOrphans
<1>7. ServersStay' /\ RoomyLeases'
  BY <1>1 DEF Rest, ServersStay, RoomyLeases, AllRoomy
<1> QED BY <1>2, <1>3, <1>4, <1>5, <1>6, <1>7 DEF Rest

LEMMA CreateKeeps ==
    ASSUME TypeOK, Rest, NEW p \in Procs, CreateAdapter(p)
    PROVE  Rest'
<1>0. NetType /\ ProcType
  BY TypeSplit
<1>c. \A q \in Procs : CIDR(q) # NoCIDR
  BY <1>0, CIDRTyped
<1>1. Move(p, "poll", seen[p], names[p], ad[p]) /\ at[p] = "create" /\ UNCHANGED <<guest, clashed>>
  BY <1>0, StayMoves DEF CreateAdapter
<1>2. CASE UNCHANGED <<adapter, server>>
  <2>1. Known(p, "poll", seen[p], names[p], ad[p])
    BY <1>1 DEF Known, HasAdapter, Rest, Settled, Unsettled, NoOrphans
  <2> QED BY <1>1, <1>2, <2>1, MoveKeeps DEF Active
<1>3. CASE ~UNCHANGED <<adapter, server>>
  <2> DEFINE free == {a \in Adapters : adapter[a].st = "absent"}
             f == CHOOSE x \in free : \A y \in free : x <= y
  <2>1. free # {} => f \in free
    BY FirstFree
  <2> HIDE DEF f
  <2>2. PICK st \in {"listed", "hidden"} :
          /\ st = "hidden" => "hidden" \in faults
          /\ f \in Adapters /\ adapter[f].st = "absent"
          /\ adapter' = [adapter EXCEPT ![f] = [st |-> st, cidr |-> NoCIDR]]
          /\ server' \in {server, [server EXCEPT ![f] = DefaultServer]}
    BY <1>3, <2>1 DEF CreateAdapter, f
  <2>3. /\ adapter'[f].st = st /\ adapter'[f].cidr = NoCIDR
        /\ \A a \in Adapters \ {f} : adapter'[a] = adapter[a]
    BY <1>0, <2>2 DEF NetType
  <2>4. /\ DefaultServer.on /\ DefaultServer.cidr = NoCIDR
        /\ server'[f] \in {server[f], DefaultServer}
        /\ \A a \in Adapters \ {f} : server'[a] = server[a]
    BY <1>0, <2>2 DEF NetType, DefaultServer, NoServer
  <2>5. HiddenBare'
    BY <2>2, <2>3 DEF Rest, HiddenBare
  <2>6. Settled'
    BY <1>1, <1>c, <2>3 DEF Rest, Settled, Move, CIDR, Unsettled
  <2>7. SoleStart' /\ Attached'
    BY <1>1 DEF Rest, SoleStart, Attached, Move, Active, HasAdapter
  <2>8. NoOrphans'
    <3> SUFFICES ASSUME faults \cap {"hidden", "user"} = {} PROVE NoOrphans'
      BY <1>1 DEF NoOrphans, Move
    <3>1. st = "listed"
      BY <2>2
    <3>2. \A a \in Adapters : adapter[a].st = "listed" => adapter'[a].st = "listed"
      BY <2>3, <3>1
    <3>3. \A a \in Adapters : adapter'[a].st # "hidden" /\ (server'[a].on => adapter'[a].st = "listed")
      BY <2>3, <2>4, <3>1 DEF Rest, NoOrphans
    <3>4. \A q \in Procs : /\ ad[q] # 0 => adapter'[ad[q]].st = "listed"
                           /\ \A x \in seen[q] : adapter'[x.a].st = "listed"
                           /\ \A a \in names[q] : adapter'[a].st = "listed"
      BY <1>0, <3>2 DEF Rest, NoOrphans, ProcType, Views
    <3> QED BY <1>1, <3>3, <3>4 DEF NoOrphans, Move, Rest
  <2>9. ServersStay'
    <3>1. \A a \in Adapters : server[a].on => server'[a].on
      BY <2>4
    <3> QED BY <1>1, <3>1 DEF Rest, ServersStay, Attached, Move
  <2>10. RoomyLeases'
    BY <1>1, <2>4 DEF Rest, RoomyLeases, AllRoomy, Move
  <2> QED BY <2>5, <2>6, <2>7, <2>8, <2>9, <2>10 DEF Rest
<1> QED BY <1>2, <1>3

\* Configure is what Settled is about.
LEMMA ConfigureKeeps ==
    ASSUME TypeOK, Rest, NEW p \in Procs, NEW l, NEW s, NEW n, NEW a,
           at[p] \in {"ipconfig", "fix"}, adapter[ad[p]].st = "listed", Configure(p),
           Move(p, l, s, n, a), UNCHANGED <<server, guest>>,
           \/ l = "idle" /\ s = {} /\ n = {} /\ a = 0
           \/ l = "dhcps" /\ at[p] = "ipconfig" /\ s = seen[p] /\ n = names[p] /\ a = ad[p]
    PROVE  Rest'
<1>0. NetType /\ ProcType
  BY TypeSplit
<1>a. ad[p] \in Adapters
  BY DEF Rest, Attached, HasAdapter
<1>1. /\ adapter'[ad[p]].st = "listed" /\ adapter'[ad[p]].cidr = CIDR(p)
      /\ \A b \in Adapters : b # ad[p] => adapter'[b] = adapter[b]
      /\ \A b \in Adapters : adapter'[b].st = adapter[b].st
  BY <1>0, <1>a DEF NetType, Configure
<1>2. clashed' <=> clashed \/ \E q \in Procs \ {p} : at[q] \in {"collide", "create", "poll", "ipconfig", "fix"}
  BY DEF Configure
<1>3. HiddenBare'
  BY <1>a, <1>1 DEF Rest, HiddenBare
<1>4. Settled'
  <2> SUFFICES ASSUME ~clashed' PROVE Settled'
    BY DEF Settled
  <2>1. ~clashed /\ \A q \in Procs \ {p} : at[q] # "collide" /\ at[q] \notin Unsettled
    BY <1>2 DEF Unsettled
  <2>2. \A b \in Adapters : adapter[b].cidr # CIDR(p)
    BY <2>1 DEF Rest, Settled, Unsettled
  <2>3. \A b, c \in Adapters :
           adapter'[b].cidr = adapter'[c].cidr /\ adapter'[b].cidr # NoCIDR => b = c
    BY <1>a, <1>1, <2>1, <2>2 DEF Rest, Settled
  <2>4. \A q \in Procs : at'[q] # "collide" /\ at'[q] \notin Unsettled
    BY <2>1 DEF Move, Unsettled
  <2> QED BY <2>3, <2>4 DEF Settled
<1>5. SoleStart'
  BY DEF Rest, SoleStart, Move, Active
<1>6. Attached'
  BY DEF Rest, Attached, Move, HasAdapter
<1>7. NoOrphans'
  BY <1>0, <1>1 DEF Rest, NoOrphans, Move, ProcType, Views
<1>8. ServersStay' /\ RoomyLeases'
  BY DEF Rest, ServersStay, RoomyLeases, AllRoomy, Move
<1> QED BY <1>3, <1>4, <1>5, <1>6, <1>7, <1>8 DEF Rest

LEMMA ServerSteps ==
    ASSUME TypeOK, Rest, NEW p \in Procs, RemoveOrphan(p) \/ SetServer(p)
    PROVE  Rest'
<1>0. NetType /\ ProcType
  BY TypeSplit
<1>1. ASSUME NEW b \in names[p], at[p] = "orphans", UNCHANGED <<adapter, guest, clashed>>,
             server' \in {server, [server EXCEPT ![b] = NoServer]},
             GotoWith(p, "orphans", {}, names[p] \ {b}, ad[p])
      PROVE  Rest'
  <2>1. Move(p, "orphans", {}, names[p] \ {b}, ad[p])
    BY <1>0, <1>1, GotoMoves
  <2>2. faults \cap {"hidden", "user"} # {}
    BY <1>1 DEF Rest, NoOrphans
  <2>3. ~NoServer.on /\ NoServer.cidr = NoCIDR
    BY DEF NoServer
  <2>4. \A c \in Adapters : server'[c] \in {server[c], NoServer}
    BY <1>0, <1>1 DEF NetType
  <2>5. HiddenBare' /\ SoleStart' /\ Attached'
    BY <1>1, <2>1 DEF Rest, HiddenBare, SoleStart, Attached, Move, Active, HasAdapter
  <2>6. Settled'
    BY <1>1, <2>1 DEF Rest, Settled, Move, CIDR, Unsettled
  <2>7. NoOrphans' /\ ServersStay'
    BY <2>1, <2>2 DEF NoOrphans, ServersStay, Move
  <2>8. RoomyLeases'
    BY <1>1, <2>1, <2>3, <2>4 DEF Rest, RoomyLeases, AllRoomy, Move
  <2> QED BY <2>5, <2>6, <2>7, <2>8 DEF Rest
<1>2. CASE at[p] = "orphans" /\ Goto(p, "servers") /\ UNCHANGED <<server, adapter, guest, clashed>>
  BY <1>2, StayKeeps DEF Active, HasAdapter, Unsettled
<1>3. ASSUME NEW x \in DHCPAddresses(CIDR(p)), at[p] \in {"add", "modify"}, Goto(p, "nic"),
             UNCHANGED <<adapter, guest, clashed>>,
             server' = [server EXCEPT ![ad[p]] =
                  [addr |-> x, cidr |-> CIDR(p), on |-> TRUE,
                   lower |-> DHCPAddressRange(x, CIDR(p)).lower,
                   upper |-> DHCPAddressRange(x, CIDR(p)).upper]]
      PROVE  Rest'
  <2>1. Move(p, "nic", seen[p], names[p], ad[p])
    BY <1>0, <1>3, StayMoves
  <2>2. ad[p] \in Adapters /\ ad[p] # 0
    BY <1>3 DEF Rest, Attached, HasAdapter, Adapters
  <2>3. /\ server'[ad[p]].on /\ server'[ad[p]].cidr = CIDR(p) /\ server'[ad[p]].addr = x
        /\ server'[ad[p]].lower = DHCPAddressRange(x, CIDR(p)).lower
        /\ server'[ad[p]].upper = DHCPAddressRange(x, CIDR(p)).upper
        /\ \A c \in Adapters \ {ad[p]} : server'[c] = server[c]
    BY <1>0, <1>3, <2>2 DEF NetType
  <2>4. HiddenBare' /\ SoleStart' /\ Attached'
    BY <1>3, <2>1 DEF Rest, HiddenBare, SoleStart, Attached, Move, Active, HasAdapter
  <2>5. Settled'
    BY <1>3, <2>1 DEF Rest, Settled, Move, CIDR, Unsettled
  <2>6. NoOrphans'
    BY <1>3, <2>1, <2>2, <2>3 DEF Rest, NoOrphans, Move
  <2>7. ServersStay'
    BY <1>3, <2>1, <2>3 DEF Rest, ServersStay, Attached, Move
  <2>8. RoomyLeases'
    <3> SUFFICES ASSUME AllRoomy PROVE RoomyLeases'
      BY <2>1 DEF RoomyLeases, AllRoomy, Move
    <3>1. CIDR(p).ones <= 24 /\ CIDR(p).host < 100
      BY <1>0 DEF AllRoomy, Roomy, CIDR, ProcType
    <3>2. x \in 1..24 /\ x # CIDR(p).host
      BY NetworkAssumption DEF DHCPAddresses
    <3>3. DHCPAddressRange(x, CIDR(p)).lower = 100 /\ DHCPAddressRange(x, CIDR(p)).upper = 254
      BY <3>1 DEF DHCPAddressRange
    <3>4. \A c \in Adapters : server'[c].cidr # NoCIDR =>
             /\ server'[c].on /\ server'[c].cidr.host < 100
             /\ server'[c].addr \in 1..24 /\ server'[c].addr # server'[c].cidr.host
             /\ server'[c].lower = 100 /\ server'[c].upper = 254
      BY <2>3, <3>1, <3>2, <3>3 DEF Rest, RoomyLeases
    <3> QED BY <1>3, <3>4 DEF Rest, RoomyLeases
  <2> QED BY <2>4, <2>5, <2>6, <2>7, <2>8 DEF Rest
<1>4. CASE RemoveOrphan(p)
  BY <1>1, <1>2, <1>4 DEF RemoveOrphan
<1>5. CASE SetServer(p)
  <2>1. ASSUME NEW r, Return(p, r), UNCHANGED server PROVE Rest'
    BY <1>5, <2>1, ReturnKeeps DEF SetServer, Active
  <2> QED BY <1>3, <1>5, <2>1 DEF SetServer, Fault
<1> QED BY <1>4, <1>5

LEMMA AttachKeeps ==
    ASSUME TypeOK, Rest, NEW p \in Procs, AttachMachine(p)
    PROVE  Rest'
<1>0. NetType /\ ProcType
  BY TypeSplit
<1>1. CASE Fault(p, "vbm") /\ UNCHANGED guest
  BY <1>1, ReturnKeeps DEF AttachMachine, Fault, Active
<1>2. CASE guest' = [guest EXCEPT ![mach[p]].nic = ad[p]] /\ Goto(p, "boot")
  <2>1. /\ Move(p, "boot", seen[p], names[p], ad[p]) /\ at[p] = "nic"
        /\ UNCHANGED <<adapter, server, clashed>>
    BY <1>0, <1>2, StayMoves DEF AttachMachine
  <2>2. ad[p] \in Adapters /\ mach[p] \in Machines /\ guest[mach[p]].ip = 0
    BY <1>0, <2>1 DEF Rest, Attached, SoleStart, HasAdapter, Active, ProcType
  <2>3. /\ guest'[mach[p]].nic = ad[p] /\ guest'[mach[p]].ip = 0
        /\ \A m \in Machines \ {mach[p]} : guest'[m] = guest[m]
    BY <1>0, <1>2, <2>2 DEF NetType
  <2>4. \A q \in Procs \ {p} : Active(q) => mach[q] # mach[p]
    BY <2>1 DEF Rest, SoleStart, Active
  <2>5. HiddenBare'
    BY <2>1 DEF Rest, HiddenBare
  <2>6. SoleStart'
    BY <1>0, <2>1, <2>3 DEF Rest, SoleStart, Move, Active, ProcType
  <2>7. Attached'
    BY <1>0, <2>1, <2>2, <2>3, <2>4 DEF Rest, Attached, Move, Active, HasAdapter, ProcType
  <2>8. Settled'
    BY <2>1 DEF Rest, Settled, Move, CIDR, Unsettled
  <2>9. NoOrphans'
    BY <2>1 DEF Rest, NoOrphans, Move
  <2>10. ServersStay' /\ RoomyLeases'
    BY <2>1, <2>2, <2>3 DEF Rest, ServersStay, RoomyLeases, AllRoomy, Move
  <2> QED BY <2>5, <2>6, <2>7, <2>8, <2>9, <2>10 DEF Rest
<1> QED BY <1>1, <1>2 DEF AttachMachine

LEMMA BootKeeps ==
    ASSUME TypeOK, Rest, NEW p \in Procs, BootMachine(p)
    PROVE  Rest'
<1>0. NetType /\ ProcType
  BY TypeSplit
<1> DEFINE m == mach[p]
           nic == guest[m].nic
<1>a. at[p] = "boot" /\ UNCHANGED <<server, clashed>>
  BY DEF BootMachine
<1>b. m \in Machines /\ nic \in Adapters
  BY <1>0, <1>a DEF Rest, Attached, ProcType
<1>c. \A q \in Procs : CIDR(q) # NoCIDR
  BY <1>0, CIDRTyped
<1> HIDE DEF nic, m
<1>1. \A c \in Adapters : adapter'[c].st = adapter[c].st /\ adapter'[c].cidr \in {adapter[c].cidr, NoCIDR}
  <2>1. CASE UNCHANGED adapter
    BY <2>1
  <2>2. CASE adapter' = [adapter EXCEPT ![nic].cidr = NoCIDR]
    BY <1>0, <1>b, <2>2 DEF NetType
  <2> QED BY <2>1, <2>2 DEF BootMachine, nic, m
<1>2. \/ Move(p, "recheck", seen[p], names[p], ad[p])
      \/ Move(p, "idle", {}, {}, 0)
  BY <1>0, StayMoves, ReturnMoves DEF BootMachine, Fault
<1>3. /\ \A k \in Machines \ {m} : guest'[k] = guest[k]
      /\ guest'[m].nic = nic
      /\ \/ guest'[m].ip = guest[m].ip
         \/ server[nic].on /\ server[nic].cidr # NoCIDR
            /\ guest'[m].ip \in server[nic].lower..server[nic].upper
  <2>1. ASSUME NEW x \in Leases(nic), guest' = [guest EXCEPT ![m].ip = x]
        PROVE  /\ \A k \in Machines \ {m} : guest'[k] = guest[k]
               /\ guest'[m].nic = nic
               /\ server[nic].on /\ server[nic].cidr # NoCIDR
               /\ guest'[m].ip \in server[nic].lower..server[nic].upper
    BY <1>0, <1>b, <2>1, LeaseTyped DEF NetType, nic
  <2>2. CASE UNCHANGED guest
    BY <2>2 DEF nic
  <2> QED BY <2>1, <2>2 DEF BootMachine, nic, m
<1>4. \A q \in Procs \ {p} : Active(q) => mach[q] # m
  BY <1>a DEF Rest, SoleStart, Active, m
<1>5. HiddenBare'
  BY <1>1 DEF Rest, HiddenBare
<1>6. Settled'
  BY <1>a, <1>c, <1>1, <1>2 DEF Rest, Settled, Move, CIDR, Unsettled
<1>7. SoleStart'
  <2>1. \A q \in Procs : at'[q] # "idle" => at[q] # "idle"
    BY <1>a, <1>2 DEF Move
  <2>2. at'[p] \in {"recheck", "idle"} /\ mach' = mach /\ \A q \in Procs \ {p} : at'[q] = at[q]
    BY <1>2 DEF Move
  <2>3. \A q \in Procs \ {p} : at[q] # "idle" => guest'[mach[q]] = guest[mach[q]]
    BY <1>0, <1>3, <1>4 DEF Active, ProcType
  <2> QED BY <2>1, <2>2, <2>3 DEF Rest, SoleStart, Active
<1>8. Attached'
  BY <1>0, <1>b, <1>a, <1>2, <1>3, <1>4 DEF Rest, Attached, Move, HasAdapter, Active, ProcType
<1>9. NoOrphans'
  BY <1>0, <1>a, <1>1, <1>2 DEF Rest, NoOrphans, Move, ProcType, Views
<1>10. ServersStay'
  BY <1>a, <1>b, <1>2, <1>3 DEF Rest, ServersStay, Move, nic
<1>11. RoomyLeases'
  BY <1>a, <1>b, <1>2, <1>3 DEF Rest, RoomyLeases, AllRoomy, Move
<1> QED BY <1>5, <1>6, <1>7, <1>8, <1>9, <1>10, <1>11 DEF Rest

\* A machine loses its address while one process or none gives up.
LEMMA StopKeeps ==
    ASSUME TypeOK, Rest, NEW m \in Machines, NEW x \in {0, guest[m].ip},
           guest' = [guest EXCEPT ![m].ip = x], UNCHANGED <<adapter, server, clashed>>,
           UNCHANGED <<mach, cidrOf, faults>>,
           \A q \in Procs :
              \/ at'[q] = "idle" /\ seen'[q] = {} /\ names'[q] = {} /\ ad'[q] = 0
              \/ at'[q] = at[q] /\ seen'[q] = seen[q] /\ names'[q] = names[q] /\ ad'[q] = ad[q]
    PROVE  Rest'
<1>0. NetType /\ ProcType
  BY TypeSplit
<1>1. \A k \in Machines : guest'[k].nic = guest[k].nic /\ guest'[k].ip \in {0, guest[k].ip}
  BY <1>0 DEF NetType
<1>2. HiddenBare'
  BY DEF Rest, HiddenBare
<1>3. Settled'
  BY DEF Rest, Settled, CIDR, Unsettled
<1>4. SoleStart'
  <2>1. \A q \in Procs : guest'[mach[q]].ip \in {0, guest[mach[q]].ip}
    BY <1>0, <1>1 DEF ProcType
  <2> QED BY <2>1 DEF Rest, SoleStart, Active
<1>5. Attached'
  <2>1. \A q \in Procs : guest'[mach[q]].nic = guest[mach[q]].nic
    BY <1>0, <1>1 DEF ProcType
  <2> QED BY <1>1, <2>1 DEF Rest, Attached, HasAdapter
<1>6. NoOrphans'
  BY DEF Rest, NoOrphans
<1>7. ServersStay' /\ RoomyLeases'
  BY <1>1 DEF Rest, ServersStay, RoomyLeases, AllRoomy
<1> QED BY <1>2, <1>3, <1>4, <1>5, <1>6, <1>7 DEF Rest

LEMMA FixKeeps ==
    ASSUME TypeOK, Rest, NEW p \in Procs, ConfigureAdapter(p) \/ FixAdapter(p)
    PROVE  Rest'
<1>0. NetType /\ ProcType
  BY TypeSplit
<1>1. CASE ConfigureAdapter(p)
  <2>1. CASE adapter[ad[p]].st = "listed" /\ Configure(p) /\ Goto(p, "dhcps")
    <3>1. Move(p, "dhcps", seen[p], names[p], ad[p])
      BY <1>0, <2>1, StayMoves
    <3> QED BY <1>1, <2>1, <3>1, ConfigureKeeps DEF ConfigureAdapter
  <2>2. ASSUME NEW r, Return(p, r), UNCHANGED <<adapter, clashed>> PROVE Rest'
    BY <1>1, <2>2, ReturnKeeps DEF ConfigureAdapter, Active
  <2> QED BY <1>1, <2>1, <2>2 DEF ConfigureAdapter, Fault
<1>2. CASE FixAdapter(p)
  <2>1. CASE adapter[ad[p]].st = "listed" /\ Configure(p) /\ Return(p, "ok") /\ UNCHANGED guest
    <3>1. Move(p, "idle", {}, {}, 0)
      BY <1>0, <2>1, ReturnMoves
    <3> QED BY <1>2, <2>1, <3>1, ConfigureKeeps DEF FixAdapter
  <2>2. ASSUME NEW r, Return(p, r), UNCHANGED <<adapter, clashed>>,
               NEW x \in {0, guest[mach[p]].ip}, guest' = [guest EXCEPT ![mach[p]].ip = x]
        PROVE  Rest'
    <3>1. Move(p, "idle", {}, {}, 0) /\ mach[p] \in Machines
      BY <1>0, <2>2, ReturnMoves DEF ProcType
    <3> QED BY <1>2, <2>2, <3>1, StopKeeps DEF FixAdapter, Move
  <2> QED BY <1>2, <2>1, <2>2 DEF FixAdapter, Fault
<1> QED BY <1>1, <1>2

\* An adapter shows up, or the user removes one.
LEMMA WorldKeeps ==
    ASSUME TypeOK, Rest, NEW a \in Adapters, Appear(a) \/ UserRemoves(a)
    PROVE  Rest'
<1>0. NetType /\ ProcType
  BY TypeSplit
<1>1. UNCHANGED <<server, guest, at, mach, seen, names, ad, cidrOf, faults, clashed>>
  BY DEF Appear, UserRemoves
<1>2. CASE Appear(a)
  <2>1. /\ \A b \in Adapters : adapter'[b].cidr = adapter[b].cidr
        /\ adapter'[a].st = "listed" /\ \A b \in Adapters \ {a} : adapter'[b] = adapter[b]
    BY <1>0, <1>2 DEF Appear, NetType
  <2>2. HiddenBare' /\ Settled'
    BY <1>1, <2>1 DEF Rest, HiddenBare, Settled, CIDR
  <2>3. NoOrphans'
    BY <1>0, <1>1, <1>2, <2>1 DEF Rest, NoOrphans, Appear, ProcType, Views
  <2> QED BY <1>1, <2>2, <2>3 DEF Rest, SoleStart, Active, Attached, ServersStay, RoomyLeases, AllRoomy
<1>3. CASE UserRemoves(a)
  <2>0. \A q \in Procs : CIDR(q) # NoCIDR
    BY <1>0, CIDRTyped
  <2>1. /\ adapter'[a].cidr = NoCIDR /\ \A b \in Adapters \ {a} : adapter'[b] = adapter[b]
        /\ "user" \in faults
    BY <1>0, <1>3 DEF UserRemoves, NetType, NoAdapter
  <2>2. HiddenBare' /\ Settled'
    BY <1>1, <2>0, <2>1 DEF Rest, HiddenBare, Settled, CIDR
  <2>3. NoOrphans'
    BY <1>1, <2>1 DEF NoOrphans
  <2> QED BY <1>1, <2>2, <2>3 DEF Rest, SoleStart, Active, Attached, ServersStay, RoomyLeases, AllRoomy
<1> QED BY <1>2, <1>3

LEMMA InitRest == Init => Rest
<1> SUFFICES ASSUME Init PROVE Rest
  OBVIOUS
<1>0. ProcType
  BY InitType, TypeSplit
<1>1. /\ \A p \in Procs : at[p] = "idle" /\ seen[p] = {} /\ names[p] = {} /\ ad[p] = 0
      /\ \A a \in Adapters : adapter[a] = NoAdapter /\ server[a] = NoServer
      /\ \A m \in Machines : guest[m] = NoGuest
  BY DEF Init
<1>2. \A p \in Procs : CIDR(p) # NoCIDR
  BY <1>0, CIDRTyped
<1>3. HiddenBare /\ Settled
  BY <1>1, <1>2 DEF HiddenBare, Settled, NoAdapter
<1>4. SoleStart /\ Attached
  BY <1>1 DEF SoleStart, Active, Attached, HasAdapter, NoGuest
<1>5. NoOrphans /\ ServersStay /\ RoomyLeases
  BY <1>1 DEF NoOrphans, ServersStay, RoomyLeases, NoAdapter, NoServer, NoGuest
<1> QED BY <1>3, <1>4, <1>5 DEF Rest

LEMMA NetStep == IInv /\ [Next]_vars => IInv'
<1> SUFFICES ASSUME IInv, [Next]_vars PROVE IInv'
  OBVIOUS
<1>0. TypeOK /\ Rest
  BY DEF IInv, Rest
<1>1. TypeOK'
  BY <1>0, TypeStep DEF Rest
<1>2. ASSUME NEW m \in Machines, StopMachine(m) PROVE Rest'
  BY <1>0, <1>2, StopKeeps DEF StopMachine
<1>3. ASSUME UNCHANGED vars PROVE Rest'
  <2>1. HiddenBare' /\ Settled'
    BY <1>0, <1>3 DEF vars, Rest, HiddenBare, Settled, CIDR
  <2>2. SoleStart' /\ Attached'
    BY <1>0, <1>3 DEF vars, Rest, SoleStart, Active, Attached
  <2>3. NoOrphans' /\ ServersStay'
    BY <1>0, <1>3 DEF vars, Rest, NoOrphans, ServersStay
  <2>4. RoomyLeases'
    BY <1>0, <1>3 DEF vars, Rest, RoomyLeases, AllRoomy
  <2> QED BY <2>1, <2>2, <2>3, <2>4 DEF Rest
<1>4. ASSUME NEW p \in Procs, Setup(p) PROVE Rest'
  BY <1>0, <1>4, LookSteps, CreateKeeps, FixKeeps, ServerSteps, AttachKeeps, Zenon DEF Setup
<1>5. ASSUME NEW p \in Procs, BootMachine(p) \/ Recheck(p) \/ FixAdapter(p) \/ Crash(p) PROVE Rest'
  BY <1>0, <1>5, LookSteps, BootKeeps, FixKeeps, Zenon
<1>6. ASSUME NEW p \in Procs, NEW m \in Machines, Begin(p, m) PROVE Rest'
  BY <1>0, <1>6, BeginKeeps
<1>7. ASSUME NEW a \in Adapters, Appear(a) \/ UserRemoves(a) PROVE Rest'
  BY <1>0, <1>7, WorldKeeps
<1>8. Rest'
  BY <1>2, <1>3, <1>4, <1>5, <1>6, <1>7 DEF Next
<1> QED BY <1>1, <1>8 DEF IInv, Rest

\* IInv holds in every state that Starts, failing calls, crashes and the user
\* bring about (network.go:142-272, virtualbox.go:517-560, 785-872).
THEOREM NetworkInductive == Spec => []IInv
<1>1. Init => IInv
  BY InitType, InitRest DEF IInv, Rest
<1> QED BY <1>1, NetStep, PTL DEF Spec

\* Two adapters have the same address only after one Start configured an adapter
\* while another was about to, whatever failed, showed up late or was killed in
\* between (network.go:142-149, 182-237).
THEOREM DuplicatesNeedAClash == Spec => []NetInv
<1>1. IInv => NetInv
  <2> SUFFICES ASSUME IInv, Duplicate PROVE clashed
    BY DEF NetInv, NoDuplicates, IInv
  <2>1. PICK x, y \in Listed : x.a # y.a /\ x.cidr = y.cidr /\ x.cidr # NoCIDR
    BY DEF Duplicate
  <2>2. /\ x.a \in Adapters /\ adapter[x.a].cidr = x.cidr
        /\ y.a \in Adapters /\ adapter[y.a].cidr = y.cidr
    BY ListedTyped, TypeSplit DEF IInv, Views
  <2> QED BY <2>1, <2>2 DEF IInv, Settled
<1> QED BY <1>1, NetworkInductive, PTL

\* Where adapters show up when made and the user removes none, no concurrent Start
\* takes the DHCP server of a running machine for an orphan (network.go:245-272).
THEOREM ServersOfRunningMachinesStay == Spec => []ServersStay
<1>1. IInv => ServersStay
  BY DEF IInv
<1> QED BY <1>1, NetworkInductive, PTL

\* Where all networks are roomy, server, host and guests of one have different
\* addresses, although every Start moves the server (virtualbox.go:850-872,
\* 958-979).
THEOREM AddressesDiffer == Spec => []NoAddressClash
<1>1. IInv => NoAddressClash
  <2> SUFFICES ASSUME IInv, AllRoomy, NEW m \in Machines, guest[m].ip # 0,
                      server[guest[m].nic].cidr # NoCIDR
               PROVE  /\ server[guest[m].nic].addr # guest[m].ip
                      /\ server[guest[m].nic].cidr.host \notin {server[guest[m].nic].addr, guest[m].ip}
    BY DEF NoAddressClash, AllRoomy
  <2> DEFINE a == guest[m].nic
  <2>1. a \in Adapters /\ guest[m].ip \in Nat /\ guest[m].ip >= 100
    <3>1. NetType
      BY TypeSplit DEF IInv
    <3>2. guest[m].ip \in Byte
      BY <3>1 DEF NetType
    <3>3. guest[m].ip \in Nat
      BY <3>2 DEF Byte
    <3> QED BY <3>3 DEF IInv, Attached, RoomyLeases
  <2>2. server[a].on /\ server[a].cidr.host < 100 /\ server[a].addr \in 1..24
        /\ server[a].addr # server[a].cidr.host
    BY <2>1 DEF IInv, RoomyLeases
  <2>3. server[a].cidr.host \in Nat
    <3>1. server[a].cidr \in MachineCIDRs
      BY <2>1 DEF IInv, TypeOK
    <3>2. \A c \in MachineCIDRs : c.host \in Nat
      BY CIDRTyped, TypeSplit DEF IInv, MachineCIDRs, CIDRs, NoCIDR
    <3> QED BY <3>1, <3>2
  <2> QED BY <2>1, <2>2, <2>3
<1> QED BY <1>1, NetworkInductive, PTL
-----------------------------------------------------------------------------
(* A Start that is alone.                                                  *)

Sighted == {"collide", "create", "poll"}
Chosen == {"dhcps", "nets", "orphans", "servers", "add", "modify", "nic", "boot"}
Served == {"nic", "boot", "recheck", "fix"}

\* What a Start that met no other, and no user, has found out is still so.
View(p) ==
    /\ at[p] \in Sighted =>
          \A x \in seen[p] : adapter[x.a] = [st |-> "listed", cidr |-> x.cidr]
    /\ at[p] = "collide" =>
          /\ \A a \in Adapters :
                adapter[a].cidr = CIDR(p) => [a |-> a, cidr |-> CIDR(p)] \in seen[p]
          /\ \A a, b \in Adapters :
                adapter[a].cidr = CIDR(p) /\ adapter[b].cidr = CIDR(p) => a = b
    /\ at[p] \in {"create", "poll", "ipconfig"} => \A a \in Adapters : adapter[a].cidr # CIDR(p)
    /\ at[p] \in HasAdapter => adapter[ad[p]].st = "listed"
    /\ at[p] \in Chosen => adapter[ad[p]].cidr = CIDR(p)
    /\ at[p] \in HasAdapter => \A a \in Adapters : adapter[a].cidr = CIDR(p) => a = ad[p]
    /\ at[p] \in {"add", "modify"} => (at[p] = "modify" <=> server[ad[p]].on)
    /\ at[p] \in Served => server[ad[p]].on /\ server[ad[p]].cidr = CIDR(p)
    /\ at[p] \in {"nic", "boot"} /\ ~Narrow(CIDR(p)) => server[ad[p]].lower <= server[ad[p]].upper
    /\ at[p] \in {"boot", "recheck", "fix"} => guest[mach[p]].nic = ad[p]

LoneInv ==
    \A p \in Procs : Active(p) =>
        /\ result[p] = "none"
        /\ \A q \in Procs \ {p} : Active(q) => met[p]
        /\ ~met[p] => View(p)

LEMMA LoneGo ==
    ASSUME LoneInv, NEW p \in Procs, Active(p),
           \A q \in Procs \ {p} : at'[q] = at[q] /\ met'[q] = met[q] /\ result'[q] = result[q],
           Active(p)' => met'[p] = met[p] /\ result'[p] = result[p] /\ (~met[p] => View(p)')
    PROVE  LoneInv'
<1>1. ASSUME NEW q \in Procs \ {p}, Active(q)'
      PROVE  result'[q] = "none" /\ met'[q]
  BY <1>1 DEF LoneInv, Active
<1>2. ASSUME Active(p)'
      PROVE  /\ result'[p] = "none" /\ (~met'[p] => View(p)')
             /\ \A q \in Procs \ {p} : Active(q)' => met'[p]
  BY <1>2 DEF LoneInv, Active
<1> QED BY <1>1, <1>2 DEF LoneInv

LEMMA LoneGoto ==
    ASSUME TypeOK, LoneInv, NEW p \in Procs, Active(p), NEW l, NEW s, NEW n, NEW a,
           GotoWith(p, l, s, n, a), ~met[p] /\ View(p) => View(p)'
    PROVE  LoneInv'
<1>1. /\ \A q \in Procs \ {p} : at'[q] = at[q] /\ met'[q] = met[q] /\ result'[q] = result[q]
      /\ met'[p] = met[p] /\ result'[p] = result[p]
  BY DEF GotoWith, control, TypeOK
<1>2. ~met[p] => View(p)
  BY DEF LoneInv
<1> QED BY <1>1, <1>2, LoneGo

LEMMA LoneReturn ==
    ASSUME TypeOK, LoneInv, NEW p \in Procs, Active(p), NEW x, Return(p, x)
    PROVE  LoneInv'
<1>1. /\ \A q \in Procs \ {p} : at'[q] = at[q] /\ met'[q] = met[q] /\ result'[q] = result[q]
      /\ at'[p] = "idle"
  BY DEF Return, control, TypeOK
<1> QED BY <1>1, LoneGo DEF Active

\* The CIDR that is there is the one of the adapter in the list.
LEMMA FoundIs ==
    ASSUME NEW p, NEW nets, NEW b \in Found(p, nets)
    PROVE  \E x \in nets : x.a = b /\ x.cidr = CIDR(p)
BY DEF Found

LEMMA LoneLooks ==
    ASSUME IInv, LoneInv, NEW p \in Procs,
           \/ ListAdapters(p) \/ CheckCollisions(p) \/ WaitForAdapter(p) \/ ListServers(p)
           \/ ListOrphans(p) \/ ChooseCommand(p) \/ Recheck(p) \/ Crash(p)
    PROVE  LoneInv'
<1>0. /\ TypeOK /\ NetType /\ ProcType
      /\ CIDR(p) # NoCIDR /\ \A a \in Adapters : adapter[a].st # "listed" => adapter[a].cidr = NoCIDR
  BY TypeSplit, CIDRTyped DEF IInv, HiddenBare
<1>a. Active(p) /\ UNCHANGED <<adapter, server, guest>>
  BY DEF ListAdapters, CheckCollisions, WaitForAdapter, ListServers, ListOrphans,
         ChooseCommand, Recheck, Crash, Active
<1>r. ASSUME NEW x, Return(p, x) PROVE LoneInv'
  BY <1>0, <1>a, <1>r, LoneReturn
<1>f. ASSUME NEW x, Fault(p, x) PROVE LoneInv'
  BY <1>r, <1>f DEF Fault
<1>m. ASSUME NEW l, NEW s, NEW n, NEW a, GotoWith(p, l, s, n, a)
      PROVE  Move(p, l, s, n, a) /\ CIDR(p)' = CIDR(p)
  BY <1>0, <1>m, GotoMoves DEF Move, CIDR
<1>l. /\ Listed \in SUBSET Views
      /\ \A x \in Listed : adapter[x.a].st = "listed" /\ adapter[x.a].cidr = x.cidr
      /\ \A x \in Listed : x.a \in Adapters /\ adapter[x.a] = [st |-> "listed", cidr |-> x.cidr]
      /\ \A a \in Adapters : adapter[a].st = "listed" => [a |-> a, cidr |-> adapter[a].cidr] \in Listed
  <2>1. /\ Listed \in SUBSET Views
        /\ \A x \in Listed : adapter[x.a].st = "listed" /\ adapter[x.a].cidr = x.cidr
        /\ \A a \in Adapters : adapter[a].st = "listed" => [a |-> a, cidr |-> adapter[a].cidr] \in Listed
    BY <1>0, ListedTyped
  <2>2. \A x \in Listed : x.a \in Adapters
    BY <2>1 DEF Views
  <2>3. \A x \in Listed : adapter[x.a] = [st |-> "listed", cidr |-> x.cidr]
    BY <1>0, <2>1, <2>2 DEF NetType
  <2> QED BY <2>1, <2>2, <2>3
<1>1. CASE ListAdapters(p)
  <2>1. CASE ~Duplicate /\ GotoWith(p, "collide", Listed, {}, 0)
    <3>1. Move(p, "collide", Listed, {}, 0) /\ CIDR(p)' = CIDR(p)
      BY <1>m, <2>1
    <3>2. \A a \in Adapters : adapter[a].cidr = CIDR(p) => [a |-> a, cidr |-> CIDR(p)] \in Listed
      BY <1>0, <1>l
    <3>3. \A a, b \in Adapters : adapter[a].cidr = CIDR(p) /\ adapter[b].cidr = CIDR(p) => a = b
      <4> SUFFICES ASSUME NEW a \in Adapters, NEW b \in Adapters,
                          adapter[a].cidr = CIDR(p), adapter[b].cidr = CIDR(p)
                   PROVE  a = b
        OBVIOUS
      <4> DEFINE x == [a |-> a, cidr |-> CIDR(p)]
                 y == [a |-> b, cidr |-> CIDR(p)]
      <4>1. x \in Listed /\ y \in Listed /\ x.a = a /\ y.a = b /\ x.cidr = CIDR(p) /\ y.cidr = CIDR(p)
        BY <3>2
      <4> HIDE DEF x, y
      <4> QED BY <1>0, <2>1, <4>1 DEF Duplicate
    <3>4. View(p)'
      BY <1>a, <1>l, <3>1, <3>2, <3>3 DEF View, Move, HasAdapter, Chosen, Served
    <3> QED BY <1>0, <1>a, <2>1, <3>4, LoneGoto
  <2> QED BY <1>1, <1>r, <1>f, <2>1 DEF ListAdapters
<1>2. CASE CheckCollisions(p)
  <2>0. at[p] = "collide"
    BY <1>2 DEF CheckCollisions
  <2>1. ASSUME NEW a \in Found(p, seen[p]), GotoWith(p, "dhcps", {}, {}, a) PROVE LoneInv'
    <3>1. Move(p, "dhcps", {}, {}, a) /\ CIDR(p)' = CIDR(p)
      BY <1>m, <2>1
    <3>2. PICK x \in seen[p] : x.a = a /\ x.cidr = CIDR(p)
      BY FoundIs
    <3>3. a \in Adapters
      BY <1>0, <3>2 DEF ProcType, Views
    <3>4. ASSUME View(p) PROVE View(p)'
      <4>1. adapter[a] = [st |-> "listed", cidr |-> CIDR(p)]
        BY <2>0, <3>2, <3>4 DEF View, Sighted
      <4>2. \A b \in Adapters : adapter[b].cidr = CIDR(p) => b = a
        BY <2>0, <3>3, <3>4, <4>1 DEF View
      <4> QED BY <1>a, <3>1, <4>1, <4>2 DEF View, Move, Sighted, Chosen, Served
    <3> QED BY <1>0, <1>a, <2>1, <3>4, LoneGoto
  <2>2. CASE Found(p, seen[p]) = {} /\ Goto(p, "create")
    <3>1. Move(p, "create", seen[p], names[p], ad[p]) /\ CIDR(p)' = CIDR(p)
      BY <1>m, <2>2 DEF Goto
    <3>2. ASSUME View(p) PROVE View(p)'
      <4>1. \A b \in Adapters : adapter[b].cidr # CIDR(p)
        BY <2>0, <2>2, <3>2, FoundAll DEF View
      <4> QED BY <1>a, <2>0, <3>1, <3>2, <4>1 DEF View, Move, Sighted, Chosen, Served, HasAdapter
    <3> QED BY <1>0, <1>a, <2>2, <3>2, LoneGoto DEF Goto
  <2> QED BY <1>2, <1>r, <2>1, <2>2 DEF CheckCollisions
<1>3. CASE WaitForAdapter(p)
  <2>0. at[p] = "poll"
    BY <1>3 DEF WaitForAdapter
  <2>1. ASSUME NEW a \in {x.a : x \in Listed}, GotoWith(p, "ipconfig", {}, {}, a) PROVE LoneInv'
    <3>1. Move(p, "ipconfig", {}, {}, a) /\ CIDR(p)' = CIDR(p)
      BY <1>m, <2>1
    <3>2. adapter[a].st = "listed"
      BY <1>l
    <3>3. ASSUME View(p) PROVE View(p)'
      BY <1>a, <2>0, <3>1, <3>2, <3>3 DEF View, Move, Sighted, Chosen, Served, HasAdapter
    <3> QED BY <1>0, <1>a, <2>1, <3>3, LoneGoto
  <2> QED BY <1>3, <1>r, <1>f, <2>1 DEF WaitForAdapter
<1>4. CASE ListServers(p)
  <2>1. ASSUME NEW l \in {"servers", "nets"}, GotoWith(p, l, {}, Servers, ad[p]) PROVE LoneInv'
    <3>1. Move(p, l, {}, Servers, ad[p]) /\ CIDR(p)' = CIDR(p) /\ at[p] = "dhcps"
      BY <1>4, <1>m, <2>1 DEF ListServers
    <3>2. ASSUME View(p) PROVE View(p)'
      BY <1>a, <3>1, <3>2 DEF View, Move, Sighted, Chosen, Served, HasAdapter
    <3> QED BY <1>0, <1>a, <2>1, <3>2, LoneGoto
  <2> QED BY <1>4, <1>f, <2>1 DEF ListServers
<1>5. CASE ListOrphans(p)
  <2>1. ASSUME NEW n, GotoWith(p, "orphans", {}, n, ad[p]) PROVE LoneInv'
    <3>1. Move(p, "orphans", {}, n, ad[p]) /\ CIDR(p)' = CIDR(p) /\ at[p] = "nets"
      BY <1>5, <1>m, <2>1 DEF ListOrphans
    <3>2. ASSUME View(p) PROVE View(p)'
      BY <1>a, <3>1, <3>2 DEF View, Move, Sighted, Chosen, Served, HasAdapter
    <3> QED BY <1>0, <1>a, <2>1, <3>2, LoneGoto
  <2> QED BY <1>5, <1>r, <1>f, <2>1 DEF ListOrphans
<1>6. CASE ChooseCommand(p)
  <2>1. ASSUME NEW l, l = IF ad[p] \in Servers THEN "modify" ELSE "add", Goto(p, l) PROVE LoneInv'
    <3>1. Move(p, l, seen[p], names[p], ad[p]) /\ CIDR(p)' = CIDR(p) /\ at[p] = "servers"
      BY <1>6, <1>m, <2>1 DEF ChooseCommand, Goto
    <3>2. ad[p] \in Adapters
      BY <3>1 DEF IInv, Attached, HasAdapter
    <3>3. l \in {"modify", "add"} /\ (l = "modify" <=> server[ad[p]].on)
      BY <2>1, <3>2 DEF Servers
    <3>4. ASSUME View(p) PROVE View(p)'
      BY <1>a, <3>1, <3>3, <3>4 DEF View, Move, Sighted, Chosen, Served, HasAdapter
    <3> QED BY <1>0, <1>a, <2>1, <3>4, LoneGoto DEF Goto
  <2> QED BY <1>6, <1>r, <1>f, <2>1 DEF ChooseCommand
<1>7. CASE Recheck(p)
  <2>1. CASE Goto(p, "fix")
    <3>1. Move(p, "fix", seen[p], names[p], ad[p]) /\ CIDR(p)' = CIDR(p) /\ at[p] = "recheck"
      BY <1>7, <1>m, <2>1 DEF Recheck, Goto
    <3>2. ASSUME View(p) PROVE View(p)'
      BY <1>a, <3>1, <3>2 DEF View, Move, Sighted, Chosen, Served, HasAdapter
    <3> QED BY <1>0, <1>a, <2>1, <3>2, LoneGoto DEF Goto
  <2> QED BY <1>7, <1>r, <1>f, <2>1 DEF Recheck
<1>8. CASE Crash(p)
  BY <1>8, <1>r DEF Crash
<1> QED BY <1>1, <1>2, <1>3, <1>4, <1>5, <1>6, <1>7, <1>8

LEMMA LoneCreates ==
    ASSUME IInv, LoneInv, NEW p \in Procs, CreateAdapter(p)
    PROVE  LoneInv'
<1>0. /\ TypeOK /\ NetType /\ ProcType /\ CIDR(p) # NoCIDR
  BY TypeSplit, CIDRTyped DEF IInv
<1>1. /\ at[p] = "create" /\ Active(p) /\ guest' = guest
      /\ GotoWith(p, "poll", seen[p], names[p], ad[p])
  BY DEF CreateAdapter, Active, Goto
<1>2. Move(p, "poll", seen[p], names[p], ad[p]) /\ CIDR(p)' = CIDR(p)
  BY <1>0, <1>1, GotoMoves DEF Move, CIDR
<1> DEFINE free == {a \in Adapters : adapter[a].st = "absent"}
           f == CHOOSE x \in free : \A y \in free : x <= y
<1>3. \/ adapter' = adapter
      \/ /\ f \in Adapters /\ adapter[f].st = "absent"
         /\ \E st \in {"listed", "hidden"} :
               adapter' = [adapter EXCEPT ![f] = [st |-> st, cidr |-> NoCIDR]]
  <2>1. free # {} => f \in free
    BY FirstFree
  <2> HIDE DEF f
  <2>2. \/ adapter' = adapter
        \/ /\ free # {}
           /\ \E st \in {"listed"} \cup (IF "hidden" \in faults THEN {"hidden"} ELSE {}) :
                 adapter' = [adapter EXCEPT ![f] = [st |-> st, cidr |-> NoCIDR]]
    BY DEF CreateAdapter, f
  <2> QED BY <2>1, <2>2
<1> HIDE DEF f
<1>4. \A a \in Adapters : adapter'[a] = adapter[a] \/ (adapter[a].st = "absent" /\ adapter'[a].cidr = NoCIDR)
  BY <1>0, <1>3 DEF NetType
<1>5. ASSUME View(p) PROVE View(p)'
  <2>1. \A x \in seen[p] : x.a \in Adapters
    BY <1>0 DEF ProcType, Views
  <2>2. \A x \in seen[p] : adapter'[x.a] = [st |-> "listed", cidr |-> x.cidr]
    <3> SUFFICES ASSUME NEW x \in seen[p] PROVE adapter'[x.a] = [st |-> "listed", cidr |-> x.cidr]
      OBVIOUS
    <3>1. x.a \in Adapters /\ adapter[x.a] = [st |-> "listed", cidr |-> x.cidr]
      BY <1>1, <1>5, <2>1 DEF View, Sighted
    <3>2. adapter[x.a].st # "absent"
      BY <3>1
    <3> QED BY <1>4, <3>1, <3>2
  <2>3. \A a \in Adapters : adapter'[a].cidr # CIDR(p)
    BY <1>0, <1>1, <1>4, <1>5 DEF View
  <2> QED BY <1>1, <1>2, <2>2, <2>3 DEF View, Move, Sighted, Chosen, Served, HasAdapter
<1> QED BY <1>0, <1>1, <1>5, LoneGoto

LEMMA LoneConfigures ==
    ASSUME IInv, LoneInv, NEW p \in Procs, ConfigureAdapter(p) \/ FixAdapter(p)
    PROVE  LoneInv'
<1>0. /\ TypeOK /\ NetType /\ ProcType /\ Active(p) /\ ad[p] \in Adapters
  BY TypeSplit DEF IInv, ConfigureAdapter, FixAdapter, Active, Attached, HasAdapter
<1>1. ASSUME NEW x, Return(p, x) PROVE LoneInv'
  BY <1>0, <1>1, LoneReturn
<1>2. CASE /\ at[p] = "ipconfig" /\ adapter[ad[p]].st = "listed" /\ Configure(p) /\ Goto(p, "dhcps")
           /\ UNCHANGED <<server, guest>>
  <2>1. Move(p, "dhcps", seen[p], names[p], ad[p]) /\ CIDR(p)' = CIDR(p)
    BY <1>0, <1>2, GotoMoves DEF Goto, Move, CIDR
  <2>2. /\ \A a \in Adapters \ {ad[p]} : adapter'[a] = adapter[a]
        /\ adapter'[ad[p]].st = "listed" /\ adapter'[ad[p]].cidr = CIDR(p)
    BY <1>0, <1>2 DEF Configure, NetType
  <2>3. ASSUME View(p) PROVE View(p)'
    BY <1>2, <2>1, <2>2, <2>3 DEF View, Move, Sighted, Chosen, Served, HasAdapter
  <2> QED BY <1>0, <1>2, <2>3, LoneGoto DEF Goto
<1> QED BY <1>1, <1>2 DEF ConfigureAdapter, FixAdapter, Fault

\* The range of a network that is not narrow has addresses.
LEMMA RangeFilled ==
    ASSUME NEW x \in 1..24, NEW c \in CIDRs, ~Narrow(c)
    PROVE  DHCPAddressRange(x, c).lower <= DHCPAddressRange(x, c).upper
<1>1. CASE c.ones <= 24
  BY <1>1 DEF DHCPAddressRange
<1>2. CASE c.ones > 24
  <2>0. c.ones \in 1..32
    BY DEF CIDRs
  <2> DEFINE k == 32 - c.ones
  <2>1. k \in 0..7
    BY <1>2, <2>0
  <2>2. 2 ^ k - 2 >= 25
    BY <1>2, <2>0 DEF Narrow, HostBits
  <2>3. 2 ^ k \in {1, 2, 4, 8, 16, 32, 64, 128}
    <3>1. k \in {0, 1, 2, 3, 4, 5, 6, 7}
      BY <2>1
    <3> HIDE DEF k
    <3>2. k = 0 => 2 ^ k = 1
      <4>1. 2 ^ 0 = 1
        OBVIOUS
      <4> QED BY <4>1
    <3>3. k = 1 => 2 ^ k = 2
      <4>1. 2 ^ 1 = 2
        OBVIOUS
      <4> QED BY <4>1
    <3>4. k = 2 => 2 ^ k = 4
      <4>1. 2 ^ 2 = 4
        OBVIOUS
      <4> QED BY <4>1
    <3>5. k = 3 => 2 ^ k = 8
      <4>1. 2 ^ 3 = 8
        OBVIOUS
      <4> QED BY <4>1
    <3>6. k = 4 => 2 ^ k = 16
      <4>1. 2 ^ 4 = 16
        OBVIOUS
      <4> QED BY <4>1
    <3>7. k = 5 => 2 ^ k = 32
      <4>1. 2 ^ 5 = 32
        OBVIOUS
      <4> QED BY <4>1
    <3>8. k = 6 => 2 ^ k = 64
      <4>1. 2 ^ 6 = 64
        OBVIOUS
      <4> QED BY <4>1
    <3>9. k = 7 => 2 ^ k = 128
      <4>1. 2 ^ 7 = 128
        OBVIOUS
      <4> QED BY <4>1
    <3> QED BY <3>1, <3>2, <3>3, <3>4, <3>5, <3>6, <3>7, <3>8, <3>9
  <2>4. DHCPAddressRange(x, c).lower = (x + 1) % 256
        /\ DHCPAddressRange(x, c).upper = (2 ^ k - 2) % 256
    BY <1>2, <2>0 DEF DHCPAddressRange
  <2> HIDE DEF k
  <2>5. (x + 1) % 256 = x + 1
    OBVIOUS
  <2>6. (2 ^ k - 2) % 256 = 2 ^ k - 2
    BY <2>2, <2>3
  <2> QED BY <2>2, <2>3, <2>4, <2>5, <2>6
<1>3. c.ones \in 1..32
  BY DEF CIDRs
<1> QED BY <1>1, <1>2, <1>3

LEMMA LoneServes ==
    ASSUME IInv, LoneInv, NEW p \in Procs, RemoveOrphan(p) \/ SetServer(p)
    PROVE  LoneInv'
<1>0. /\ TypeOK /\ NetType /\ ProcType /\ Active(p) /\ ad[p] \in Adapters
      /\ adapter' = adapter /\ guest' = guest /\ CIDR(p) \in CIDRs
  BY TypeSplit, CIDRTyped DEF IInv, RemoveOrphan, SetServer, Active, Attached, HasAdapter
<1>1. ASSUME NEW x, Return(p, x) PROVE LoneInv'
  BY <1>0, <1>1, LoneReturn
<1>2. ASSUME RemoveOrphan(p), NEW l \in {"orphans", "servers"}, NEW s, NEW n, GotoWith(p, l, s, n, ad[p])
      PROVE  LoneInv'
  <2>1. Move(p, l, s, n, ad[p]) /\ CIDR(p)' = CIDR(p) /\ at[p] = "orphans"
    BY <1>0, <1>2, GotoMoves DEF Move, CIDR, RemoveOrphan
  <2>2. ASSUME View(p) PROVE View(p)'
    BY <1>0, <2>1, <2>2 DEF View, Move, Sighted, Chosen, Served, HasAdapter
  <2> QED BY <1>0, <1>2, <2>2, LoneGoto
<1>3. ASSUME at[p] \in {"add", "modify"}, NEW x \in DHCPAddresses(CIDR(p)), Goto(p, "nic"),
             LET r == DHCPAddressRange(x, CIDR(p)) IN
                server' = [server EXCEPT ![ad[p]] =
                    [addr |-> x, cidr |-> CIDR(p), on |-> TRUE,
                     lower |-> r.lower, upper |-> r.upper]]
      PROVE  LoneInv'
  <2>1. Move(p, "nic", seen[p], names[p], ad[p]) /\ CIDR(p)' = CIDR(p)
    BY <1>0, <1>3, GotoMoves DEF Move, CIDR, Goto
  <2>2. /\ server'[ad[p]].on /\ server'[ad[p]].cidr = CIDR(p)
        /\ server'[ad[p]].lower = DHCPAddressRange(x, CIDR(p)).lower
        /\ server'[ad[p]].upper = DHCPAddressRange(x, CIDR(p)).upper
    BY <1>0, <1>3 DEF NetType
  <2>3. x \in 1..24
    BY NetworkAssumption DEF DHCPAddresses
  <2>4. ~Narrow(CIDR(p)) => server'[ad[p]].lower <= server'[ad[p]].upper
    BY <1>0, <2>2, <2>3, RangeFilled
  <2>5. Narrow(CIDR(p))' <=> Narrow(CIDR(p))
    BY <2>1 DEF Narrow, HostBits
  <2>6. ASSUME View(p) PROVE View(p)'
    BY <1>0, <1>3, <2>1, <2>2, <2>4, <2>5, <2>6 DEF View, Move, Sighted, Chosen, Served, HasAdapter
  <2> QED BY <1>0, <1>3, <2>6, LoneGoto DEF Goto
<1> QED BY <1>1, <1>2, <1>3 DEF RemoveOrphan, SetServer, Goto, Fault

LEMMA LoneBoots ==
    ASSUME IInv, LoneInv, NEW p \in Procs, AttachMachine(p) \/ BootMachine(p)
    PROVE  LoneInv'
<1>0. /\ TypeOK /\ NetType /\ ProcType /\ Active(p) /\ ad[p] \in Adapters /\ mach[p] \in Machines
      /\ server' = server /\ CIDR(p) # NoCIDR
  BY TypeSplit, CIDRTyped
     DEF IInv, AttachMachine, BootMachine, Active, Attached, HasAdapter, ProcType
<1>1. ASSUME NEW x, Return(p, x) PROVE LoneInv'
  BY <1>0, <1>1, LoneReturn
<1>2. CASE /\ at[p] = "nic" /\ guest' = [guest EXCEPT ![mach[p]].nic = ad[p]] /\ Goto(p, "boot")
           /\ UNCHANGED <<adapter, server>>
  <2>1. Move(p, "boot", seen[p], names[p], ad[p]) /\ CIDR(p)' = CIDR(p)
    BY <1>0, <1>2, GotoMoves DEF Move, CIDR, Goto
  <2>2. guest'[mach[p]].nic = ad[p]
    BY <1>0, <1>2 DEF NetType
  <2>3. Narrow(CIDR(p))' <=> Narrow(CIDR(p))
    BY <2>1 DEF Narrow, HostBits
  <2>4. ASSUME View(p) PROVE View(p)'
    BY <1>0, <1>2, <2>1, <2>2, <2>3, <2>4 DEF View, Move, Sighted, Chosen, Served, HasAdapter
  <2> QED BY <1>0, <1>2, <2>4, LoneGoto DEF Goto
<1>3. ASSUME BootMachine(p), Goto(p, "recheck"),
             NEW x \in Leases(guest[mach[p]].nic), guest' = [guest EXCEPT ![mach[p]].ip = x]
      PROVE  LoneInv'
  <2>1. Move(p, "recheck", seen[p], names[p], ad[p]) /\ CIDR(p)' = CIDR(p) /\ at[p] = "boot"
    BY <1>0, <1>3, GotoMoves DEF Move, CIDR, Goto, BootMachine
  <2>2. guest'[mach[p]].nic = guest[mach[p]].nic
    BY <1>0, <1>3 DEF NetType
  <2>3. ASSUME View(p) PROVE View(p)'
    <3>1. guest[mach[p]].nic = ad[p]
      BY <2>1, <2>3 DEF View
    <3>2. adapter' = adapter \/ adapter' = [adapter EXCEPT ![ad[p]].cidr = NoCIDR]
      BY <1>3, <3>1 DEF BootMachine
    <3>3. /\ \A a \in Adapters \ {ad[p]} : adapter'[a] = adapter[a]
          /\ adapter'[ad[p]].st = adapter[ad[p]].st
      BY <1>0, <3>2 DEF NetType
    <3> QED BY <1>0, <2>1, <2>2, <2>3, <3>1, <3>3 DEF View, Move, Sighted, Chosen, Served, HasAdapter
  <2> QED BY <1>0, <1>3, <2>3, LoneGoto DEF Goto
<1> QED BY <1>1, <1>2, <1>3 DEF AttachMachine, BootMachine, Fault

LEMMA LoneWorld ==
    ASSUME IInv, LoneInv,
           \/ \E p \in Procs, m \in Machines : Begin(p, m)
           \/ \E m \in Machines : StopMachine(m)
           \/ \E a \in Adapters : Appear(a) \/ UserRemoves(a)
    PROVE  LoneInv'
<1>0. /\ TypeOK /\ NetType /\ ProcType
      /\ \A a \in Adapters : adapter[a].st # "listed" => adapter[a].cidr = NoCIDR
      /\ \A p \in Procs : CIDR(p) # NoCIDR
  BY TypeSplit, CIDRTyped DEF IInv, HiddenBare
<1>1. ASSUME NEW p \in Procs, NEW m \in Machines, Begin(p, m) PROVE LoneInv'
  <2>1. /\ ~Active(p) /\ at'[p] = "list" /\ result'[p] = "none"
        /\ \A q \in Procs \ {p} : at'[q] = at[q] /\ result'[q] = result[q] /\ (met'[q] <=> met[q] \/ Active(q))
        /\ met'[p] <=> \E q \in Procs : Active(q)
    BY <1>0, <1>1 DEF ProcType, Begin
  <2>2. ASSUME NEW q \in Procs \ {p}, Active(q)' PROVE result'[q] = "none" /\ met'[q] /\ met'[p]
    BY <2>1, <2>2 DEF LoneInv, Active
  <2>3. View(p)'
    BY <2>1 DEF View, Sighted, Chosen, Served, HasAdapter
  <2> QED BY <2>1, <2>2, <2>3 DEF LoneInv
<1>2. ASSUME UNCHANGED <<server, at, mach, seen, ad, result, cidrOf, met>>,
             \A p \in Procs : Active(p) => guest'[mach[p]].nic = guest[mach[p]].nic,
             \A a \in Adapters : adapter'[a] = adapter[a]
                \/ (adapter[a].st # "listed" /\ adapter'[a].cidr = adapter[a].cidr)
      PROVE  LoneInv'
  <2>1. ASSUME NEW p \in Procs, Active(p), View(p) PROVE View(p)'
    <3>1. CIDR(p)' = CIDR(p) /\ guest'[mach[p]].nic = guest[mach[p]].nic
      BY <1>2, <2>1 DEF CIDR
    <3>2. Narrow(CIDR(p))' <=> Narrow(CIDR(p))
      BY <3>1 DEF Narrow, HostBits
    <3>3. at[p] \in HasAdapter => ad[p] \in Adapters
      BY DEF IInv, Attached
    <3>4. \A x \in seen[p] : x.a \in Adapters
      BY <1>0 DEF ProcType, Views
    <3>5. \A a \in Adapters : /\ adapter'[a].cidr = adapter[a].cidr
                              /\ adapter[a].st = "listed" => adapter'[a] = adapter[a]
      BY <1>2
    <3>6. at'[p] \in Sighted => \A x \in seen'[p] : adapter'[x.a] = [st |-> "listed", cidr |-> x.cidr]
      <4> SUFFICES ASSUME at[p] \in Sighted, NEW x \in seen[p]
                   PROVE  adapter'[x.a] = [st |-> "listed", cidr |-> x.cidr]
        BY <1>2
      <4>1. x.a \in Adapters /\ adapter[x.a] = [st |-> "listed", cidr |-> x.cidr]
        BY <2>1, <3>4 DEF View
      <4> QED BY <3>5, <4>1
    <3>7. Chosen \subseteq HasAdapter /\ Served \subseteq HasAdapter
      BY DEF Chosen, Served, HasAdapter
    <3> QED BY <1>2, <2>1, <3>1, <3>2, <3>3, <3>5, <3>6, <3>7 DEF View
  <2> QED BY <1>2, <2>1 DEF LoneInv, Active
<1>3. ASSUME NEW m \in Machines, StopMachine(m) PROVE LoneInv'
  <2>1. \A n \in Machines : guest'[n].nic = guest[n].nic
    BY <1>0, <1>3 DEF NetType, StopMachine
  <2>2. \A p \in Procs : mach[p] \in Machines
    BY <1>0 DEF ProcType
  <2> QED BY <1>2, <1>3, <2>1, <2>2 DEF StopMachine
<1>4. ASSUME NEW a \in Adapters, Appear(a) PROVE LoneInv'
  BY <1>0, <1>2, <1>4 DEF NetType, Appear
<1>5. ASSUME NEW a \in Adapters, UserRemoves(a) PROVE LoneInv'
  <2>1. \A p \in Procs : at'[p] = at[p] /\ result'[p] = result[p] /\ (Active(p) => met'[p])
    BY <1>5 DEF UserRemoves
  <2> QED BY <2>1 DEF LoneInv, Active
<1> QED BY <1>1, <1>3, <1>4, <1>5

LEMMA LoneStep == IInv /\ LoneInv /\ [Next]_vars => LoneInv'
<1> SUFFICES ASSUME IInv, LoneInv, [Next]_vars PROVE LoneInv'
  OBVIOUS
<1>1. CASE UNCHANGED vars
  <2>1. ASSUME NEW p \in Procs, View(p) PROVE View(p)'
    BY <1>1, <2>1 DEF vars, View, CIDR, Narrow, HostBits
  <2> QED BY <1>1, <2>1 DEF vars, LoneInv, Active
<1> QED
  BY <1>1, LoneLooks, LoneCreates, LoneConfigures, LoneServes, LoneBoots, LoneWorld DEF Next, Setup

LEMMA LoneInductive == Spec => [](IInv /\ LoneInv)
<1>1. Init => LoneInv
  BY DEF Init, LoneInv, Active
<1>2. IInv /\ LoneInv /\ [Next]_vars => LoneInv'
  BY LoneStep
<1> QED BY <1>1, <1>2, NetworkInductive, PTL DEF Spec

\* How a Start that is alone ends.
LEMMA LoneEnds ==
    ASSUME IInv, LoneInv, Next, NEW p \in Procs, Active(p), ~met[p], result'[p] \in {"ok", "error"}
    PROVE  /\ View(p) /\ result' # result /\ ad[p] \in Adapters \cup {0} /\ CIDR(p) # NoCIDR
           /\ \/ ListAdapters(p) \/ CheckCollisions(p) \/ WaitForAdapter(p) \/ ListOrphans(p)
              \/ ConfigureAdapter(p) \/ SetServer(p) \/ BootMachine(p) \/ Recheck(p) \/ FixAdapter(p)
<1>1. /\ View(p) /\ result[p] = "none" /\ \A q \in Procs \ {p} : ~Active(q)
      /\ result \in [Procs -> {"none", "ok", "fault", "error", "killed"}]
      /\ ad[p] \in Adapters \cup {0} /\ CIDR(p) # NoCIDR
  BY TypeSplit, CIDRTyped DEF IInv, LoneInv, TypeOK
<1>2. result' # result
  BY <1>1
<1>3. ASSUME NEW q \in Procs, Setup(q) \/ BootMachine(q) \/ Recheck(q) \/ FixAdapter(q) \/ Crash(q)
      PROVE  q = p /\ ~Crash(q)
  <2>1. Active(q)
    BY <1>3 DEF Setup, ListAdapters, CheckCollisions, CreateAdapter, WaitForAdapter, ConfigureAdapter,
                ListServers, ListOrphans, RemoveOrphan, ChooseCommand, SetServer, AttachMachine,
                BootMachine, Recheck, FixAdapter, Crash, Active
  <2>2. q = p
    BY <1>1, <2>1
  <2> QED BY <1>1, <2>2 DEF Crash, Return
<1>4. ~CreateAdapter(p) /\ ~RemoveOrphan(p)
  BY <1>2 DEF CreateAdapter, RemoveOrphan, Goto, GotoWith
<1>5. ~ListServers(p) /\ ~ChooseCommand(p) /\ ~AttachMachine(p)
  BY <1>1 DEF ListServers, ChooseCommand, AttachMachine, Fault, Return, Goto, GotoWith
<1>6. ~\E q \in Procs, m \in Machines : Begin(q, m)
  BY <1>1 DEF Begin
<1>7. ~\E m \in Machines : StopMachine(m)
  BY <1>2 DEF StopMachine
<1>8. ~\E a \in Adapters : Appear(a) \/ UserRemoves(a)
  BY <1>2 DEF Appear, UserRemoves
<1> QED BY <1>1, <1>2, <1>3, <1>4, <1>5, <1>6, <1>7, <1>8 DEF Next, Setup

\* A Start that nobody else was active with and that reports success has its
\* machine on an adapter with its CIDR and a DHCP server of that CIDR, whatever
\* failed before and whatever starting the machine did to the adapter, for all
\* CIDRs and any number of machines, adapters and earlier Starts
\* (virtualbox.go:785-848, 517-560).
THEOREM LoneStartHasNetwork == Spec => GoodNetwork
<1>1. ASSUME IInv, LoneInv, [Next]_vars
      PROVE  [\A p \in Procs :
                (Active(p) /\ result'[p] = "ok" /\ ~met[p])
                   => LET a == guest'[mach[p]].nic IN
                      /\ a # 0 /\ adapter'[a] = [st |-> "listed", cidr |-> CIDR(p)]
                      /\ server'[a].on /\ server'[a].cidr = CIDR(p)]_vars
  <2> SUFFICES ASSUME Next, NEW p \in Procs, Active(p), result'[p] = "ok", ~met[p]
               PROVE  LET a == guest'[mach[p]].nic IN
                      /\ a # 0 /\ adapter'[a] = [st |-> "listed", cidr |-> CIDR(p)]
                      /\ server'[a].on /\ server'[a].cidr = CIDR(p)
    BY <1>1
  <2>1. View(p) /\ result' # result /\ CIDR(p) # NoCIDR /\ NetType /\ ProcType
    BY <1>1, LoneEnds, TypeSplit DEF IInv
  <2>2. result \in [Procs -> {"none", "ok", "fault", "error", "killed"}]
    BY <2>1 DEF ProcType
  <2>3. \/ Recheck(p) /\ Found(p, Listed) # {}
        \/ FixAdapter(p) /\ adapter[ad[p]].st = "listed" /\ Configure(p) /\ guest' = guest
    <3>1. ASSUME NEW x, Return(p, x) PROVE x = "ok"
      BY <2>2, <3>1 DEF Return
    <3>2. ~Fault(p, "vbm") /\ ~Fault(p, "hidden") /\ ~Return(p, "error") /\ ~Return(p, "fault")
      BY <3>1 DEF Fault
    <3> QED BY <1>1, <2>1, <3>2, LoneEnds
            DEF ListAdapters, CheckCollisions, WaitForAdapter, ListOrphans, ConfigureAdapter, SetServer,
                BootMachine, Recheck, FixAdapter, Goto, GotoWith
  <2>4. at[p] \in {"recheck", "fix"} /\ server' = server /\ guest' = guest
    BY <2>3 DEF Recheck, FixAdapter
  <2>5. /\ ad[p] \in Adapters /\ ad[p] # 0 /\ guest'[mach[p]].nic = ad[p]
        /\ adapter[ad[p]].st = "listed" /\ server[ad[p]].on /\ server[ad[p]].cidr = CIDR(p)
    BY <1>1, <2>1, <2>4, NetworkAssumption DEF View, IInv, Attached, HasAdapter, Served, Adapters
  <2>6. adapter'[ad[p]] = [st |-> "listed", cidr |-> CIDR(p)]
    <3>1. CASE Recheck(p) /\ Found(p, Listed) # {}
      <4>1. PICK x \in Listed : x.cidr = CIDR(p)
        BY <3>1, FoundIs
      <4>2. x.a \in Adapters /\ adapter[x.a].cidr = CIDR(p)
        BY <2>1, <4>1, ListedTyped DEF Views
      <4>3. x.a = ad[p]
        BY <2>1, <2>4, <4>2 DEF View, HasAdapter
      <4>4. adapter' = adapter
        BY <3>1 DEF Recheck
      <4> QED BY <2>1, <2>5, <4>2, <4>3, <4>4 DEF NetType
    <3>2. CASE Configure(p)
      BY <2>1, <2>5, <3>2 DEF NetType, Configure
    <3> QED BY <2>3, <3>1, <3>2
  <2> QED BY <2>4, <2>5, <2>6
<1> QED BY <1>1, LoneInductive, PTL DEF Spec, GoodNetwork

\* A Start that nobody else was active with fails only where a call failed, the
\* network is taken, narrow or full, the CIDR is refused, or there were duplicate
\* adapters already, for all CIDRs and any number of machines, adapters and
\* earlier Starts (virtualbox.go:785-848, network.go:182-213).
THEOREM LoneStartWorks == Spec => AloneWorks
<1>1. ASSUME IInv, LoneInv, [Next]_vars
      PROVE  [\A p \in Procs :
                (Active(p) /\ result'[p] = "error" /\ ~met[p])
                   => \/ Duplicate \/ CIDR(p) \in Taken
                      \/ ~ValidCIDR(CIDR(p)) \/ Narrow(CIDR(p))
                      \/ at[p] = "boot" /\ Full(ad[p])]_vars
  <2> SUFFICES ASSUME Next, NEW p \in Procs, Active(p), result'[p] = "error", ~met[p],
                      ~Duplicate, CIDR(p) \notin Taken, ValidCIDR(CIDR(p)), ~Narrow(CIDR(p))
               PROVE  at[p] = "boot" /\ Full(ad[p])
    BY <1>1
  <2>1. View(p) /\ result' # result /\ CIDR(p) # NoCIDR /\ NetType /\ ProcType
    BY <1>1, LoneEnds, TypeSplit DEF IInv
  <2>2. result \in [Procs -> {"none", "ok", "fault", "error", "killed"}]
    BY <2>1 DEF ProcType
  <2>3. ASSUME NEW x, Return(p, x) PROVE x = "error"
    BY <2>2, <2>3 DEF Return
  <2>4. /\ ~Fault(p, "vbm") /\ ~Fault(p, "hidden") /\ ~Return(p, "ok") /\ ~Return(p, "fault")
        /\ \A l, s, n, a : ~GotoWith(p, l, s, n, a)
    BY <2>1, <2>3 DEF Fault, GotoWith
  <2>5. ~ListAdapters(p) /\ ~WaitForAdapter(p) /\ ~ListOrphans(p) /\ ~Recheck(p)
    BY <2>4 DEF ListAdapters, WaitForAdapter, ListOrphans, Recheck, Goto
  <2>6. ~CheckCollisions(p)
    <3> SUFFICES ASSUME at[p] = "collide",
                        CIDR(p) \in {adapter[a].cidr : a \in Adapters} \ {x.cidr : x \in seen[p]}
                 PROVE  FALSE
      BY <2>4 DEF CheckCollisions, Goto
    <3>1. PICK a \in Adapters : adapter[a].cidr = CIDR(p)
      OBVIOUS
    <3> DEFINE x == [a |-> a, cidr |-> CIDR(p)]
    <3>2. x \in seen[p] /\ x.cidr = CIDR(p)
      BY <2>1, <3>1 DEF View
    <3> HIDE DEF x
    <3> QED BY <3>2
  <2>7. ~ConfigureAdapter(p) /\ ~FixAdapter(p)
    BY <2>1, <2>4 DEF ConfigureAdapter, FixAdapter, View, HasAdapter, Goto
  <2>8. ~SetServer(p)
    <3> SUFFICES ASSUME SetServer(p) PROVE FALSE
      OBVIOUS
    <3>1. at[p] \in {"add", "modify"} /\ (at[p] = "modify") # (ad[p] \in Servers)
      BY <2>4 DEF SetServer, Goto
    <3>2. ad[p] \in Adapters
      BY <1>1, <3>1 DEF IInv, Attached, HasAdapter
    <3>3. ad[p] \in Servers <=> server[ad[p]].on
      BY <3>2 DEF Servers
    <3> QED BY <2>1, <3>1, <3>3 DEF View
  <2>9. BootMachine(p)
    BY <1>1, <2>5, <2>6, <2>7, <2>8, LoneEnds
  <2>10. at[p] = "boot" /\ Leases(guest[mach[p]].nic) = {}
    BY <2>4, <2>9 DEF BootMachine, Goto
  <2>11. /\ guest[mach[p]].nic = ad[p] /\ server[ad[p]].on /\ server[ad[p]].cidr # NoCIDR
         /\ adapter[ad[p]].st = "listed"
    BY <2>1, <2>10 DEF View, HasAdapter, Served
  <2>12. server[ad[p]].lower <= server[ad[p]].upper
    BY <2>1, <2>10 DEF View
  <2>13. Full(ad[p])
    BY <2>10, <2>11, <2>12 DEF Leases, Full
  <2> QED BY <2>10, <2>13
<1> QED BY <1>1, LoneInductive, PTL DEF Spec, AloneWorks
=============================================================================
