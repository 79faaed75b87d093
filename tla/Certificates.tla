---------------------------- MODULE Certificates ----------------------------
(***************************************************************************)
(* The certificates: the CA and the client certificate that all machines   *)
(* share (libmachine/cert/bootstrap.go, cert.go), and how provisioning     *)
(* hands them to a machine together with a server certificate of its own   *)
(* (libmachine/provision/).  "regenerate-certs a b" does this for several  *)
(* machines at once, in goroutines, and nothing locks the shared files; a  *)
(* file is created, filled, read or removed in one step each.              *)
(*                                                                         *)
(* A call is the sequence of steps it still has to make: a step that finds *)
(* out what comes next puts more in front, and an error ends the call.     *)
(***************************************************************************)
EXTENDS Integers, Sequences

CONSTANTS
    NumProcs,  \* goroutines or processes at the same time
    NumMachines,
    OSes,      \* values of ID in /etc/os-release
    MaxPairs,  \* bound: key pairs generated in a run
    MaxCalls,  \* bound: calls begun in a run
    FaultSets  \* a set of subsets of AllFaults: which of them go together

\* A process is killed; a file cannot be created; the disk is full, which
\* pem.Encode would tell; SSH fails; certificates expire; the user has removed
\* files; calls overlap.
AllFaults == {"crash", "create", "full", "ssh", "expire", "user", "race"}

ASSUME CertAssumption ==
    /\ NumProcs \in Nat /\ NumMachines \in Nat \ {0} /\ MaxPairs \in Nat \ {0, 1} /\ MaxCalls \in Nat
    /\ FaultSets \subseteq SUBSET AllFaults

Procs == 1..NumProcs
Machines == 1..NumMachines
Pairs == 1..MaxPairs

\* What a file holds: it does not exist, it is empty, or it is the certificate
\* or the key of a pair.
None == -1
Empty == 0
Content == -1..MaxPairs

Kinds == {"CA", "client"}

VARIABLES
    disk,      \* disk[k]: the certificate file and the key file of the CA and
               \* of the client
    issuer,    \* issuer[n]: the CA pair that signed the certificate of pair n
    issued,    \* pairs generated so far; they are numbered in this order
    expired,   \* the certificates of pairs up to this one are out of date
    copy,      \* copy[m]: ca.pem, cert.pem and key.pem in m's directory
    guest,     \* guest[m]: ca.pem, server.pem and server-key.pem in machine m
    op,        \* op[p]: the call of p: its name, its machine, the steps to
               \* make, the pair it generated, and the CA certificate it read
    result,    \* result[p]: how its last call ended: "nocerts" is an error of
               \* BootstrapCertificates
    calls,     \* calls begun so far
    faults,    \* what may go wrong in this run
    \* History.
    met,       \* met[p]: another call was under way during p's call
    mixed,     \* two calls have been under way at the same time
    damaged,   \* a call was killed, could not write, or files were missing
    kept       \* the CA was renewed when the client certificate was current

files == <<disk, issuer, issued, expired, copy, guest>>
history == <<met, mixed, damaged, kept>>
vars == <<files, op, result, calls, faults, history>>

Steps == {"date", "rmkey", "stat", "loadcert", "loadkey", "opencert", "writecert",
          "openkey", "writekey"} \X Kinds
         \cup ({"detect", "ssh", "copyca", "copycert", "copykey", "server",
                "readca", "putca", "putcert", "putkey"} \X {"vm"})

TypeOK ==
    /\ disk \in [Kinds -> [cert : Content, key : Content]]
    /\ issuer \in [Pairs -> 0..MaxPairs]
    /\ issued \in 0..MaxPairs
    /\ expired \in 0..issued
    /\ copy \in [Machines -> [ca : Content, cert : Content, key : Content]]
    /\ guest \in [Machines -> [ca : Content, cert : Content, key : Content]]
    /\ op \in [Procs -> [call : {"idle", "all", "auth"}, m : Machines, todo : Seq(Steps),
                         pair : 0..MaxPairs, ca : Content]]
    /\ result \in [Procs -> {"none", "ok", "nocerts", "failed", "killed"}]
    /\ calls \in 0..MaxCalls
    /\ faults \in FaultSets
    /\ met \in [Procs -> BOOLEAN]
    /\ mixed \in BOOLEAN /\ damaged \in BOOLEAN /\ kept \in BOOLEAN

NoPair == [cert |-> None, key |-> None]
NoOp == [call |-> "idle", m |-> 1, todo |-> <<>>, pair |-> 0,
         ca |-> None]

\* The first use of the program, or a later one: pair 1 is the CA's and pair 2
\* the client's, and they may be out of date.
Init ==
    /\ faults \in FaultSets
    /\ \/ disk = [k \in Kinds |-> NoPair] /\ issued = 0 /\ damaged = FALSE
       \/ /\ disk = [k \in Kinds |-> IF k = "CA" THEN [cert |-> 1, key |-> 1]
                                                 ELSE [cert |-> 2, key |-> 2]]
          /\ issued = 2 /\ damaged = FALSE
       \/ /\ "user" \in faults
          /\ \E c, k \in {None, 1} : disk = [x \in Kinds |->
                IF x = "CA" THEN [cert |-> c, key |-> k] ELSE NoPair]
          /\ issued = 1 /\ damaged = TRUE
    /\ issuer = [n \in Pairs |-> IF n <= issued THEN 1 ELSE 0]
    /\ expired \in {0, issued}
    /\ copy = [m \in Machines |-> [ca |-> None, cert |-> None, key |-> None]]
    /\ guest = [m \in Machines |-> [ca |-> None, cert |-> None, key |-> None]]
    /\ op = [p \in Procs |-> NoOp]
    /\ result = [p \in Procs |-> "none"]
    /\ calls = 0
    /\ met = [p \in Procs |-> FALSE]
    /\ mixed = FALSE /\ kept = FALSE
-----------------------------------------------------------------------------
(* Calls and the way they go on.                                           *)

S(s, k) == <<s, k>>

\* BootstrapCertificates.
Bootstrap == <<S("date", "CA"), S("date", "client")>>

\* createCACert and createCert: the key must not exist; GenerateCert loads the
\* CA that is to sign.
CreatePair(k) ==
    <<S("stat", k)>>
      \o (IF k = "client" THEN <<S("loadcert", k), S("loadkey", k)>> ELSE <<>>)
      \o <<S("opencert", k), S("writecert", k), S("openkey", k), S("writekey", k)>>

\* ConfigureAuth in provision/utils.go.
ConfigureAuth ==
    <<S("copyca", "vm"), S("copycert", "vm"), S("copykey", "vm"), S("loadcert", "client"),
      S("loadkey", "client"), S("server", "vm"), S("readca", "vm"), S("putca", "vm"),
      S("putcert", "vm"), S("putkey", "vm")>>

\* Provision of boot2podman: SetHostname, makeEngineOptionsDir.
Boot2PodmanProvision == <<S("ssh", "vm"), S("ssh", "vm")>> \o ConfigureAuth

\* Provision of the systems with yum: SetHostname takes two commands, and the list
\* of base packages is empty.
RedHatProvision == <<S("ssh", "vm"), S("ssh", "vm")>> \o ConfigureAuth

\* What is registered for an ID.  No ID has two provisioners, so that the order
\* of the map of provisioners does not matter.  GetIP, with which ConfigureAuth
\* begins, leaves nothing behind and may fail like the SSH command before it.
Provisioner(id) ==
    CASE id \in {"boot2podman", "tinycore"}      -> Boot2PodmanProvision
      [] id \in {"rhel", "centos", "fedora"}     -> RedHatProvision
      [] OTHER                                   -> <<>>

Idle(p) == op[p].call = "idle"

\* Client.Create and Host.ConfigureAllAuth ("all"), Host.ConfigureAuth and
\* Host.Provision ("auth").  A machine is provisioned by one call at a time.
\* Processes are interchangeable, and so are machines: the first process that is
\* free makes the call, and machines are used in their order.
Begin(p, c, m) ==
    /\ Idle(p) /\ \A q \in Procs : q < p => ~Idle(q)
    /\ "race" \in faults \/ \A q \in Procs : Idle(q)
    /\ \A q \in Procs : ~Idle(q) => op[q].m # m
    /\ calls < MaxCalls /\ m <= calls + 1
    /\ calls' = calls + 1
    /\ op' = [op EXCEPT ![p] = [NoOp EXCEPT !.call = c, !.m = m,
                 !.todo = (IF c = "all" THEN Bootstrap ELSE <<>>) \o <<S("detect", "vm")>>]]
    /\ result' = [result EXCEPT ![p] = "none"]
    /\ met' = [q \in Procs |->
                 IF q = p THEN \E r \in Procs : ~Idle(r) ELSE met[q] \/ ~Idle(q)]
    /\ mixed' = (mixed \/ \E q \in Procs : ~Idle(q))
    /\ UNCHANGED <<files, faults, damaged, kept>>

At(p, s) == op[p].todo # <<>> /\ Head(op[p].todo) = s

\* The step is done and more come next, with the pair n and the CA certificate c.
GoWith(p, more, n, c) ==
    /\ op' = [op EXCEPT ![p] =
                 [@ EXCEPT !.todo = more \o Tail(op[p].todo), !.pair = n, !.ca = c]]
    /\ UNCHANGED <<result, calls, faults, met, mixed>>

Go(p, more) == GoWith(p, more, op[p].pair, op[p].ca)

End(p, r) ==
    /\ op' = [op EXCEPT ![p] = NoOp]
    /\ result' = [result EXCEPT ![p] = r]
    /\ UNCHANGED <<calls, faults, met, mixed>>

Bootstrapping(p) == \E i \in 2..Len(op[p].todo) : op[p].todo[i] = S("detect", "vm")
Fail(p) == End(p, IF Bootstrapping(p) THEN "nocerts" ELSE "failed")

Finish(p) ==
    /\ ~Idle(p) /\ op[p].todo = <<>>
    /\ End(p, "ok")
    /\ UNCHANGED <<files, damaged, kept>>

Crash(p) ==
    /\ "crash" \in faults
    /\ ~Idle(p)
    /\ End(p, "killed")
    /\ damaged' = TRUE
    /\ UNCHANGED <<files, kept>>

\* The pairs up to n are out of date.  They are valid for years and a call takes
\* minutes: this happens between calls.
Expire(n) ==
    /\ "expire" \in faults
    /\ \A p \in Procs : Idle(p)
    /\ expired < n /\ n <= issued
    /\ expired' = n
    /\ UNCHANGED <<disk, issuer, issued, copy, guest, op, result, calls, faults, history>>
-----------------------------------------------------------------------------
(* BootstrapCertificates.                                                  *)

Current(n) == n > expired

\* Mutant of CheckDate: a certificate that is out of date is kept.
CheckDateNever(p, k) ==
    /\ At(p, S("date", k))
    /\ \/ disk[k].cert = None /\ Go(p, CreatePair(k))
       \/ disk[k].cert = Empty /\ Fail(p)
       \/ disk[k].cert > 0 /\ Go(p, <<>>)
    /\ UNCHANGED <<files, damaged, kept>>

\* Is there a certificate, and CheckCertificateDate of it.  (Certificate files
\* are never removed, so that os.Stat and ReadFile are one step.)
CheckDate(p, k) ==
    /\ At(p, S("date", k))
    /\ LET c == disk[k].cert
       IN  \/ c = None /\ Go(p, CreatePair(k)) /\ UNCHANGED kept
           \/ c = Empty /\ Fail(p) /\ UNCHANGED kept
           \/ c > 0 /\ Current(c) /\ Go(p, <<>>) /\ UNCHANGED kept
           \/ /\ c > 0 /\ ~Current(c)
              /\ Go(p, <<S("rmkey", k)>> \o CreatePair(k))
              /\ kept' = (kept \/ (k = "CA" /\ disk["client"].cert > expired))
    /\ UNCHANGED <<files, damaged>>

\* Mutant of RemoveKey: the old key stays.
RemoveKeyNot(p, k) ==
    /\ At(p, S("rmkey", k))
    /\ Go(p, <<>>)
    /\ UNCHANGED <<files, damaged, kept>>

RemoveKey(p, k) ==
    /\ At(p, S("rmkey", k))
    /\ disk' = [disk EXCEPT ![k].key = None]
    /\ Go(p, <<>>)
    /\ UNCHANGED <<issuer, issued, expired, copy, guest, damaged, kept>>

\* Mutant of StatKey: a key that is there is overwritten.
StatKeyNot(p, k) ==
    /\ At(p, S("stat", k))
    /\ Go(p, <<>>)
    /\ UNCHANGED <<files, damaged, kept>>

StatKey(p, k) ==
    /\ At(p, S("stat", k))
    /\ \/ disk[k].key = None /\ Go(p, <<>>)
       \/ disk[k].key # None /\ Fail(p)
    /\ UNCHANGED <<files, damaged, kept>>

\* GenerateCert: LoadX509KeyPair reads the certificate of the CA ...
LoadCert(p) ==
    /\ At(p, S("loadcert", "client"))
    /\ \/ disk["CA"].cert > 0 /\ GoWith(p, <<>>, 0, disk["CA"].cert)
       \/ disk["CA"].cert <= 0 /\ Fail(p)
    /\ UNCHANGED <<files, damaged, kept>>

\* Mutant of LoadKey: any key will do.
LoadKeyAny(p) ==
    /\ At(p, S("loadkey", "client"))
    /\ \/ disk["CA"].key > 0 /\ GoWith(p, <<>>, 0, disk["CA"].key)
       \/ disk["CA"].key <= 0 /\ Fail(p)
    /\ UNCHANGED <<files, damaged, kept>>

\* ... and its key, which must belong to it.
LoadKey(p) ==
    /\ At(p, S("loadkey", "client"))
    /\ \/ disk["CA"].key = op[p].ca /\ Go(p, <<>>)
       \/ disk["CA"].key # op[p].ca /\ Fail(p)
    /\ UNCHANGED <<files, damaged, kept>>

\* A new pair, signed by the CA that was loaded or, for a CA, by itself.
Generate(p, k) ==
    /\ issued < MaxPairs
    /\ issued' = issued + 1
    /\ issuer' = [issuer EXCEPT ![issued + 1] = IF k = "CA" THEN issued + 1 ELSE op[p].ca]

\* os.Create of the certificate's file.
OpenCert(p, k) ==
    /\ At(p, S("opencert", k))
    /\ Generate(p, k)
    /\ \/ /\ disk' = [disk EXCEPT ![k].cert = Empty]
          /\ GoWith(p, <<>>, issued + 1, op[p].ca)
          /\ UNCHANGED damaged
       \/ "create" \in faults /\ Fail(p) /\ UNCHANGED disk /\ damaged' = TRUE
    /\ UNCHANGED <<expired, copy, guest, kept>>

\* pem.Encode, whose error is not looked at.
WriteCert(p, k) ==
    /\ At(p, S("writecert", k))
    /\ Go(p, <<>>)
    /\ \/ disk' = [disk EXCEPT ![k].cert = op[p].pair] /\ UNCHANGED damaged
       \/ "full" \in faults /\ UNCHANGED disk /\ damaged' = TRUE
    /\ UNCHANGED <<issuer, issued, expired, copy, guest, kept>>

OpenKey(p, k) ==
    /\ At(p, S("openkey", k))
    /\ \/ disk' = [disk EXCEPT ![k].key = Empty] /\ Go(p, <<>>) /\ UNCHANGED damaged
       \/ "create" \in faults /\ Fail(p) /\ UNCHANGED disk /\ damaged' = TRUE
    /\ UNCHANGED <<issuer, issued, expired, copy, guest, kept>>

WriteKey(p, k) ==
    /\ At(p, S("writekey", k))
    /\ Go(p, <<>>)
    /\ \/ disk' = [disk EXCEPT ![k].key = op[p].pair] /\ UNCHANGED damaged
       \/ "full" \in faults /\ UNCHANGED disk /\ damaged' = TRUE
    /\ UNCHANGED <<issuer, issued, expired, copy, guest, kept>>
-----------------------------------------------------------------------------
(* DetectProvisioner and Provision.                                        *)

\* WaitForSSH, /etc/os-release, and the provisioner for its ID.
DetectProvisioner(p) ==
    /\ At(p, S("detect", "vm"))
    /\ \E id \in OSes :
          \/ Provisioner(id) # <<>> /\ Go(p, Provisioner(id))
          \/ (Provisioner(id) = <<>> \/ "ssh" \in faults) /\ Fail(p)
    /\ UNCHANGED <<files, damaged, kept>>

\* An SSH command that sets fields of the machine to those of g.
OnGuest(p, s, g) ==
    /\ At(p, S(s, "vm"))
    /\ \/ Go(p, <<>>) /\ guest' = [guest EXCEPT ![op[p].m] = g]
       \/ "ssh" \in faults /\ Fail(p) /\ UNCHANGED guest
    /\ UNCHANGED <<disk, issuer, issued, expired, copy, damaged, kept>>

\* SetHostname, makeEngineOptionsDir: nothing that matters here.
SetHostname(p) == OnGuest(p, "ssh", guest[op[p].m])

\* CopyFile of a shared file into the machine's directory.  Here a full disk is an
\* error, after the old copy was truncated.
CopyShared(p, s, f, c) ==
    /\ At(p, S(s, "vm"))
    /\ \/ /\ c # None
          /\ copy' = [copy EXCEPT ![op[p].m][f] = c]
          /\ Go(p, <<>>)
       \/ (c = None \/ "create" \in faults) /\ Fail(p) /\ UNCHANGED copy
       \/ /\ c # None /\ "full" \in faults
          /\ copy' = [copy EXCEPT ![op[p].m][f] = Empty]
          /\ Fail(p)
    /\ UNCHANGED <<disk, issuer, issued, expired, guest, damaged, kept>>

CopyCerts(p) ==
    \/ CopyShared(p, "copyca", "ca", disk["CA"].cert)
    \/ CopyShared(p, "copycert", "cert", disk["client"].cert)
    \/ CopyShared(p, "copykey", "key", disk["client"].key)

\* The server's pair, in the machine's directory, where no one else looks.
GenerateServer(p) ==
    /\ At(p, S("server", "vm"))
    /\ Generate(p, "server")
    /\ \/ GoWith(p, <<>>, issued + 1, op[p].ca)
       \/ "create" \in faults /\ Fail(p)
    /\ UNCHANGED <<disk, expired, copy, guest, damaged, kept>>

\* The CA's certificate is read once more before the three uploads.
ReadCA(p) ==
    /\ At(p, S("readca", "vm"))
    /\ GoWith(p, <<>>, op[p].pair, disk["CA"].cert)
    /\ UNCHANGED <<files, damaged, kept>>

\* What the machine's own files hold: nothing, if pem.Encode met a full disk.
Written(p) == {op[p].pair} \cup (IF "full" \in faults THEN {Empty} ELSE {})

Upload(p) ==
    \/ OnGuest(p, "putca", [guest[op[p].m] EXCEPT !.ca = op[p].ca])
    \/ \E c \in Written(p) : OnGuest(p, "putcert", [guest[op[p].m] EXCEPT !.cert = c])
    \/ \E k \in Written(p) : OnGuest(p, "putkey", [guest[op[p].m] EXCEPT !.key = k])
-----------------------------------------------------------------------------
BootstrapStep(p, k) ==
    \/ CheckDate(p, k) \/ RemoveKey(p, k) \/ StatKey(p, k)
    \/ OpenCert(p, k) \/ WriteCert(p, k) \/ OpenKey(p, k) \/ WriteKey(p, k)
ProvisionStep(p) ==
    \/ DetectProvisioner(p) \/ SetHostname(p) \/ CopyCerts(p)
    \/ GenerateServer(p) \/ ReadCA(p) \/ Upload(p)

Next ==
    \/ \E p \in Procs :
          \/ \E c \in {"all", "auth"}, m \in Machines : Begin(p, c, m)
          \/ \E k \in Kinds : BootstrapStep(p, k)
          \/ LoadCert(p) \/ LoadKey(p) \/ ProvisionStep(p) \/ Finish(p) \/ Crash(p)
    \/ \E n \in Pairs : Expire(n)

Spec == Init /\ [][Next]_vars
-----------------------------------------------------------------------------
(* Properties.                                                             *)

\* Unless calls overlap, a key file never belongs to another pair than the
\* certificate next to it, wherever a call is killed or fails: an old key is
\* removed before its certificate is replaced, and no key is overwritten
\* (bootstrap.go:19-22, 107-110; cert.go:135-150).
PairsMatch ==
    ~mixed => \A k \in Kinds :
        (disk[k].cert > 0 /\ disk[k].key > 0) => disk[k].cert = disk[k].key

\* The same, together with the types of the variables.
CertInv == TypeOK /\ PairsMatch

\* As long as no call was killed or failed to write and calls do not overlap,
\* BootstrapCertificates succeeds, whatever has expired in the meantime; what a
\* killed call leaves can make it fail for ever (bootstrap.go:73-135).
BootstrapWorks ==
    (\E p \in Procs : result[p] = "nocerts") => (damaged \/ mixed)

\* When a call that no other overlapped reports success, the client's copy of the
\* CA certificate and the machine's are the same and verify the certificate the
\* machine got, whatever earlier calls, overlapping or killed ones too, have
\* left on disk (utils.go:63-135).  The exception is a machine's own pair that met
\* a full disk, of which the code takes no notice (cert.go:204, 212).
ServerTrusted ==
    [][\A p \in Procs :
          (/\ ~Idle(p) /\ result'[p] = "ok" /\ ~met[p]
           /\ guest[op[p].m].cert # Empty /\ guest[op[p].m].key # Empty)
              => LET g == guest[op[p].m]
                 IN  /\ g.cert = g.key /\ g.cert > 0
                     /\ g.ca = copy[op[p].m].ca /\ g.ca = issuer[g.cert]]_vars

\* When create or regenerate-certs --client-certs reports success, the client's
\* certificate is not out of date, has its key, and is verified by the CA
\* certificate the machine has.  Not so once a call was killed or
\* could not write, after calls that overlapped, or when the CA was renewed but
\* not the client's certificate that it had signed (bootstrap.go:98-132).
ClientTrusted ==
    [][\A p \in Procs :
          (~Idle(p) /\ result'[p] = "ok" /\ op[p].call = "all" /\ ~mixed /\ ~damaged /\ ~kept)
              => LET c == copy[op[p].m]
                 IN  /\ c.cert > expired /\ c.key = c.cert
                     /\ issuer[c.cert] = guest[op[p].m].ca]_vars
=============================================================================
