------------------------- MODULE Certificates_proofs -------------------------
(***************************************************************************)
(* The four properties of Certificates for any number of goroutines,       *)
(* machines, key pairs and calls, any systems and any faults.              *)
(***************************************************************************)
EXTENDS Certificates, SequenceTheorems, TLAPS

\* What a call has to do: to make a CA pair, to make a client pair, to provision.
MakeCA ==
    <<S("rmkey", "CA"), S("stat", "CA"), S("opencert", "CA"), S("writecert", "CA"),
      S("openkey", "CA"), S("writekey", "CA"), S("date", "client"), S("detect", "vm")>>
MakeClient ==
    <<S("rmkey", "client"), S("stat", "client"), S("loadcert", "client"),
      S("loadkey", "client"), S("opencert", "client"), S("writecert", "client"),
      S("openkey", "client"), S("writekey", "client"), S("detect", "vm")>>
Provide ==
    <<S("ssh", "vm"), S("ssh", "vm"), S("copyca", "vm"), S("copycert", "vm"), S("copykey", "vm"),
      S("loadcert", "client"), S("loadkey", "client"), S("server", "vm"), S("readca", "vm"),
      S("putca", "vm"), S("putcert", "vm"), S("putkey", "vm")>>

\* From step i of s on.
From(s, i) == SubSeq(s, i, Len(s))

B1 == <<S("date", "CA"), S("date", "client"), S("detect", "vm")>>
B2 == <<S("date", "client"), S("detect", "vm")>>
B3 == <<S("detect", "vm")>>

\* What is true of the shared files as long as no call was killed or failed to
\* write and none overlapped.
Quiet == ~mixed /\ ~damaged
Sound(k) == disk[k].cert = disk[k].key /\ disk[k].cert # Empty
Whole(k) == disk[k].cert = disk[k].key /\ disk[k].cert > 0

\* Between the creation of pairs: a client certificate that is current was signed
\* by the CA of now, unless the CA was renewed under it.
Calm ==
    Quiet => /\ Sound("CA") /\ Sound("client")
             /\ (~kept /\ disk["client"].cert > expired)
                   => issuer[disk["client"].cert] = disk["CA"].cert

\* BootstrapCertificates is done.
Ready(p) ==
    (op[p].call = "all" /\ Quiet /\ ~kept)
       => disk["client"].cert > expired /\ issuer[disk["client"].cert] = disk["CA"].cert

\* p is about to make step i of MakeCA.
MakingCA(p, i) ==
    /\ i > 3 => op[p].pair > 0
    /\ ~mixed => /\ i \in 3..5 => disk["CA"].key = None
                 /\ i = 6 => disk["CA"].key = Empty
                 /\ i \in 4..6 => disk["CA"].cert \in {op[p].pair, Empty}
    /\ Quiet => /\ Sound("client")
                /\ i = 2 => disk["CA"].key = None
                /\ i \in 5..6 => disk["CA"].cert = op[p].pair
                /\ ~kept => disk["client"].cert <= expired

\* p is about to make step i of MakeClient.
MakingClient(p, i) ==
    /\ i > 5 => op[p].pair > 0
    /\ i \in 4..5 => op[p].ca > 0
    /\ ~mixed => /\ i \in 3..7 => disk["client"].key = None
                 /\ i = 8 => disk["client"].key = Empty
                 /\ i \in 6..8 => disk["client"].cert \in {op[p].pair, Empty}
    /\ Quiet => /\ Whole("CA")
                /\ i = 2 => disk["client"].key = None
                /\ i \in 7..8 => disk["client"].cert = op[p].pair
                /\ i \in 4..5 => op[p].ca = disk["CA"].cert
                /\ i > 5 => op[p].pair > expired /\ issuer[op[p].pair] = disk["CA"].cert

\* p is about to make step i of Provide, or has made all of them.
Providing(p, i) ==
    /\ i \in 7..8 => op[p].ca > 0
    /\ ~met[p] =>
          LET m == op[p].m IN
          /\ i > 3 => copy[m].ca = disk["CA"].cert
          /\ i > 4 => copy[m].cert = disk["client"].cert
          /\ i > 5 => copy[m].key = disk["client"].key
          /\ i > 6 => op[p].ca = disk["CA"].cert
          /\ i > 8 => op[p].pair > 0 /\ issuer[op[p].pair] = disk["CA"].cert
          /\ i > 10 => guest[m].ca = disk["CA"].cert
          /\ i > 11 => guest[m].cert \in {op[p].pair, Empty}
          /\ i > 12 => guest[m].key \in {op[p].pair, Empty}

\* Where p is.
InCA(p, i) == op[p].call = "all" /\ op[p].todo = From(MakeCA, i) /\ MakingCA(p, i)
InClient(p, i) == op[p].call = "all" /\ op[p].todo = From(MakeClient, i) /\ MakingClient(p, i)
InProvide(p, i) ==
    ~Idle(p) /\ op[p].todo = From(Provide, i) /\ Providing(p, i) /\ Calm /\ Ready(p)
Place(p) ==
    \/ op[p] = NoOp
    \/ op[p].call = "all" /\ op[p].todo = B1 /\ Calm
    \/ \E i \in 1..6 : InCA(p, i)
    \/ op[p].call = "all" /\ op[p].todo = B2 /\ Calm /\ (Quiet => Whole("CA"))
    \/ \E i \in 1..8 : InClient(p, i)
    \/ ~Idle(p) /\ op[p].todo = B3 /\ Calm /\ Ready(p)
    \/ \E i \in 1..13 : InProvide(p, i)

\* A call no other has met is the only one.
Alone(p) == ~Idle(p) /\ ~met[p] => \A q \in Procs \ {p} : Idle(q)

\* Pairs in use have been generated.
Numbered == (\A k \in Kinds : disk[k].cert <= issued) /\ (\A p \in Procs : op[p].pair <= issued)

FilesInv ==
    /\ TypeOK /\ PairsMatch /\ BootstrapWorks /\ Numbered
    /\ \A p \in Procs : /\ Place(p) /\ Alone(p)
                        /\ met[p] => mixed
                        /\ ~Idle(p) => result[p] = "none"
    /\ (\A p \in Procs : Idle(p)) => Calm
-----------------------------------------------------------------------------
(* Steps, and sequences of them.                                           *)

LEMMA StepIn ==
    /\ S("date", "CA") \in Steps /\ S("rmkey", "CA") \in Steps /\ S("stat", "CA") \in Steps
    /\ S("opencert", "CA") \in Steps /\ S("writecert", "CA") \in Steps
    /\ S("openkey", "CA") \in Steps /\ S("writekey", "CA") \in Steps
    /\ S("date", "client") \in Steps /\ S("rmkey", "client") \in Steps
    /\ S("stat", "client") \in Steps /\ S("loadcert", "client") \in Steps
    /\ S("loadkey", "client") \in Steps /\ S("opencert", "client") \in Steps
    /\ S("writecert", "client") \in Steps /\ S("openkey", "client") \in Steps
    /\ S("writekey", "client") \in Steps /\ S("detect", "vm") \in Steps /\ S("ssh", "vm") \in Steps
    /\ S("copyca", "vm") \in Steps /\ S("copycert", "vm") \in Steps /\ S("copykey", "vm") \in Steps
    /\ S("server", "vm") \in Steps /\ S("readca", "vm") \in Steps /\ S("putca", "vm") \in Steps
    /\ S("putcert", "vm") \in Steps /\ S("putkey", "vm") \in Steps
BY DEF S, Steps, Kinds

LEMMA SeqsIn ==
    /\ MakeCA \in Seq(Steps) /\ MakeClient \in Seq(Steps) /\ Provide \in Seq(Steps)
    /\ B1 \in Seq(Steps) /\ B2 \in Seq(Steps) /\ B3 \in Seq(Steps) /\ << >> \in Seq(Steps)
<1>1. MakeCA \in Seq(Steps)
  BY StepIn DEF MakeCA
<1>2. MakeClient \in Seq(Steps)
  BY StepIn DEF MakeClient
<1>3. Provide \in Seq(Steps)
  BY StepIn DEF Provide
<1>4. B1 \in Seq(Steps) /\ B2 \in Seq(Steps) /\ B3 \in Seq(Steps) /\ << >> \in Seq(Steps)
  <2>1. << >> \in Seq(Steps)
    OBVIOUS
  <2>2. B1 \in Seq(Steps)
    BY StepIn DEF B1
  <2>3. B2 \in Seq(Steps)
    BY StepIn DEF B2
  <2>4. B3 \in Seq(Steps)
    BY StepIn DEF B3
  <2> QED BY <2>1, <2>2, <2>3, <2>4
<1> QED BY <1>1, <1>2, <1>3, <1>4

LEMMA Lengths ==
    /\ Len(MakeCA) = 8 /\ Len(MakeClient) = 9 /\ Len(Provide) = 12
    /\ Len(B1) = 3 /\ Len(B2) = 2 /\ Len(B3) = 1
BY DEF MakeCA, MakeClient, Provide, B1, B2, B3

LEMMA Elements ==
    /\ MakeCA[1] = S("rmkey", "CA") /\ MakeCA[2] = S("stat", "CA")
    /\ MakeCA[3] = S("opencert", "CA") /\ MakeCA[4] = S("writecert", "CA")
    /\ MakeCA[5] = S("openkey", "CA") /\ MakeCA[6] = S("writekey", "CA")
    /\ MakeCA[7] = S("date", "client") /\ MakeCA[8] = S("detect", "vm")
    /\ MakeClient[1] = S("rmkey", "client") /\ MakeClient[2] = S("stat", "client")
    /\ MakeClient[3] = S("loadcert", "client") /\ MakeClient[4] = S("loadkey", "client")
    /\ MakeClient[5] = S("opencert", "client") /\ MakeClient[6] = S("writecert", "client")
    /\ MakeClient[7] = S("openkey", "client") /\ MakeClient[8] = S("writekey", "client")
    /\ MakeClient[9] = S("detect", "vm")
    /\ B1[1] = S("date", "CA") /\ B1[2] = S("date", "client") /\ B1[3] = S("detect", "vm")
    /\ B2[1] = S("date", "client") /\ B2[2] = S("detect", "vm") /\ B3[1] = S("detect", "vm")
BY DEF MakeCA, MakeClient, B1, B2, B3

LEMMA ProvideElements ==
    /\ Provide[1] = S("ssh", "vm") /\ Provide[2] = S("ssh", "vm") /\ Provide[3] = S("copyca", "vm")
    /\ Provide[4] = S("copycert", "vm") /\ Provide[5] = S("copykey", "vm")
    /\ Provide[6] = S("loadcert", "client") /\ Provide[7] = S("loadkey", "client")
    /\ Provide[8] = S("server", "vm") /\ Provide[9] = S("readca", "vm")
    /\ Provide[10] = S("putca", "vm")
    /\ Provide[11] = S("putcert", "vm") /\ Provide[12] = S("putkey", "vm")
BY DEF Provide

LEMMA SameSeq ==
    ASSUME NEW T, NEW s \in Seq(T), NEW t \in Seq(T), Len(s) = Len(t),
           \A i \in 1..Len(s) : s[i] = t[i]
    PROVE  s = t
BY SeqEqual

LEMMA FromIs ==
    ASSUME NEW T, NEW s \in Seq(T), NEW i \in 1..(Len(s) + 1)
    PROVE  /\ From(s, i) \in Seq(T) /\ Len(From(s, i)) = Len(s) + 1 - i
           /\ \A j \in 1..(Len(s) + 1 - i) : From(s, i)[j] = s[i + j - 1]
<1>1. CASE i = Len(s) + 1
  BY <1>1 DEF From
<1>2. CASE i <= Len(s)
  BY <1>2, SubSeqProperties DEF From
<1> QED BY <1>1, <1>2

LEMMA TailAt ==
    ASSUME NEW T, NEW f \in Seq(T), f # << >>
    PROVE  \A j \in 1..Len(Tail(f)) : Tail(f)[j] = f[j + 1]
BY HeadTailProperties

LEMMA FromNext ==
    ASSUME NEW T, NEW s \in Seq(T), NEW i \in 1..Len(s)
    PROVE  /\ From(s, i) \in Seq(T) /\ From(s, i) # << >>
           /\ Head(From(s, i)) = s[i] /\ Tail(From(s, i)) = From(s, i + 1)
<1> DEFINE f == From(s, i)
           g == From(s, i + 1)
<1>1. /\ f \in Seq(T) /\ Len(f) = Len(s) + 1 - i
      /\ \A j \in 1..(Len(s) + 1 - i) : f[j] = s[i + j - 1]
  BY FromIs
<1>2. /\ g \in Seq(T) /\ Len(g) = Len(s) - i
      /\ \A j \in 1..(Len(s) - i) : g[j] = s[i + j]
  <2>1. i + 1 \in 1..(Len(s) + 1)
    OBVIOUS
  <2>2. /\ g \in Seq(T) /\ Len(g) = Len(s) + 1 - (i + 1)
        /\ \A j \in 1..(Len(s) + 1 - (i + 1)) : g[j] = s[i + 1 + j - 1]
    BY <2>1, FromIs
  <2> QED BY <2>2
<1> HIDE DEF f, g
<1>3. f # << >> /\ Head(f) = s[i]
  BY <1>1
<1>4. Tail(f) \in Seq(T) /\ Len(Tail(f)) = Len(g)
  BY <1>1, <1>2, <1>3
<1>5. \A j \in 1..Len(Tail(f)) : Tail(f)[j] = g[j]
  <2>1. \A j \in 1..Len(Tail(f)) : Tail(f)[j] = f[j + 1]
    BY <1>1, <1>3, TailAt
  <2> SUFFICES ASSUME NEW j \in 1..Len(Tail(f)) PROVE f[j + 1] = g[j]
    BY <2>1
  <2>2. Len(s) \in Nat /\ i \in Nat /\ Len(Tail(f)) = Len(s) - i
    <3>1. Len(s) \in Nat /\ i \in Nat
      OBVIOUS
    <3>2. Len(Tail(f)) = Len(s) - i
      BY <1>2, <1>4, Zenon
    <3> QED BY <3>1, <3>2
  <2>3. j \in 1..(Len(s) - i) /\ j + 1 \in 1..(Len(s) + 1 - i) /\ i + (j + 1) - 1 = i + j
    BY <2>2
  <2>4. f[j + 1] = s[i + (j + 1) - 1] /\ g[j] = s[i + j]
    BY <1>1, <1>2, <2>3
  <2> QED BY <2>3, <2>4
<1>6. Tail(f) = g
  BY <1>2, <1>4, <1>5, SameSeq
<1> QED BY <1>1, <1>3, <1>6 DEF f, g

\* u is s with t after it.
Splits(u, s, t) ==
    /\ Len(u) = Len(s) + Len(t)
    /\ \A i \in 1..Len(s) : u[i] = s[i]
    /\ \A i \in 1..Len(t) : u[Len(s) + i] = t[i]

LEMMA JoinedIs ==
    ASSUME NEW T, NEW s \in Seq(T), NEW t \in Seq(T), NEW u \in Seq(T), Splits(u, s, t)
    PROVE  s \o t = u
<1>0. /\ Len(u) = Len(s) + Len(t)
      /\ \A i \in 1..Len(s) : u[i] = s[i]
      /\ \A i \in 1..Len(t) : u[Len(s) + i] = t[i]
  BY DEF Splits
<1>1. /\ s \o t \in Seq(T) /\ Len(s \o t) = Len(s) + Len(t)
      /\ \A i \in 1..(Len(s) + Len(t)) :
            (s \o t)[i] = IF i <= Len(s) THEN s[i] ELSE t[i - Len(s)]
  BY ConcatProperties
<1>2. ASSUME NEW i \in 1..Len(s \o t) PROVE (s \o t)[i] = u[i]
  <2>1. CASE i <= Len(s)
    BY <1>0, <1>1, <2>1
  <2>2. CASE i > Len(s)
    <3>1. Len(s) \in Nat /\ Len(t) \in Nat
      OBVIOUS
    <3>2. i - Len(s) \in 1..Len(t) /\ i = Len(s) + (i - Len(s)) /\ i \in 1..(Len(s) + Len(t))
      BY <1>1, <2>2, <3>1
    <3>3. (s \o t)[i] = t[i - Len(s)]
      BY <1>1, <2>2, <3>2
    <3>4. u[Len(s) + (i - Len(s))] = t[i - Len(s)]
      BY <1>0, <3>2
    <3> QED BY <3>2, <3>3, <3>4
  <2> QED BY <2>1, <2>2
<1>3. Len(s \o t) = Len(u)
  BY <1>0, <1>1
<1> HIDE <1>1
<1> QED BY <1>1, <1>2, <1>3, SameSeq

LEMMA TailJoined ==
    ASSUME NEW T, NEW a \in T, NEW s \in Seq(T), NEW t \in Seq(T)
    PROVE  Tail((<<a>> \o s) \o t) = s \o t
<1>1. <<a>> \in Seq(T) /\ s \o t \in Seq(T)
  OBVIOUS
<1>2. (<<a>> \o s) \o t = <<a>> \o (s \o t)
  BY <1>1, ConcatAssociative
<1>3. Tail(<<a>> \o (s \o t)) = s \o t
  BY <1>1
<1> QED BY <1>2, <1>3

LEMMA FromFirst ==
    ASSUME NEW T, NEW s \in Seq(T)
    PROVE  From(s, 1) = s
<1>1. Len(s) \in Nat /\ 1 \in 1..(Len(s) + 1)
  OBVIOUS
<1>2. /\ From(s, 1) \in Seq(T) /\ Len(From(s, 1)) = Len(s) + 1 - 1
      /\ \A j \in 1..(Len(s) + 1 - 1) : From(s, 1)[j] = s[1 + j - 1]
  BY <1>1, FromIs
<1>3. Len(From(s, 1)) = Len(s) /\ \A j \in 1..Len(s) : From(s, 1)[j] = s[j]
  BY <1>1, <1>2
<1> QED BY <1>2, <1>3, SameSeq

\* CreatePair, as one tuple each.
CreateCA ==
    <<S("stat", "CA"), S("opencert", "CA"), S("writecert", "CA"), S("openkey", "CA"),
      S("writekey", "CA")>>
CreateClient ==
    <<S("stat", "client"), S("loadcert", "client"), S("loadkey", "client"),
      S("opencert", "client"), S("writecert", "client"), S("openkey", "client"),
      S("writekey", "client")>>

LEMMA CAJoined ==
    /\ CreatePair("CA") \o B2 = From(MakeCA, 2)
    /\ (<<S("rmkey", "CA")>> \o CreatePair("CA")) \o B2 = From(MakeCA, 1)
<1> DEFINE a == <<S("stat", "CA")>>
           y == <<S("opencert", "CA"), S("writecert", "CA"), S("openkey", "CA"),
                  S("writekey", "CA")>>
           r == <<S("rmkey", "CA")>>
           rc == <<S("rmkey", "CA"), S("stat", "CA"), S("opencert", "CA"), S("writecert", "CA"),
                   S("openkey", "CA"), S("writekey", "CA")>>
<1>1. a \in Seq(Steps) /\ r \in Seq(Steps)
  BY StepIn
<1>2. y \in Seq(Steps) /\ CreateCA \in Seq(Steps) /\ rc \in Seq(Steps)
  BY StepIn DEF CreateCA
<1>4. Splits(CreateCA, a, y)
  BY DEF Splits, CreateCA
<1>5. Splits(rc, r, CreateCA)
  BY DEF Splits, CreateCA
<1>6. Splits(MakeCA, rc, B2)
  BY DEF Splits, MakeCA, B2
<1>7. CreatePair("CA") = (a \o << >>) \o y
  BY DEF CreatePair
<1> HIDE DEF a, y, rc
<1>8. a \o << >> = a
  BY <1>1
<1>9. a \o y = CreateCA
  BY <1>1, <1>2, <1>4, JoinedIs
<1>10. r \o CreateCA = rc
  <2> HIDE DEF r
  <2> QED BY <1>1, <1>2, <1>5, JoinedIs
<1>11. rc \o B2 = MakeCA
  BY <1>2, <1>6, SeqsIn, JoinedIs
<1>12. Tail((r \o CreateCA) \o B2) = CreateCA \o B2
  <2>1. S("rmkey", "CA") \in Steps
    BY StepIn
  <2> QED BY <1>2, <2>1, SeqsIn, TailJoined
<1>13. From(MakeCA, 1) = MakeCA /\ Tail(From(MakeCA, 1)) = From(MakeCA, 2)
  <2>1. 1 \in 1..Len(MakeCA) /\ 1 + 1 = 2
    BY Lengths
  <2> QED BY <2>1, SeqsIn, FromFirst, FromNext
<1> QED BY <1>7, <1>8, <1>9, <1>10, <1>11, <1>12, <1>13

LEMMA ClientJoined ==
    /\ CreatePair("client") \o B3 = From(MakeClient, 2)
    /\ (<<S("rmkey", "client")>> \o CreatePair("client")) \o B3 = From(MakeClient, 1)
<1> DEFINE a == <<S("stat", "client")>>
           x == <<S("loadcert", "client"), S("loadkey", "client")>>
           ax == <<S("stat", "client"), S("loadcert", "client"), S("loadkey", "client")>>
           y == <<S("opencert", "client"), S("writecert", "client"), S("openkey", "client"),
                  S("writekey", "client")>>
           r == <<S("rmkey", "client")>>
           rc == <<S("rmkey", "client"), S("stat", "client"), S("loadcert", "client"),
                   S("loadkey", "client"), S("opencert", "client"), S("writecert", "client"),
                   S("openkey", "client"), S("writekey", "client")>>
<1>1. a \in Seq(Steps) /\ r \in Seq(Steps)
  BY StepIn
<1>2. x \in Seq(Steps) /\ ax \in Seq(Steps) /\ y \in Seq(Steps)
  BY StepIn
<1>3. CreateClient \in Seq(Steps) /\ rc \in Seq(Steps)
  BY StepIn DEF CreateClient
<1>5. Splits(ax, a, x)
  BY DEF Splits
<1>6. Splits(CreateClient, ax, y)
  BY DEF Splits, CreateClient
<1>7. Splits(rc, r, CreateClient)
  BY DEF Splits, CreateClient
<1>8. Splits(MakeClient, rc, B3)
  BY DEF Splits, MakeClient, B3
<1>9. CreatePair("client") = (a \o x) \o y
  BY DEF CreatePair
<1> HIDE DEF a, x, ax, y, rc
<1>10. a \o x = ax
  BY <1>1, <1>2, <1>5, JoinedIs
<1>11. ax \o y = CreateClient
  BY <1>2, <1>3, <1>6, JoinedIs
<1>12. r \o CreateClient = rc
  <2> HIDE DEF r
  <2> QED BY <1>1, <1>3, <1>7, JoinedIs
<1>13. rc \o B3 = MakeClient
  BY <1>3, <1>8, SeqsIn, JoinedIs
<1>14. Tail((r \o CreateClient) \o B3) = CreateClient \o B3
  <2>1. S("rmkey", "client") \in Steps
    BY StepIn
  <2> QED BY <1>3, <2>1, SeqsIn, TailJoined
<1>15. From(MakeClient, 1) = MakeClient /\ Tail(From(MakeClient, 1)) = From(MakeClient, 2)
  <2>1. 1 \in 1..Len(MakeClient) /\ 1 + 1 = 2
    BY Lengths
  <2> QED BY <2>1, SeqsIn, FromFirst, FromNext
<1> QED BY <1>9, <1>10, <1>11, <1>12, <1>13, <1>14, <1>15

LEMMA OthersJoined ==
    /\ Boot2PodmanProvision \o << >> = From(Provide, 1)
    /\ RedHatProvision = Boot2PodmanProvision
    /\ Bootstrap \o <<S("detect", "vm")>> = B1 /\ << >> \o <<S("detect", "vm")>> = B3
<1> DEFINE a == <<S("ssh", "vm"), S("ssh", "vm")>>
<1>1. a \in Seq(Steps) /\ Bootstrap \in Seq(Steps)
  BY StepIn DEF Bootstrap
<1>2. ConfigureAuth \in Seq(Steps)
  BY StepIn DEF ConfigureAuth
<1>4. Splits(Provide, a, ConfigureAuth)
  BY DEF Splits, Provide, ConfigureAuth
<1>5. Splits(B1, Bootstrap, B3)
  BY DEF Splits, B1, Bootstrap, B3
<1> HIDE DEF a
<1>6. a \o ConfigureAuth = Provide
  BY <1>1, <1>2, <1>4, SeqsIn, JoinedIs
<1>7. Bootstrap \o B3 = B1
  BY <1>1, <1>5, SeqsIn, JoinedIs
<1>8. Provide \o << >> = Provide /\ << >> \o B3 = B3
  BY SeqsIn
<1>9. From(Provide, 1) = Provide
  BY SeqsIn, FromFirst
<1>10. Boot2PodmanProvision = a \o ConfigureAuth /\ RedHatProvision = a \o ConfigureAuth
  BY DEF Boot2PodmanProvision, RedHatProvision, a
<1> QED BY <1>6, <1>7, <1>8, <1>9, <1>10 DEF B3

LEMMA Onward ==
    /\ Tail(B1) = B2 /\ Tail(B2) = B3 /\ Tail(B3) = << >>
    /\ B1 # << >> /\ B2 # << >> /\ B3 # << >>
    /\ Head(B1) = S("date", "CA") /\ Head(B2) = S("date", "client") /\ Head(B3) = S("detect", "vm")
    /\ From(MakeCA, 7) = B2 /\ From(MakeClient, 9) = B3 /\ From(Provide, 13) = << >>
<1>1. /\ Tail(B1) = B2 /\ Tail(B2) = B3 /\ Tail(B3) = << >>
      /\ B1 # << >> /\ B2 # << >> /\ B3 # << >>
      /\ Head(B1) = S("date", "CA") /\ Head(B2) = S("date", "client")
      /\ Head(B3) = S("detect", "vm")
  BY DEF B1, B2, B3
<1>2. From(MakeCA, 7) = B2
  <2> DEFINE f == From(MakeCA, 7)
  <2>1. 7 \in 1..(Len(MakeCA) + 1) /\ Len(MakeCA) + 1 - 7 = 2
    BY Lengths
  <2>2. f \in Seq(Steps) /\ Len(f) = 2 /\ \A j \in 1..2 : f[j] = MakeCA[7 + j - 1]
    BY <2>1, SeqsIn, FromIs
  <2> HIDE DEF f
  <2>3. f[1] = B2[1] /\ f[2] = B2[2]
    <3>1. f[1] = MakeCA[7 + 1 - 1] /\ f[2] = MakeCA[7 + 2 - 1]
      BY <2>2
    <3>2. f[1] = MakeCA[7] /\ f[2] = MakeCA[8]
      BY <3>1
    <3> QED BY <3>2, Elements, Zenon
  <2>4. \A j \in 1..Len(f) : f[j] = B2[j]
    <3>1. \A j \in 1..Len(f) : j = 1 \/ j = 2
      BY <2>2
    <3> QED BY <2>3, <3>1, Zenon
  <2>5. Len(f) = Len(B2)
    BY <2>2, Lengths
  <2>6. f = B2
    BY <2>2, <2>4, <2>5, SeqsIn, SameSeq
  <2> QED BY <2>6 DEF f
<1>3. From(MakeClient, 9) = B3
  <2> DEFINE f == From(MakeClient, 9)
  <2>1. 9 \in 1..(Len(MakeClient) + 1) /\ Len(MakeClient) + 1 - 9 = 1
    BY Lengths
  <2>2. f \in Seq(Steps) /\ Len(f) = 1 /\ \A j \in 1..1 : f[j] = MakeClient[9 + j - 1]
    BY <2>1, SeqsIn, FromIs
  <2> HIDE DEF f
  <2>3. f[1] = B3[1]
    <3>1. f[1] = MakeClient[9 + 1 - 1]
      BY <2>2
    <3>2. f[1] = MakeClient[9]
      BY <3>1
    <3> QED BY <3>2, Elements, Zenon
  <2>4. \A j \in 1..Len(f) : f[j] = B3[j]
    <3>1. \A j \in 1..Len(f) : j = 1
      BY <2>2
    <3> QED BY <2>3, <3>1, Zenon
  <2>5. Len(f) = Len(B3)
    BY <2>2, Lengths
  <2>6. f = B3
    BY <2>2, <2>4, <2>5, SeqsIn, SameSeq
  <2> QED BY <2>6 DEF f
<1>4. From(Provide, 13) = << >>
  BY DEF From, Provide
<1> QED BY <1>1, <1>2, <1>3, <1>4

LEMMA FromSteps ==
    /\ \A i \in 1..6 : /\ From(MakeCA, i) # << >> /\ Head(From(MakeCA, i)) = MakeCA[i]
                       /\ Tail(From(MakeCA, i)) = From(MakeCA, i + 1)
    /\ \A i \in 1..8 : /\ From(MakeClient, i) # << >> /\ Head(From(MakeClient, i)) = MakeClient[i]
                       /\ Tail(From(MakeClient, i)) = From(MakeClient, i + 1)
    /\ \A i \in 1..12 : /\ From(Provide, i) # << >> /\ Head(From(Provide, i)) = Provide[i]
                        /\ Tail(From(Provide, i)) = From(Provide, i + 1)
<1>1. (\A i \in 1..6 : i \in 1..Len(MakeCA)) /\ (\A i \in 1..8 : i \in 1..Len(MakeClient))
      /\ (\A i \in 1..12 : i \in 1..Len(Provide))
  BY Lengths
<1> QED BY <1>1, SeqsIn, FromNext

LEMMA CATails ==
    /\ Tail(From(MakeCA, 1)) = From(MakeCA, 2) /\ Tail(From(MakeCA, 2)) = From(MakeCA, 3)
    /\ Tail(From(MakeCA, 3)) = From(MakeCA, 4) /\ Tail(From(MakeCA, 4)) = From(MakeCA, 5)
    /\ Tail(From(MakeCA, 5)) = From(MakeCA, 6) /\ Tail(From(MakeCA, 6)) = B2
<1>1. \A i \in 1..6, j \in 2..7 : j = i + 1 => Tail(From(MakeCA, i)) = From(MakeCA, j)
  BY FromSteps
<1>2. Tail(From(MakeCA, 6)) = From(MakeCA, 7)
  BY <1>1
<1>3. Tail(From(MakeCA, 6)) = B2
  BY <1>2, Onward, Zenon
<1> QED BY <1>1, <1>3

LEMMA ClientTails ==
    /\ Tail(From(MakeClient, 1)) = From(MakeClient, 2)
    /\ Tail(From(MakeClient, 2)) = From(MakeClient, 3)
    /\ Tail(From(MakeClient, 3)) = From(MakeClient, 4)
    /\ Tail(From(MakeClient, 4)) = From(MakeClient, 5)
    /\ Tail(From(MakeClient, 5)) = From(MakeClient, 6)
    /\ Tail(From(MakeClient, 6)) = From(MakeClient, 7)
    /\ Tail(From(MakeClient, 7)) = From(MakeClient, 8)
    /\ Tail(From(MakeClient, 8)) = B3
<1>1. \A i \in 1..8, j \in 2..9 : j = i + 1 => Tail(From(MakeClient, i)) = From(MakeClient, j)
  BY FromSteps
<1>2. Tail(From(MakeClient, 8)) = From(MakeClient, 9)
  BY <1>1
<1>3. Tail(From(MakeClient, 8)) = B3
  BY <1>2, Onward, Zenon
<1> QED BY <1>1, <1>3

LEMMA ProvideTails ==
    /\ Tail(From(Provide, 1)) = From(Provide, 2) /\ Tail(From(Provide, 2)) = From(Provide, 3)
    /\ Tail(From(Provide, 3)) = From(Provide, 4) /\ Tail(From(Provide, 4)) = From(Provide, 5)
    /\ Tail(From(Provide, 5)) = From(Provide, 6) /\ Tail(From(Provide, 6)) = From(Provide, 7)
    /\ Tail(From(Provide, 7)) = From(Provide, 8) /\ Tail(From(Provide, 8)) = From(Provide, 9)
    /\ Tail(From(Provide, 9)) = From(Provide, 10) /\ Tail(From(Provide, 10)) = From(Provide, 11)
    /\ Tail(From(Provide, 11)) = From(Provide, 12) /\ Tail(From(Provide, 12)) = From(Provide, 13)
<1>1. \A i \in 1..12, j \in 2..13 : j = i + 1 => Tail(From(Provide, i)) = From(Provide, j)
  BY FromSteps
<1> QED BY <1>1

\* Where p is when the step h comes next.
NextAt(p, h) ==
    /\ ~Idle(p)
    /\ h = S("date", "CA") => op[p].call = "all" /\ op[p].todo = B1 /\ Calm
    /\ h = S("date", "client") =>
         op[p].call = "all" /\ op[p].todo = B2 /\ Calm /\ (Quiet => Whole("CA"))
    /\ h = S("detect", "vm") => op[p].todo = B3 /\ Calm /\ Ready(p)
    /\ h = S("rmkey", "CA") => InCA(p, 1)
    /\ h = S("stat", "CA") => InCA(p, 2)
    /\ h = S("opencert", "CA") => InCA(p, 3)
    /\ h = S("writecert", "CA") => InCA(p, 4)
    /\ h = S("openkey", "CA") => InCA(p, 5)
    /\ h = S("writekey", "CA") => InCA(p, 6)
    /\ h = S("rmkey", "client") => InClient(p, 1)
    /\ h = S("stat", "client") => InClient(p, 2)
    /\ h = S("opencert", "client") => InClient(p, 5)
    /\ h = S("writecert", "client") => InClient(p, 6)
    /\ h = S("openkey", "client") => InClient(p, 7)
    /\ h = S("writekey", "client") => InClient(p, 8)
    /\ h = S("loadcert", "client") => InClient(p, 3) \/ InProvide(p, 6)
    /\ h = S("loadkey", "client") => InClient(p, 4) \/ InProvide(p, 7)
    /\ h = S("ssh", "vm") => InProvide(p, 1) \/ InProvide(p, 2)
    /\ h = S("copyca", "vm") => InProvide(p, 3)
    /\ h = S("copycert", "vm") => InProvide(p, 4)
    /\ h = S("copykey", "vm") => InProvide(p, 5)
    /\ h = S("server", "vm") => InProvide(p, 8)
    /\ h = S("readca", "vm") => InProvide(p, 9)
    /\ h = S("putca", "vm") => InProvide(p, 10)
    /\ h = S("putcert", "vm") => InProvide(p, 11)
    /\ h = S("putkey", "vm") => InProvide(p, 12)

LEMMA NextCA ==
    ASSUME NEW p \in Procs, NEW i \in 1..6, InCA(p, i)
    PROVE  NextAt(p, MakeCA[i])
<1>0. ~Idle(p)
  BY DEF InCA, Idle
<1>1. CASE i = 1
  <2>1. MakeCA[i] = S("rmkey", "CA") /\ InCA(p, 1)
    BY <1>1, Elements
  <2> QED BY <1>0, <2>1 DEF NextAt, S
<1>2. CASE i = 2
  <2>1. MakeCA[i] = S("stat", "CA") /\ InCA(p, 2)
    BY <1>2, Elements
  <2> QED BY <1>0, <2>1 DEF NextAt, S
<1>3. CASE i = 3
  <2>1. MakeCA[i] = S("opencert", "CA") /\ InCA(p, 3)
    BY <1>3, Elements
  <2> QED BY <1>0, <2>1 DEF NextAt, S
<1>4. CASE i = 4
  <2>1. MakeCA[i] = S("writecert", "CA") /\ InCA(p, 4)
    BY <1>4, Elements
  <2> QED BY <1>0, <2>1 DEF NextAt, S
<1>5. CASE i = 5
  <2>1. MakeCA[i] = S("openkey", "CA") /\ InCA(p, 5)
    BY <1>5, Elements
  <2> QED BY <1>0, <2>1 DEF NextAt, S
<1>6. CASE i = 6
  <2>1. MakeCA[i] = S("writekey", "CA") /\ InCA(p, 6)
    BY <1>6, Elements
  <2> QED BY <1>0, <2>1 DEF NextAt, S
<1> QED BY <1>1, <1>2, <1>3, <1>4, <1>5, <1>6

LEMMA NextClient ==
    ASSUME NEW p \in Procs, NEW i \in 1..8, InClient(p, i)
    PROVE  NextAt(p, MakeClient[i])
<1>0. ~Idle(p)
  BY DEF InClient, Idle
<1>1. CASE i = 1
  <2>1. MakeClient[i] = S("rmkey", "client") /\ InClient(p, 1)
    BY <1>1, Elements
  <2> QED BY <1>0, <2>1 DEF NextAt, S
<1>2. CASE i = 2
  <2>1. MakeClient[i] = S("stat", "client") /\ InClient(p, 2)
    BY <1>2, Elements
  <2> QED BY <1>0, <2>1 DEF NextAt, S
<1>3. CASE i = 3
  <2>1. MakeClient[i] = S("loadcert", "client") /\ InClient(p, 3)
    BY <1>3, Elements
  <2> QED BY <1>0, <2>1 DEF NextAt, S
<1>4. CASE i = 4
  <2>1. MakeClient[i] = S("loadkey", "client") /\ InClient(p, 4)
    BY <1>4, Elements
  <2> QED BY <1>0, <2>1 DEF NextAt, S
<1>5. CASE i = 5
  <2>1. MakeClient[i] = S("opencert", "client") /\ InClient(p, 5)
    BY <1>5, Elements
  <2> QED BY <1>0, <2>1 DEF NextAt, S
<1>6. CASE i = 6
  <2>1. MakeClient[i] = S("writecert", "client") /\ InClient(p, 6)
    BY <1>6, Elements
  <2> QED BY <1>0, <2>1 DEF NextAt, S
<1>7. CASE i = 7
  <2>1. MakeClient[i] = S("openkey", "client") /\ InClient(p, 7)
    BY <1>7, Elements
  <2> QED BY <1>0, <2>1 DEF NextAt, S
<1>8. CASE i = 8
  <2>1. MakeClient[i] = S("writekey", "client") /\ InClient(p, 8)
    BY <1>8, Elements
  <2> QED BY <1>0, <2>1 DEF NextAt, S
<1> QED BY <1>1, <1>2, <1>3, <1>4, <1>5, <1>6, <1>7, <1>8

LEMMA NextProvide ==
    ASSUME NEW p \in Procs, NEW i \in 1..12, InProvide(p, i)
    PROVE  NextAt(p, Provide[i])
<1>0. ~Idle(p)
  BY DEF InProvide, Idle
<1>1. CASE i = 1
  <2>1. Provide[i] = S("ssh", "vm") /\ InProvide(p, 1)
    BY <1>1, ProvideElements
  <2> QED BY <1>0, <2>1 DEF NextAt, S
<1>2. CASE i = 2
  <2>1. Provide[i] = S("ssh", "vm") /\ InProvide(p, 2)
    BY <1>2, ProvideElements
  <2> QED BY <1>0, <2>1 DEF NextAt, S
<1>3. CASE i = 3
  <2>1. Provide[i] = S("copyca", "vm") /\ InProvide(p, 3)
    BY <1>3, ProvideElements
  <2> QED BY <1>0, <2>1 DEF NextAt, S
<1>4. CASE i = 4
  <2>1. Provide[i] = S("copycert", "vm") /\ InProvide(p, 4)
    BY <1>4, ProvideElements
  <2> QED BY <1>0, <2>1 DEF NextAt, S
<1>5. CASE i = 5
  <2>1. Provide[i] = S("copykey", "vm") /\ InProvide(p, 5)
    BY <1>5, ProvideElements
  <2> QED BY <1>0, <2>1 DEF NextAt, S
<1>6. CASE i = 6
  <2>1. Provide[i] = S("loadcert", "client") /\ InProvide(p, 6)
    BY <1>6, ProvideElements
  <2> QED BY <1>0, <2>1 DEF NextAt, S
<1>7. CASE i = 7
  <2>1. Provide[i] = S("loadkey", "client") /\ InProvide(p, 7)
    BY <1>7, ProvideElements
  <2> QED BY <1>0, <2>1 DEF NextAt, S
<1>8. CASE i = 8
  <2>1. Provide[i] = S("server", "vm") /\ InProvide(p, 8)
    BY <1>8, ProvideElements
  <2> QED BY <1>0, <2>1 DEF NextAt, S
<1>9. CASE i = 9
  <2>1. Provide[i] = S("readca", "vm") /\ InProvide(p, 9)
    BY <1>9, ProvideElements
  <2> QED BY <1>0, <2>1 DEF NextAt, S
<1>10. CASE i = 10
  <2>1. Provide[i] = S("putca", "vm") /\ InProvide(p, 10)
    BY <1>10, ProvideElements
  <2> QED BY <1>0, <2>1 DEF NextAt, S
<1>11. CASE i = 11
  <2>1. Provide[i] = S("putcert", "vm") /\ InProvide(p, 11)
    BY <1>11, ProvideElements
  <2> QED BY <1>0, <2>1 DEF NextAt, S
<1>12. CASE i = 12
  <2>1. Provide[i] = S("putkey", "vm") /\ InProvide(p, 12)
    BY <1>12, ProvideElements
  <2> QED BY <1>0, <2>1 DEF NextAt, S
<1> QED BY <1>1, <1>2, <1>3, <1>4, <1>5, <1>6, <1>7, <1>8, <1>9, <1>10, <1>11, <1>12

LEMMA NextIs ==
    ASSUME NEW p \in Procs, Place(p), op[p].todo # << >>
    PROVE  NextAt(p, Head(op[p].todo))
<1>0. NoOp.todo = << >>
  BY DEF NoOp
<1>1. CASE op[p].call = "all" /\ op[p].todo = B1 /\ Calm
  <2>1. Head(op[p].todo) = S("date", "CA") /\ ~Idle(p)
    BY <1>1, Onward DEF Idle
  <2> QED BY <1>1, <2>1 DEF NextAt, S
<1>2. CASE op[p].call = "all" /\ op[p].todo = B2 /\ Calm /\ (Quiet => Whole("CA"))
  <2>1. Head(op[p].todo) = S("date", "client") /\ ~Idle(p)
    BY <1>2, Onward DEF Idle
  <2> QED BY <1>2, <2>1 DEF NextAt, S
<1>3. CASE ~Idle(p) /\ op[p].todo = B3 /\ Calm /\ Ready(p)
  <2>1. Head(op[p].todo) = S("detect", "vm")
    BY <1>3, Onward
  <2> QED BY <1>3, <2>1 DEF NextAt, S
<1>4. CASE \E i \in 1..6 : InCA(p, i)
  <2>1. PICK i \in 1..6 : InCA(p, i)
    BY <1>4
  <2>2. Head(op[p].todo) = MakeCA[i]
    BY <2>1, FromSteps DEF InCA
  <2> QED BY <2>1, <2>2, NextCA
<1>5. CASE \E i \in 1..8 : InClient(p, i)
  <2>1. PICK i \in 1..8 : InClient(p, i)
    BY <1>5
  <2>2. Head(op[p].todo) = MakeClient[i]
    BY <2>1, FromSteps DEF InClient
  <2> QED BY <2>1, <2>2, NextClient
<1>6. CASE \E i \in 1..13 : InProvide(p, i)
  <2>1. PICK i \in 1..13 : InProvide(p, i)
    BY <1>6
  <2>2. i # 13
    BY <2>1, Onward DEF InProvide
  <2>3. i \in 1..12
    BY <2>2
  <2>4. Head(op[p].todo) = Provide[i]
    BY <2>1, <2>3, FromSteps DEF InProvide
  <2> QED BY <2>1, <2>3, <2>4, NextProvide
<1> QED BY <1>0, <1>1, <1>2, <1>3, <1>4, <1>5, <1>6 DEF Place
-----------------------------------------------------------------------------
(* What a step does to the calls.                                          *)

OpType == [call : {"idle", "all", "auth"}, m : Machines, todo : Seq(Steps),
           pair : 0..MaxPairs, ca : Content]

\* p goes on to the steps t; nothing else becomes of the calls.
Moved(p, t, n, c) ==
    /\ op' \in [Procs -> OpType]
    /\ op'[p].call = op[p].call /\ op'[p].m = op[p].m
    /\ op'[p].todo = t /\ op'[p].pair = n /\ op'[p].ca = c
    /\ \A q \in Procs \ {p} : op'[q] = op[q]
    /\ result' = result /\ calls' = calls /\ faults' = faults /\ met' = met /\ mixed' = mixed

LEMMA GoMoves ==
    ASSUME TypeOK, NEW p \in Procs, op[p].todo # << >>,
           NEW more \in Seq(Steps), NEW n \in 0..MaxPairs, NEW c \in Content,
           GoWith(p, more, n, c)
    PROVE  Moved(p, more \o Tail(op[p].todo), n, c)
<1> DEFINE o == op[p]
           t == more \o Tail(op[p].todo)
           x == [o EXCEPT !.todo = t, !.pair = n, !.ca = c]
<1>1. op \in [Procs -> OpType]
  BY DEF TypeOK, OpType
<1>2. /\ o \in OpType /\ o.call \in {"idle", "all", "auth"} /\ o.m \in Machines
      /\ o.todo \in Seq(Steps)
  BY <1>1 DEF OpType
<1>3. t \in Seq(Steps)
  <2>1. Tail(op[p].todo) \in Seq(Steps)
    BY <1>2
  <2> QED BY <2>1
<1>4. op' = [op EXCEPT ![p] = x]
  BY DEF GoWith
<1> HIDE DEF t
<1>5. x \in OpType
  BY <1>2, <1>3 DEF OpType
<1>6. x.call = o.call /\ x.m = o.m /\ x.todo = t /\ x.pair = n /\ x.ca = c
  BY <1>2 DEF OpType
<1> HIDE DEF x
<1>7. op' \in [Procs -> OpType] /\ op'[p] = x /\ \A q \in Procs \ {p} : op'[q] = op[q]
  BY <1>1, <1>4, <1>5
<1> QED BY <1>6, <1>7 DEF GoWith, Moved, t

LEMMA GoOn ==
    ASSUME TypeOK, NEW p \in Procs, op[p].todo # << >>,
           NEW n \in 0..MaxPairs, NEW c \in Content, GoWith(p, << >>, n, c)
    PROVE  Moved(p, Tail(op[p].todo), n, c)
<1>1. op[p].todo \in Seq(Steps)
  BY DEF TypeOK
<1>2. Tail(op[p].todo) \in Seq(Steps)
  BY <1>1
<1>3. << >> \o Tail(op[p].todo) = Tail(op[p].todo)
  BY <1>2
<1> QED BY <1>3, SeqsIn, GoMoves

\* p's call is over.
Ended(p, r) ==
    /\ op' \in [Procs -> OpType] /\ op'[p] = NoOp
    /\ \A q \in Procs \ {p} : op'[q] = op[q] /\ result'[q] = result[q]
    /\ result'[p] = r /\ result' \in [Procs -> {"none", "ok", "nocerts", "failed", "killed"}]
    /\ calls' = calls /\ faults' = faults /\ met' = met /\ mixed' = mixed

LEMMA NoOpIs ==
    /\ NoOp \in OpType /\ NoOp.call = "idle" /\ NoOp.m = 1 /\ NoOp.todo = << >>
    /\ NoOp.pair = 0 /\ NoOp.ca = None
<1>1. 1 \in Machines /\ 0 \in 0..MaxPairs /\ None \in Content
  BY CertAssumption DEF Machines, Content, None
<1>2. << >> \in Seq(Steps)
  OBVIOUS
<1>3. NoOp \in OpType
  BY <1>1, <1>2 DEF NoOp, OpType
<1>4. /\ NoOp.call = "idle" /\ NoOp.m = 1 /\ NoOp.todo = << >>
      /\ NoOp.pair = 0 /\ NoOp.ca = None
  BY DEF NoOp
<1> QED BY <1>3, <1>4

LEMMA EndEnds ==
    ASSUME TypeOK, NEW p \in Procs, NEW r \in {"ok", "nocerts", "failed", "killed"}, End(p, r)
    PROVE  Ended(p, r)
<1>1. /\ op \in [Procs -> OpType]
      /\ result \in [Procs -> {"none", "ok", "nocerts", "failed", "killed"}]
  BY DEF TypeOK, OpType
<1> QED BY <1>1, NoOpIs DEF End, Ended

LEMMA FailEnds ==
    ASSUME TypeOK, NEW p \in Procs, Fail(p)
    PROVE  \E r \in {"nocerts", "failed"} : Ended(p, r) /\ (r = "nocerts" => Bootstrapping(p))
<1>1. CASE Bootstrapping(p)
  <2>1. End(p, "nocerts")
    BY <1>1 DEF Fail
  <2> QED BY <1>1, <2>1, EndEnds
<1>2. CASE ~Bootstrapping(p)
  <2>1. End(p, "failed")
    BY <1>2 DEF Fail
  <2>2. Ended(p, "failed")
    BY <2>1, EndEnds
  <2> QED BY <2>2
<1> QED BY <1>1, <1>2

\* What p may be doing does not matter to a call that has met another.
LEMMA OtherPlace ==
    ASSUME NEW q \in Procs, Place(q), op'[q] = op[q], Idle(q) \/ (mixed' /\ met'[q])
    PROVE  Place(q)'
<1>1. CASE op[q] = NoOp
  BY <1>1 DEF Place
<1>2. CASE op[q] # NoOp
  <2>1. ~Idle(q) /\ mixed' /\ met'[q]
    BY <1>2 DEF Place, Idle, InCA, InClient, InProvide
  <2>2. Calm' /\ Ready(q)' /\ ~Quiet'
    BY <2>1 DEF Calm, Ready, Quiet
  <2>3. ASSUME NEW i \in 1..6, InCA(q, i) PROVE InCA(q, i)'
    BY <2>1, <2>2, <2>3 DEF InCA, MakingCA
  <2>4. ASSUME NEW i \in 1..8, InClient(q, i) PROVE InClient(q, i)'
    BY <2>1, <2>2, <2>4 DEF InClient, MakingClient
  <2>5. ASSUME NEW i \in 1..13, InProvide(q, i) PROVE InProvide(q, i)'
    BY <2>1, <2>2, <2>5 DEF InProvide, Providing, Idle
  <2> QED BY <1>2, <2>1, <2>2, <2>3, <2>4, <2>5 DEF Place, Idle
<1> QED BY <1>1, <1>2

\* The step of one call keeps the invariant, if it keeps what is about the files
\* and p comes to a place of the invariant.
LEMMA Frame ==
    ASSUME FilesInv, NEW p \in Procs, ~Idle(p), met' = met, mixed' = mixed,
           TypeOK', PairsMatch', BootstrapWorks', Numbered', Place(p)',
           \A q \in Procs \ {p} : op'[q] = op[q] /\ result'[q] = result[q],
           op'[p].call # "idle" => result'[p] = "none",
           op'[p].call = "idle" => Calm'
    PROVE  FilesInv'
<1>1. \A q \in Procs : /\ Place(q) /\ Alone(q) /\ (met[q] => mixed)
                       /\ (~Idle(q) => result[q] = "none")
  BY DEF FilesInv
<1>2. \A q \in Procs \ {p} : Idle(q) \/ (met[q] /\ mixed)
  BY <1>1 DEF Alone
<1>3. ASSUME NEW q \in Procs
      PROVE  Place(q)' /\ Alone(q)' /\ (met[q] => mixed)' /\ (~Idle(q) => result[q] = "none")'
  <2>1. CASE q = p
    BY <1>1, <2>1 DEF Alone, Idle
  <2>2. CASE q # p
    <3>1. Place(q)'
      BY <1>1, <1>2, <2>2, OtherPlace
    <3> QED BY <1>1, <1>2, <2>2, <3>1 DEF Alone, Idle
  <2> QED BY <2>1, <2>2
<1>4. (\A q \in Procs : Idle(q))' => Calm'
  BY DEF Idle
<1> QED BY <1>3, <1>4 DEF FilesInv

\* The types of the files.
FileTypes ==
    /\ disk \in [Kinds -> [cert : Content, key : Content]]
    /\ issuer \in [Pairs -> 0..MaxPairs] /\ issued \in 0..MaxPairs /\ expired \in 0..issued
    /\ copy \in [Machines -> [ca : Content, cert : Content, key : Content]]
    /\ guest \in [Machines -> [ca : Content, cert : Content, key : Content]]
    /\ damaged \in BOOLEAN /\ kept \in BOOLEAN

LEMMA MoveKeeps ==
    ASSUME FilesInv, NEW p \in Procs, ~Idle(p), NEW t, NEW n, NEW c, Moved(p, t, n, c),
           FileTypes', PairsMatch', Place(p)',
           \A k \in Kinds : disk'[k].cert <= issued',
           n <= issued', issued <= issued', damaged => damaged'
    PROVE  FilesInv'
<1>1. TypeOK /\ BootstrapWorks /\ Numbered /\ result[p] = "none"
  BY DEF FilesInv
<1>2. TypeOK'
  BY <1>1 DEF TypeOK, FileTypes, Moved, OpType
<1>3. BootstrapWorks'
  BY <1>1 DEF BootstrapWorks, Moved
<1>4. Numbered'
  <2>1. ASSUME NEW q \in Procs PROVE op'[q].pair <= issued'
    <3>1. CASE q = p
      BY <3>1 DEF Moved
    <3>2. CASE q # p
      <4>1. op'[q].pair = op[q].pair /\ op[q].pair <= issued /\ op[q].pair \in 0..MaxPairs
        BY <1>1, <3>2 DEF Moved, Numbered, TypeOK
      <4>2. issued \in 0..MaxPairs /\ issued' \in 0..MaxPairs
        BY <1>1 DEF TypeOK, FileTypes
      <4> QED BY <4>1, <4>2
    <3> QED BY <3>1, <3>2
  <2> QED BY <2>1 DEF Numbered
<1>5. /\ met' = met /\ mixed' = mixed
      /\ \A q \in Procs \ {p} : op'[q] = op[q] /\ result'[q] = result[q]
      /\ op'[p].call # "idle" => result'[p] = "none"
      /\ op'[p].call = "idle" => Calm'
  BY <1>1 DEF Moved, Idle
<1> QED BY <1>2, <1>3, <1>4, <1>5, Frame

LEMMA EndKeeps ==
    ASSUME FilesInv, NEW p \in Procs, ~Idle(p), NEW r, Ended(p, r), FileTypes', disk' = disk,
           issued <= issued', damaged => damaged', r = "nocerts" => (damaged' \/ mixed), Calm'
    PROVE  FilesInv'
<1>1. TypeOK /\ PairsMatch /\ BootstrapWorks /\ Numbered
  BY DEF FilesInv
<1>2. TypeOK'
  BY <1>1 DEF TypeOK, FileTypes, Ended, OpType
<1>3. BootstrapWorks' /\ PairsMatch'
  BY <1>1 DEF BootstrapWorks, Ended, PairsMatch
<1>4. Numbered'
  <2>0. issued \in 0..MaxPairs /\ issued' \in 0..MaxPairs
    BY <1>1 DEF TypeOK, FileTypes
  <2>1. ASSUME NEW q \in Procs PROVE op'[q].pair <= issued'
    <3>1. CASE q = p
      BY <2>0, <3>1, NoOpIs DEF Ended
    <3>2. CASE q # p
      <4>1. op'[q].pair = op[q].pair /\ op[q].pair <= issued /\ op[q].pair \in 0..MaxPairs
        BY <1>1, <3>2 DEF Ended, Numbered, TypeOK
      <4> QED BY <2>0, <4>1
    <3> QED BY <3>1, <3>2
  <2>2. ASSUME NEW k \in Kinds PROVE disk'[k].cert <= issued'
    <3>1. disk[k].cert <= issued /\ disk[k].cert \in Content
      BY <1>1 DEF Numbered, TypeOK
    <3> QED BY <2>0, <3>1, CertAssumption DEF Content
  <2> QED BY <2>1, <2>2 DEF Numbered
<1>5. Place(p)' /\ op'[p].call = "idle"
  BY NoOpIs DEF Place, Ended
<1>6. /\ met' = met /\ mixed' = mixed
      /\ \A q \in Procs \ {p} : op'[q] = op[q] /\ result'[q] = result[q]
  BY DEF Ended
<1> QED BY <1>2, <1>3, <1>4, <1>5, <1>6, Frame

LEMMA FailKeeps ==
    ASSUME FilesInv, NEW p \in Procs, ~Idle(p), Fail(p), FileTypes', disk' = disk,
           issued <= issued', damaged => damaged', Bootstrapping(p) => (damaged' \/ mixed), Calm'
    PROVE  FilesInv'
<1>1. TypeOK
  BY DEF FilesInv
<1>2. PICK r \in {"nocerts", "failed"} : Ended(p, r) /\ (r = "nocerts" => Bootstrapping(p))
  BY <1>1, FailEnds
<1> QED BY <1>2, EndKeeps

\* The error is not one of BootstrapCertificates.
LEMMA NotBootstrapping ==
    ASSUME NEW p \in Procs, op[p].todo = B3 \/ \E i \in 1..12 : op[p].todo = From(Provide, i)
    PROVE  ~Bootstrapping(p)
<1>1. CASE op[p].todo = B3
  BY <1>1, Lengths DEF Bootstrapping
<1>2. ASSUME NEW i \in 1..12, op[p].todo = From(Provide, i), NEW j \in 2..Len(op[p].todo)
      PROVE  op[p].todo[j] # S("detect", "vm")
  <2>1. i \in 1..(Len(Provide) + 1) /\ Len(Provide) + 1 - i = 13 - i
    BY Lengths
  <2>2. Len(op[p].todo) = 13 - i /\ \A l \in 1..(13 - i) : op[p].todo[l] = Provide[i + l - 1]
    <3>1. /\ Len(From(Provide, i)) = Len(Provide) + 1 - i
          /\ \A l \in 1..(Len(Provide) + 1 - i) : From(Provide, i)[l] = Provide[i + l - 1]
      BY <2>1, SeqsIn, FromIs
    <3> QED BY <1>2, <2>1, <3>1, Zenon
  <2>3. j \in 1..(13 - i) /\ i + j - 1 \in 1..12
    BY <2>2
  <2>4. op[p].todo[j] = Provide[i + j - 1]
    BY <2>2, <2>3
  <2>5. \A l \in 1..12 : Provide[l] # S("detect", "vm")
    BY DEF Provide, S
  <2> QED BY <2>3, <2>4, <2>5
<1> QED BY <1>1, <1>2 DEF Bootstrapping

LEMMA CreatePairIn ==
    ASSUME NEW k \in Kinds
    PROVE  /\ CreatePair(k) \in Seq(Steps)
           /\ <<S("rmkey", k)>> \o CreatePair(k) \in Seq(Steps)
<1>1. /\ S("rmkey", k) \in Steps /\ S("stat", k) \in Steps /\ S("loadcert", k) \in Steps
      /\ S("loadkey", k) \in Steps /\ S("opencert", k) \in Steps /\ S("writecert", k) \in Steps
      /\ S("openkey", k) \in Steps /\ S("writekey", k) \in Steps
  BY DEF S, Steps
<1>2. <<S("rmkey", k)>> \in Seq(Steps) /\ <<S("stat", k)>> \in Seq(Steps)
  BY <1>1
<1>3. <<S("loadcert", k), S("loadkey", k)>> \in Seq(Steps)
  BY <1>1
<1>4. <<S("opencert", k), S("writecert", k), S("openkey", k), S("writekey", k)>> \in Seq(Steps)
  BY <1>1
<1>5. << >> \in Seq(Steps)
  OBVIOUS
<1>6. CreatePair(k) \in Seq(Steps)
  BY <1>2, <1>3, <1>4, <1>5 DEF CreatePair
<1> QED BY <1>2, <1>6
-----------------------------------------------------------------------------
(* The steps of BootstrapCertificates.                                     *)

LEMMA Facts ==
    ASSUME FilesInv, NEW p \in Procs, NEW h, At(p, h)
    PROVE  /\ TypeOK /\ FileTypes /\ PairsMatch /\ Numbered /\ ~Idle(p)
           /\ op[p].todo # << >> /\ NextAt(p, h)
           /\ op[p].pair \in 0..MaxPairs /\ op[p].ca \in Content /\ op[p].pair <= issued
           /\ \A k \in Kinds : disk[k].cert \in Content /\ disk[k].key \in Content
           /\ op[p].m \in Machines /\ Kinds = {"CA", "client"} /\ Content \subseteq Int
<1>1. TypeOK /\ PairsMatch /\ Numbered /\ Place(p)
  BY DEF FilesInv
<1>2. op[p].todo # << >> /\ Head(op[p].todo) = h
  BY DEF At
<1>3. NextAt(p, h)
  BY <1>1, <1>2, NextIs
<1>4. /\ op[p].pair \in 0..MaxPairs /\ op[p].ca \in Content /\ op[p].m \in Machines
      /\ \A k \in Kinds : disk[k].cert \in Content /\ disk[k].key \in Content
      /\ FileTypes
  BY <1>1 DEF TypeOK, FileTypes
<1>5. Kinds = {"CA", "client"} /\ Content \subseteq Int /\ op[p].pair <= issued
  BY <1>1, CertAssumption DEF Kinds, Content, Numbered
<1> QED BY <1>1, <1>2, <1>3, <1>4, <1>5 DEF NextAt

LEMMA MoveOnly ==
    ASSUME FilesInv, NEW p \in Procs, ~Idle(p), NEW t, NEW n, NEW c, Moved(p, t, n, c),
           FileTypes', Place(p)', disk' = disk, issued' = issued, damaged' = damaged, n <= issued
    PROVE  FilesInv'
<1>1. TypeOK /\ PairsMatch /\ Numbered
  BY DEF FilesInv
<1>2. PairsMatch'
  BY <1>1 DEF PairsMatch, Moved
<1>3. /\ \A k \in Kinds : disk'[k].cert <= issued'
      /\ n <= issued' /\ issued <= issued' /\ (damaged => damaged')
  BY <1>1 DEF Numbered, TypeOK
<1> QED BY <1>2, <1>3, MoveKeeps

\* A key file or a certificate file is written.
LEMMA KeyWritten ==
    ASSUME NEW d \in [Kinds -> [cert : Content, key : Content]], NEW k \in Kinds,
           NEW v \in Content, NEW e, e = [d EXCEPT ![k].key = v]
    PROVE  /\ e \in [Kinds -> [cert : Content, key : Content]]
           /\ e[k].key = v /\ e[k].cert = d[k].cert
           /\ \A j \in Kinds \ {k} : e[j] = d[j]
OBVIOUS

LEMMA CertWritten ==
    ASSUME NEW d \in [Kinds -> [cert : Content, key : Content]], NEW k \in Kinds,
           NEW v \in Content, NEW e, e = [d EXCEPT ![k].cert = v]
    PROVE  /\ e \in [Kinds -> [cert : Content, key : Content]]
           /\ e[k].cert = v /\ e[k].key = d[k].key
           /\ \A j \in Kinds \ {k} : e[j] = d[j]
OBVIOUS

LEMMA CheckDateCA ==
    ASSUME FilesInv, NEW p \in Procs, CheckDate(p, "CA")
    PROVE  FilesInv'
<1>0. At(p, S("date", "CA"))
  BY DEF CheckDate
<1>1. /\ TypeOK /\ FileTypes /\ PairsMatch /\ Numbered /\ ~Idle(p) /\ op[p].todo # << >>
      /\ op[p].pair \in 0..MaxPairs /\ op[p].ca \in Content /\ op[p].pair <= issued
      /\ disk["CA"].cert \in Content /\ disk["client"].cert \in Content
      /\ NextAt(p, S("date", "CA"))
  BY <1>0, Facts
<1>2. op[p].call = "all" /\ op[p].todo = B1 /\ Calm /\ Tail(op[p].todo) = B2
  BY <1>1, Onward DEF NextAt
<1>3. UNCHANGED <<disk, issuer, issued, expired, copy, guest, damaged>>
  BY DEF CheckDate, files
<1>4. kept' \in BOOLEAN
  BY <1>1 DEF CheckDate, FileTypes
<1>5. FileTypes'
  BY <1>1, <1>3, <1>4 DEF FileTypes
<1>6. ASSUME NEW t, Moved(p, t, op[p].pair, op[p].ca), Place(p)'
      PROVE  FilesInv'
  BY <1>1, <1>3, <1>5, <1>6, MoveOnly
<1>7. CASE disk["CA"].cert = None /\ Go(p, CreatePair("CA")) /\ UNCHANGED kept
  <2>1. CreatePair("CA") \in Seq(Steps)
    BY CreatePairIn DEF Kinds
  <2>2. Moved(p, From(MakeCA, 2), op[p].pair, op[p].ca)
    BY <1>1, <1>2, <1>7, <2>1, GoMoves, CAJoined DEF Go
  <2>3. Quiet /\ ~kept => disk["client"].cert <= expired
    <3>1. SUFFICES ASSUME Quiet, ~kept, disk["client"].cert > expired PROVE FALSE
      BY <1>1, CertAssumption DEF FileTypes, Content
    <3>2. issuer[disk["client"].cert] = None
      BY <1>2, <1>7, <3>1 DEF Calm
    <3>3. disk["client"].cert \in Pairs
      BY <1>1, <3>1, CertAssumption DEF FileTypes, Content, Pairs
    <3> QED BY <1>1, <3>2, <3>3, CertAssumption DEF FileTypes, None
  <2>4. InCA(p, 2)'
    BY <1>2, <1>3, <1>7, <2>2, <2>3 DEF InCA, MakingCA, Moved, Calm, Quiet, Sound
  <2>5. Place(p)'
    BY <2>4 DEF Place
  <2> QED BY <1>6, <2>2, <2>5
<1>8. CASE disk["CA"].cert = Empty /\ Fail(p) /\ UNCHANGED kept
  <2>1. damaged \/ mixed
    BY <1>2, <1>8 DEF Calm, Quiet, Sound
  <2>2. mixed' = mixed
    BY <1>8 DEF Fail, End
  <2>3. Calm'
    BY <1>3, <2>1, <2>2 DEF Calm, Quiet
  <2> QED BY <1>1, <1>3, <1>5, <1>8, <2>1, <2>3, FailKeeps DEF FileTypes
<1>9. CASE disk["CA"].cert > 0 /\ Current(disk["CA"].cert) /\ Go(p, << >>) /\ UNCHANGED kept
  <2>1. Moved(p, B2, op[p].pair, op[p].ca)
    BY <1>1, <1>2, <1>9, GoOn DEF Go
  <2>2. Place(p)'
    BY <1>2, <1>3, <1>9, <2>1 DEF Place, Moved, Calm, Quiet, Sound, Whole
  <2> QED BY <1>6, <2>1, <2>2
<1>10. CASE /\ disk["CA"].cert > 0 /\ ~Current(disk["CA"].cert)
            /\ Go(p, <<S("rmkey", "CA")>> \o CreatePair("CA"))
            /\ kept' = (kept \/ disk["client"].cert > expired)
  <2>1. <<S("rmkey", "CA")>> \o CreatePair("CA") \in Seq(Steps)
    BY CreatePairIn DEF Kinds
  <2>2. Moved(p, From(MakeCA, 1), op[p].pair, op[p].ca)
    BY <1>1, <1>2, <1>10, <2>1, GoMoves, CAJoined DEF Go
  <2>3. disk["client"].cert \in Int /\ expired \in Int
    BY <1>1, CertAssumption DEF FileTypes, Content
  <2>4. ~kept' => ~kept /\ disk["client"].cert <= expired
    <3>1. ~kept' => ~kept /\ ~(disk["client"].cert > expired)
      BY <1>10, Zenon
    <3> QED BY <2>3, <3>1
  <2>5. InCA(p, 1)'
    BY <1>2, <1>3, <2>2, <2>4 DEF InCA, MakingCA, Moved, Calm, Quiet, Sound
  <2>6. Place(p)'
    BY <2>5 DEF Place
  <2> QED BY <1>6, <2>2, <2>6
<1> QED BY <1>7, <1>8, <1>9, <1>10 DEF CheckDate

LEMMA CheckDateClient ==
    ASSUME FilesInv, NEW p \in Procs, CheckDate(p, "client")
    PROVE  FilesInv'
<1>0. At(p, S("date", "client"))
  BY DEF CheckDate
<1>1. /\ TypeOK /\ FileTypes /\ PairsMatch /\ Numbered /\ ~Idle(p) /\ op[p].todo # << >>
      /\ op[p].pair \in 0..MaxPairs /\ op[p].ca \in Content /\ op[p].pair <= issued
      /\ disk["CA"].cert \in Content /\ disk["client"].cert \in Content
      /\ NextAt(p, S("date", "client"))
  BY <1>0, Facts
<1>2. /\ op[p].call = "all" /\ op[p].todo = B2 /\ Calm /\ (Quiet => Whole("CA"))
      /\ Tail(op[p].todo) = B3
  BY <1>1, Onward DEF NextAt
<1>3. UNCHANGED <<disk, issuer, issued, expired, copy, guest, damaged>> /\ kept' = kept
  <2>1. UNCHANGED <<disk, issuer, issued, expired, copy, guest, damaged>>
    BY DEF CheckDate, files
  <2>2. kept' = kept
    BY <1>1 DEF CheckDate, FileTypes
  <2> QED BY <2>1, <2>2
<1>5. FileTypes'
  BY <1>1, <1>3 DEF FileTypes
<1>6. ASSUME NEW t, Moved(p, t, op[p].pair, op[p].ca), Place(p)'
      PROVE  FilesInv'
  BY <1>1, <1>3, <1>5, <1>6, MoveOnly
<1>7. CASE disk["client"].cert = None /\ Go(p, CreatePair("client"))
  <2>1. CreatePair("client") \in Seq(Steps)
    BY CreatePairIn DEF Kinds
  <2>2. Moved(p, From(MakeClient, 2), op[p].pair, op[p].ca)
    BY <1>1, <1>2, <1>7, <2>1, GoMoves, ClientJoined DEF Go
  <2>4. InClient(p, 2)'
    BY <1>2, <1>3, <1>7, <2>2 DEF InClient, MakingClient, Moved, Calm, Quiet, Sound, Whole
  <2>5. Place(p)'
    BY <2>4 DEF Place
  <2> QED BY <1>6, <2>2, <2>5
<1>8. CASE disk["client"].cert = Empty /\ Fail(p)
  <2>1. damaged \/ mixed
    BY <1>2, <1>8 DEF Calm, Quiet, Sound
  <2>2. mixed' = mixed
    BY <1>8 DEF Fail, End
  <2>3. Calm'
    BY <1>3, <2>1, <2>2 DEF Calm, Quiet
  <2> QED BY <1>1, <1>3, <1>5, <1>8, <2>1, <2>3, FailKeeps DEF FileTypes
<1>9. CASE disk["client"].cert > 0 /\ Current(disk["client"].cert) /\ Go(p, << >>)
  <2>1. Moved(p, B3, op[p].pair, op[p].ca)
    BY <1>1, <1>2, <1>9, GoOn DEF Go
  <2>2. Calm' /\ ~Idle(p)' /\ op'[p].todo = B3
    BY <1>2, <1>3, <2>1 DEF Moved, Calm, Quiet, Sound, Idle
  <2>3. Ready(p)'
    BY <1>2, <1>3, <1>9, <2>1 DEF Ready, Moved, Calm, Quiet, Current
  <2>4. Place(p)'
    BY <2>2, <2>3 DEF Place
  <2> QED BY <1>6, <2>1, <2>4
<1>10. CASE Go(p, <<S("rmkey", "client")>> \o CreatePair("client"))
  <2>1. <<S("rmkey", "client")>> \o CreatePair("client") \in Seq(Steps)
    BY CreatePairIn DEF Kinds
  <2>2. Moved(p, From(MakeClient, 1), op[p].pair, op[p].ca)
    BY <1>1, <1>2, <1>10, <2>1, GoMoves, ClientJoined DEF Go
  <2>5. InClient(p, 1)'
    BY <1>2, <1>3, <2>2 DEF InClient, MakingClient, Moved, Calm, Quiet, Whole
  <2>6. Place(p)'
    BY <2>5 DEF Place
  <2> QED BY <1>6, <2>2, <2>6
<1> QED BY <1>7, <1>8, <1>9, <1>10 DEF CheckDate

LEMMA RemoveKeyCA ==
    ASSUME FilesInv, NEW p \in Procs, RemoveKey(p, "CA")
    PROVE  FilesInv'
<1>0. At(p, S("rmkey", "CA"))
  BY DEF RemoveKey
<1>1. /\ TypeOK /\ FileTypes /\ PairsMatch /\ Numbered /\ ~Idle(p) /\ op[p].todo # << >>
      /\ op[p].pair \in 0..MaxPairs /\ op[p].ca \in Content /\ op[p].pair <= issued
      /\ NextAt(p, S("rmkey", "CA"))
  BY <1>0, Facts
<1>2. InCA(p, 1) /\ Tail(op[p].todo) = From(MakeCA, 2)
  BY <1>1, CATails DEF NextAt, InCA
<1>3. /\ disk' = [disk EXCEPT !["CA"].key = None]
      /\ UNCHANGED <<issuer, issued, expired, copy, guest, damaged, kept>>
  BY DEF RemoveKey
<1>4. /\ disk' \in [Kinds -> [cert : Content, key : Content]]
      /\ disk'["CA"].key = None /\ disk'["CA"].cert = disk["CA"].cert
      /\ disk'["client"] = disk["client"]
  <2>1. None \in Content
    BY CertAssumption DEF Content, None
  <2> QED BY <1>1, <1>3, <2>1, KeyWritten DEF FileTypes, Kinds
<1>5. FileTypes'
  BY <1>1, <1>3, <1>4 DEF FileTypes
<1>6. Moved(p, From(MakeCA, 2), op[p].pair, op[p].ca)
  BY <1>1, <1>2, GoOn DEF Go, RemoveKey
<1>7. PairsMatch'
  BY <1>1, <1>4, <1>6 DEF PairsMatch, Moved, Kinds, None
<1>8. /\ \A k \in Kinds : disk'[k].cert <= issued'
      /\ op[p].pair <= issued' /\ issued <= issued' /\ (damaged => damaged')
  BY <1>1, <1>3, <1>4 DEF Numbered, FileTypes, Kinds
<1>9. InCA(p, 2)'
  BY <1>2, <1>3, <1>4, <1>6 DEF InCA, MakingCA, Moved, Quiet, Sound
<1>10. Place(p)'
  BY <1>9 DEF Place
<1> QED BY <1>1, <1>5, <1>6, <1>7, <1>8, <1>10, MoveKeeps

LEMMA RemoveKeyClient ==
    ASSUME FilesInv, NEW p \in Procs, RemoveKey(p, "client")
    PROVE  FilesInv'
<1>0. At(p, S("rmkey", "client"))
  BY DEF RemoveKey
<1>1. /\ TypeOK /\ FileTypes /\ PairsMatch /\ Numbered /\ ~Idle(p) /\ op[p].todo # << >>
      /\ op[p].pair \in 0..MaxPairs /\ op[p].ca \in Content /\ op[p].pair <= issued
      /\ NextAt(p, S("rmkey", "client"))
  BY <1>0, Facts
<1>2. InClient(p, 1) /\ Tail(op[p].todo) = From(MakeClient, 2)
  BY <1>1, ClientTails DEF NextAt, InClient
<1>3. /\ disk' = [disk EXCEPT !["client"].key = None]
      /\ UNCHANGED <<issuer, issued, expired, copy, guest, damaged, kept>>
  BY DEF RemoveKey
<1>4. /\ disk' \in [Kinds -> [cert : Content, key : Content]]
      /\ disk'["client"].key = None /\ disk'["client"].cert = disk["client"].cert
      /\ disk'["CA"] = disk["CA"]
  <2>1. None \in Content
    BY CertAssumption DEF Content, None
  <2> QED BY <1>1, <1>3, <2>1, KeyWritten DEF FileTypes, Kinds
<1>5. FileTypes'
  BY <1>1, <1>3, <1>4 DEF FileTypes
<1>6. Moved(p, From(MakeClient, 2), op[p].pair, op[p].ca)
  BY <1>1, <1>2, GoOn DEF Go, RemoveKey
<1>7. PairsMatch'
  BY <1>1, <1>4, <1>6 DEF PairsMatch, Moved, Kinds, None
<1>8. /\ \A k \in Kinds : disk'[k].cert <= issued'
      /\ op[p].pair <= issued' /\ issued <= issued' /\ (damaged => damaged')
  BY <1>1, <1>3, <1>4 DEF Numbered, FileTypes, Kinds
<1>9. InClient(p, 2)'
  BY <1>2, <1>3, <1>4, <1>6 DEF InClient, MakingClient, Moved, Quiet, Whole
<1>10. Place(p)'
  BY <1>9 DEF Place
<1> QED BY <1>1, <1>5, <1>6, <1>7, <1>8, <1>10, MoveKeeps

LEMMA StatKeyCA ==
    ASSUME FilesInv, NEW p \in Procs, StatKey(p, "CA")
    PROVE  FilesInv'
<1>0. At(p, S("stat", "CA"))
  BY DEF StatKey
<1>1. /\ TypeOK /\ FileTypes /\ ~Idle(p) /\ op[p].todo # << >>
      /\ op[p].pair \in 0..MaxPairs /\ op[p].ca \in Content /\ op[p].pair <= issued
      /\ NextAt(p, S("stat", "CA"))
  BY <1>0, Facts
<1>2. InCA(p, 2) /\ Tail(op[p].todo) = From(MakeCA, 3)
  BY <1>1, CATails DEF NextAt, InCA
<1>3. UNCHANGED <<disk, issuer, issued, expired, copy, guest, damaged, kept>>
  BY DEF StatKey, files
<1>4. FileTypes'
  BY <1>1, <1>3 DEF FileTypes
<1>5. CASE disk["CA"].key = None /\ Go(p, << >>)
  <2>1. Moved(p, From(MakeCA, 3), op[p].pair, op[p].ca)
    BY <1>1, <1>2, <1>5, GoOn DEF Go
  <2>2. InCA(p, 3)'
    BY <1>2, <1>3, <1>5, <2>1 DEF InCA, MakingCA, Moved, Quiet, Sound
  <2>3. Place(p)'
    BY <2>2 DEF Place
  <2> QED BY <1>1, <1>3, <1>4, <2>1, <2>3, MoveOnly
<1>6. CASE disk["CA"].key # None /\ Fail(p)
  <2>1. damaged \/ mixed
    BY <1>2, <1>6 DEF InCA, MakingCA, Quiet
  <2>2. mixed' = mixed
    BY <1>6 DEF Fail, End
  <2>3. Calm'
    BY <1>3, <2>1, <2>2 DEF Calm, Quiet
  <2> QED BY <1>1, <1>3, <1>4, <1>6, <2>1, <2>3, FailKeeps DEF FileTypes
<1> QED BY <1>5, <1>6 DEF StatKey

LEMMA StatKeyClient ==
    ASSUME FilesInv, NEW p \in Procs, StatKey(p, "client")
    PROVE  FilesInv'
<1>0. At(p, S("stat", "client"))
  BY DEF StatKey
<1>1. /\ TypeOK /\ FileTypes /\ ~Idle(p) /\ op[p].todo # << >>
      /\ op[p].pair \in 0..MaxPairs /\ op[p].ca \in Content /\ op[p].pair <= issued
      /\ NextAt(p, S("stat", "client"))
  BY <1>0, Facts
<1>2. InClient(p, 2) /\ Tail(op[p].todo) = From(MakeClient, 3)
  BY <1>1, ClientTails DEF NextAt, InClient
<1>3. UNCHANGED <<disk, issuer, issued, expired, copy, guest, damaged, kept>>
  BY DEF StatKey, files
<1>4. FileTypes'
  BY <1>1, <1>3 DEF FileTypes
<1>5. CASE disk["client"].key = None /\ Go(p, << >>)
  <2>1. Moved(p, From(MakeClient, 3), op[p].pair, op[p].ca)
    BY <1>1, <1>2, <1>5, GoOn DEF Go
  <2>2. InClient(p, 3)'
    BY <1>2, <1>3, <1>5, <2>1 DEF InClient, MakingClient, Moved, Quiet, Whole
  <2>3. Place(p)'
    BY <2>2 DEF Place
  <2> QED BY <1>1, <1>3, <1>4, <2>1, <2>3, MoveOnly
<1>6. CASE disk["client"].key # None /\ Fail(p)
  <2>1. damaged \/ mixed
    BY <1>2, <1>6 DEF InClient, MakingClient, Quiet
  <2>2. mixed' = mixed
    BY <1>6 DEF Fail, End
  <2>3. Calm'
    BY <1>3, <2>1, <2>2 DEF Calm, Quiet
  <2> QED BY <1>1, <1>3, <1>4, <1>6, <2>1, <2>3, FailKeeps DEF FileTypes
<1> QED BY <1>5, <1>6 DEF StatKey

LEMMA OpenCertCA ==
    ASSUME FilesInv, NEW p \in Procs, OpenCert(p, "CA")
    PROVE  FilesInv'
<1>0. At(p, S("opencert", "CA"))
  BY DEF OpenCert
<1>1. /\ TypeOK /\ FileTypes /\ PairsMatch /\ Numbered /\ ~Idle(p) /\ op[p].todo # << >>
      /\ op[p].ca \in Content /\ NextAt(p, S("opencert", "CA"))
  BY <1>0, Facts
<1>2. InCA(p, 3) /\ Tail(op[p].todo) = From(MakeCA, 4)
  BY <1>1, CATails DEF NextAt, InCA
<1>3. /\ Generate(p, "CA") /\ UNCHANGED <<expired, copy, guest, kept>>
      /\ \/ disk' = [disk EXCEPT !["CA"].cert = Empty] /\ damaged' = damaged
         \/ disk' = disk /\ damaged' = TRUE
      /\ mixed' = mixed
  BY DEF OpenCert, GoWith, Fail, End
<1>4. issued + 1 \in 1..MaxPairs
  BY <1>1, <1>3, CertAssumption DEF Generate, FileTypes
<1>5. /\ issued + 1 \in 1..MaxPairs /\ issued' = issued + 1
      /\ issuer' \in [Pairs -> 0..MaxPairs] /\ \A n \in 1..issued : issuer'[n] = issuer[n]
      /\ issuer'[issued + 1] = issued + 1
  <2>1. "client" # "CA" /\ issued + 1 \in 1..MaxPairs /\ issued \in Nat
    BY <1>1, <1>3, CertAssumption DEF Generate, FileTypes
  <2> QED BY <1>1, <1>3, <1>4, <2>1, CertAssumption DEF Generate, FileTypes, Pairs
<1>6. FileTypes' /\ issued <= issued' /\ (damaged => damaged')
  <2>1. Empty \in Content
    BY CertAssumption DEF Content, Empty
  <2>2. disk' \in [Kinds -> [cert : Content, key : Content]]
    BY <1>1, <1>3, <2>1, CertWritten DEF FileTypes, Kinds
  <2>3. issued' \in 0..MaxPairs /\ expired' \in 0..issued' /\ issued <= issued'
    BY <1>1, <1>3, <1>5, CertAssumption DEF FileTypes
  <2>4. damaged' \in BOOLEAN /\ (damaged => damaged')
    <3>1. damaged \in BOOLEAN
      BY <1>1 DEF FileTypes
    <3>2. damaged' = damaged \/ damaged' = TRUE
      BY <1>3
    <3> QED BY <3>1, <3>2
  <2> QED BY <1>1, <1>3, <1>5, <2>2, <2>3, <2>4 DEF FileTypes
<1>7. CASE /\ disk' = [disk EXCEPT !["CA"].cert = Empty] /\ UNCHANGED damaged
           /\ GoWith(p, << >>, issued + 1, op[p].ca)
  <2>1. Moved(p, From(MakeCA, 4), issued + 1, op[p].ca)
    <3>1. issued + 1 \in 0..MaxPairs
      BY <1>5
    <3> QED BY <1>1, <1>2, <1>7, <3>1, GoOn
  <2>2. /\ disk'["CA"].cert = Empty /\ disk'["CA"].key = disk["CA"].key
        /\ disk'["client"] = disk["client"]
    <3>1. Empty \in Content
      BY CertAssumption DEF Content, Empty
    <3> QED BY <1>1, <1>7, <3>1, CertWritten DEF FileTypes, Kinds
  <2>3. PairsMatch'
    BY <1>1, <2>1, <2>2 DEF PairsMatch, Moved, Kinds, Empty
  <2>4. \A j \in Kinds : disk'[j].cert <= issued'
    <3>1. disk["client"].cert <= issued /\ disk["client"].cert \in Content
      BY <1>1 DEF Numbered, FileTypes, Kinds
    <3>2. disk'["client"].cert <= issued' /\ disk'["CA"].cert <= issued'
      BY <1>1, <1>5, <2>2, <3>1, CertAssumption DEF FileTypes, Content, Empty
    <3> QED BY <3>2 DEF Kinds
  <2>5. /\ op'[p].pair = issued + 1 /\ issued + 1 > 0 /\ issued + 1 > expired
        /\ disk'["CA"].cert \in {issued + 1, Empty}
    BY <1>1, <1>5, <2>1, <2>2, CertAssumption DEF Moved, FileTypes
  <2>6. InCA(p, 4)'
    BY <1>2, <1>3, <1>5, <1>7, <2>1, <2>2, <2>5 DEF InCA, MakingCA, Moved, Quiet, Sound
  <2>7. Place(p)'
    BY <2>6 DEF Place
  <2>8. issued + 1 <= issued'
    BY <1>5
  <2> QED BY <1>1, <1>6, <2>1, <2>3, <2>4, <2>7, <2>8, MoveKeeps
<1>8. CASE Fail(p) /\ disk' = disk /\ damaged' = TRUE
  <2>1. Calm'
    BY <1>8 DEF Calm, Quiet
  <2> QED BY <1>1, <1>6, <1>8, <2>1, FailKeeps
<1> QED BY <1>7, <1>8 DEF OpenCert

LEMMA WriteCertCA ==
    ASSUME FilesInv, NEW p \in Procs, WriteCert(p, "CA")
    PROVE  FilesInv'
<1>0. At(p, S("writecert", "CA"))
  BY DEF WriteCert
<1>1. /\ TypeOK /\ FileTypes /\ PairsMatch /\ Numbered /\ ~Idle(p) /\ op[p].todo # << >>
      /\ op[p].pair \in 0..MaxPairs /\ op[p].ca \in Content /\ op[p].pair <= issued
      /\ NextAt(p, S("writecert", "CA"))
  BY <1>0, Facts
<1>2. InCA(p, 4) /\ Tail(op[p].todo) = From(MakeCA, 5)
  BY <1>1, CATails DEF NextAt, InCA
<1>3. Moved(p, From(MakeCA, 5), op[p].pair, op[p].ca)
  BY <1>1, <1>2, GoOn DEF Go, WriteCert
<1>4. /\ UNCHANGED <<issuer, issued, expired, copy, guest, kept>>
      /\ \/ disk' = [disk EXCEPT !["CA"].cert = op[p].pair] /\ damaged' = damaged
         \/ disk' = disk /\ damaged' = TRUE
  BY DEF WriteCert
<1>5. /\ disk' \in [Kinds -> [cert : Content, key : Content]]
      /\ disk'["CA"].key = disk["CA"].key /\ disk'["client"] = disk["client"]
      /\ \/ disk'["CA"].cert = op[p].pair /\ damaged' = damaged
         \/ disk'["CA"].cert = disk["CA"].cert /\ damaged' = TRUE
  <2>1. op[p].pair \in Content
    BY <1>1, CertAssumption DEF Content
  <2> QED BY <1>1, <1>4, <2>1, CertWritten DEF FileTypes, Kinds
<1>6. FileTypes'
  BY <1>1, <1>4, <1>5 DEF FileTypes
<1>7. PairsMatch'
  BY <1>1, <1>2, <1>3, <1>5 DEF PairsMatch, Moved, Kinds, InCA, MakingCA, None
<1>8. /\ \A j \in Kinds : disk'[j].cert <= issued'
      /\ op[p].pair <= issued' /\ issued <= issued' /\ (damaged => damaged')
  <2>1. \A j \in Kinds : disk'[j].cert <= issued'
    BY <1>1, <1>4, <1>5 DEF Numbered, Kinds
  <2> QED BY <1>1, <1>4, <2>1 DEF FileTypes
<1>9. InCA(p, 5)'
  BY <1>2, <1>3, <1>4, <1>5 DEF InCA, MakingCA, Moved, Quiet, Sound
<1>10. Place(p)'
  BY <1>9 DEF Place
<1> QED BY <1>1, <1>3, <1>6, <1>7, <1>8, <1>10, MoveKeeps

LEMMA OpenKeyCA ==
    ASSUME FilesInv, NEW p \in Procs, OpenKey(p, "CA")
    PROVE  FilesInv'
<1>0. At(p, S("openkey", "CA"))
  BY DEF OpenKey
<1>1. /\ TypeOK /\ FileTypes /\ PairsMatch /\ Numbered /\ ~Idle(p) /\ op[p].todo # << >>
      /\ op[p].pair \in 0..MaxPairs /\ op[p].ca \in Content /\ op[p].pair <= issued
      /\ NextAt(p, S("openkey", "CA"))
  BY <1>0, Facts
<1>2. InCA(p, 5) /\ Tail(op[p].todo) = From(MakeCA, 6)
  BY <1>1, CATails DEF NextAt, InCA
<1>3. UNCHANGED <<issuer, issued, expired, copy, guest, kept>>
  BY DEF OpenKey
<1>4. CASE disk' = [disk EXCEPT !["CA"].key = Empty] /\ Go(p, << >>) /\ UNCHANGED damaged
  <2>1. Moved(p, From(MakeCA, 6), op[p].pair, op[p].ca)
    BY <1>1, <1>2, <1>4, GoOn DEF Go
  <2>2. /\ disk' \in [Kinds -> [cert : Content, key : Content]]
        /\ disk'["CA"].key = Empty /\ disk'["CA"].cert = disk["CA"].cert
        /\ disk'["client"] = disk["client"]
    <3>1. Empty \in Content
      BY CertAssumption DEF Content, Empty
    <3> QED BY <1>1, <1>4, <3>1, KeyWritten DEF FileTypes, Kinds
  <2>3. FileTypes'
    BY <1>1, <1>3, <1>4, <2>2 DEF FileTypes
  <2>4. PairsMatch'
    BY <1>1, <2>1, <2>2 DEF PairsMatch, Moved, Kinds, Empty
  <2>5. /\ \A j \in Kinds : disk'[j].cert <= issued'
        /\ op[p].pair <= issued' /\ issued <= issued' /\ (damaged => damaged')
    BY <1>1, <1>3, <1>4, <2>2 DEF Numbered, FileTypes, Kinds
  <2>6. InCA(p, 6)'
    BY <1>2, <1>3, <1>4, <2>1, <2>2 DEF InCA, MakingCA, Moved, Quiet, Sound
  <2>7. Place(p)'
    BY <2>6 DEF Place
  <2> QED BY <1>1, <2>1, <2>3, <2>4, <2>5, <2>7, MoveKeeps
<1>5. CASE Fail(p) /\ UNCHANGED disk /\ damaged' = TRUE
  <2>1. Calm' /\ FileTypes' /\ issued <= issued'
    BY <1>1, <1>3, <1>5 DEF Calm, Quiet, FileTypes
  <2> QED BY <1>1, <1>5, <2>1, FailKeeps
<1> QED BY <1>4, <1>5 DEF OpenKey

LEMMA WriteKeyCA ==
    ASSUME FilesInv, NEW p \in Procs, WriteKey(p, "CA")
    PROVE  FilesInv'
<1>0. At(p, S("writekey", "CA"))
  BY DEF WriteKey
<1>1. /\ TypeOK /\ FileTypes /\ PairsMatch /\ Numbered /\ ~Idle(p) /\ op[p].todo # << >>
      /\ op[p].pair \in 0..MaxPairs /\ op[p].ca \in Content /\ op[p].pair <= issued
      /\ NextAt(p, S("writekey", "CA"))
  BY <1>0, Facts
<1>2. InCA(p, 6) /\ Tail(op[p].todo) = B2
  BY <1>1, CATails DEF NextAt, InCA
<1>3. Moved(p, B2, op[p].pair, op[p].ca)
  BY <1>1, <1>2, GoOn DEF Go, WriteKey
<1>4. /\ UNCHANGED <<issuer, issued, expired, copy, guest, kept>>
      /\ \/ disk' = [disk EXCEPT !["CA"].key = op[p].pair] /\ damaged' = damaged
         \/ disk' = disk /\ damaged' = TRUE
  BY DEF WriteKey
<1>5. /\ disk' \in [Kinds -> [cert : Content, key : Content]]
      /\ disk'["CA"].cert = disk["CA"].cert /\ disk'["client"] = disk["client"]
      /\ \/ disk'["CA"].key = op[p].pair /\ damaged' = damaged
         \/ disk'["CA"].key = disk["CA"].key /\ damaged' = TRUE
  <2>1. op[p].pair \in Content
    BY <1>1, CertAssumption DEF Content
  <2> QED BY <1>1, <1>4, <2>1, KeyWritten DEF FileTypes, Kinds
<1>6. FileTypes'
  BY <1>1, <1>4, <1>5 DEF FileTypes
<1>7. PairsMatch'
  BY <1>1, <1>2, <1>3, <1>5 DEF PairsMatch, Moved, Kinds, InCA, MakingCA, Empty
<1>8. /\ \A j \in Kinds : disk'[j].cert <= issued'
      /\ op[p].pair <= issued' /\ issued <= issued' /\ (damaged => damaged')
  BY <1>1, <1>4, <1>5 DEF Numbered, FileTypes, Kinds
<1>9. CASE damaged' = TRUE
  <2>1. Place(p)'
    BY <1>2, <1>3, <1>9 DEF Place, InCA, Moved, Calm, Quiet
  <2> QED BY <1>1, <1>3, <1>6, <1>7, <1>8, <2>1, MoveKeeps
<1>10. CASE disk'["CA"].key = op[p].pair /\ damaged' = damaged
  <2>1. op[p].pair > 0 /\ op[p].pair # Empty
    BY <1>2, <1>1, CertAssumption DEF InCA, MakingCA, Empty
  <2>2. Quiet' => Quiet /\ Sound("client")' /\ Whole("CA")' /\ Sound("CA")'
    BY <1>2, <1>3, <1>5, <1>10, <2>1 DEF InCA, MakingCA, Moved, Quiet, Sound, Whole
  <2>3. Quiet' /\ ~kept' => ~(disk'["client"].cert > expired')
    <3>1. disk["client"].cert \in Int /\ expired \in Int
      BY <1>1, CertAssumption DEF FileTypes, Content, Kinds
    <3> QED BY <1>2, <1>4, <1>5, <2>2, <3>1 DEF InCA, MakingCA
  <2>4. Calm'
    BY <2>2, <2>3 DEF Calm
  <2>5. Place(p)'
    BY <1>2, <1>3, <2>2, <2>4 DEF Place, InCA, Moved
  <2> QED BY <1>1, <1>3, <1>6, <1>7, <1>8, <2>5, MoveKeeps
<1> QED BY <1>5, <1>9, <1>10

LEMMA OpenCertClient ==
    ASSUME FilesInv, NEW p \in Procs, OpenCert(p, "client")
    PROVE  FilesInv'
<1>0. At(p, S("opencert", "client"))
  BY DEF OpenCert
<1>1. /\ TypeOK /\ FileTypes /\ PairsMatch /\ Numbered /\ ~Idle(p) /\ op[p].todo # << >>
      /\ op[p].ca \in Content /\ NextAt(p, S("opencert", "client"))
  BY <1>0, Facts
<1>2. InClient(p, 5) /\ Tail(op[p].todo) = From(MakeClient, 6)
  BY <1>1, ClientTails DEF NextAt, InClient
<1>3. /\ Generate(p, "client") /\ UNCHANGED <<expired, copy, guest, kept>>
      /\ \/ disk' = [disk EXCEPT !["client"].cert = Empty] /\ damaged' = damaged
         \/ disk' = disk /\ damaged' = TRUE
      /\ mixed' = mixed
  BY DEF OpenCert, GoWith, Fail, End
<1>4. op[p].ca \in 1..MaxPairs
  BY <1>1, <1>2, CertAssumption DEF InClient, MakingClient, Content
<1>5. /\ issued + 1 \in 1..MaxPairs /\ issued' = issued + 1
      /\ issuer' \in [Pairs -> 0..MaxPairs] /\ \A n \in 1..issued : issuer'[n] = issuer[n]
      /\ issuer'[issued + 1] = op[p].ca
  <2>1. "client" # "CA" /\ issued + 1 \in 1..MaxPairs /\ issued \in Nat
    BY <1>1, <1>3, CertAssumption DEF Generate, FileTypes
  <2> QED BY <1>1, <1>3, <1>4, <2>1, CertAssumption DEF Generate, FileTypes, Pairs
<1>6. FileTypes' /\ issued <= issued' /\ (damaged => damaged')
  <2>1. Empty \in Content
    BY CertAssumption DEF Content, Empty
  <2>2. disk' \in [Kinds -> [cert : Content, key : Content]]
    BY <1>1, <1>3, <2>1, CertWritten DEF FileTypes, Kinds
  <2>3. issued' \in 0..MaxPairs /\ expired' \in 0..issued' /\ issued <= issued'
    BY <1>1, <1>3, <1>5, CertAssumption DEF FileTypes
  <2>4. damaged' \in BOOLEAN /\ (damaged => damaged')
    <3>1. damaged \in BOOLEAN
      BY <1>1 DEF FileTypes
    <3>2. damaged' = damaged \/ damaged' = TRUE
      BY <1>3
    <3> QED BY <3>1, <3>2
  <2> QED BY <1>1, <1>3, <1>5, <2>2, <2>3, <2>4 DEF FileTypes
<1>7. CASE /\ disk' = [disk EXCEPT !["client"].cert = Empty] /\ UNCHANGED damaged
           /\ GoWith(p, << >>, issued + 1, op[p].ca)
  <2>1. Moved(p, From(MakeClient, 6), issued + 1, op[p].ca)
    <3>1. issued + 1 \in 0..MaxPairs
      BY <1>5
    <3> QED BY <1>1, <1>2, <1>7, <3>1, GoOn
  <2>2. /\ disk'["client"].cert = Empty /\ disk'["client"].key = disk["client"].key
        /\ disk'["CA"] = disk["CA"]
    <3>1. Empty \in Content
      BY CertAssumption DEF Content, Empty
    <3> QED BY <1>1, <1>7, <3>1, CertWritten DEF FileTypes, Kinds
  <2>3. PairsMatch'
    BY <1>1, <2>1, <2>2 DEF PairsMatch, Moved, Kinds, Empty
  <2>4. \A j \in Kinds : disk'[j].cert <= issued'
    <3>1. disk["CA"].cert <= issued /\ disk["CA"].cert \in Content
      BY <1>1 DEF Numbered, FileTypes, Kinds
    <3>2. disk'["CA"].cert <= issued' /\ disk'["client"].cert <= issued'
      BY <1>1, <1>5, <2>2, <3>1, CertAssumption DEF FileTypes, Content, Empty
    <3> QED BY <3>2 DEF Kinds
  <2>5. /\ op'[p].pair = issued + 1 /\ issued + 1 > 0 /\ issued + 1 > expired
        /\ disk'["client"].cert \in {issued + 1, Empty}
    BY <1>1, <1>5, <2>1, <2>2, CertAssumption DEF Moved, FileTypes
  <2>6. InClient(p, 6)'
    BY <1>2, <1>3, <1>5, <1>7, <2>1, <2>2, <2>5 DEF InClient, MakingClient, Moved, Quiet, Whole
  <2>7. Place(p)'
    BY <2>6 DEF Place
  <2>8. issued + 1 <= issued'
    BY <1>5
  <2> QED BY <1>1, <1>6, <2>1, <2>3, <2>4, <2>7, <2>8, MoveKeeps
<1>8. CASE Fail(p) /\ disk' = disk /\ damaged' = TRUE
  <2>1. Calm'
    BY <1>8 DEF Calm, Quiet
  <2> QED BY <1>1, <1>6, <1>8, <2>1, FailKeeps
<1> QED BY <1>7, <1>8 DEF OpenCert

LEMMA WriteCertClient ==
    ASSUME FilesInv, NEW p \in Procs, WriteCert(p, "client")
    PROVE  FilesInv'
<1>0. At(p, S("writecert", "client"))
  BY DEF WriteCert
<1>1. /\ TypeOK /\ FileTypes /\ PairsMatch /\ Numbered /\ ~Idle(p) /\ op[p].todo # << >>
      /\ op[p].pair \in 0..MaxPairs /\ op[p].ca \in Content /\ op[p].pair <= issued
      /\ NextAt(p, S("writecert", "client"))
  BY <1>0, Facts
<1>2. InClient(p, 6) /\ Tail(op[p].todo) = From(MakeClient, 7)
  BY <1>1, ClientTails DEF NextAt, InClient
<1>3. Moved(p, From(MakeClient, 7), op[p].pair, op[p].ca)
  BY <1>1, <1>2, GoOn DEF Go, WriteCert
<1>4. /\ UNCHANGED <<issuer, issued, expired, copy, guest, kept>>
      /\ \/ disk' = [disk EXCEPT !["client"].cert = op[p].pair] /\ damaged' = damaged
         \/ disk' = disk /\ damaged' = TRUE
  BY DEF WriteCert
<1>5. /\ disk' \in [Kinds -> [cert : Content, key : Content]]
      /\ disk'["client"].key = disk["client"].key /\ disk'["CA"] = disk["CA"]
      /\ \/ disk'["client"].cert = op[p].pair /\ damaged' = damaged
         \/ disk'["client"].cert = disk["client"].cert /\ damaged' = TRUE
  <2>1. op[p].pair \in Content
    BY <1>1, CertAssumption DEF Content
  <2> QED BY <1>1, <1>4, <2>1, CertWritten DEF FileTypes, Kinds
<1>6. FileTypes'
  BY <1>1, <1>4, <1>5 DEF FileTypes
<1>7. PairsMatch'
  BY <1>1, <1>2, <1>3, <1>5 DEF PairsMatch, Moved, Kinds, InClient, MakingClient, None
<1>8. /\ \A j \in Kinds : disk'[j].cert <= issued'
      /\ op[p].pair <= issued' /\ issued <= issued' /\ (damaged => damaged')
  <2>1. \A j \in Kinds : disk'[j].cert <= issued'
    BY <1>1, <1>4, <1>5 DEF Numbered, Kinds
  <2> QED BY <1>1, <1>4, <2>1 DEF FileTypes
<1>9. InClient(p, 7)'
  BY <1>2, <1>3, <1>4, <1>5 DEF InClient, MakingClient, Moved, Quiet, Whole
<1>10. Place(p)'
  BY <1>9 DEF Place
<1> QED BY <1>1, <1>3, <1>6, <1>7, <1>8, <1>10, MoveKeeps

LEMMA OpenKeyClient ==
    ASSUME FilesInv, NEW p \in Procs, OpenKey(p, "client")
    PROVE  FilesInv'
<1>0. At(p, S("openkey", "client"))
  BY DEF OpenKey
<1>1. /\ TypeOK /\ FileTypes /\ PairsMatch /\ Numbered /\ ~Idle(p) /\ op[p].todo # << >>
      /\ op[p].pair \in 0..MaxPairs /\ op[p].ca \in Content /\ op[p].pair <= issued
      /\ NextAt(p, S("openkey", "client"))
  BY <1>0, Facts
<1>2. InClient(p, 7) /\ Tail(op[p].todo) = From(MakeClient, 8)
  BY <1>1, ClientTails DEF NextAt, InClient
<1>3. UNCHANGED <<issuer, issued, expired, copy, guest, kept>>
  BY DEF OpenKey
<1>4. CASE disk' = [disk EXCEPT !["client"].key = Empty] /\ Go(p, << >>) /\ UNCHANGED damaged
  <2>1. Moved(p, From(MakeClient, 8), op[p].pair, op[p].ca)
    BY <1>1, <1>2, <1>4, GoOn DEF Go
  <2>2. /\ disk' \in [Kinds -> [cert : Content, key : Content]]
        /\ disk'["client"].key = Empty /\ disk'["client"].cert = disk["client"].cert
        /\ disk'["CA"] = disk["CA"]
    <3>1. Empty \in Content
      BY CertAssumption DEF Content, Empty
    <3> QED BY <1>1, <1>4, <3>1, KeyWritten DEF FileTypes, Kinds
  <2>3. FileTypes'
    BY <1>1, <1>3, <1>4, <2>2 DEF FileTypes
  <2>4. PairsMatch'
    BY <1>1, <2>1, <2>2 DEF PairsMatch, Moved, Kinds, Empty
  <2>5. /\ \A j \in Kinds : disk'[j].cert <= issued'
        /\ op[p].pair <= issued' /\ issued <= issued' /\ (damaged => damaged')
    BY <1>1, <1>3, <1>4, <2>2 DEF Numbered, FileTypes, Kinds
  <2>6. InClient(p, 8)'
    BY <1>2, <1>3, <1>4, <2>1, <2>2 DEF InClient, MakingClient, Moved, Quiet, Whole
  <2>7. Place(p)'
    BY <2>6 DEF Place
  <2> QED BY <1>1, <2>1, <2>3, <2>4, <2>5, <2>7, MoveKeeps
<1>5. CASE Fail(p) /\ UNCHANGED disk /\ damaged' = TRUE
  <2>1. Calm' /\ FileTypes' /\ issued <= issued'
    BY <1>1, <1>3, <1>5 DEF Calm, Quiet, FileTypes
  <2> QED BY <1>1, <1>5, <2>1, FailKeeps
<1> QED BY <1>4, <1>5 DEF OpenKey

LEMMA WriteKeyClient ==
    ASSUME FilesInv, NEW p \in Procs, WriteKey(p, "client")
    PROVE  FilesInv'
<1>0. At(p, S("writekey", "client"))
  BY DEF WriteKey
<1>1. /\ TypeOK /\ FileTypes /\ PairsMatch /\ Numbered /\ ~Idle(p) /\ op[p].todo # << >>
      /\ op[p].pair \in 0..MaxPairs /\ op[p].ca \in Content /\ op[p].pair <= issued
      /\ NextAt(p, S("writekey", "client"))
  BY <1>0, Facts
<1>2. InClient(p, 8) /\ Tail(op[p].todo) = B3
  BY <1>1, ClientTails DEF NextAt, InClient
<1>3. Moved(p, B3, op[p].pair, op[p].ca)
  BY <1>1, <1>2, GoOn DEF Go, WriteKey
<1>4. /\ UNCHANGED <<issuer, issued, expired, copy, guest, kept>>
      /\ \/ disk' = [disk EXCEPT !["client"].key = op[p].pair] /\ damaged' = damaged
         \/ disk' = disk /\ damaged' = TRUE
  BY DEF WriteKey
<1>5. /\ disk' \in [Kinds -> [cert : Content, key : Content]]
      /\ disk'["client"].cert = disk["client"].cert /\ disk'["CA"] = disk["CA"]
      /\ \/ disk'["client"].key = op[p].pair /\ damaged' = damaged
         \/ disk'["client"].key = disk["client"].key /\ damaged' = TRUE
  <2>1. op[p].pair \in Content
    BY <1>1, CertAssumption DEF Content
  <2> QED BY <1>1, <1>4, <2>1, KeyWritten DEF FileTypes, Kinds
<1>6. FileTypes'
  BY <1>1, <1>4, <1>5 DEF FileTypes
<1>7. PairsMatch'
  BY <1>1, <1>2, <1>3, <1>5 DEF PairsMatch, Moved, Kinds, InClient, MakingClient, Empty
<1>8. /\ \A j \in Kinds : disk'[j].cert <= issued'
      /\ op[p].pair <= issued' /\ issued <= issued' /\ (damaged => damaged')
  BY <1>1, <1>4, <1>5 DEF Numbered, FileTypes, Kinds
<1>9. CASE damaged' = TRUE
  <2>1. Calm' /\ Ready(p)' /\ ~Idle(p)'
    BY <1>1, <1>3, <1>9 DEF Moved, Calm, Ready, Quiet, Idle
  <2>2. Place(p)'
    BY <1>3, <2>1 DEF Place, Moved
  <2> QED BY <1>1, <1>3, <1>6, <1>7, <1>8, <2>2, MoveKeeps
<1>10. CASE disk'["client"].key = op[p].pair /\ damaged' = damaged
  <2>1. op[p].pair > 0 /\ op[p].pair # Empty
    BY <1>2, <1>1, CertAssumption DEF InClient, MakingClient, Empty
  <2>2. disk["CA"].cert > 0 => disk["CA"].cert # Empty
    BY <1>1, CertAssumption DEF Empty, FileTypes, Content, Kinds
  <2>3. Quiet' => /\ Sound("client")' /\ Sound("CA")' /\ disk'["client"].cert > expired'
                  /\ issuer'[disk'["client"].cert] = disk'["CA"].cert
    BY <1>2, <1>3, <1>4, <1>5, <1>10, <2>1, <2>2
       DEF InClient, MakingClient, Moved, Quiet, Sound, Whole
  <2>4. Calm' /\ Ready(p)' /\ ~Idle(p)'
    BY <1>1, <1>3, <2>3 DEF Calm, Ready, Moved, Idle
  <2>5. Place(p)'
    BY <1>3, <2>4 DEF Place, Moved
  <2> QED BY <1>1, <1>3, <1>6, <1>7, <1>8, <2>5, MoveKeeps
<1> QED BY <1>5, <1>9, <1>10

LEMMA LoadCertKeeps ==
    ASSUME FilesInv, NEW p \in Procs, LoadCert(p)
    PROVE  FilesInv'
<1>0. At(p, S("loadcert", "client"))
  BY DEF LoadCert
<1>1. /\ TypeOK /\ FileTypes /\ Numbered /\ ~Idle(p) /\ op[p].todo # << >>
      /\ disk["CA"].cert \in Content /\ NextAt(p, S("loadcert", "client"))
  BY <1>0, Facts
<1>2. UNCHANGED <<disk, issuer, issued, expired, copy, guest, damaged, kept>>
  BY DEF LoadCert, files
<1>3. FileTypes'
  BY <1>1, <1>2 DEF FileTypes
<1>4. ASSUME disk["CA"].cert > 0, NEW t, Tail(op[p].todo) = t
      PROVE  GoWith(p, << >>, 0, disk["CA"].cert) => Moved(p, t, 0, disk["CA"].cert)
  <2>1. 0 \in 0..MaxPairs
    BY CertAssumption
  <2> QED BY <1>1, <1>4, <2>1, GoOn
<1>5. 0 <= issued
  BY <1>1, CertAssumption DEF FileTypes
<1>6. mixed' = mixed
  BY DEF LoadCert, GoWith, Fail, End
<1>7. CASE InClient(p, 3)
  <2>1. Tail(op[p].todo) = From(MakeClient, 4)
    BY <1>7, ClientTails DEF InClient
  <2>2. CASE disk["CA"].cert > 0 /\ GoWith(p, << >>, 0, disk["CA"].cert)
    <3>1. Moved(p, From(MakeClient, 4), 0, disk["CA"].cert)
      BY <1>4, <2>1, <2>2
    <3>2. InClient(p, 4)'
      BY <1>2, <1>7, <2>2, <3>1 DEF InClient, MakingClient, Moved, Quiet, Whole
    <3>3. Place(p)'
      BY <3>2 DEF Place
    <3> QED BY <1>1, <1>2, <1>3, <1>5, <3>1, <3>3, MoveOnly
  <2>3. CASE disk["CA"].cert <= 0 /\ Fail(p)
    <3>1. ~(disk["CA"].cert > 0)
      BY <1>1, <2>3, CertAssumption DEF Content
    <3>2. damaged \/ mixed
      BY <1>7, <3>1 DEF InClient, MakingClient, Quiet, Whole
    <3>3. Calm'
      BY <1>2, <1>6, <3>2 DEF Calm, Quiet
    <3> QED BY <1>1, <1>2, <1>3, <2>3, <3>2, <3>3, FailKeeps DEF FileTypes
  <2> QED BY <2>2, <2>3 DEF LoadCert
<1>8. CASE InProvide(p, 6)
  <2>1. Tail(op[p].todo) = From(Provide, 7)
    BY <1>8, ProvideTails DEF InProvide
  <2>2. CASE disk["CA"].cert > 0 /\ GoWith(p, << >>, 0, disk["CA"].cert)
    <3>1. Moved(p, From(Provide, 7), 0, disk["CA"].cert)
      BY <1>4, <2>1, <2>2
    <3>2. Providing(p, 7)'
      BY <1>2, <1>8, <2>2, <3>1 DEF InProvide, Providing, Moved
    <3>3. InProvide(p, 7)'
      BY <1>2, <1>8, <3>1, <3>2 DEF InProvide, Moved, Idle, Calm, Ready, Quiet, Sound
    <3>4. Place(p)'
      BY <3>3 DEF Place
    <3> QED BY <1>1, <1>2, <1>3, <1>5, <3>1, <3>4, MoveOnly
  <2>3. CASE Fail(p)
    <3>1. ~Bootstrapping(p)
      BY <1>8, NotBootstrapping DEF InProvide
    <3>2. Calm'
      BY <1>2, <1>6, <1>8 DEF InProvide, Calm, Quiet, Sound
    <3> QED BY <1>1, <1>2, <1>3, <2>3, <3>1, <3>2, FailKeeps DEF FileTypes
  <2> QED BY <2>2, <2>3 DEF LoadCert
<1> QED BY <1>1, <1>7, <1>8 DEF NextAt

LEMMA LoadKeyKeeps ==
    ASSUME FilesInv, NEW p \in Procs, LoadKey(p)
    PROVE  FilesInv'
<1>0. At(p, S("loadkey", "client"))
  BY DEF LoadKey
<1>1. /\ TypeOK /\ FileTypes /\ Numbered /\ ~Idle(p) /\ op[p].todo # << >>
      /\ op[p].pair \in 0..MaxPairs /\ op[p].ca \in Content /\ op[p].pair <= issued
      /\ NextAt(p, S("loadkey", "client"))
  BY <1>0, Facts
<1>2. UNCHANGED <<disk, issuer, issued, expired, copy, guest, damaged, kept>>
  BY DEF LoadKey, files
<1>3. FileTypes'
  BY <1>1, <1>2 DEF FileTypes
<1>6. mixed' = mixed
  BY DEF LoadKey, GoWith, Go, Fail, End
<1>7. CASE InClient(p, 4)
  <2>1. Tail(op[p].todo) = From(MakeClient, 5)
    BY <1>7, ClientTails DEF InClient
  <2>2. CASE Go(p, << >>)
    <3>1. Moved(p, From(MakeClient, 5), op[p].pair, op[p].ca)
      BY <1>1, <2>1, <2>2, GoOn DEF Go
    <3>2. InClient(p, 5)'
      BY <1>2, <1>7, <3>1 DEF InClient, MakingClient, Moved, Quiet, Whole
    <3>3. Place(p)'
      BY <3>2 DEF Place
    <3> QED BY <1>1, <1>2, <1>3, <3>1, <3>3, MoveOnly
  <2>3. CASE disk["CA"].key # op[p].ca /\ Fail(p)
    <3>2. damaged \/ mixed
      BY <1>7, <2>3 DEF InClient, MakingClient, Quiet, Whole
    <3>3. Calm'
      BY <1>2, <1>6, <3>2 DEF Calm, Quiet
    <3> QED BY <1>1, <1>2, <1>3, <2>3, <3>2, <3>3, FailKeeps DEF FileTypes
  <2> QED BY <2>2, <2>3 DEF LoadKey
<1>8. CASE InProvide(p, 7)
  <2>1. Tail(op[p].todo) = From(Provide, 8)
    BY <1>8, ProvideTails DEF InProvide
  <2>2. CASE Go(p, << >>)
    <3>1. Moved(p, From(Provide, 8), op[p].pair, op[p].ca)
      BY <1>1, <2>1, <2>2, GoOn DEF Go
    <3>2. Providing(p, 8)'
      BY <1>2, <1>8, <3>1 DEF InProvide, Providing, Moved
    <3>3. InProvide(p, 8)'
      BY <1>2, <1>8, <3>1, <3>2 DEF InProvide, Moved, Idle, Calm, Ready, Quiet, Sound
    <3>4. Place(p)'
      BY <3>3 DEF Place
    <3> QED BY <1>1, <1>2, <1>3, <3>1, <3>4, MoveOnly
  <2>3. CASE Fail(p)
    <3>1. ~Bootstrapping(p)
      BY <1>8, NotBootstrapping DEF InProvide
    <3>2. Calm'
      BY <1>2, <1>6, <1>8 DEF InProvide, Calm, Quiet, Sound
    <3> QED BY <1>1, <1>2, <1>3, <2>3, <3>1, <3>2, FailKeeps DEF FileTypes
  <2> QED BY <2>2, <2>3 DEF LoadKey
<1> QED BY <1>1, <1>7, <1>8 DEF NextAt
-----------------------------------------------------------------------------
(* The steps of provisioning.                                              *)

LEMMA DetectKeeps ==
    ASSUME FilesInv, NEW p \in Procs, DetectProvisioner(p)
    PROVE  FilesInv'
<1>0. At(p, S("detect", "vm"))
  BY DEF DetectProvisioner
<1>1. /\ TypeOK /\ FileTypes /\ Numbered /\ ~Idle(p) /\ op[p].todo # << >>
      /\ op[p].pair \in 0..MaxPairs /\ op[p].ca \in Content /\ op[p].pair <= issued
      /\ NextAt(p, S("detect", "vm"))
  BY <1>0, Facts
<1>2. op[p].todo = B3 /\ Calm /\ Ready(p) /\ Tail(op[p].todo) = << >>
  BY <1>1, Onward DEF NextAt
<1>3. UNCHANGED <<disk, issuer, issued, expired, copy, guest, damaged, kept>>
  BY DEF DetectProvisioner, files
<1>4. FileTypes'
  BY <1>1, <1>3 DEF FileTypes
<1>5. ASSUME NEW id \in OSes, Provisioner(id) # << >>, Go(p, Provisioner(id))
      PROVE  FilesInv'
  <2>1. Provisioner(id) = Boot2PodmanProvision
    <3>1. RedHatProvision = Boot2PodmanProvision
      BY OthersJoined
    <3> QED BY <1>5, <3>1 DEF Provisioner
  <2>2. Boot2PodmanProvision \in Seq(Steps)
    <3>1. ConfigureAuth \in Seq(Steps)
      BY StepIn DEF ConfigureAuth
    <3>2. <<S("ssh", "vm"), S("ssh", "vm")>> \in Seq(Steps)
      BY StepIn
    <3> QED BY <3>1, <3>2 DEF Boot2PodmanProvision
  <2>3. Moved(p, From(Provide, 1), op[p].pair, op[p].ca)
    <3>1. GoWith(p, Boot2PodmanProvision, op[p].pair, op[p].ca)
      BY <1>5, <2>1 DEF Go
    <3>2. Moved(p, Boot2PodmanProvision \o Tail(op[p].todo), op[p].pair, op[p].ca)
      BY <1>1, <2>2, <3>1, GoMoves
    <3>3. Boot2PodmanProvision \o Tail(op[p].todo) = From(Provide, 1)
      BY <1>2, OthersJoined, Zenon
    <3> QED BY <3>2, <3>3, Zenon
  <2>4. Providing(p, 1)'
    BY DEF Providing
  <2>5. InProvide(p, 1)'
    BY <1>1, <1>2, <1>3, <2>3, <2>4 DEF InProvide, Moved, Idle, Calm, Ready, Quiet, Sound
  <2>6. Place(p)'
    BY <2>5 DEF Place
  <2> QED BY <1>1, <1>3, <1>4, <2>3, <2>6, MoveOnly
<1>6. CASE Fail(p)
  <2>1. ~Bootstrapping(p)
    BY <1>2, NotBootstrapping
  <2>2. Calm'
    BY <1>2, <1>3, <1>6 DEF Calm, Quiet, Sound, Fail, End
  <2> QED BY <1>1, <1>3, <1>4, <1>6, <2>1, <2>2, FailKeeps DEF FileTypes
<1> QED BY <1>5, <1>6 DEF DetectProvisioner

LEMMA ProvideMoves ==
    ASSUME FilesInv, NEW p \in Procs, NEW i, InProvide(p, i), NEW j \in 1..13, NEW n, NEW c,
           Moved(p, From(Provide, j), n, c), FileTypes', n <= issued, Providing(p, j)',
           UNCHANGED <<disk, issuer, issued, expired, damaged, kept>>
    PROVE  FilesInv'
<1>1. InProvide(p, j)'
  BY DEF InProvide, Moved, Idle, Calm, Ready, Quiet, Sound
<1>2. Place(p)'
  BY <1>1 DEF Place
<1>3. ~Idle(p)
  BY DEF InProvide
<1> QED BY <1>2, <1>3, MoveOnly

LEMMA ProvideFails ==
    ASSUME FilesInv, NEW p \in Procs, NEW i \in 1..12, InProvide(p, i), Fail(p), FileTypes',
           UNCHANGED <<disk, issuer, issued, expired, damaged, kept>>
    PROVE  FilesInv'
<1>1. ~Bootstrapping(p) /\ ~Idle(p)
  BY NotBootstrapping DEF InProvide
<1>2. Calm'
  BY DEF InProvide, Calm, Quiet, Sound, Fail, End
<1>3. issued <= issued'
  BY DEF FilesInv, TypeOK
<1> QED BY <1>1, <1>2, <1>3, FailKeeps

\* The files of the machines, in their directories and in the machines.
Rows == [Machines -> [ca : Content, cert : Content, key : Content]]

LEMMA HostnameKeeps ==
    ASSUME FilesInv, NEW p \in Procs, SetHostname(p)
    PROVE  FilesInv'
<1>0. At(p, S("ssh", "vm"))
  BY DEF SetHostname, OnGuest
<1>1. /\ TypeOK /\ FileTypes /\ ~Idle(p) /\ op[p].todo # << >> /\ op[p].m \in Machines
      /\ op[p].pair \in 0..MaxPairs /\ op[p].ca \in Content /\ op[p].pair <= issued
      /\ NextAt(p, S("ssh", "vm"))
  BY <1>0, Facts
<1>2. /\ UNCHANGED <<disk, issuer, issued, expired, copy, damaged, kept>>
      /\ guest' = guest \/ guest' = [guest EXCEPT ![op[p].m] = guest[op[p].m]]
  BY DEF SetHostname, OnGuest
<1>3. guest' = guest
  BY <1>1, <1>2 DEF FileTypes
<1>4. FileTypes'
  BY <1>1, <1>2, <1>3 DEF FileTypes
<1>5. PICK i \in {1, 2} : InProvide(p, i)
  BY <1>1 DEF NextAt
<1>6. CASE Go(p, << >>)
  <2>1. CASE i = 1
    <3>1. Tail(op[p].todo) = From(Provide, 2)
      BY <1>5, <2>1, ProvideTails DEF InProvide
    <3>2. Moved(p, From(Provide, 2), op[p].pair, op[p].ca)
      BY <1>1, <1>6, <3>1, GoOn DEF Go
    <3>3. Providing(p, 2)'
      BY DEF Providing
    <3> QED BY <1>1, <1>2, <1>4, <1>5, <3>2, <3>3, ProvideMoves
  <2>2. CASE i = 2
    <3>1. Tail(op[p].todo) = From(Provide, 3)
      BY <1>5, <2>2, ProvideTails DEF InProvide
    <3>2. Moved(p, From(Provide, 3), op[p].pair, op[p].ca)
      BY <1>1, <1>6, <3>1, GoOn DEF Go
    <3>3. Providing(p, 3)'
      BY DEF Providing
    <3> QED BY <1>1, <1>2, <1>4, <1>5, <3>2, <3>3, ProvideMoves
  <2> QED BY <1>5, <2>1, <2>2
<1>7. CASE Fail(p)
  BY <1>2, <1>4, <1>5, <1>7, ProvideFails
<1> QED BY <1>6, <1>7 DEF SetHostname, OnGuest

LEMMA CopyCAKeeps ==
    ASSUME FilesInv, NEW p \in Procs, CopyShared(p, "copyca", "ca", disk["CA"].cert)
    PROVE  FilesInv'
<1> DEFINE v == disk["CA"].cert
<1>0. At(p, S("copyca", "vm"))
  BY DEF CopyShared
<1>1. /\ TypeOK /\ FileTypes /\ ~Idle(p) /\ op[p].todo # << >> /\ op[p].m \in Machines
      /\ op[p].pair \in 0..MaxPairs /\ op[p].ca \in Content /\ op[p].pair <= issued
      /\ v \in Content /\ NextAt(p, S("copyca", "vm"))
  BY <1>0, Facts
<1>2. InProvide(p, 3) /\ Tail(op[p].todo) = From(Provide, 4)
  BY <1>1, ProvideTails DEF NextAt, InProvide
<1>3. UNCHANGED <<disk, issuer, issued, expired, guest, damaged, kept>>
  BY DEF CopyShared
<1>4. copy \in Rows /\ Empty \in Content
  BY <1>1, CertAssumption DEF FileTypes, Rows, Content, Empty
<1>5. copy' \in Rows => FileTypes'
  BY <1>1, <1>3 DEF FileTypes, Rows
<1>6. CASE copy' = [copy EXCEPT ![op[p].m]["ca"] = v] /\ Go(p, << >>)
  <2>1. Moved(p, From(Provide, 4), op[p].pair, op[p].ca)
    BY <1>1, <1>2, <1>6, GoOn DEF Go
  <2> HIDE DEF v
  <2>2. /\ copy' \in Rows /\ copy'[op[p].m].ca = v
        /\ copy'[op[p].m].cert = copy[op[p].m].cert /\ copy'[op[p].m].key = copy[op[p].m].key
    BY <1>1, <1>4, <1>6 DEF Rows
  <2>3. FileTypes'
    BY <1>5, <2>2
  <2>4. Providing(p, 4)'
    BY <1>2, <1>3, <2>1, <2>2 DEF v, InProvide, Providing, Moved
  <2> QED BY <1>1, <1>2, <1>3, <2>1, <2>3, <2>4, ProvideMoves
<1>7. CASE Fail(p) /\ (copy' = copy \/ copy' = [copy EXCEPT ![op[p].m]["ca"] = Empty])
  <2>1. copy' \in Rows
    BY <1>1, <1>4, <1>7 DEF Rows
  <2> QED BY <1>2, <1>3, <1>5, <1>7, <2>1, ProvideFails
<1> QED BY <1>6, <1>7 DEF CopyShared

LEMMA CopyCertKeeps ==
    ASSUME FilesInv, NEW p \in Procs, CopyShared(p, "copycert", "cert", disk["client"].cert)
    PROVE  FilesInv'
<1> DEFINE v == disk["client"].cert
<1>0. At(p, S("copycert", "vm"))
  BY DEF CopyShared
<1>1. /\ TypeOK /\ FileTypes /\ ~Idle(p) /\ op[p].todo # << >> /\ op[p].m \in Machines
      /\ op[p].pair \in 0..MaxPairs /\ op[p].ca \in Content /\ op[p].pair <= issued
      /\ v \in Content /\ NextAt(p, S("copycert", "vm"))
  BY <1>0, Facts
<1>2. InProvide(p, 4) /\ Tail(op[p].todo) = From(Provide, 5)
  BY <1>1, ProvideTails DEF NextAt, InProvide
<1>3. UNCHANGED <<disk, issuer, issued, expired, guest, damaged, kept>>
  BY DEF CopyShared
<1>4. copy \in Rows /\ Empty \in Content
  BY <1>1, CertAssumption DEF FileTypes, Rows, Content, Empty
<1>5. copy' \in Rows => FileTypes'
  BY <1>1, <1>3 DEF FileTypes, Rows
<1>6. CASE copy' = [copy EXCEPT ![op[p].m]["cert"] = v] /\ Go(p, << >>)
  <2>1. Moved(p, From(Provide, 5), op[p].pair, op[p].ca)
    BY <1>1, <1>2, <1>6, GoOn DEF Go
  <2> HIDE DEF v
  <2>2. /\ copy' \in Rows /\ copy'[op[p].m].cert = v
        /\ copy'[op[p].m].ca = copy[op[p].m].ca /\ copy'[op[p].m].key = copy[op[p].m].key
    BY <1>1, <1>4, <1>6 DEF Rows
  <2>3. FileTypes'
    BY <1>5, <2>2
  <2>4. Providing(p, 5)'
    BY <1>2, <1>3, <2>1, <2>2 DEF v, InProvide, Providing, Moved
  <2> QED BY <1>1, <1>2, <1>3, <2>1, <2>3, <2>4, ProvideMoves
<1>7. CASE Fail(p) /\ (copy' = copy \/ copy' = [copy EXCEPT ![op[p].m]["cert"] = Empty])
  <2>1. copy' \in Rows
    BY <1>1, <1>4, <1>7 DEF Rows
  <2> QED BY <1>2, <1>3, <1>5, <1>7, <2>1, ProvideFails
<1> QED BY <1>6, <1>7 DEF CopyShared

LEMMA CopyKeyKeeps ==
    ASSUME FilesInv, NEW p \in Procs, CopyShared(p, "copykey", "key", disk["client"].key)
    PROVE  FilesInv'
<1> DEFINE v == disk["client"].key
<1>0. At(p, S("copykey", "vm"))
  BY DEF CopyShared
<1>1. /\ TypeOK /\ FileTypes /\ ~Idle(p) /\ op[p].todo # << >> /\ op[p].m \in Machines
      /\ op[p].pair \in 0..MaxPairs /\ op[p].ca \in Content /\ op[p].pair <= issued
      /\ v \in Content /\ NextAt(p, S("copykey", "vm"))
  BY <1>0, Facts
<1>2. InProvide(p, 5) /\ Tail(op[p].todo) = From(Provide, 6)
  BY <1>1, ProvideTails DEF NextAt, InProvide
<1>3. UNCHANGED <<disk, issuer, issued, expired, guest, damaged, kept>>
  BY DEF CopyShared
<1>4. copy \in Rows /\ Empty \in Content
  BY <1>1, CertAssumption DEF FileTypes, Rows, Content, Empty
<1>5. copy' \in Rows => FileTypes'
  BY <1>1, <1>3 DEF FileTypes, Rows
<1>6. CASE copy' = [copy EXCEPT ![op[p].m]["key"] = v] /\ Go(p, << >>)
  <2>1. Moved(p, From(Provide, 6), op[p].pair, op[p].ca)
    BY <1>1, <1>2, <1>6, GoOn DEF Go
  <2> HIDE DEF v
  <2>2. /\ copy' \in Rows /\ copy'[op[p].m].key = v
        /\ copy'[op[p].m].ca = copy[op[p].m].ca /\ copy'[op[p].m].cert = copy[op[p].m].cert
    BY <1>1, <1>4, <1>6 DEF Rows
  <2>3. FileTypes'
    BY <1>5, <2>2
  <2>4. Providing(p, 6)'
    BY <1>2, <1>3, <2>1, <2>2 DEF v, InProvide, Providing, Moved
  <2> QED BY <1>1, <1>2, <1>3, <2>1, <2>3, <2>4, ProvideMoves
<1>7. CASE Fail(p) /\ (copy' = copy \/ copy' = [copy EXCEPT ![op[p].m]["key"] = Empty])
  <2>1. copy' \in Rows
    BY <1>1, <1>4, <1>7 DEF Rows
  <2> QED BY <1>2, <1>3, <1>5, <1>7, <2>1, ProvideFails
<1> QED BY <1>6, <1>7 DEF CopyShared

LEMMA PutCAKeeps ==
    ASSUME FilesInv, NEW p \in Procs, NEW v, v = op[p].ca,
           OnGuest(p, "putca", [guest[op[p].m] EXCEPT !.ca = v])
    PROVE  FilesInv'
<1>0. At(p, S("putca", "vm"))
  BY DEF OnGuest
<1>1. /\ TypeOK /\ FileTypes /\ ~Idle(p) /\ op[p].todo # << >> /\ op[p].m \in Machines
      /\ op[p].pair \in 0..MaxPairs /\ op[p].ca \in Content /\ op[p].pair <= issued
      /\ NextAt(p, S("putca", "vm"))
  BY <1>0, Facts
<1>2. InProvide(p, 10) /\ Tail(op[p].todo) = From(Provide, 11)
  BY <1>1, ProvideTails DEF NextAt, InProvide
<1>3. UNCHANGED <<disk, issuer, issued, expired, copy, damaged, kept>>
  BY DEF OnGuest
<1>4. guest \in Rows /\ v \in Content
  BY <1>1 DEF FileTypes, Rows
<1>5. guest' \in Rows => FileTypes'
  BY <1>1, <1>3 DEF FileTypes, Rows
<1>6. CASE /\ guest' = [guest EXCEPT ![op[p].m] = [guest[op[p].m] EXCEPT !.ca = v]]
           /\ Go(p, << >>)
  <2>1. Moved(p, From(Provide, 11), op[p].pair, op[p].ca)
    BY <1>1, <1>2, <1>6, GoOn DEF Go
  <2>2. /\ guest' \in Rows /\ guest'[op[p].m].ca = v
        /\ guest'[op[p].m].cert = guest[op[p].m].cert /\ guest'[op[p].m].key = guest[op[p].m].key
    BY <1>1, <1>4, <1>6 DEF Rows
  <2>3. FileTypes'
    BY <1>5, <2>2
  <2>4. Providing(p, 11)'
    BY <1>2, <1>3, <1>4, <2>1, <2>2 DEF InProvide, Providing, Moved
  <2> QED BY <1>1, <1>2, <1>3, <2>1, <2>3, <2>4, ProvideMoves
<1>7. CASE Fail(p) /\ guest' = guest
  BY <1>2, <1>3, <1>4, <1>5, <1>7, ProvideFails
<1> QED BY <1>6, <1>7 DEF OnGuest

LEMMA PutCertKeeps ==
    ASSUME FilesInv, NEW p \in Procs, NEW v, v \in Written(p),
           OnGuest(p, "putcert", [guest[op[p].m] EXCEPT !.cert = v])
    PROVE  FilesInv'
<1>0. At(p, S("putcert", "vm"))
  BY DEF OnGuest
<1>1. /\ TypeOK /\ FileTypes /\ ~Idle(p) /\ op[p].todo # << >> /\ op[p].m \in Machines
      /\ op[p].pair \in 0..MaxPairs /\ op[p].ca \in Content /\ op[p].pair <= issued
      /\ NextAt(p, S("putcert", "vm"))
  BY <1>0, Facts
<1>2. InProvide(p, 11) /\ Tail(op[p].todo) = From(Provide, 12)
  BY <1>1, ProvideTails DEF NextAt, InProvide
<1>3. UNCHANGED <<disk, issuer, issued, expired, copy, damaged, kept>>
  BY DEF OnGuest
<1>4. guest \in Rows /\ v \in Content /\ v \in {op[p].pair, Empty}
  <2>1. v \in {op[p].pair, Empty}
    BY DEF Written
  <2> QED BY <1>1, <2>1, CertAssumption DEF FileTypes, Rows, Content, Empty
<1>5. guest' \in Rows => FileTypes'
  BY <1>1, <1>3 DEF FileTypes, Rows
<1>6. CASE /\ guest' = [guest EXCEPT ![op[p].m] = [guest[op[p].m] EXCEPT !.cert = v]]
           /\ Go(p, << >>)
  <2>1. Moved(p, From(Provide, 12), op[p].pair, op[p].ca)
    BY <1>1, <1>2, <1>6, GoOn DEF Go
  <2>2. /\ guest' \in Rows /\ guest'[op[p].m].cert = v
        /\ guest'[op[p].m].ca = guest[op[p].m].ca /\ guest'[op[p].m].key = guest[op[p].m].key
    BY <1>1, <1>4, <1>6 DEF Rows
  <2>3. FileTypes'
    BY <1>5, <2>2
  <2>4. Providing(p, 12)'
    BY <1>2, <1>3, <1>4, <2>1, <2>2 DEF InProvide, Providing, Moved
  <2> QED BY <1>1, <1>2, <1>3, <2>1, <2>3, <2>4, ProvideMoves
<1>7. CASE Fail(p) /\ guest' = guest
  BY <1>2, <1>3, <1>4, <1>5, <1>7, ProvideFails
<1> QED BY <1>6, <1>7 DEF OnGuest

LEMMA PutKeyKeeps ==
    ASSUME FilesInv, NEW p \in Procs, NEW v, v \in Written(p),
           OnGuest(p, "putkey", [guest[op[p].m] EXCEPT !.key = v])
    PROVE  FilesInv'
<1>0. At(p, S("putkey", "vm"))
  BY DEF OnGuest
<1>1. /\ TypeOK /\ FileTypes /\ ~Idle(p) /\ op[p].todo # << >> /\ op[p].m \in Machines
      /\ op[p].pair \in 0..MaxPairs /\ op[p].ca \in Content /\ op[p].pair <= issued
      /\ NextAt(p, S("putkey", "vm"))
  BY <1>0, Facts
<1>2. InProvide(p, 12) /\ Tail(op[p].todo) = From(Provide, 13)
  BY <1>1, ProvideTails DEF NextAt, InProvide
<1>3. UNCHANGED <<disk, issuer, issued, expired, copy, damaged, kept>>
  BY DEF OnGuest
<1>4. guest \in Rows /\ v \in Content /\ v \in {op[p].pair, Empty}
  <2>1. v \in {op[p].pair, Empty}
    BY DEF Written
  <2> QED BY <1>1, <2>1, CertAssumption DEF FileTypes, Rows, Content, Empty
<1>5. guest' \in Rows => FileTypes'
  BY <1>1, <1>3 DEF FileTypes, Rows
<1>6. CASE /\ guest' = [guest EXCEPT ![op[p].m] = [guest[op[p].m] EXCEPT !.key = v]]
           /\ Go(p, << >>)
  <2>1. Moved(p, From(Provide, 13), op[p].pair, op[p].ca)
    BY <1>1, <1>2, <1>6, GoOn DEF Go
  <2>2. /\ guest' \in Rows /\ guest'[op[p].m].key = v
        /\ guest'[op[p].m].ca = guest[op[p].m].ca /\ guest'[op[p].m].cert = guest[op[p].m].cert
    BY <1>1, <1>4, <1>6 DEF Rows
  <2>3. FileTypes'
    BY <1>5, <2>2
  <2>4. Providing(p, 13)'
    BY <1>2, <1>3, <1>4, <2>1, <2>2 DEF InProvide, Providing, Moved
  <2> QED BY <1>1, <1>2, <1>3, <2>1, <2>3, <2>4, ProvideMoves
<1>7. CASE Fail(p) /\ guest' = guest
  BY <1>2, <1>3, <1>4, <1>5, <1>7, ProvideFails
<1> QED BY <1>6, <1>7 DEF OnGuest

LEMMA ReadCAKeeps ==
    ASSUME FilesInv, NEW p \in Procs, ReadCA(p)
    PROVE  FilesInv'
<1>0. At(p, S("readca", "vm"))
  BY DEF ReadCA
<1>1. /\ TypeOK /\ FileTypes /\ ~Idle(p) /\ op[p].todo # << >>
      /\ op[p].pair \in 0..MaxPairs /\ op[p].pair <= issued
      /\ disk["CA"].cert \in Content /\ NextAt(p, S("readca", "vm"))
  BY <1>0, Facts
<1>2. InProvide(p, 9) /\ Tail(op[p].todo) = From(Provide, 10)
  BY <1>1, ProvideTails DEF NextAt, InProvide
<1>3. UNCHANGED <<disk, issuer, issued, expired, copy, guest, damaged, kept>>
  BY DEF ReadCA, files
<1>4. FileTypes'
  BY <1>1, <1>3 DEF FileTypes
<1>5. Moved(p, From(Provide, 10), op[p].pair, disk["CA"].cert)
  BY <1>1, <1>2, GoOn DEF ReadCA
<1>6. Providing(p, 10)'
  BY <1>2, <1>3, <1>5 DEF InProvide, Providing, Moved
<1> QED BY <1>1, <1>2, <1>3, <1>4, <1>5, <1>6, ProvideMoves

LEMMA GenerateServerKeeps ==
    ASSUME FilesInv, NEW p \in Procs, GenerateServer(p)
    PROVE  FilesInv'
<1>0. At(p, S("server", "vm"))
  BY DEF GenerateServer
<1>1. /\ TypeOK /\ FileTypes /\ PairsMatch /\ Numbered /\ ~Idle(p) /\ op[p].todo # << >>
      /\ op[p].ca \in Content /\ NextAt(p, S("server", "vm"))
  BY <1>0, Facts
<1>2. InProvide(p, 8) /\ Tail(op[p].todo) = From(Provide, 9)
  BY <1>1, ProvideTails DEF NextAt, InProvide
<1>3. /\ Generate(p, "server") /\ UNCHANGED <<disk, expired, copy, guest, damaged, kept>>
      /\ mixed' = mixed
  BY DEF GenerateServer, GoWith, Fail, End
<1>4. op[p].ca \in 1..MaxPairs
  BY <1>1, <1>2, CertAssumption DEF InProvide, Providing, Content
<1>5. /\ issued + 1 \in 1..MaxPairs /\ issued' = issued + 1
      /\ issuer' \in [Pairs -> 0..MaxPairs] /\ \A n \in 1..issued : issuer'[n] = issuer[n]
      /\ issuer'[issued + 1] = op[p].ca
  <2>1. "server" # "CA" /\ issued + 1 \in 1..MaxPairs /\ issued \in Nat
    BY <1>1, <1>3, CertAssumption DEF Generate, FileTypes
  <2> QED BY <1>1, <1>3, <1>4, <2>1, CertAssumption DEF Generate, FileTypes, Pairs
<1>6. FileTypes' /\ issued <= issued'
  <2>1. issued' \in 0..MaxPairs /\ expired' \in 0..issued' /\ issued <= issued'
    BY <1>1, <1>3, <1>5, CertAssumption DEF FileTypes
  <2> QED BY <1>1, <1>3, <1>5, <2>1 DEF FileTypes
<1>7. disk["client"].cert > expired => issuer'[disk["client"].cert] = issuer[disk["client"].cert]
  <2>1. disk["client"].cert \in Int /\ disk["client"].cert <= issued /\ expired \in Nat
    BY <1>1, CertAssumption DEF FileTypes, Numbered, Kinds, Content
  <2>2. disk["client"].cert > expired => disk["client"].cert \in 1..issued
    BY <1>1, <2>1, CertAssumption DEF FileTypes
  <2> QED BY <1>5, <2>2
<1>8. Calm'
  BY <1>2, <1>3, <1>7 DEF InProvide, Calm, Quiet, Sound
<1>9. CASE GoWith(p, << >>, issued + 1, op[p].ca)
  <2>1. Moved(p, From(Provide, 9), issued + 1, op[p].ca)
    <3>1. issued + 1 \in 0..MaxPairs
      BY <1>5
    <3> QED BY <1>1, <1>2, <1>9, <3>1, GoOn
  <2>2. PairsMatch'
    BY <1>1, <1>3 DEF PairsMatch
  <2>3. issued + 1 <= issued' /\ issued + 1 > 0 /\ \A k \in Kinds : disk'[k].cert <= issued'
    <3>1. \A k \in Kinds : disk[k].cert <= issued /\ disk[k].cert \in Int
      BY <1>1, CertAssumption DEF FileTypes, Numbered, Content
    <3> QED BY <1>1, <1>3, <1>5, <3>1 DEF FileTypes
  <2>4. Providing(p, 9)'
    BY <1>2, <1>3, <1>5, <2>1, <2>3 DEF InProvide, Providing, Moved
  <2>5. Ready(p)' /\ ~Idle(p)'
    BY <1>1, <1>2, <1>3, <1>7, <2>1 DEF InProvide, Ready, Moved, Quiet, Idle
  <2>6. InProvide(p, 9)'
    BY <1>8, <2>1, <2>4, <2>5 DEF InProvide, Moved
  <2>7. Place(p)'
    BY <2>6 DEF Place
  <2> QED BY <1>1, <1>3, <1>6, <2>1, <2>2, <2>3, <2>7, MoveKeeps
<1>10. CASE Fail(p)
  <2>1. ~Bootstrapping(p)
    BY <1>2, NotBootstrapping DEF InProvide
  <2> QED BY <1>1, <1>3, <1>6, <1>8, <1>10, <2>1, FailKeeps
<1> QED BY <1>9, <1>10 DEF GenerateServer
-----------------------------------------------------------------------------
(* Calls begin and end; certificates expire.                               *)

LEMMA IdleIs ==
    ASSUME NEW p \in Procs, Place(p), Idle(p)
    PROVE  op[p] = NoOp
BY DEF Place, Idle, InCA, InClient, InProvide

LEMMA BeginKeeps ==
    ASSUME FilesInv, NEW p \in Procs, NEW c \in {"all", "auth"}, NEW m \in Machines,
           Begin(p, c, m)
    PROVE  FilesInv'
<1> DEFINE t == (IF c = "all" THEN Bootstrap ELSE << >>) \o <<S("detect", "vm")>>
           x == [NoOp EXCEPT !.call = c, !.m = m, !.todo = t]
<1>1. /\ TypeOK /\ PairsMatch /\ BootstrapWorks /\ Numbered /\ Idle(p)
      /\ \A q \in Procs : /\ Place(q) /\ Alone(q) /\ (met[q] => mixed)
                          /\ (~Idle(q) => result[q] = "none")
      /\ (\A q \in Procs : Idle(q)) => Calm
  BY DEF FilesInv, Begin
<1>2. /\ UNCHANGED <<disk, issuer, issued, expired, copy, guest, faults, damaged, kept>>
      /\ calls < MaxCalls /\ calls' = calls + 1
      /\ op' = [op EXCEPT ![p] = x] /\ result' = [result EXCEPT ![p] = "none"]
      /\ met' = [q \in Procs |-> IF q = p THEN \E r \in Procs : ~Idle(r) ELSE met[q] \/ ~Idle(q)]
      /\ mixed' = (mixed \/ \E q \in Procs : ~Idle(q))
  BY DEF Begin, files
<1>3. (c = "all" => t = B1) /\ (c = "auth" => t = B3)
  BY OthersJoined
<1>4. t \in Seq(Steps)
  BY <1>3, SeqsIn
<1> HIDE DEF t
<1>5. /\ x \in OpType /\ x.call = c /\ x.m = m /\ x.todo = t /\ x.pair = 0 /\ x.ca = None
  <2>1. x \in OpType
    BY <1>4, NoOpIs DEF OpType
  <2>2. x.call = c /\ x.m = m /\ x.todo = t /\ x.pair = 0 /\ x.ca = None
    BY DEF NoOp
  <2> QED BY <2>1, <2>2
<1> HIDE DEF x
<1>6. op \in [Procs -> OpType]
  BY <1>1 DEF TypeOK, OpType
<1>7. op' \in [Procs -> OpType] /\ op'[p] = x /\ \A q \in Procs \ {p} : op'[q] = op[q]
  BY <1>2, <1>5, <1>6
<1>8. /\ result' \in [Procs -> {"none", "ok", "nocerts", "failed", "killed"}]
      /\ result'[p] = "none" /\ \A q \in Procs \ {p} : result'[q] = result[q]
  BY <1>1, <1>2 DEF TypeOK
<1>9. \A q \in Procs \ {p} : ~Idle(q) => mixed' /\ met'[q]
  BY <1>2
<1>10. /\ (mixed => mixed') /\ mixed' \in BOOLEAN
       /\ met' \in [Procs -> BOOLEAN]
       /\ (\A q \in Procs : Idle(q)) => mixed' = mixed
  BY <1>1, <1>2 DEF TypeOK
<1>11. TypeOK'
  <2>1. calls' \in 0..MaxCalls
    BY <1>1, <1>2, CertAssumption DEF TypeOK
  <2> QED BY <1>1, <1>2, <1>7, <1>8, <1>10, <2>1 DEF TypeOK, OpType
<1>12. PairsMatch' /\ BootstrapWorks'
  BY <1>1, <1>2, <1>8, <1>10 DEF PairsMatch, BootstrapWorks
<1>13. Numbered'
  BY <1>1, <1>2, <1>5, <1>7 DEF Numbered, TypeOK
<1>14. Calm'
  <2>1. CASE \A q \in Procs : Idle(q)
    BY <1>1, <1>2, <1>10, <2>1 DEF Calm, Quiet, Sound
  <2>2. CASE \E q \in Procs : ~Idle(q)
    BY <1>2, <2>2 DEF Calm, Quiet
  <2> QED BY <2>1, <2>2
<1>15. Place(p)'
  <2>1. CASE c = "all"
    BY <1>3, <1>5, <1>7, <1>14, <2>1 DEF Place
  <2>2. CASE c = "auth"
    BY <1>3, <1>5, <1>7, <1>14, <2>2 DEF Place, Ready, Idle
  <2> QED BY <2>1, <2>2
<1>16. ASSUME NEW q \in Procs
       PROVE  Place(q)' /\ Alone(q)' /\ (met[q] => mixed)' /\ (~Idle(q) => result[q] = "none")'
  <2>1. CASE q = p
    <3>1. Alone(p)'
      BY <1>2, <1>7 DEF Alone, Idle
    <3>2. met'[p] => mixed'
      BY <1>2
    <3> QED BY <1>8, <1>15, <2>1, <3>1, <3>2
  <2>2. CASE q # p
    <3>1. Place(q)'
      BY <1>1, <1>7, <1>9, <2>2, OtherPlace
    <3>2. Alone(q)'
      BY <1>7, <1>9, <2>2 DEF Alone, Idle
    <3>3. met'[q] => mixed'
      BY <1>1, <1>2, <2>2
    <3>4. ~Idle(q)' => result'[q] = "none"
      BY <1>1, <1>7, <1>8, <2>2 DEF Idle
    <3> QED BY <3>1, <3>2, <3>3, <3>4
  <2> QED BY <2>1, <2>2
<1> QED BY <1>11, <1>12, <1>13, <1>14, <1>16 DEF FilesInv

LEMMA FinishAt ==
    ASSUME FilesInv, NEW p \in Procs, Finish(p)
    PROVE  InProvide(p, 13) /\ Ended(p, "ok")
<1>1. TypeOK /\ Place(p) /\ ~Idle(p) /\ op[p].todo = << >>
  BY DEF FilesInv, Finish
<1>2. Ended(p, "ok")
  BY <1>1, EndEnds DEF Finish
<1>3. op[p] # NoOp /\ op[p].todo # B1 /\ op[p].todo # B2 /\ op[p].todo # B3
  BY <1>1, NoOpIs, Onward DEF Idle
<1>4. ~(\E i \in 1..6 : InCA(p, i)) /\ ~(\E i \in 1..8 : InClient(p, i))
  BY <1>1, FromSteps DEF InCA, InClient
<1>5. PICK i \in 1..13 : InProvide(p, i)
  BY <1>1, <1>3, <1>4 DEF Place
<1>6. i \notin 1..12
  BY <1>1, <1>5, FromSteps DEF InProvide
<1> QED BY <1>2, <1>5, <1>6

LEMMA FinishKeeps ==
    ASSUME FilesInv, NEW p \in Procs, Finish(p)
    PROVE  FilesInv'
<1>1. InProvide(p, 13) /\ Ended(p, "ok") /\ ~Idle(p)
  BY FinishAt DEF Finish
<1>2. UNCHANGED <<disk, issuer, issued, expired, copy, guest, damaged, kept>>
  BY DEF Finish, files
<1>3. FileTypes' /\ issued <= issued' /\ (damaged => damaged')
  BY <1>2 DEF FileTypes, FilesInv, TypeOK
<1>4. Calm'
  BY <1>1, <1>2 DEF InProvide, Calm, Quiet, Sound, Ended
<1> QED BY <1>1, <1>2, <1>3, <1>4, EndKeeps

LEMMA CrashKeeps ==
    ASSUME FilesInv, NEW p \in Procs, Crash(p)
    PROVE  FilesInv'
<1>1. TypeOK /\ ~Idle(p) /\ End(p, "killed") /\ damaged' = TRUE
  BY DEF FilesInv, Crash
<1>2. UNCHANGED <<disk, issuer, issued, expired, copy, guest, kept>>
  BY DEF Crash, files
<1>3. FileTypes' /\ issued <= issued' /\ Calm'
  BY <1>1, <1>2 DEF FileTypes, TypeOK, Calm, Quiet
<1>4. Ended(p, "killed")
  BY <1>1, EndEnds
<1> QED BY <1>1, <1>2, <1>3, <1>4, EndKeeps

LEMMA ExpireKeeps ==
    ASSUME FilesInv, NEW n \in Pairs, Expire(n)
    PROVE  FilesInv'
<1>1. /\ TypeOK /\ PairsMatch /\ BootstrapWorks /\ Numbered /\ Calm
      /\ \A q \in Procs : /\ Place(q) /\ Alone(q) /\ (met[q] => mixed) /\ Idle(q)
                          /\ (~Idle(q) => result[q] = "none")
  BY DEF FilesInv, Expire
<1>2. /\ UNCHANGED <<disk, issuer, issued, copy, guest, op, result, calls, faults, met, mixed,
                     damaged, kept>>
      /\ expired < n /\ n <= issued /\ expired' = n
  BY DEF Expire, history
<1>3. TypeOK'
  <2>1. expired' \in 0..issued'
    BY <1>1, <1>2, CertAssumption DEF TypeOK, Pairs
  <2> QED BY <1>1, <1>2, <2>1 DEF TypeOK
<1>4. PairsMatch' /\ BootstrapWorks' /\ Numbered'
  BY <1>1, <1>2 DEF PairsMatch, BootstrapWorks, Numbered
<1>5. Calm'
  <2>1. disk["client"].cert \in Int /\ expired \in Int /\ n \in Int
    BY <1>1, <1>2, CertAssumption DEF TypeOK, Content, Kinds, Pairs
  <2>2. disk'["client"].cert > expired' => disk["client"].cert > expired
    BY <1>2, <2>1
  <2> QED BY <1>1, <1>2, <2>2 DEF Calm, Quiet, Sound
<1>6. ASSUME NEW q \in Procs
      PROVE  Place(q)' /\ Alone(q)' /\ (met[q] => mixed)' /\ (~Idle(q) => result[q] = "none")'
  <2>1. op[q] = NoOp
    BY <1>1, IdleIs
  <2>2. Place(q)'
    BY <1>2, <2>1 DEF Place
  <2> QED BY <1>1, <1>2, <2>2 DEF Alone, Idle
<1> QED BY <1>3, <1>4, <1>5, <1>6 DEF FilesInv
-----------------------------------------------------------------------------
(* The theorems.                                                           *)

LEMMA FilesInit == Init => FilesInv
<1> SUFFICES ASSUME Init PROVE FilesInv
  OBVIOUS
<1>0. MaxPairs \in Nat /\ MaxPairs >= 2 /\ MaxCalls \in Nat
  BY CertAssumption
<1>1. /\ None \in Content /\ 1 \in Content /\ 2 \in Content /\ Kinds = {"CA", "client"}
      /\ NoPair \in [cert : Content, key : Content]
      /\ NoPair.cert = None /\ NoPair.key = None
  BY <1>0 DEF Content, None, Kinds, NoPair
<1>2. /\ disk \in [Kinds -> [cert : Content, key : Content]] /\ issued \in {0, 1, 2}
      /\ \A k \in Kinds : disk[k].cert <= issued
      /\ \A k \in Kinds : disk[k].cert > 0 /\ disk[k].key > 0 => disk[k].cert = disk[k].key
      /\ damaged \in BOOLEAN
      /\ ~damaged => /\ Sound("CA") /\ Sound("client")
                     /\ disk["client"].cert > expired =>
                          (disk["CA"].cert = 1 /\ disk["client"].cert = 2 /\ issued = 2)
  <2>1. CASE disk = [k \in Kinds |-> NoPair] /\ issued = 0 /\ damaged = FALSE
    <3>1. disk["CA"] = NoPair /\ disk["client"] = NoPair
      BY <1>1, <2>1
    <3>2. disk \in [Kinds -> [cert : Content, key : Content]] /\ expired = 0
      BY <1>1, <2>1 DEF Init
    <3>3. /\ disk["CA"].cert = -1 /\ disk["CA"].key = -1
          /\ disk["client"].cert = -1 /\ disk["client"].key = -1
      BY <1>1, <3>1 DEF None
    <3>4. Sound("CA") /\ Sound("client")
      BY <3>3 DEF Sound, Empty
    <3>5. damaged \in BOOLEAN
      BY <2>1, Zenon
    <3> QED BY <1>1, <2>1, <3>2, <3>3, <3>4, <3>5
  <2>2. CASE /\ disk = [k \in Kinds |-> IF k = "CA" THEN [cert |-> 1, key |-> 1]
                                                    ELSE [cert |-> 2, key |-> 2]]
             /\ issued = 2 /\ damaged = FALSE
    <3>1. disk["CA"] = [cert |-> 1, key |-> 1] /\ disk["client"] = [cert |-> 2, key |-> 2]
      BY <1>1, <2>2
    <3>2. disk \in [Kinds -> [cert : Content, key : Content]]
      BY <1>1, <2>2
    <3>3. /\ disk["CA"].cert = 1 /\ disk["CA"].key = 1
          /\ disk["client"].cert = 2 /\ disk["client"].key = 2
      BY <1>1, <3>1 DEF None
    <3>4. Sound("CA") /\ Sound("client")
      BY <3>3 DEF Sound, Empty
    <3>5. damaged \in BOOLEAN
      BY <2>2, Zenon
    <3> QED BY <1>1, <2>2, <3>2, <3>3, <3>4, <3>5
  <2>3. CASE /\ \E c, k \in {None, 1} : disk = [x \in Kinds |->
                  IF x = "CA" THEN [cert |-> c, key |-> k] ELSE NoPair]
             /\ issued = 1 /\ damaged = TRUE
    <3>1. PICK c, k \in {None, 1} : disk = [x \in Kinds |->
                  IF x = "CA" THEN [cert |-> c, key |-> k] ELSE NoPair]
      BY <2>3
    <3>2. disk["CA"] = [cert |-> c, key |-> k] /\ disk["client"] = NoPair
      BY <1>1, <3>1
    <3>3. disk \in [Kinds -> [cert : Content, key : Content]]
      BY <1>1, <3>1
    <3> QED BY <1>1, <2>3, <3>2, <3>3 DEF None
  <2> QED BY <2>1, <2>2, <2>3 DEF Init
<1>3. /\ issuer = [n \in Pairs |-> IF n <= issued THEN 1 ELSE 0] /\ expired \in {0, issued}
      /\ op = [p \in Procs |-> NoOp] /\ result = [p \in Procs |-> "none"]
      /\ calls = 0 /\ faults \in FaultSets /\ met = [p \in Procs |-> FALSE]
      /\ mixed = FALSE /\ kept = FALSE
      /\ copy = [m \in Machines |-> [ca |-> None, cert |-> None, key |-> None]]
      /\ guest = [m \in Machines |-> [ca |-> None, cert |-> None, key |-> None]]
  BY DEF Init
<1>4. TypeOK
  <2>1. issuer \in [Pairs -> 0..MaxPairs] /\ issued \in 0..MaxPairs /\ expired \in 0..issued
    BY <1>0, <1>2, <1>3
  <2>2. op \in [Procs -> OpType]
    BY <1>3, NoOpIs
  <2>3. /\ copy \in [Machines -> [ca : Content, cert : Content, key : Content]]
        /\ guest \in [Machines -> [ca : Content, cert : Content, key : Content]]
    BY <1>1, <1>3
  <2>4. /\ result \in [Procs -> {"none", "ok", "nocerts", "failed", "killed"}]
        /\ calls \in 0..MaxCalls /\ met \in [Procs -> BOOLEAN] /\ mixed \in BOOLEAN
        /\ kept \in BOOLEAN
    <3>1. /\ result \in [Procs -> {"none", "ok", "nocerts", "failed", "killed"}]
          /\ met \in [Procs -> BOOLEAN]
      BY <1>3
    <3>2. calls \in 0..MaxCalls
      BY <1>0, <1>3
    <3>3. mixed \in BOOLEAN /\ kept \in BOOLEAN
      BY <1>3, Zenon
    <3> QED BY <3>1, <3>2, <3>3
  <2> QED BY <1>2, <1>3, <2>1, <2>2, <2>3, <2>4 DEF TypeOK, OpType
<1>5. PairsMatch /\ BootstrapWorks
  BY <1>2, <1>3 DEF PairsMatch, BootstrapWorks
<1>6. Numbered
  BY <1>2, <1>3, NoOpIs DEF Numbered
<1>7. Calm
  <2>1. issued = 2 => issuer[2] = 1
    BY <1>0, <1>3 DEF Pairs
  <2> QED BY <1>2, <2>1 DEF Calm, Quiet
<1>8. \A p \in Procs : Place(p) /\ Alone(p) /\ (met[p] => mixed) /\ (~Idle(p) => result[p] = "none")
  BY <1>3, NoOpIs DEF Place, Alone, Idle
<1> QED BY <1>4, <1>5, <1>6, <1>7, <1>8 DEF FilesInv

LEMMA FilesStep == FilesInv /\ [Next]_vars => FilesInv'
<1> SUFFICES ASSUME FilesInv, [Next]_vars PROVE FilesInv'
  OBVIOUS
<1>1. ASSUME NEW p \in Procs, \E c \in {"all", "auth"}, m \in Machines : Begin(p, c, m)
      PROVE  FilesInv'
  BY <1>1, BeginKeeps
<1>2. ASSUME NEW p \in Procs, NEW k \in Kinds, BootstrapStep(p, k) PROVE FilesInv'
  <2>1. CASE k = "CA"
    BY <1>2, <2>1, CheckDateCA, RemoveKeyCA, StatKeyCA, OpenCertCA, WriteCertCA, OpenKeyCA,
       WriteKeyCA DEF BootstrapStep
  <2>2. CASE k = "client"
    BY <1>2, <2>2, CheckDateClient, RemoveKeyClient, StatKeyClient, OpenCertClient,
       WriteCertClient, OpenKeyClient, WriteKeyClient DEF BootstrapStep
  <2> QED BY <2>1, <2>2 DEF Kinds
<1>3. ASSUME NEW p \in Procs, ProvisionStep(p) PROVE FilesInv'
  <2>1. CASE CopyCerts(p)
    BY <2>1, CopyCAKeeps, CopyCertKeeps, CopyKeyKeeps DEF CopyCerts
  <2>2. CASE Upload(p)
    BY <2>2, PutCAKeeps, PutCertKeeps, PutKeyKeeps DEF Upload
  <2> QED BY <1>3, <2>1, <2>2, DetectKeeps, HostnameKeeps, GenerateServerKeeps, ReadCAKeeps
          DEF ProvisionStep
<1>4. ASSUME NEW p \in Procs, LoadCert(p) \/ LoadKey(p) \/ Finish(p) \/ Crash(p) PROVE FilesInv'
  BY <1>4, LoadCertKeeps, LoadKeyKeeps, FinishKeeps, CrashKeeps
<1>5. CASE UNCHANGED vars
  <2>1. UNCHANGED <<disk, issuer, issued, expired, copy, guest, op, result, calls, faults, met,
                    mixed, damaged, kept>>
    BY <1>5 DEF vars, files, history
  <2>2. TypeOK' /\ PairsMatch' /\ BootstrapWorks' /\ Numbered'
    BY <2>1 DEF FilesInv, TypeOK, PairsMatch, BootstrapWorks, Numbered
  <2>3. Calm => Calm'
    BY <2>1 DEF Calm, Quiet, Sound
  <2>4. ASSUME NEW q \in Procs, Place(q) PROVE Place(q)'
    <3>1. Ready(q) => Ready(q)'
      BY <2>1 DEF Ready, Quiet
    <3>2. \A i \in 1..6 : InCA(q, i) => InCA(q, i)'
      BY <2>1 DEF InCA, MakingCA, Quiet, Sound
    <3>3. \A i \in 1..8 : InClient(q, i) => InClient(q, i)'
      BY <2>1 DEF InClient, MakingClient, Quiet, Whole
    <3>4. \A i \in 1..13 : InProvide(q, i) => InProvide(q, i)'
      BY <2>1, <2>3, <3>1 DEF InProvide, Providing, Idle
    <3>5. (Quiet => Whole("CA")) => (Quiet => Whole("CA"))'
      BY <2>1 DEF Quiet, Whole
    <3> QED BY <2>1, <2>3, <2>4, <3>1, <3>2, <3>3, <3>4, <3>5 DEF Place, Idle
  <2>5. \A q \in Procs : /\ Place(q)' /\ Alone(q)' /\ (met[q] => mixed)'
                         /\ (~Idle(q) => result[q] = "none")'
    BY <2>1, <2>4 DEF FilesInv, Alone, Idle
  <2>6. ((\A q \in Procs : Idle(q)) => Calm)'
    BY <2>1, <2>3 DEF FilesInv, Idle
  <2> QED BY <2>2, <2>5, <2>6 DEF FilesInv
<1> QED BY <1>1, <1>2, <1>3, <1>4, <1>5, ExpireKeeps DEF Next

\* The invariant of the certificate files and of the calls: where a call is among
\* its steps tells what the files hold (bootstrap.go:73-135, utils.go:63-135).
THEOREM FilesInductive == Spec => []FilesInv
<1>1. Init => FilesInv
  BY FilesInit
<1>2. FilesInv /\ [Next]_vars => FilesInv'
  BY FilesStep
<1> QED BY <1>1, <1>2, PTL DEF Spec

\* A key never lies next to another pair's certificate unless calls overlap, at
\* whatever step a call was killed or failed (bootstrap.go:19-22, 107-110;
\* cert.go:135-150).
THEOREM KeysMatchCertificates == Spec => []CertInv
<1>1. FilesInv => CertInv
  BY DEF FilesInv, CertInv
<1> QED BY <1>1, FilesInductive, PTL

\* BootstrapCertificates fails only after a call was killed or failed to write, or
\* after calls that overlapped (bootstrap.go:73-135).
THEOREM BootstrapSucceeds == Spec => []BootstrapWorks
<1>1. FilesInv => BootstrapWorks
  BY DEF FilesInv
<1> QED BY <1>1, FilesInductive, PTL

LEMMA OnlyFinishSucceeds ==
    ASSUME FilesInv, [Next]_vars, NEW p \in Procs, ~Idle(p), result'[p] = "ok"
    PROVE  InProvide(p, 13)
<1>1. /\ TypeOK /\ Place(p) /\ result[p] = "none"
      /\ result \in [Procs -> {"none", "ok", "nocerts", "failed", "killed"}]
  BY DEF FilesInv, TypeOK
<1>2. result' # result
  BY <1>1
<1>3. ASSUME NEW q \in Procs, NEW r \in {"nocerts", "failed", "killed"}, End(q, r) PROVE FALSE
  BY <1>1, <1>3 DEF End
<1>4. ASSUME NEW q \in Procs, Fail(q) PROVE FALSE
  BY <1>3, <1>4 DEF Fail
<1>5. ASSUME NEW q \in Procs, NEW more, NEW n, NEW c, GoWith(q, more, n, c) PROVE FALSE
  BY <1>2, <1>5 DEF GoWith
<1>6. ASSUME NEW q \in Procs, \E c \in {"all", "auth"}, m \in Machines : Begin(q, c, m)
      PROVE  FALSE
  BY <1>1, <1>6 DEF Begin
<1>7. ASSUME NEW q \in Procs, NEW k \in Kinds, BootstrapStep(q, k) PROVE FALSE
  <2>1. Fail(q) \/ \E more, n, c : GoWith(q, more, n, c)
    BY <1>7 DEF BootstrapStep, CheckDate, RemoveKey, StatKey, OpenCert, WriteCert, OpenKey,
       WriteKey, Go
  <2> QED BY <1>4, <1>5, <2>1
<1>8. ASSUME NEW q \in Procs, LoadCert(q) \/ LoadKey(q) \/ ProvisionStep(q) PROVE FALSE
  <2>1. Fail(q) \/ \E more, n, c : GoWith(q, more, n, c)
    BY <1>8 DEF LoadCert, LoadKey, ProvisionStep, DetectProvisioner, SetHostname, CopyCerts,
       CopyShared, GenerateServer, ReadCA, Upload, OnGuest, Go
  <2> QED BY <1>4, <1>5, <2>1
<1>9. ASSUME NEW q \in Procs, Crash(q) PROVE FALSE
  BY <1>3, <1>9 DEF Crash
<1>10. ASSUME NEW n \in Pairs, Expire(n) PROVE FALSE
  BY <1>2, <1>10 DEF Expire
<1>11. ~(UNCHANGED vars)
  BY <1>2 DEF vars
<1>12. PICK q \in Procs : Finish(q)
  BY <1>6, <1>7, <1>8, <1>9, <1>10, <1>11 DEF Next
<1>13. q = p
  BY <1>1, <1>12 DEF Finish, End
<1> QED BY <1>12, <1>13, FinishAt

\* After a call that reports success and met no other, the client's copy of the
\* CA certificate is the machine's and verifies the machine's certificate
\* (utils.go:63-135).
THEOREM ServerIsTrusted == Spec => ServerTrusted
<1>1. ASSUME FilesInv, [Next]_vars, NEW p \in Procs, ~Idle(p), result'[p] = "ok", ~met[p],
             guest[op[p].m].cert # Empty, guest[op[p].m].key # Empty
      PROVE  /\ guest[op[p].m].cert = guest[op[p].m].key /\ guest[op[p].m].cert > 0
             /\ guest[op[p].m].ca = copy[op[p].m].ca
             /\ guest[op[p].m].ca = issuer[guest[op[p].m].cert]
  <2>1. InProvide(p, 13)
    BY <1>1, OnlyFinishSucceeds
  <2> QED BY <1>1, <2>1 DEF InProvide, Providing
<1>2. FilesInv /\ [Next]_vars =>
        [\A p \in Procs :
          (/\ ~Idle(p) /\ result'[p] = "ok" /\ ~met[p]
           /\ guest[op[p].m].cert # Empty /\ guest[op[p].m].key # Empty)
              => LET g == guest[op[p].m]
                 IN  /\ g.cert = g.key /\ g.cert > 0
                     /\ g.ca = copy[op[p].m].ca /\ g.ca = issuer[g.cert]]_vars
  BY <1>1
<1> QED BY <1>2, FilesInductive, PTL DEF Spec, ServerTrusted

\* After create or regenerate-certs --client-certs reports success, the client's
\* certificate is current, has its key and is verified by the machine's CA
\* certificate, but for the four cases ClientTrusted names
\* (bootstrap.go:98-132).
THEOREM ClientIsTrusted == Spec => ClientTrusted
<1>1. ASSUME FilesInv, [Next]_vars, NEW p \in Procs, ~Idle(p), result'[p] = "ok",
             op[p].call = "all", ~mixed, ~damaged, ~kept
      PROVE  /\ copy[op[p].m].cert > expired /\ copy[op[p].m].key = copy[op[p].m].cert
             /\ issuer[copy[op[p].m].cert] = guest[op[p].m].ca
  <2>1. InProvide(p, 13)
    BY <1>1, OnlyFinishSucceeds
  <2>2. ~met[p]
    BY <1>1 DEF FilesInv
  <2> QED BY <1>1, <2>1, <2>2 DEF InProvide, Providing, Calm, Ready, Quiet, Sound
<1>2. FilesInv /\ [Next]_vars =>
        [\A p \in Procs :
          (~Idle(p) /\ result'[p] = "ok" /\ op[p].call = "all" /\ ~mixed /\ ~damaged /\ ~kept)
              => LET c == copy[op[p].m]
                 IN  /\ c.cert > expired /\ c.key = c.cert
                     /\ issuer[c.cert] = guest[op[p].m].ca]_vars
  BY <1>1
<1> QED BY <1>2, FilesInductive, PTL DEF Spec, ClientTrusted
=============================================================================
