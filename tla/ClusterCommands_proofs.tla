------------------------ MODULE ClusterCommands_proofs ------------------------
(* The masters of a kubeadm cluster trust each other, and their API servers *)
(* answer to every name they were asked to, for every set of hosts, images, *)
(* Clusterfiles and flags and any number of commands and failed steps.      *)
EXTENDS ClusterCommands, TLAPS

------------------------------------------------------------------------------
(* The files of a directory of certificates.                               *)

Authority(i) == Families[i].ca
Issued(i) == Range(Families[i].common)
Authorities == {Authority(i) : i \in 1..3}

\* The families spelled out.
LEMMA FamiliesAre ==
  /\ Authority(1) = "ca" /\ Authority(2) = "etcd/ca" /\ Authority(3) = "front-proxy-ca"
  /\ Issued(1) = {"apiserver", "apiserver-kubelet-client"}
  /\ Issued(2) = {"apiserver-etcd-client", "etcd/server", "etcd/peer", "etcd/healthcheck-client"}
  /\ Issued(3) = {"front-proxy-client"}
  /\ \A i \in 1..3 : Families[i].common \in Seq(Issued(i)) /\ Len(Families[i].common) \in {1, 2, 4}
<1>1. /\ Families[1] = getKubeCertificateConfig /\ Families[2] = getEtcdCertificateConfig
      /\ Families[3] = getFrontProxyCertificateConfig
  BY DEF Families
<1>2. /\ getKubeCertificateConfig.ca = "ca" /\ getEtcdCertificateConfig.ca = "etcd/ca"
      /\ getFrontProxyCertificateConfig.ca = "front-proxy-ca"
      /\ getKubeCertificateConfig.common = <<"apiserver", "apiserver-kubelet-client">>
      /\ getEtcdCertificateConfig.common =
           <<"apiserver-etcd-client", "etcd/server", "etcd/peer", "etcd/healthcheck-client">>
      /\ getFrontProxyCertificateConfig.common = <<"front-proxy-client">>
  BY DEF getKubeCertificateConfig, getEtcdCertificateConfig, getFrontProxyCertificateConfig
<1>3. /\ Issued(1) = {"apiserver", "apiserver-kubelet-client"}
      /\ Issued(2) = {"apiserver-etcd-client", "etcd/server", "etcd/peer", "etcd/healthcheck-client"}
      /\ Issued(3) = {"front-proxy-client"}
  BY <1>1, <1>2 DEF Issued, Range
<1>4. Families[1].common \in Seq(Issued(1)) /\ Len(Families[1].common) = 2
  BY <1>1, <1>2, <1>3
<1>5. Families[2].common \in Seq(Issued(2)) /\ Len(Families[2].common) = 4
  BY <1>1, <1>2, <1>3
<1>6. Families[3].common \in Seq(Issued(3)) /\ Len(Families[3].common) = 1
  BY <1>1, <1>2, <1>3
<1>7. \A i \in 1..3 : Families[i].common \in Seq(Issued(i)) /\ Len(Families[i].common) \in {1, 2, 4}
  <2>1. \A i \in 1..3 : i = 1 \/ i = 2 \/ i = 3
    OBVIOUS
  <2> QED
    BY <2>1, <1>4, <1>5, <1>6
<1>8. Authority(1) = "ca" /\ Authority(2) = "etcd/ca" /\ Authority(3) = "front-proxy-ca"
  BY <1>1, <1>2 DEF Authority
<1> QED
  BY <1>3, <1>7, <1>8

\* Every name belongs to one family, as its authority or as one it signs.
LEMMA NamesDiffer ==
  ASSUME NEW i \in 1..3, NEW j \in 1..3
  PROVE  /\ Authority(i) = Authority(j) => i = j
         /\ Authority(i) \notin Issued(j)
         /\ Issued(i) \cap Issued(j) # {} => i = j
         /\ "sa" # Authority(i) /\ "sa" \notin Issued(i)
  BY FamiliesAre

\* The name of a file tells what it is and whose.
LEMMA PathsDiffer ==
  ASSUME NEW a, NEW b
  PROVE  /\ PathForCert(a) = PathForCert(b) => a = b
         /\ PathForKey(a) = PathForKey(b) => a = b
         /\ PathForCert(a) # PathForKey(b)
         /\ PathForPublicKey(a) # PathForKey(b)
         /\ PathForPublicKey(a) # PathForCert(b)
  BY DEF PathForCert, PathForKey, PathForPublicKey

\* What a write says.
LEMMA WriteSays ==
  ASSUME NEW f, NEW c
  PROVE  Write(f, c)[1] = f /\ Write(f, c)[2] = c
  BY DEF Write

\* What the first writes of a plan leave.
LEMMA AppliedSays ==
  ASSUME NEW dir, NEW plan, NEW d \in Nat, NEW new, new = Applied(dir, plan, d)
  PROVE  /\ DOMAIN dir \subseteq DOMAIN new
         /\ \A i \in 1..d : plan[i][1] \in DOMAIN new
         /\ \A f \in DOMAIN new :
              \/ \E i \in 1..d : plan[i][1] = f /\ new[f] = plan[i][2]
              \/ f \in DOMAIN dir /\ new[f] = dir[f] /\ \A i \in 1..d : plan[i][1] # f
<1>1. DOMAIN new = DOMAIN dir \cup {plan[i][1] : i \in 1..d}
  BY DEF Applied
<1>2. ASSUME NEW f \in DOMAIN new
      PROVE  \/ \E i \in 1..d : plan[i][1] = f /\ new[f] = plan[i][2]
             \/ f \in DOMAIN dir /\ new[f] = dir[f] /\ \A i \in 1..d : plan[i][1] # f
  <2>1. new[f] = IF \E i \in 1..d : plan[i][1] = f
                 THEN plan[CHOOSE i \in 1..d : plan[i][1] = f][2] ELSE dir[f]
    BY <1>1, <1>2 DEF Applied
  <2>2. CASE \E i \in 1..d : plan[i][1] = f
    <3> DEFINE at == CHOOSE i \in 1..d : plan[i][1] = f
    <3>1. at \in 1..d /\ plan[at][1] = f
      BY <2>2
    <3>2. new[f] = plan[at][2]
      BY <2>1, <2>2
    <3> HIDE DEF at
    <3> QED
      BY <3>1, <3>2
  <2>3. CASE ~ \E i \in 1..d : plan[i][1] = f
    BY <2>1, <2>3, <1>1, <1>2
  <2> QED
    BY <2>2, <2>3
<1> QED
  BY <1>1, <1>2
------------------------------------------------------------------------------
(* The writes of one run of the generator.                                 *)

\* The key that signs in a family.
SigningKey(dir, i, g) ==
  IF Has(dir, PathForCert(Authority(i))) THEN dir[PathForKey(Authority(i))].key ELSE g

NewAuthority(dir, i, g) ==
  {w \in {Write(PathForCert(Authority(i)), CertOf(g, g, {})), Write(PathForKey(Authority(i)), KeyOf(g))} :
     ~Has(dir, PathForCert(Authority(i)))}
NewIssued(dir, i, g, sans) ==
  {Write(PathForCert(c), CertOf(g, SigningKey(dir, i, g), AltNames(c, sans))) : c \in Issued(i)}
    \cup {Write(PathForKey(c), KeyOf(g)) : c \in Issued(i)}
NewServiceAccount(dir, g) ==
  {w \in {Write(PathForKey("sa"), KeyOf(g)), Write(PathForPublicKey("sa"), KeyOf(g))} : ~Has(dir, PathForKey("sa"))}

\* Everything a run may write.
Generated(dir, g, sans) ==
  (UNION {NewAuthority(dir, i, g) \cup NewIssued(dir, i, g, sans) : i \in 1..3}) \cup NewServiceAccount(dir, g)

\* An authority is complete before it signs, its certificate before its key.
AuthorityFirst(dir, plan) ==
  \A i \in 1..3, at \in 1..Len(plan) :
    /\ plan[at][1] = PathForKey(Authority(i)) =>
         \E b \in 1..at : plan[b][1] = PathForCert(Authority(i))
    /\ \A c \in Issued(i) : plan[at][1] = PathForCert(c) =>
         \/ Readable(dir, Authority(i))
         \/ \E b \in 1..at : plan[b][1] = PathForKey(Authority(i))

SoundPlan(dir, g, sans, plan) == plan \in Seq(Generated(dir, g, sans)) /\ AuthorityFirst(dir, plan)

\* What is where in two lists, one after the other.
LEMMA Concat ==
  ASSUME NEW E, NEW s \in Seq(E), NEW t \in Seq(E)
  PROVE  /\ s \o t \in Seq(E) /\ Len(s \o t) = Len(s) + Len(t) /\ Len(s) \in Nat /\ Len(t) \in Nat
         /\ \A k \in 1..Len(s) : (s \o t)[k] = s[k]
         /\ \A k \in 1..Len(t) : (s \o t)[Len(s) + k] = t[k]
  OBVIOUS

\* One sound plan after the other.
LEMMA SoundConcat ==
  ASSUME NEW dir, NEW g, NEW sans, NEW s, NEW t, SoundPlan(dir, g, sans, s), SoundPlan(dir, g, sans, t)
  PROVE  SoundPlan(dir, g, sans, s \o t)
<1> DEFINE E == Generated(dir, g, sans)
           u == s \o t
<1>1. s \in Seq(E) /\ t \in Seq(E)
  BY DEF SoundPlan
<1> HIDE DEF E
<1>2. /\ u \in Seq(E) /\ Len(u) = Len(s) + Len(t) /\ Len(s) \in Nat /\ Len(t) \in Nat
      /\ \A k \in 1..Len(s) : u[k] = s[k]
      /\ \A k \in 1..Len(t) : u[Len(s) + k] = t[k]
  BY <1>1, Concat
<1> HIDE DEF u
<1>3. ASSUME NEW i \in 1..3, NEW at \in 1..Len(u)
      PROVE  /\ u[at][1] = PathForKey(Authority(i)) =>
                  \E b \in 1..at : u[b][1] = PathForCert(Authority(i))
             /\ \A c \in Issued(i) : u[at][1] = PathForCert(c) =>
                  \/ Readable(dir, Authority(i))
                  \/ \E b \in 1..at : u[b][1] = PathForKey(Authority(i))
  <2>1. CASE at \in 1..Len(s)
    <3>1. u[at] = s[at] /\ \A b \in 1..at : u[b] = s[b] /\ b \in 1..Len(s)
      BY <2>1, <1>2
    <3>2. /\ s[at][1] = PathForKey(Authority(i)) =>
               \E b \in 1..at : s[b][1] = PathForCert(Authority(i))
          /\ \A c \in Issued(i) : s[at][1] = PathForCert(c) =>
               \/ Readable(dir, Authority(i))
               \/ \E b \in 1..at : s[b][1] = PathForKey(Authority(i))
      BY <2>1, <1>3 DEF SoundPlan, AuthorityFirst
    <3> QED
      BY <3>1, <3>2
  <2>2. CASE at \notin 1..Len(s)
    <3> DEFINE k == at - Len(s)
    <3>a. k \in 1..Len(t) /\ at = Len(s) + k
      BY <2>2, <1>2
    <3> HIDE DEF k
    <3>b. \A b \in 1..k : b \in 1..Len(t) /\ Len(s) + b \in 1..at
      BY <3>a, <1>2
    <3>1. k \in 1..Len(t) /\ u[at] = t[k] /\ \A b \in 1..k : u[Len(s) + b] = t[b] /\ Len(s) + b \in 1..at
      BY <3>a, <3>b, <1>2
    <3>2. /\ t[k][1] = PathForKey(Authority(i)) =>
               \E b \in 1..k : t[b][1] = PathForCert(Authority(i))
          /\ \A c \in Issued(i) : t[k][1] = PathForCert(c) =>
               \/ Readable(dir, Authority(i))
               \/ \E b \in 1..k : t[b][1] = PathForKey(Authority(i))
      BY <3>1, <1>3 DEF SoundPlan, AuthorityFirst
    <3> QED
      BY <3>1, <3>2
  <2> QED
    BY <2>1, <2>2
<1> QED
  BY <1>2, <1>3 DEF SoundPlan, AuthorityFirst, E, u

\* Nothing is a sound plan.
LEMMA SoundNothing ==
  ASSUME NEW dir, NEW g, NEW sans
  PROVE  SoundPlan(dir, g, sans, <<>>)
  BY DEF SoundPlan, AuthorityFirst

\* The certificates an authority signs, in the order they are written.
LEMMA CommonWrites ==
  ASSUME NEW i \in 1..3, NEW caKey, NEW g, NEW sans, NEW plan,
         plan = generateCommonCertificate(Families[i], caKey, g, sans)
  PROVE  /\ Len(plan) \in Nat /\ Len(plan) > 0 /\ DOMAIN plan = 1..Len(plan)
         /\ \A at \in 1..Len(plan) : \E c \in Issued(i) :
              \/ plan[at] = Write(PathForCert(c), CertOf(g, caKey, AltNames(c, sans)))
              \/ plan[at] = Write(PathForKey(c), KeyOf(g))
         /\ plan[1] = Write(PathForCert(Families[i].common[1]),
                            CertOf(g, caKey, AltNames(Families[i].common[1], sans)))
<1> DEFINE cs == Families[i].common
           W(at) == LET name == cs[(at + 1) \div 2]
                    IN WritePair(name, g, caKey, AltNames(name, sans))[IF at % 2 = 1 THEN 1 ELSE 2]
<1>1. cs \in Seq(Issued(i)) /\ Len(cs) \in {1, 2, 4}
  BY FamiliesAre
<1>2. plan = [at \in 1..(2 * Len(cs)) |-> W(at)]
  BY DEF generateCommonCertificate
<1> HIDE DEF cs
<1>3. \A at \in 1..(2 * Len(cs)) : (at + 1) \div 2 \in 1..Len(cs) /\ at % 2 \in {0, 1}
  BY <1>1
<1>4. ASSUME NEW name
      PROVE  /\ WritePair(name, g, caKey, AltNames(name, sans))[1]
                  = Write(PathForCert(name), CertOf(g, caKey, AltNames(name, sans)))
             /\ WritePair(name, g, caKey, AltNames(name, sans))[2] = Write(PathForKey(name), KeyOf(g))
  BY DEF WritePair
<1>5. /\ Len(plan) = 2 * Len(cs) /\ Len(plan) \in Nat /\ Len(plan) > 0
      /\ DOMAIN plan = 1..Len(plan)
  <2> HIDE DEF W
  <2> QED
    BY <1>1, <1>2
<1>6. ASSUME NEW at \in 1..Len(plan)
      PROVE  \E c \in Issued(i) :
               \/ plan[at] = Write(PathForCert(c), CertOf(g, caKey, AltNames(c, sans)))
               \/ plan[at] = Write(PathForKey(c), KeyOf(g))
  <2> DEFINE c == cs[(at + 1) \div 2]
  <2>1. c \in Issued(i)
    BY <1>1, <1>3, <1>5
  <2>2. plan[at] = WritePair(c, g, caKey, AltNames(c, sans))[IF at % 2 = 1 THEN 1 ELSE 2]
    BY <1>2, <1>5
  <2> HIDE DEF c
  <2> QED
    BY <2>1, <2>2, <1>4
<1>7. plan[1] = Write(PathForCert(cs[1]), CertOf(g, caKey, AltNames(cs[1], sans)))
  <2>1. plan[1] = W(1)
    <3> HIDE DEF W
    <3> QED
      BY <1>1, <1>2
  <2>2. (1 + 1) \div 2 = 1 /\ 1 % 2 = 1
    OBVIOUS
  <2> QED
    BY <2>1, <2>2, <1>4
<1> QED
  BY <1>5, <1>6, <1>7 DEF cs
\* The certificates of an authority that is there are a sound plan.
LEMMA SoundCommon ==
  ASSUME NEW dir, NEW g, NEW sans, NEW i \in 1..3, NEW plan,
         Readable(dir, Authority(i)),
         plan = generateCommonCertificate(Families[i], SigningKey(dir, i, g), g, sans)
  PROVE  SoundPlan(dir, g, sans, plan)
<1>1. /\ DOMAIN plan = 1..Len(plan) /\ Len(plan) \in Nat
      /\ \A at \in 1..Len(plan) : \E c \in Issued(i) :
           \/ plan[at] = Write(PathForCert(c), CertOf(g, SigningKey(dir, i, g), AltNames(c, sans)))
           \/ plan[at] = Write(PathForKey(c), KeyOf(g))
  BY CommonWrites
<1>2. \A at \in 1..Len(plan) : plan[at] \in NewIssued(dir, i, g, sans)
  BY <1>1 DEF NewIssued
<1>3. \A at \in 1..Len(plan) : plan[at] \in Generated(dir, g, sans)
  BY <1>2 DEF Generated
<1>4. plan = [at \in 1..Len(plan) |-> plan[at]]
  BY DEF generateCommonCertificate
<1>5. plan \in Seq(Generated(dir, g, sans))
  BY <1>1, <1>3, <1>4
<1>6. ASSUME NEW j \in 1..3, NEW at \in 1..Len(plan)
      PROVE  /\ plan[at][1] # PathForKey(Authority(j))
             /\ \A c \in Issued(j) : plan[at][1] = PathForCert(c) => Readable(dir, Authority(j))
  <2>2. PICK c \in Issued(i) : plan[at][1] = PathForCert(c) \/ plan[at][1] = PathForKey(c)
    BY <1>1, WriteSays
  <2> QED
    BY <2>2, NamesDiffer, PathsDiffer
<1> QED
  BY <1>5, <1>6 DEF SoundPlan, AuthorityFirst

NewFamily(i, g, sans) ==
  generateAuthorityCertificate(Families[i], g) \o generateCommonCertificate(Families[i], g, g, sans)

\* A new authority and its certificates are a sound plan.
LEMMA SoundAuthority ==
  ASSUME NEW dir, NEW g, NEW sans, NEW i \in 1..3, NEW u,
         ~Has(dir, PathForCert(Authority(i))), u = NewFamily(i, g, sans)
  PROVE  /\ SoundPlan(dir, g, sans, u)
         /\ \E at \in 1..Len(u) : u[at][1] = PathForCert(Families[i].common[1])
<1> DEFINE s == generateAuthorityCertificate(Families[i], g)
           t == generateCommonCertificate(Families[i], g, g, sans)
           E == Generated(dir, g, sans)
<1>1. /\ DOMAIN t = 1..Len(t) /\ Len(t) \in Nat
      /\ \A at \in 1..Len(t) : \E c \in Issued(i) :
           \/ t[at] = Write(PathForCert(c), CertOf(g, g, AltNames(c, sans)))
           \/ t[at] = Write(PathForKey(c), KeyOf(g))
  BY CommonWrites
<1>2. s = <<Write(PathForCert(Authority(i)), CertOf(g, g, {})), Write(PathForKey(Authority(i)), KeyOf(g))>>
  BY DEF generateAuthorityCertificate, WritePair, Authority
<1>3. SigningKey(dir, i, g) = g
  BY DEF SigningKey
<1>4. \A at \in 1..Len(t) : t[at] \in E
  <2>1. \A at \in 1..Len(t) : t[at] \in NewIssued(dir, i, g, sans)
    BY <1>1, <1>3 DEF NewIssued
  <2> QED
    BY <2>1 DEF Generated
<1>5. s[1] \in E /\ s[2] \in E /\ Len(s) = 2
  <2>1. s[1] \in NewAuthority(dir, i, g) /\ s[2] \in NewAuthority(dir, i, g) /\ Len(s) = 2
    BY <1>2 DEF NewAuthority
  <2> QED
    BY <2>1 DEF Generated
<1>6. t = [at \in 1..Len(t) |-> t[at]] /\ u = s \o t
  BY DEF generateCommonCertificate, NewFamily
<1> HIDE DEF E, s, t
<1>7. s \in Seq(E) /\ t \in Seq(E)
  BY <1>1, <1>2, <1>4, <1>5, <1>6
<1>8. /\ u \in Seq(E) /\ Len(u) = Len(t) + 2
      /\ u[1] = s[1] /\ u[2] = s[2] /\ \A at \in 1..Len(t) : u[2 + at] = t[at]
  <2>1. /\ u \in Seq(E) /\ Len(u) = Len(s) + Len(t)
        /\ \A k \in 1..Len(s) : u[k] = s[k]
        /\ \A k \in 1..Len(t) : u[Len(s) + k] = t[k]
    BY <1>6, <1>7, Concat
  <2>2. Len(s) = 2 /\ 1 \in 1..2 /\ 2 \in 1..2 /\ Len(s) + Len(t) = Len(t) + 2
    BY <1>5, <1>1
  <2> QED
    BY <2>1, <2>2
<1>9. u[1][1] = PathForCert(Authority(i)) /\ u[2][1] = PathForKey(Authority(i))
  BY <1>8, <1>2, WriteSays
<1>10. ASSUME NEW at \in 3..Len(u)
       PROVE  \E c \in Issued(i) : u[at][1] = PathForCert(c) \/ u[at][1] = PathForKey(c)
  <2> DEFINE k == at - 2
  <2>1. k \in 1..Len(t) /\ at = 2 + k
    BY <1>8, <1>1
  <2> HIDE DEF k
  <2>2. u[at] = t[k]
    BY <2>1, <1>8
  <2> QED
    BY <2>1, <2>2, <1>1, WriteSays
<1>11. ASSUME NEW j \in 1..3, NEW at \in 1..Len(u)
       PROVE  /\ u[at][1] = PathForKey(Authority(j)) =>
                   \E b \in 1..at : u[b][1] = PathForCert(Authority(j))
              /\ \A c \in Issued(j) : u[at][1] = PathForCert(c) =>
                   \E b \in 1..at : u[b][1] = PathForKey(Authority(j))
  <2>1. at = 1 \/ at = 2 \/ (at \in 3..Len(u) /\ 1 \in 1..at /\ 2 \in 1..at)
    BY <1>8, <1>1
  <2>2. CASE at = 1
    BY <2>2, <1>9, NamesDiffer, PathsDiffer
  <2>3. CASE at = 2
    <3>1. 1 \in 1..at
      BY <2>3
    <3>2. u[at][1] = PathForKey(Authority(j)) => j = i
      BY <2>3, <1>9, NamesDiffer, PathsDiffer
    <3> QED
      BY <2>3, <3>1, <3>2, <1>9, PathsDiffer
  <2>4. CASE at \in 3..Len(u) /\ 1 \in 1..at /\ 2 \in 1..at
    <3>1. PICK c \in Issued(i) : u[at][1] = PathForCert(c) \/ u[at][1] = PathForKey(c)
      BY <2>4, <1>10
    <3>2. u[at][1] # PathForKey(Authority(j))
      BY <3>1, NamesDiffer, PathsDiffer
    <3>3. \A d \in Issued(j) : u[at][1] = PathForCert(d) => i = j
      BY <3>1, NamesDiffer, PathsDiffer
    <3> QED
      BY <3>2, <3>3, <2>4, <1>9
  <2> QED
    BY <2>1, <2>2, <2>3, <2>4
<1>12. \E at \in 1..Len(u) : u[at][1] = PathForCert(Families[i].common[1])
  <2>1. Len(t) > 0 /\ t[1][1] = PathForCert(Families[i].common[1])
    BY CommonWrites, WriteSays DEF t
  <2>2. 1 \in 1..Len(t) /\ 2 + 1 \in 1..Len(u)
    BY <2>1, <1>1, <1>8
  <2>3. u[2 + 1] = t[1]
    BY <2>2, <1>8
  <2> QED
    BY <2>1, <2>2, <2>3
<1> QED
  BY <1>8, <1>11, <1>12 DEF SoundPlan, AuthorityFirst, E

\* The plan of a family is sound, and a family that can be made has its first
\* certificate made.
LEMMA SoundFamily ==
  ASSUME NEW dir, NEW g, NEW sans, NEW i \in 1..3
  PROVE  /\ SoundPlan(dir, g, sans, FamilyPlan(dir, Families[i], g, sans).plan)
         /\ FamilyPlan(dir, Families[i], g, sans).ok =>
              \E at \in 1..Len(FamilyPlan(dir, Families[i], g, sans).plan) :
                FamilyPlan(dir, Families[i], g, sans).plan[at][1] = PathForCert(Families[i].common[1])
<1> DEFINE r == FamilyPlan(dir, Families[i], g, sans)
           v == generateCommonCertificate(Families[i], SigningKey(dir, i, g), g, sans)
<1>0. Families[i].ca = Authority(i)
  BY DEF Authority
<1>1. CASE ~Has(dir, PathForCert(Authority(i)))
  <2>1. r.plan = NewFamily(i, g, sans)
    BY <1>0, <1>1 DEF FamilyPlan, NewFamily
  <2> HIDE DEF r
  <2>2. /\ SoundPlan(dir, g, sans, r.plan)
        /\ \E at \in 1..Len(r.plan) : r.plan[at][1] = PathForCert(Families[i].common[1])
    BY <1>1, <2>1, SoundAuthority
  <2> QED
    BY <2>2 DEF r
<1>2. CASE Has(dir, PathForCert(Authority(i))) /\ ~Readable(dir, Authority(i))
  <2>1. r.plan = <<>> /\ r.ok = FALSE
    BY <1>0, <1>2 DEF FamilyPlan
  <2> HIDE DEF r
  <2> QED
    BY <2>1, SoundNothing DEF r
<1>3. CASE Readable(dir, Authority(i))
  <2>1. r.plan = v
    BY <1>0, <1>3 DEF FamilyPlan, SigningKey, Readable
  <2>2. SoundPlan(dir, g, sans, v)
    BY <1>3, SoundCommon
  <2>3. Len(v) \in Nat /\ Len(v) > 0 /\ v[1][1] = PathForCert(Families[i].common[1])
    BY CommonWrites, WriteSays
  <2> HIDE DEF v
  <2>4. 1 \in 1..Len(v)
    BY <2>3
  <2> QED
    BY <2>1, <2>2, <2>3, <2>4
<1> QED
  BY <1>1, <1>2, <1>3
\* A service account key pair that is not there is a sound plan.
LEMMA SoundServiceAccount ==
  ASSUME NEW dir, NEW g, NEW sans
  PROVE  SoundPlan(dir, g, sans, ServiceAccountPlan(dir, g))
<1> DEFINE plan == ServiceAccountPlan(dir, g)
           w1 == Write(PathForKey("sa"), KeyOf(g))
           w2 == Write(PathForPublicKey("sa"), KeyOf(g))
<1>1. CASE Has(dir, PathForKey("sa"))
  <2>1. plan = <<>>
    BY <1>1 DEF ServiceAccountPlan
  <2> QED
    BY <2>1, SoundNothing
<1>2. CASE ~Has(dir, PathForKey("sa"))
  <2>1. plan = <<w1, w2>>
    BY <1>2 DEF ServiceAccountPlan
  <2>2. w1 \in NewServiceAccount(dir, g) /\ w2 \in NewServiceAccount(dir, g)
    BY <1>2 DEF NewServiceAccount
  <2>3. w1 \in Generated(dir, g, sans) /\ w2 \in Generated(dir, g, sans)
    BY <2>2 DEF Generated
  <2>4. w1[1] = PathForKey("sa") /\ w2[1] = PathForPublicKey("sa")
    BY WriteSays
  <2> HIDE DEF w1, w2, plan
  <2>5. plan \in Seq(Generated(dir, g, sans)) /\ Len(plan) = 2 /\ plan[1] = w1 /\ plan[2] = w2
    BY <2>1, <2>3
  <2>6. \A at \in 1..Len(plan) : plan[at][1] = PathForKey("sa") \/ plan[at][1] = PathForPublicKey("sa")
    BY <2>4, <2>5
  <2>7. AuthorityFirst(dir, plan)
    BY <2>6, NamesDiffer, PathsDiffer DEF AuthorityFirst
  <2> QED
    BY <2>5, <2>7 DEF SoundPlan, plan
<1> QED
  BY <1>1, <1>2

\* One plan after the other, and that a plan makes a file.
Then(s, t) == s \o t
Makes(plan, f) == \E at \in 1..Len(plan) : plan[at][1] = f

\* A file of the first of two plans is in both together.
LEMMA InBoth ==
  ASSUME NEW dir, NEW g, NEW sans, NEW s, NEW t, NEW f,
         SoundPlan(dir, g, sans, s), SoundPlan(dir, g, sans, t),
         Makes(s, f)
  PROVE  Makes(Then(s, t), f)
<1> DEFINE E == Generated(dir, g, sans)
<1>1. s \in Seq(E) /\ t \in Seq(E)
  BY DEF SoundPlan
<1> HIDE DEF E
<1>2. /\ Len(s \o t) = Len(s) + Len(t) /\ Len(s) \in Nat /\ Len(t) \in Nat
      /\ \A k \in 1..Len(s) : (s \o t)[k] = s[k]
  BY <1>1, Concat
<1>3. PICK at \in 1..Len(s) : s[at][1] = f
  BY DEF Makes
<1>4. at \in 1..Len(Then(s, t)) /\ Then(s, t)[at] = s[at]
  BY <1>2 DEF Then
<1> QED
  BY <1>3, <1>4 DEF Makes

\* The plan of a run of the generator is sound, and one that ends well makes
\* the API server's certificate.
LEMMA SoundGenerate ==
  ASSUME NEW dir, NEW g, NEW sans, NEW r, r = GenerateAllKubernetesCerts(dir, g, sans)
  PROVE  /\ SoundPlan(dir, g, sans, r.plan)
         /\ r.ok => Makes(r.plan, PathForCert("apiserver"))
<1> DEFINE k == FamilyPlan(dir, Families[1], g, sans)
           e == FamilyPlan(dir, Families[2], g, sans)
           f == FamilyPlan(dir, Families[3], g, sans)
           a == ServiceAccountPlan(dir, g)
<1>1. /\ r.plan = IF ~k.ok THEN <<>>
                  ELSE IF ~e.ok THEN k.plan
                  ELSE IF ~f.ok THEN Then(k.plan, e.plan)
                  ELSE Then(Then(Then(k.plan, e.plan), f.plan), a)
      /\ r.ok = (k.ok /\ e.ok /\ f.ok)
  BY DEF GenerateAllKubernetesCerts, Then
<1>2. SoundPlan(dir, g, sans, k.plan) /\ SoundPlan(dir, g, sans, e.plan) /\ SoundPlan(dir, g, sans, f.plan)
  BY SoundFamily
<1>3. SoundPlan(dir, g, sans, a)
  BY SoundServiceAccount
<1>4. k.ok => Makes(k.plan, PathForCert("apiserver"))
  <2>1. Families[1].common[1] = "apiserver"
    BY DEF Families, getKubeCertificateConfig
  <2>2. 1 \in 1..3
    OBVIOUS
  <2> QED
    BY <2>1, <2>2, SoundFamily DEF Makes
<1> HIDE DEF k, e, f, a
<1>5. SoundPlan(dir, g, sans, Then(k.plan, e.plan))
  BY <1>2, SoundConcat DEF Then
<1>6. SoundPlan(dir, g, sans, Then(Then(k.plan, e.plan), f.plan))
  BY <1>2, <1>5, SoundConcat DEF Then
<1>7. SoundPlan(dir, g, sans, Then(Then(Then(k.plan, e.plan), f.plan), a))
  BY <1>3, <1>6, SoundConcat DEF Then
<1>8. SoundPlan(dir, g, sans, r.plan)
  BY <1>1, <1>2, <1>5, <1>7, <1>6, SoundNothing
<1>9. ASSUME r.ok
      PROVE  Makes(r.plan, PathForCert("apiserver"))
  <2>1. Makes(Then(k.plan, e.plan), PathForCert("apiserver"))
    BY <1>1, <1>2, <1>4, <1>9, InBoth
  <2>2. Makes(Then(Then(k.plan, e.plan), f.plan), PathForCert("apiserver"))
    BY <2>1, <1>2, <1>5, InBoth
  <2>3. Makes(Then(Then(Then(k.plan, e.plan), f.plan), a), PathForCert("apiserver"))
    BY <2>2, <1>3, <1>6, InBoth
  <2> QED
    BY <2>3, <1>1, <1>9
<1> QED
  BY <1>8, <1>9
------------------------------------------------------------------------------
(* What a run of the generator leaves.                                     *)

\* A key of an authority has its certificate beside it, and a certificate was
\* signed by the authority beside it, in complete and in half-written
\* directories.
Coherent(dir) ==
  \A i \in 1..3 :
    /\ Has(dir, PathForKey(Authority(i))) =>
         /\ Has(dir, PathForCert(Authority(i)))
         /\ dir[PathForCert(Authority(i))].key = dir[PathForKey(Authority(i))].key
    /\ \A c \in Issued(i) : Has(dir, PathForCert(c)) =>
         /\ Has(dir, PathForKey(Authority(i)))
         /\ dir[PathForCert(c)].signer = dir[PathForKey(Authority(i))].key

\* What a run can write under each name.
LEMMA GeneratedSays ==
  ASSUME NEW dir, NEW g, NEW sans, NEW i \in 1..3, NEW w \in Generated(dir, g, sans)
  PROVE  /\ w[1] = PathForCert(Authority(i)) => ~Has(dir, PathForCert(Authority(i))) /\ w[2] = CertOf(g, g, {})
         /\ w[1] = PathForKey(Authority(i)) => ~Has(dir, PathForCert(Authority(i))) /\ w[2] = KeyOf(g)
         /\ \A c \in Issued(i) : w[1] = PathForCert(c) =>
              w[2] = CertOf(g, SigningKey(dir, i, g), AltNames(c, sans))
         /\ w[1] = PathForKey("sa") => ~Has(dir, PathForKey("sa"))
<1>1. CASE \E j \in 1..3 : w \in NewAuthority(dir, j, g)
  <2>1. PICK j \in 1..3 : w \in NewAuthority(dir, j, g)
    BY <1>1
  <2>2. ~Has(dir, PathForCert(Authority(j)))
    BY <2>1 DEF NewAuthority
  <2>3. \/ w = Write(PathForCert(Authority(j)), CertOf(g, g, {}))
        \/ w = Write(PathForKey(Authority(j)), KeyOf(g))
    BY <2>1 DEF NewAuthority
  <2>4. CASE w = Write(PathForCert(Authority(j)), CertOf(g, g, {}))
    <3>1. w[1] = PathForCert(Authority(j)) /\ w[2] = CertOf(g, g, {})
      BY <2>4, WriteSays
    <3> QED
      BY <2>2, <3>1, NamesDiffer, PathsDiffer
  <2>5. CASE w = Write(PathForKey(Authority(j)), KeyOf(g))
    <3>1. w[1] = PathForKey(Authority(j)) /\ w[2] = KeyOf(g)
      BY <2>5, WriteSays
    <3> QED
      BY <2>2, <3>1, NamesDiffer, PathsDiffer
  <2> QED
    BY <2>3, <2>4, <2>5
<1>2. CASE \E j \in 1..3 : w \in NewIssued(dir, j, g, sans)
  <2>1. PICK j \in 1..3 : w \in NewIssued(dir, j, g, sans)
    BY <1>2
  <2>2. PICK c \in Issued(j) : \/ w = Write(PathForCert(c), CertOf(g, SigningKey(dir, j, g), AltNames(c, sans)))
                               \/ w = Write(PathForKey(c), KeyOf(g))
    BY <2>1 DEF NewIssued
  <2>3. CASE w = Write(PathForCert(c), CertOf(g, SigningKey(dir, j, g), AltNames(c, sans)))
    <3>1. w[1] = PathForCert(c) /\ w[2] = CertOf(g, SigningKey(dir, j, g), AltNames(c, sans))
      BY <2>3, WriteSays
    <3>2. ASSUME NEW d \in Issued(i), w[1] = PathForCert(d)
          PROVE  d = c /\ i = j
      <4>1. d = c
        BY <3>1, <3>2, PathsDiffer
      <4>2. d \in Issued(i) \cap Issued(j)
        BY <4>1
      <4> QED
        BY <4>1, <4>2, NamesDiffer
    <3> QED
      BY <3>1, <3>2, NamesDiffer, PathsDiffer
  <2>4. CASE w = Write(PathForKey(c), KeyOf(g))
    <3>1. w[1] = PathForKey(c)
      BY <2>4, WriteSays
    <3> QED
      BY <3>1, NamesDiffer, PathsDiffer
  <2> QED
    BY <2>2, <2>3, <2>4
<1>3. CASE w \in NewServiceAccount(dir, g)
  <2>1. /\ ~Has(dir, PathForKey("sa"))
        /\ \/ w = Write(PathForKey("sa"), KeyOf(g))
           \/ w = Write(PathForPublicKey("sa"), KeyOf(g))
    BY <1>3 DEF NewServiceAccount
  <2>2. w[1] = PathForKey("sa") \/ w[1] = PathForPublicKey("sa")
    BY <2>1, WriteSays
  <2> QED
    BY <2>1, <2>2, NamesDiffer, PathsDiffer
<1> QED
  BY <1>1, <1>2, <1>3 DEF Generated

\* A run that was cut off anywhere leaves a coherent directory with the
\* authorities and the service account key that were there.
LEMMA GenerateLeaves ==
  ASSUME NEW dir, NEW g, NEW sans, NEW r, r = GenerateAllKubernetesCerts(dir, g, sans),
         NEW d \in 0..Len(r.plan), NEW new, new = Applied(dir, r.plan, d), Coherent(dir)
  PROVE  /\ DOMAIN dir \subseteq DOMAIN new
         /\ Coherent(new)
         /\ \A i \in 1..3 : Has(dir, PathForKey(Authority(i))) =>
              new[PathForKey(Authority(i))] = dir[PathForKey(Authority(i))]
         /\ Has(dir, PathForKey("sa")) => new[PathForKey("sa")] = dir[PathForKey("sa")]
         /\ r.ok /\ d = Len(r.plan) =>
              Has(new, PathForCert("apiserver")) /\ new[PathForCert("apiserver")].sans = sans
<1> DEFINE E == Generated(dir, g, sans)
           p == r.plan
<1>1. SoundPlan(dir, g, sans, p)
  BY SoundGenerate
<1>2. p \in Seq(E) /\ Len(p) \in Nat /\ d \in Nat /\ \A k \in 1..d : k \in 1..Len(p) /\ p[k] \in E
  BY <1>1 DEF SoundPlan
<1>3. /\ DOMAIN dir \subseteq DOMAIN new
      /\ \A k \in 1..d : p[k][1] \in DOMAIN new
      /\ \A f \in DOMAIN new :
           \/ \E k \in 1..d : p[k][1] = f /\ new[f] = p[k][2]
           \/ f \in DOMAIN dir /\ new[f] = dir[f] /\ \A k \in 1..d : p[k][1] # f
  BY <1>2, AppliedSays
<1>4. ASSUME NEW i \in 1..3, NEW k \in 1..d
      PROVE  /\ p[k][1] = PathForCert(Authority(i)) =>
                  ~Has(dir, PathForCert(Authority(i))) /\ p[k][2] = CertOf(g, g, {})
             /\ p[k][1] = PathForKey(Authority(i)) =>
                  ~Has(dir, PathForCert(Authority(i))) /\ p[k][2] = KeyOf(g)
             /\ \A c \in Issued(i) : p[k][1] = PathForCert(c) =>
                  p[k][2] = CertOf(g, SigningKey(dir, i, g), AltNames(c, sans))
             /\ p[k][1] = PathForKey("sa") => ~Has(dir, PathForKey("sa"))
  BY <1>2, GeneratedSays
<1>5. ASSUME NEW i \in 1..3, NEW k \in 1..d
      PROVE  /\ p[k][1] = PathForKey(Authority(i)) => Has(new, PathForCert(Authority(i)))
             /\ \A c \in Issued(i) : p[k][1] = PathForCert(c) =>
                  Readable(dir, Authority(i)) \/ \E b \in 1..d : p[b][1] = PathForKey(Authority(i))
  <2>1. k \in 1..Len(p) /\ \A b \in 1..k : b \in 1..d
    BY <1>2
  <2>2. /\ p[k][1] = PathForKey(Authority(i)) => \E b \in 1..k : p[b][1] = PathForCert(Authority(i))
        /\ \A c \in Issued(i) : p[k][1] = PathForCert(c) =>
             Readable(dir, Authority(i)) \/ \E b \in 1..k : p[b][1] = PathForKey(Authority(i))
    BY <2>1, <1>1 DEF SoundPlan, AuthorityFirst
  <2> QED
    BY <2>1, <2>2, <1>3 DEF Has
<1> HIDE DEF p, E
<1>6. ASSUME NEW i \in 1..3, Has(dir, PathForKey(Authority(i)))
      PROVE  /\ new[PathForKey(Authority(i))] = dir[PathForKey(Authority(i))]
             /\ Has(dir, PathForCert(Authority(i)))
             /\ new[PathForCert(Authority(i))] = dir[PathForCert(Authority(i))]
             /\ dir[PathForCert(Authority(i))].key = dir[PathForKey(Authority(i))].key
  <2>1. /\ Has(dir, PathForCert(Authority(i)))
        /\ dir[PathForCert(Authority(i))].key = dir[PathForKey(Authority(i))].key
    BY <1>6 DEF Coherent
  <2>2. \A k \in 1..d : p[k][1] # PathForKey(Authority(i)) /\ p[k][1] # PathForCert(Authority(i))
    BY <2>1, <1>4
  <2> QED
    BY <2>1, <2>2, <1>3, <1>6 DEF Has
<1>7. ASSUME NEW i \in 1..3, NEW k \in 1..d, p[k][1] = PathForKey(Authority(i))
      PROVE  /\ ~Has(dir, PathForCert(Authority(i)))
             /\ Has(new, PathForKey(Authority(i))) /\ new[PathForKey(Authority(i))].key = g
             /\ Has(new, PathForCert(Authority(i))) /\ new[PathForCert(Authority(i))].key = g
  <2>1. ~Has(dir, PathForCert(Authority(i))) /\ ~Has(dir, PathForKey(Authority(i)))
    BY <1>4, <1>7 DEF Coherent
  <2>2. Has(new, PathForKey(Authority(i))) /\ Has(new, PathForCert(Authority(i)))
    BY <1>3, <1>5, <1>7 DEF Has
  <2>3. new[PathForKey(Authority(i))] = KeyOf(g)
    BY <2>1, <2>2, <1>3, <1>4 DEF Has
  <2>4. new[PathForCert(Authority(i))] = CertOf(g, g, {})
    BY <2>1, <2>2, <1>3, <1>4 DEF Has
  <2> QED
    BY <2>1, <2>2, <2>3, <2>4 DEF KeyOf, CertOf
<1>8. ASSUME NEW i \in 1..3, Has(new, PathForKey(Authority(i)))
      PROVE  /\ Has(new, PathForCert(Authority(i)))
             /\ new[PathForCert(Authority(i))].key = new[PathForKey(Authority(i))].key
  <2>1. CASE Has(dir, PathForKey(Authority(i)))
    BY <2>1, <1>3, <1>6 DEF Has
  <2>2. CASE ~Has(dir, PathForKey(Authority(i)))
    <3>1. PICK k \in 1..d : p[k][1] = PathForKey(Authority(i))
      BY <2>2, <1>3, <1>8 DEF Has
    <3> QED
      BY <3>1, <1>7
  <2> QED
    BY <2>1, <2>2
<1>9. ASSUME NEW i \in 1..3, NEW c \in Issued(i), Has(new, PathForCert(c))
      PROVE  /\ Has(new, PathForKey(Authority(i)))
             /\ new[PathForCert(c)].signer = new[PathForKey(Authority(i))].key
  <2>1. CASE \E k \in 1..d : p[k][1] = PathForCert(c) /\ new[PathForCert(c)] = p[k][2]
    <3>1. PICK k \in 1..d : p[k][1] = PathForCert(c) /\ new[PathForCert(c)] = p[k][2]
      BY <2>1
    <3>2. new[PathForCert(c)] = CertOf(g, SigningKey(dir, i, g), AltNames(c, sans))
      BY <3>1, <1>4
    <3>3. new[PathForCert(c)].signer = SigningKey(dir, i, g)
      BY <3>2 DEF CertOf
    <3>4. CASE Readable(dir, Authority(i))
      BY <3>3, <3>4, <1>3, <1>6 DEF Readable, Has, SigningKey
    <3>5. CASE \E b \in 1..d : p[b][1] = PathForKey(Authority(i))
      BY <3>3, <3>5, <1>7 DEF SigningKey
    <3> QED
      BY <3>1, <3>4, <3>5, <1>5
  <2>2. CASE PathForCert(c) \in DOMAIN dir /\ new[PathForCert(c)] = dir[PathForCert(c)]
    <3>1. /\ Has(dir, PathForKey(Authority(i)))
          /\ dir[PathForCert(c)].signer = dir[PathForKey(Authority(i))].key
      BY <2>2 DEF Coherent, Has
    <3> QED
      BY <2>2, <3>1, <1>3, <1>6 DEF Has
  <2> QED
    BY <2>1, <2>2, <1>3, <1>9 DEF Has
<1>10. Has(dir, PathForKey("sa")) => new[PathForKey("sa")] = dir[PathForKey("sa")]
  <2>1. 1 \in 1..3
    OBVIOUS
  <2> QED
    BY <2>1, <1>3, <1>4 DEF Has
<1>11. ASSUME r.ok, d = Len(p)
       PROVE  Has(new, PathForCert("apiserver")) /\ new[PathForCert("apiserver")].sans = sans
  <2>1. PICK k \in 1..d : p[k][1] = PathForCert("apiserver")
    BY <1>11, SoundGenerate DEF Makes, p
  <2>2. 1 \in 1..3 /\ "apiserver" \in Issued(1)
    BY FamiliesAre
  <2>3. PathForCert("apiserver") \in DOMAIN new
    BY <2>1, <1>3
  <2>4. \E b \in 1..d : p[b][1] = PathForCert("apiserver") /\ new[PathForCert("apiserver")] = p[b][2]
    BY <2>1, <2>3, <1>3
  <2>5. new[PathForCert("apiserver")] = CertOf(g, SigningKey(dir, 1, g), AltNames("apiserver", sans))
    BY <2>2, <2>4, <1>4
  <2> QED
    BY <2>3, <2>5 DEF CertOf, AltNames, Has
<1> QED
  BY <1>3, <1>6, <1>8, <1>9, <1>10, <1>11 DEF Coherent, p
------------------------------------------------------------------------------
(* The inductive invariant.                                                *)

K0sSteps == {"bootstrap", "joinToken", "copyM", "joinM", "copyW", "joinW"}
AnyStep ==
  HostPhases \cup ClusterPhases \cup K0sSteps
    \cup {"save", "distribute", "config", "cert", "kubeConfig", "initMaster0", "joinMasters", "joinNodes", "roles",
          "launch", "saveApp", "commit", "remove", "restore", "reset", "rmDisk", "rmApp", "rmKubeconfig",
          "update", "toApp"}

ToDo(todo, step) == \E i \in 1..Len(todo) : todo[i] = step

\* What the order of the steps still to do guarantees.
Ordered(todo) ==
  \A i, j \in 1..Len(todo) : i < j =>
    /\ todo[j] = "initMaster0" => todo[i] \notin {"initMaster0", "joinMasters", "joinNodes"}
    /\ todo[j] = "restore" => todo[i] # "initMaster0"
    /\ todo[j] = "joinMasters" => todo[i] \notin {"joinMasters", "joinNodes"}
    /\ todo[j] \in {"remove", "reset"} => todo[i] # "restore"
    /\ j = i + 1 =>
         /\ todo[j] = "initMaster0" => todo[i] = "kubeConfig"
         /\ todo[j] = "kubeConfig" => todo[i] = "cert"
         /\ todo[j] = "cert" => todo[i] = "config"

GoodSteps(todo) ==
  /\ todo \in Seq(AnyStep)
  /\ Ordered(todo)
  /\ Kube => \A i \in 1..Len(todo) : todo[i] \notin K0sSteps

OpFields == {"cmd", "todo", "cf", "touched", "plugins", "torn", "app", "spec", "asked", "free", "alt", "left",
             "rendered", "launched", "hooked"}

\* The files are documents.
Docs == (disk # None => IsDoc(disk[1])) /\ (cm # None => IsDoc(cm[1]))

AllSteps(todo) == \A i \in 1..Len(todo) : todo[i] \in Steps

\* A command under way is a record on a document.
OpRecord(o) == DOMAIN o = OpFields /\ IsDoc(o.cf) /\ o.alt \subseteq UNION AltSets

\* Its steps are in order.
OpInv ==
  /\ Docs
  /\ GoodSteps(op.todo) /\ AllSteps(op.todo)
  /\ ~IsIdle => OpRecord(op)

\* Clusters are numbered: a number that a command is about to give is new.
NumberInv ==
  /\ n \in Nat /\ joined \in [Hosts -> Nat]
  /\ \A h \in Hosts : joined[h] <= n
  /\ Kube => \A h \in Hosts : svc[h] = "none"
  /\ Kube /\ ToDo(op.todo, "initMaster0") => \A h \in Hosts : joined[h] < n

\* Only a host that joined as a master has a promise, but for the first master.
PromiseInv ==
  /\ DOMAIN etc = Hosts /\ DOMAIN etcConf = Hosts /\ DOMAIN promised = Hosts
  /\ \A h \in Hosts \ {Master0} : joined[h] = 0 => promised[h] = {}

CaKey == PathForKey("ca")
ConfSet(files) == {files[i] : i \in 1..Len(files)}

\* The work directory: kubeconfigs name its authority, and nothing is on the
\* first master that is not in it.
WorkInv ==
  /\ Coherent(pki)
  /\ \A f \in DOMAIN conf : Has(pki, CaKey) /\ conf[f].ca = pki[CaKey].key
  /\ At("initMaster0") => ConfSet(KubeConfigFiles) \subseteq DOMAIN conf
  /\ DOMAIN etc[Master0] \subseteq DOMAIN pki
  /\ ToDo(op.todo, "restore") /\ ~ToDo(op.todo, "remove") /\ ~ToDo(op.todo, "reset")
       /\ Master0 \in op.touched => ~Up /\ DOMAIN etc[Master0] = {}

\* A directory of certificates has all files, and the keys of another one.
Trusts(dir, base) ==
  /\ AllFiles \subseteq DOMAIN dir
  /\ SignedByItsAuthority(dir)
  /\ \A i \in 1..3 : dir[PathForKey(Authority(i))] = base[PathForKey(Authority(i))]
  /\ dir[PathForKey("sa")] = base[PathForKey("sa")]

\* The first master, and the hosts that joined its cluster as masters.
Masters == {h \in Hosts : joined[h] = joined[Master0] /\ (promised[h] # {} \/ h = Master0)}

TrustInv ==
  /\ \A h \in Hosts : DOMAIN etcConf[h] \subseteq ConfSet(IF h = Master0 THEN KubeConfigFiles ELSE JoinKubeConfigFiles)
  /\ Up =>
       /\ AllFiles \subseteq DOMAIN pki
       /\ ConfSet(KubeConfigFiles) \subseteq DOMAIN conf
       /\ \A h \in Masters :
            /\ Trusts(etc[h], pki)
            /\ \A f \in DOMAIN etcConf[h] : etcConf[h][f].ca = pki[CaKey].key

\* The API server's certificate of the work directory has the names in
\* kubeadm.yaml when it is sent, and no master is certified a second time.
SansInv ==
  /\ At("kubeConfig") \/ At("initMaster0") =>
       Has(pki, PathForCert("apiserver")) /\ pki[PathForCert("apiserver")].sans = yaml[1]
  /\ Up /\ ToDo(op.todo, "joinMasters") /\ ~ToDo(op.todo, "initMaster0") =>
       \A h \in op.touched \cap Hosts : h # Master0 => joined[h] # joined[Master0]
  /\ Up => \A h \in Masters : promised[h] \subseteq etc[h][PathForCert("apiserver")].sans

CertInv == Kube => PromiseInv /\ WorkInv /\ TrustInv /\ SansInv
Inv == OpInv /\ NumberInv /\ CertInv
------------------------------------------------------------------------------
(* Directories that are sent, completed and updated.                       *)

LEMMA AllFilesSays ==
  ASSUME NEW i \in 1..3
  PROVE  /\ PathForKey(Authority(i)) \in AllFiles /\ PathForCert(Authority(i)) \in AllFiles
         /\ \A c \in Issued(i) : PathForCert(c) \in AllFiles /\ PathForKey(c) \in AllFiles
         /\ PathForKey("sa") \in AllFiles
<1> DEFINE Pair(c) == {PathForCert(c), PathForKey(c)}
           Of(j) == UNION {Pair(c) : c \in {Authority(j)} \cup Issued(j)}
           Pairs == UNION {Of(j) : j \in 1..3}
<1>1. AllFiles = Pairs \cup {PathForKey("sa"), PathForPublicKey("sa")}
  BY DEF AllFiles, Authority, Issued
<1>2. Pair(Authority(i)) \subseteq Of(i) /\ \A c \in Issued(i) : Pair(c) \subseteq Of(i)
  OBVIOUS
<1>3. Of(i) \subseteq AllFiles
  <2> HIDE DEF Of
  <2> QED
    BY <1>1
<1>4. PathForKey("sa") \in AllFiles
  <2> HIDE DEF Pairs
  <2> QED
    BY <1>1
<1>5. Pair(Authority(i)) \subseteq AllFiles /\ \A c \in Issued(i) : Pair(c) \subseteq AllFiles
  BY <1>2, <1>3
<1> QED
  BY <1>4, <1>5

\* A coherent and complete directory is signed by its own authorities.
LEMMA CompleteIsSigned ==
  ASSUME NEW dir, Coherent(dir), AllFiles \subseteq DOMAIN dir
  PROVE  SignedByItsAuthority(dir)
  BY AllFilesSays DEF Coherent, SignedByItsAuthority, Authority, Issued, Has

\* A complete directory that is sent takes the place of what was there.
LEMMA SentSays ==
  ASSUME NEW base, NEW dir, NEW all, all = CopiedOver(base, dir), Coherent(base), AllFiles \subseteq DOMAIN base
  PROVE  /\ DOMAIN all = DOMAIN base \cup DOMAIN dir
         /\ \A f \in DOMAIN base : all[f] = base[f]
         /\ Coherent(all)
         /\ Trusts(all, base)
<1>1. DOMAIN all = DOMAIN base \cup DOMAIN dir /\ \A f \in DOMAIN base : all[f] = base[f]
  BY DEF CopiedOver, Has
<1>2. \A f \in AllFiles : f \in DOMAIN base /\ f \in DOMAIN all /\ all[f] = base[f]
  BY <1>1
<1>3. Coherent(all)
  BY <1>2, AllFilesSays DEF Coherent, Has
<1>4. SignedByItsAuthority(all)
  BY <1>2, <1>3, CompleteIsSigned
<1>5. \A i \in 1..3 : all[PathForKey(Authority(i))] = base[PathForKey(Authority(i))]
  BY <1>2, AllFilesSays
<1>6. all[PathForKey("sa")] = base[PathForKey("sa")]
  <2>1. 1 \in 1..3
    OBVIOUS
  <2> QED
    BY <1>2, <2>1, AllFilesSays
<1> QED
  BY <1>1, <1>2, <1>3, <1>4, <1>5, <1>6 DEF Trusts

\* A joining master that was sent a complete directory trusts it, however far
\* its own generator came.
LEMMA JoinedTrusts ==
  ASSUME NEW base, NEW dir, NEW all, all = CopiedOver(base, dir), Coherent(base), AllFiles \subseteq DOMAIN base,
         NEW g, NEW sans, NEW r, r = GenerateAllKubernetesCerts(all, g, sans),
         NEW d \in 0..Len(r.plan), NEW new, new = Applied(all, r.plan, d)
  PROVE  /\ Trusts(new, base)
         /\ r.ok /\ d = Len(r.plan) => new[PathForCert("apiserver")].sans = sans
<1>1. Coherent(all) /\ Trusts(all, base)
  BY SentSays
<1>2. /\ DOMAIN all \subseteq DOMAIN new
      /\ Coherent(new)
      /\ \A i \in 1..3 : Has(all, PathForKey(Authority(i))) =>
           new[PathForKey(Authority(i))] = all[PathForKey(Authority(i))]
      /\ Has(all, PathForKey("sa")) => new[PathForKey("sa")] = all[PathForKey("sa")]
      /\ r.ok /\ d = Len(r.plan) =>
           Has(new, PathForCert("apiserver")) /\ new[PathForCert("apiserver")].sans = sans
  BY <1>1, GenerateLeaves
<1>3. AllFiles \subseteq DOMAIN all
  BY <1>1 DEF Trusts
<1>4. \A i \in 1..3 : new[PathForKey(Authority(i))] = all[PathForKey(Authority(i))]
  BY <1>2, <1>3, AllFilesSays DEF Has
<1>5. new[PathForKey("sa")] = all[PathForKey("sa")]
  <2>1. 1 \in 1..3
    OBVIOUS
  <2> QED
    BY <1>2, <1>3, <2>1, AllFilesSays DEF Has
<1>6. SignedByItsAuthority(new)
  BY <1>2, <1>3, CompleteIsSigned
<1> QED
  BY <1>1, <1>2, <1>3, <1>4, <1>5, <1>6 DEF Trusts

\* What `sealer cert` writes keeps the files, the authorities and the names.
LEMMA UpdatedTrusts ==
  ASSUME NEW dir, NEW g, NEW alt, NEW r, r = UpdateAPIServerCertSans(dir, g, alt), r.ok,
         NEW k \in 1..2, NEW new, new = Applied(dir, r.plan, k)
  PROVE  /\ DOMAIN new = DOMAIN dir
         /\ \A base : Trusts(dir, base) => Trusts(new, base)
         /\ new[PathForCert("apiserver")].sans = dir[PathForCert("apiserver")].sans \cup alt
<1> DEFINE c == CertOf(g, dir[PathForKey("ca")].key, UpdatedSans(dir, alt))
<1>1. Readable(dir, "apiserver") /\ Readable(dir, "ca") /\ r.plan = WritePair("apiserver", g, dir[PathForKey("ca")].key, UpdatedSans(dir, alt))
  BY DEF UpdateAPIServerCertSans
<1>2. r.plan[1] = Write(PathForCert("apiserver"), c) /\ r.plan[2] = Write(PathForKey("apiserver"), KeyOf(g))
  BY <1>1 DEF WritePair
<1>3. /\ r.plan[1][1] = PathForCert("apiserver") /\ r.plan[1][2] = c
      /\ r.plan[2][1] = PathForKey("apiserver")
  BY <1>2, WriteSays
<1>4. /\ PathForCert("apiserver") \in DOMAIN dir /\ PathForKey("apiserver") \in DOMAIN dir
  BY <1>1 DEF Readable, Has
<1> HIDE DEF c
<1>5. k = 1 \/ k = 2
  OBVIOUS
<1>6. \A i \in 1..k : i = 1 \/ i = 2
  BY <1>5
<1>7. /\ DOMAIN dir \subseteq DOMAIN new
      /\ \A i \in 1..k : r.plan[i][1] \in DOMAIN new
      /\ \A f \in DOMAIN new :
           \/ \E i \in 1..k : r.plan[i][1] = f /\ new[f] = r.plan[i][2]
           \/ f \in DOMAIN dir /\ new[f] = dir[f] /\ \A i \in 1..k : r.plan[i][1] # f
  BY <1>5, AppliedSays
<1>8. DOMAIN new = DOMAIN dir
  BY <1>3, <1>4, <1>6, <1>7
<1>9. new[PathForCert("apiserver")] = c
  <2>1. 1 \in 1..k
    BY <1>5
  <2> QED
    BY <2>1, <1>3, <1>4, <1>6, <1>7, <1>8, PathsDiffer
<1>10. \A f \in DOMAIN dir : f # PathForCert("apiserver") /\ f # PathForKey("apiserver") => new[f] = dir[f]
  BY <1>3, <1>6, <1>7, <1>8
<1>11. c.sans = dir[PathForCert("apiserver")].sans \cup alt /\ c.signer = dir[PathForKey("ca")].key
  BY DEF c, CertOf, UpdatedSans
<1>12. ASSUME NEW base, Trusts(dir, base)
       PROVE  Trusts(new, base)
  <2>0. 1 \in 1..3 /\ Authority(1) = "ca" /\ "apiserver" \in Issued(1)
    BY FamiliesAre
  <2>1. AllFiles \subseteq DOMAIN dir /\ AllFiles \subseteq DOMAIN new
    BY <1>8, <1>12 DEF Trusts
  <2>2. \A i \in 1..3 : new[PathForKey(Authority(i))] = dir[PathForKey(Authority(i))]
    BY <2>0, <2>1, <1>10, AllFilesSays, NamesDiffer, PathsDiffer
  <2>3. new[PathForKey("sa")] = dir[PathForKey("sa")]
    BY <2>0, <2>1, <1>10, AllFilesSays, NamesDiffer, PathsDiffer
  <2>4. ASSUME NEW i \in 1..3, NEW name \in Issued(i)
        PROVE  new[PathForCert(name)].signer = new[PathForKey(Authority(i))].key
    <3>1. CASE name = "apiserver"
      <4>1. name \in Issued(i) \cap Issued(1)
        BY <3>1, <2>0
      <4>2. i = 1
        BY <4>1, <2>0, NamesDiffer
      <4> QED
        BY <3>1, <4>2, <2>0, <2>2, <1>9, <1>11
    <3>2. CASE name # "apiserver"
      <4>1. new[PathForCert(name)] = dir[PathForCert(name)]
        BY <3>2, <2>1, <1>10, AllFilesSays, PathsDiffer
      <4>2. dir[PathForCert(name)].signer = dir[PathForKey(Authority(i))].key
        BY <1>12 DEF Trusts, SignedByItsAuthority, Authority, Issued
      <4> QED
        BY <4>1, <4>2, <2>2
    <3> QED
      BY <3>1, <3>2
  <2>5. SignedByItsAuthority(new)
    BY <2>4 DEF SignedByItsAuthority, Authority, Issued
  <2> QED
    BY <2>1, <2>2, <2>3, <2>5, <1>12 DEF Trusts
<1> QED
  BY <1>8, <1>9, <1>11, <1>12
------------------------------------------------------------------------------
(* The lists of steps.                                                     *)

Marked == {"config", "cert", "kubeConfig", "initMaster0", "joinMasters", "joinNodes",
           "remove", "reset", "restore"}
Plain(todo) == \A i \in 1..Len(todo) : todo[i] \notin Marked

\* A list of steps before another one.
LEMMA GoodThen ==
  ASSUME NEW s, NEW t, GoodSteps(s), GoodSteps(t),
         \/ Plain(s) /\ \A i \in 1..Len(t) : i = 1 => t[i] \notin {"cert", "kubeConfig", "initMaster0"}
         \/ Plain(t)
  PROVE  /\ GoodSteps(Then(s, t))
         /\ Len(s) \in Nat /\ Len(t) \in Nat /\ Len(Then(s, t)) = Len(s) + Len(t)
         /\ Plain(s) /\ Plain(t) => Plain(Then(s, t))
         /\ \A x : ToDo(Then(s, t), x) <=> ToDo(s, x) \/ ToDo(t, x)
         /\ s # <<>> => Then(s, t) # <<>> /\ Then(s, t)[1] = s[1]
<1> DEFINE u == Then(s, t)
<1>1. /\ u \in Seq(AnyStep) /\ Len(u) = Len(s) + Len(t) /\ Len(s) \in Nat /\ Len(t) \in Nat
      /\ \A k \in 1..Len(s) : u[k] = s[k]
      /\ \A k \in 1..Len(t) : u[Len(s) + k] = t[k]
  BY Concat DEF GoodSteps, Then
<1> HIDE DEF u
<1>2. ASSUME NEW j \in 1..Len(u), j \notin 1..Len(s)
      PROVE  \E k \in 1..Len(t) : j = Len(s) + k /\ u[j] = t[k]
  <2> DEFINE k == j - Len(s)
  <2>1. k \in 1..Len(t) /\ j = Len(s) + k
    BY <1>1, <1>2
  <2> HIDE DEF k
  <2> QED
    BY <2>1, <1>1
<1>3. ASSUME NEW i \in 1..Len(u), NEW j \in 1..Len(u), i < j
      PROVE  /\ u[j] = "initMaster0" => u[i] \notin {"initMaster0", "joinMasters", "joinNodes"}
             /\ u[j] = "restore" => u[i] # "initMaster0"
             /\ u[j] = "joinMasters" => u[i] \notin {"joinMasters", "joinNodes"}
             /\ u[j] \in {"remove", "reset"} => u[i] # "restore"
             /\ j = i + 1 =>
                  /\ u[j] = "initMaster0" => u[i] = "kubeConfig"
                  /\ u[j] = "kubeConfig" => u[i] = "cert"
                  /\ u[j] = "cert" => u[i] = "config"
  <2>1. CASE j \in 1..Len(s)
    <3>1. i \in 1..Len(s) /\ u[i] = s[i] /\ u[j] = s[j]
      BY <2>1, <1>1, <1>3
    <3> QED
      BY <2>1, <3>1, <1>3 DEF GoodSteps, Ordered
  <2>2. CASE i \in 1..Len(s) /\ j \notin 1..Len(s)
    <3>1. PICK k \in 1..Len(t) : j = Len(s) + k /\ u[j] = t[k]
      BY <2>2, <1>2
    <3>2. u[i] = s[i] /\ (j = i + 1 => k = 1)
      BY <2>2, <3>1, <1>1
    <3>3. CASE Plain(s)
      BY <3>1, <3>2, <3>3, <2>2 DEF Plain, Marked
    <3>4. CASE Plain(t)
      BY <3>1, <3>4 DEF Plain, Marked
    <3> QED
      BY <3>3, <3>4
  <2>3. CASE i \notin 1..Len(s)
    <3>1. j \notin 1..Len(s)
      BY <2>3, <1>1, <1>3
    <3>2. PICK k \in 1..Len(t) : j = Len(s) + k /\ u[j] = t[k]
      BY <3>1, <1>2
    <3>3. PICK l \in 1..Len(t) : i = Len(s) + l /\ u[i] = t[l]
      BY <2>3, <1>2
    <3>4. l < k /\ (j = i + 1 => k = l + 1)
      BY <3>2, <3>3, <1>1, <1>3
    <3> QED
      BY <3>2, <3>3, <3>4 DEF GoodSteps, Ordered
  <2> QED
    BY <2>1, <2>2, <2>3
<1>4. \A i \in 1..Len(s) : i \in 1..Len(u)
  BY <1>1
<1>5. \A i \in 1..Len(t) : Len(s) + i \in 1..Len(u)
  BY <1>1
<1>6. Kube => \A i \in 1..Len(u) : u[i] \notin K0sSteps
  BY <1>1, <1>2 DEF GoodSteps
<1>7. Plain(s) /\ Plain(t) => Plain(u)
  BY <1>1, <1>2 DEF Plain
<1>8. ASSUME NEW x
      PROVE  ToDo(u, x) <=> ToDo(s, x) \/ ToDo(t, x)
  BY <1>1, <1>2, <1>4, <1>5 DEF ToDo
<1>9. ASSUME s # <<>>
      PROVE  u # <<>> /\ u[1] = s[1]
  <2>1. s \in Seq(AnyStep)
    BY DEF GoodSteps
  <2>2. 1 \in 1..Len(s) /\ Len(u) # 0
    BY <2>1, <1>9, <1>1
  <2> QED
    BY <2>2, <1>1
<1> QED
  BY <1>1, <1>3, <1>6, <1>7, <1>8, <1>9 DEF GoodSteps, Ordered, u

\* The steps after the first one.
LEMMA GoodTail ==
  ASSUME NEW s, GoodSteps(s), s # <<>>
  PROVE  /\ GoodSteps(Tail(s)) /\ Head(s) = s[1] /\ Len(s) \in Nat /\ Len(s) > 0
         /\ Len(Tail(s)) = Len(s) - 1
         /\ \A i \in 1..Len(Tail(s)) : i + 1 \in 1..Len(s) /\ Tail(s)[i] = s[i + 1]
         /\ \A x : ToDo(s, x) <=> x = Head(s) \/ ToDo(Tail(s), x)
         /\ Tail(s) # <<>> => Head(Tail(s)) = s[2] /\ 2 \in 1..Len(s)
<1> DEFINE t == Tail(s)
<1>1. /\ s \in Seq(AnyStep) /\ t \in Seq(AnyStep) /\ Len(t) = Len(s) - 1 /\ Len(s) \in Nat /\ Len(s) > 0
      /\ \A i \in 1..Len(t) : t[i] = s[i + 1]
      /\ Head(s) = s[1]
  BY DEF GoodSteps
<1>2. t # <<>> => Head(t) = t[1] /\ Len(t) > 0 /\ Len(t) \in Nat
  BY <1>1
<1> HIDE DEF t
<1>3. \A i \in 1..Len(t) : i + 1 \in 1..Len(s)
  BY <1>1
<1>4. ASSUME NEW i \in 1..Len(t), NEW j \in 1..Len(t), i < j
      PROVE  i + 1 \in 1..Len(s) /\ j + 1 \in 1..Len(s) /\ i + 1 < j + 1 /\ (j = i + 1 => j + 1 = (i + 1) + 1)
  BY <1>1, <1>4
<1>5. Ordered(t)
  BY <1>1, <1>4 DEF Ordered, GoodSteps
<1>6. Kube => \A i \in 1..Len(t) : t[i] \notin K0sSteps
  BY <1>1, <1>3 DEF GoodSteps
<1>7. ASSUME NEW x
      PROVE  ToDo(s, x) <=> x = Head(s) \/ ToDo(t, x)
  <2>1. 1 \in 1..Len(s)
    BY <1>1
  <2>2. ASSUME NEW i \in 1..Len(s), i # 1
        PROVE  i - 1 \in 1..Len(t) /\ t[i - 1] = s[i]
    <3>1. i - 1 \in 1..Len(t) /\ (i - 1) + 1 = i
      BY <2>2, <1>1
    <3> QED
      BY <3>1, <1>1
  <2> QED
    BY <2>1, <2>2, <1>1, <1>3 DEF ToDo
<1>8. t # <<>> => Head(t) = s[2] /\ 2 \in 1..Len(s)
  <2>1. t # <<>> => 1 \in 1..Len(t) /\ 1 + 1 = 2
    BY <1>2
  <2> QED
    BY <2>1, <1>1, <1>2, <1>3
<1> QED
  BY <1>1, <1>3, <1>5, <1>6, <1>7, <1>8 DEF GoodSteps, t

\* A list a command can start with.
Starter(todo) ==
  /\ GoodSteps(todo)
  /\ todo # <<>>
  /\ todo[1] \notin {"cert", "kubeConfig", "initMaster0"}
  /\ ToDo(todo, "restore") => ToDo(todo, "remove") \/ ToDo(todo, "reset")

\* Masters are to join a cluster that is there.
JoinsLater(todo) == ToDo(todo, "joinMasters") /\ ~ToDo(todo, "initMaster0")

LEMMA AnyStepIs ==
  AnyStep = {"save", "distribute", "config", "cert", "kubeConfig", "initMaster0", "joinMasters", "joinNodes", "roles",
             "launch", "saveApp", "commit", "remove", "restore", "reset", "rmDisk", "rmApp", "rmKubeconfig",
             "update", "toApp", "bootstrap", "joinToken", "copyM", "joinM", "copyW", "joinW",
             "pre-init-host", "post-init-host", "pre-clean-host", "post-clean-host", "upgrade-host",
             "pre-install", "post-install", "pre-uninstall", "post-uninstall",
             "pre-scaleup", "post-scaleup", "upgrade", "rollback"}
  BY DEF AnyStep, HostPhases, ClusterPhases, K0sSteps

\* The parts of the lists.
LEMMA PartsAreGood ==
  /\ GoodSteps(AppSteps) /\ Plain(AppSteps) /\ AppSteps # <<>> /\ AppSteps[1] = "launch"
  /\ GoodSteps(<<"toApp">>) /\ Plain(<<"toApp">>)
  /\ GoodSteps(<<"update">>) /\ Plain(<<"update">>)
  /\ GoodSteps(<<>>) /\ Plain(<<>>)
<1>1. GoodSteps(<<"launch", "saveApp", "commit">>) /\ Plain(<<"launch", "saveApp", "commit">>)
  <2>1. <<"launch", "saveApp", "commit">> \in Seq(AnyStep)
    BY AnyStepIs
  <2> QED
    BY <2>1 DEF GoodSteps, Ordered, Plain, Marked, K0sSteps
<1>2. GoodSteps(<<"toApp">>) /\ Plain(<<"toApp">>)
  <2>1. <<"toApp">> \in Seq(AnyStep)
    BY AnyStepIs
  <2> QED
    BY <2>1 DEF GoodSteps, Ordered, Plain, Marked, K0sSteps
<1>3. GoodSteps(<<"update">>) /\ Plain(<<"update">>)
  <2>1. <<"update">> \in Seq(AnyStep)
    BY AnyStepIs
  <2> QED
    BY <2>1 DEF GoodSteps, Ordered, Plain, Marked, K0sSteps
<1>4. GoodSteps(<<>>) /\ Plain(<<>>)
  BY DEF GoodSteps, Ordered, Plain
<1> QED
  BY <1>1, <1>2, <1>3, <1>4 DEF AppSteps

LEMMA UninstallStarts == Starter(UnInstallSteps) /\ ~JoinsLater(UnInstallSteps)
<1> DEFINE u == UnInstallSteps
<1>1. u = <<"pre-uninstall", "pre-clean-host", "reset", "post-clean-host", "post-uninstall",
            "restore", "rmDisk", "rmApp", "rmKubeconfig">>
  BY DEF UnInstallSteps
<1> HIDE DEF u
<1>2. u \in Seq(AnyStep) /\ Len(u) = 9
  BY <1>1, AnyStepIs
<1>3. Ordered(u)
  BY <1>1 DEF Ordered
<1>4. \A i \in 1..Len(u) : u[i] \notin K0sSteps
  BY <1>1 DEF K0sSteps
<1>5. u # <<>> /\ u[1] = "pre-uninstall" /\ u[3] = "reset" /\ 3 \in 1..Len(u)
  BY <1>1, <1>2
<1>6. \A i \in 1..Len(u) : u[i] # "joinMasters"
  BY <1>1
<1> QED
  BY <1>2, <1>3, <1>4, <1>5, <1>6 DEF Starter, GoodSteps, JoinsLater, ToDo, u

LEMMA ScaleDownStarts == Starter(ScaleDownSteps) /\ ~JoinsLater(ScaleDownSteps)
<1> DEFINE u == ScaleDownSteps
<1>1. u = <<"pre-clean-host", "remove", "post-clean-host", "restore", "commit">>
  BY DEF ScaleDownSteps
<1> HIDE DEF u
<1>2. u \in Seq(AnyStep) /\ Len(u) = 5
  BY <1>1, AnyStepIs
<1>3. Ordered(u)
  BY <1>1 DEF Ordered
<1>4. \A i \in 1..Len(u) : u[i] \notin K0sSteps
  BY <1>1 DEF K0sSteps
<1>5. u # <<>> /\ u[1] = "pre-clean-host" /\ u[2] = "remove" /\ 2 \in 1..Len(u)
  BY <1>1, <1>2
<1>6. \A i \in 1..Len(u) : u[i] # "joinMasters"
  BY <1>1
<1> QED
  BY <1>2, <1>3, <1>4, <1>5, <1>6 DEF Starter, GoodSteps, JoinsLater, ToDo, u
\* The first steps of commands that distribute, and what follows the runtime.
LEMMA BeginningsAreGood ==
  /\ GoodSteps(<<"save", "distribute", "pre-install", "pre-init-host">>)
  /\ Plain(<<"save", "distribute", "pre-install", "pre-init-host">>)
  /\ GoodSteps(<<"save", "distribute", "pre-scaleup", "pre-init-host">>)
  /\ Plain(<<"save", "distribute", "pre-scaleup", "pre-init-host">>)
  /\ GoodSteps(<<"save", "distribute", "upgrade-host", "upgrade">>)
  /\ Plain(<<"save", "distribute", "upgrade-host", "upgrade">>)
  /\ GoodSteps(<<"save", "rollback", "distribute">>)
  /\ Plain(<<"save", "rollback", "distribute">>)
  /\ GoodSteps(<<"post-init-host", "post-install", "roles">>)
  /\ Plain(<<"post-init-host", "post-install", "roles">>)
  /\ GoodSteps(<<"post-init-host", "post-scaleup", "roles", "commit">>)
  /\ Plain(<<"post-init-host", "post-scaleup", "roles", "commit">>)
<1>1. <<"save", "distribute", "pre-install", "pre-init-host">> \in Seq(AnyStep)
  BY AnyStepIs
<1>2. <<"save", "distribute", "pre-scaleup", "pre-init-host">> \in Seq(AnyStep)
  BY AnyStepIs
<1>3. <<"save", "distribute", "upgrade-host", "upgrade">> \in Seq(AnyStep)
  BY AnyStepIs
<1>4. <<"save", "rollback", "distribute">> \in Seq(AnyStep)
  BY AnyStepIs
<1>5. <<"post-init-host", "post-install", "roles">> \in Seq(AnyStep)
  BY AnyStepIs
<1>6. <<"post-init-host", "post-scaleup", "roles", "commit">> \in Seq(AnyStep)
  BY AnyStepIs
<1> QED
  BY <1>1, <1>2, <1>3, <1>4, <1>5, <1>6 DEF GoodSteps, Ordered, Plain, Marked, K0sSteps

\* What the runtimes do.
LEMMA RuntimeStepsAreGood ==
  /\ GoodSteps(RuntimeInstall) /\ RuntimeInstall # <<>>
  /\ \A i \in 1..Len(RuntimeInstall) :
       i = 1 => RuntimeInstall[i] \notin {"cert", "kubeConfig", "initMaster0"}
  /\ ~JoinsLater(RuntimeInstall) /\ ~ToDo(RuntimeInstall, "restore")
  /\ GoodSteps(RuntimeScaleUp) /\ RuntimeScaleUp # <<>>
  /\ \A i \in 1..Len(RuntimeScaleUp) :
       i = 1 => RuntimeScaleUp[i] \notin {"cert", "kubeConfig", "initMaster0"}
  /\ ~ToDo(RuntimeScaleUp, "restore")
<1> DEFINE u == RuntimeInstall
           v == RuntimeScaleUp
<1>1. CASE Kube
  <2>1. /\ u = <<"config", "cert", "kubeConfig", "initMaster0", "joinMasters", "joinNodes">>
        /\ v = <<"joinMasters", "joinNodes">>
    BY <1>1 DEF RuntimeInstall, RuntimeScaleUp
  <2> HIDE DEF u, v
  <2>2. u \in Seq(AnyStep) /\ Len(u) = 6
    BY <2>1, AnyStepIs
  <2>3. v \in Seq(AnyStep) /\ Len(v) = 2
    BY <2>1, AnyStepIs
  <2>4. Ordered(u)
    BY <2>1 DEF Ordered
  <2>5. Ordered(v)
    BY <2>1 DEF Ordered
  <2>6. \A i \in 1..Len(u) : u[i] \notin K0sSteps /\ u[i] # "restore"
    BY <2>1 DEF K0sSteps
  <2>7. \A i \in 1..Len(v) : v[i] \notin K0sSteps /\ v[i] # "restore"
    BY <2>1 DEF K0sSteps
  <2>8. u[1] = "config" /\ u[4] = "initMaster0" /\ 4 \in 1..Len(u) /\ v[1] = "joinMasters"
    BY <2>1, <2>2
  <2>9. u # <<>> /\ v # <<>>
    BY <2>1
  <2> QED
    BY <2>2, <2>3, <2>4, <2>5, <2>6, <2>7, <2>8, <2>9 DEF GoodSteps, ToDo, JoinsLater, u, v
<1>2. CASE ~Kube
  <2>1. /\ u = <<"bootstrap", "joinToken", "copyM", "joinM", "copyW", "joinW">>
        /\ v = <<"copyM", "joinM", "copyW", "joinW">>
    BY <1>2 DEF RuntimeInstall, RuntimeScaleUp
  <2> HIDE DEF u, v
  <2>2. u \in Seq(AnyStep) /\ Len(u) = 6
    BY <2>1, AnyStepIs
  <2>3. v \in Seq(AnyStep) /\ Len(v) = 4
    BY <2>1, AnyStepIs
  <2>4. Ordered(u)
    BY <2>1 DEF Ordered
  <2>5. Ordered(v)
    BY <2>1 DEF Ordered
  <2>6. \A i \in 1..Len(u) : u[i] # "restore" /\ u[i] # "joinMasters"
    BY <2>1
  <2>7. \A i \in 1..Len(v) : v[i] # "restore"
    BY <2>1
  <2>8. u[1] = "bootstrap" /\ v[1] = "copyM"
    BY <2>1
  <2>9. u # <<>> /\ v # <<>>
    BY <2>1
  <2> QED
    BY <1>2, <2>2, <2>3, <2>4, <2>5, <2>6, <2>7, <2>8, <2>9 DEF GoodSteps, ToDo, JoinsLater, u, v
<1> QED
  BY <1>1, <1>2

\* No step of a plain list is marked.
LEMMA PlainSays ==
  ASSUME NEW todo, Plain(todo)
  PROVE  ~ToDo(todo, "joinMasters") /\ ~ToDo(todo, "initMaster0") /\ ~ToDo(todo, "restore")
  BY DEF Plain, ToDo, Marked

\* A plain list is one to start with.
LEMMA PlainStarts ==
  ASSUME NEW todo, GoodSteps(todo), Plain(todo), todo # <<>>
  PROVE  Starter(todo) /\ ~JoinsLater(todo)
<1>1. 1 \in 1..Len(todo)
  BY DEF GoodSteps
<1> QED
  BY <1>1, PlainSays DEF Plain, Marked, Starter, JoinsLater

\* Upgrade, rollback and the installation of applications.
LEMMA PlainCommandsStart ==
  /\ Starter(UpgradeSteps) /\ ~JoinsLater(UpgradeSteps)
  /\ Starter(RollbackSteps) /\ ~JoinsLater(RollbackSteps)
  /\ Starter(AppSteps) /\ ~JoinsLater(AppSteps)
  /\ Starter(<<"update">>) /\ ~JoinsLater(<<"update">>)
<1>1. /\ UpgradeSteps = Then(<<"save", "distribute", "upgrade-host", "upgrade">>, AppSteps)
      /\ RollbackSteps = Then(<<"save", "rollback", "distribute">>, AppSteps)
  BY DEF UpgradeSteps, RollbackSteps, Then
<1>2. /\ <<"save", "distribute", "upgrade-host", "upgrade">> # <<>> /\ <<"save", "rollback", "distribute">> # <<>>
      /\ <<"update">> # <<>>
  OBVIOUS
<1>3. GoodSteps(UpgradeSteps) /\ Plain(UpgradeSteps) /\ UpgradeSteps # <<>>
  BY <1>1, <1>2, PartsAreGood, BeginningsAreGood, GoodThen
<1>4. GoodSteps(RollbackSteps) /\ Plain(RollbackSteps) /\ RollbackSteps # <<>>
  BY <1>1, <1>2, PartsAreGood, BeginningsAreGood, GoodThen
<1> QED
  BY <1>2, <1>3, <1>4, PartsAreGood, PlainStarts

\* A starter followed by plain steps.
LEMMA StarterThen ==
  ASSUME NEW s, NEW t, Starter(s), GoodSteps(t), Plain(t)
  PROVE  Starter(Then(s, t)) /\ (JoinsLater(Then(s, t)) => JoinsLater(s))
<1>1. /\ GoodSteps(Then(s, t)) /\ Then(s, t) # <<>> /\ Then(s, t)[1] = s[1]
      /\ \A x : ToDo(Then(s, t), x) <=> ToDo(s, x) \/ ToDo(t, x)
  BY GoodThen DEF Starter
<1> QED
  BY <1>1, PlainSays DEF Starter, JoinsLater

LEMMA InstallStarts == Starter(InstallSteps) /\ ~JoinsLater(InstallSteps)
<1> DEFINE a == <<"save", "distribute", "pre-install", "pre-init-host">>
           c == <<"post-init-host", "post-install", "roles">>
<1>1. InstallSteps = Then(Then(Then(a, RuntimeInstall), c), AppSteps)
  BY DEF InstallSteps, Then
<1>2. GoodSteps(a) /\ Plain(a) /\ a # <<>> /\ a[1] = "save" /\ GoodSteps(c) /\ Plain(c)
  BY BeginningsAreGood
<1> HIDE DEF a, c
<1>3. /\ GoodSteps(Then(a, RuntimeInstall)) /\ Then(a, RuntimeInstall) # <<>>
      /\ Then(a, RuntimeInstall)[1] = "save"
      /\ \A x : ToDo(Then(a, RuntimeInstall), x) <=> ToDo(a, x) \/ ToDo(RuntimeInstall, x)
  BY <1>2, RuntimeStepsAreGood, GoodThen
<1>4. Starter(Then(a, RuntimeInstall)) /\ ~JoinsLater(Then(a, RuntimeInstall))
  BY <1>2, <1>3, RuntimeStepsAreGood, PlainSays DEF Starter, JoinsLater
<1>5. Starter(Then(Then(a, RuntimeInstall), c)) /\ ~JoinsLater(Then(Then(a, RuntimeInstall), c))
  BY <1>2, <1>4, StarterThen
<1> QED
  BY <1>1, <1>5, PartsAreGood, StarterThen

LEMMA ScaleUpStarts == Starter(ScaleUpSteps)
<1> DEFINE a == <<"save", "distribute", "pre-scaleup", "pre-init-host">>
           c == <<"post-init-host", "post-scaleup", "roles", "commit">>
<1>1. ScaleUpSteps = Then(Then(a, RuntimeScaleUp), c)
  BY DEF ScaleUpSteps, Then
<1>2. GoodSteps(a) /\ Plain(a) /\ a # <<>> /\ a[1] = "save" /\ GoodSteps(c) /\ Plain(c)
  BY BeginningsAreGood
<1> HIDE DEF a, c
<1>3. /\ GoodSteps(Then(a, RuntimeScaleUp)) /\ Then(a, RuntimeScaleUp) # <<>>
      /\ Then(a, RuntimeScaleUp)[1] = "save"
      /\ \A x : ToDo(Then(a, RuntimeScaleUp), x) <=> ToDo(a, x) \/ ToDo(RuntimeScaleUp, x)
  BY <1>2, RuntimeStepsAreGood, GoodThen
<1>4. Starter(Then(a, RuntimeScaleUp))
  BY <1>2, <1>3, RuntimeStepsAreGood, PlainSays DEF Starter
<1> QED
  BY <1>1, <1>2, <1>4, StarterThen

\* apply goes on with the applications after a scale-up, or has only those.
LEMMA ApplyStarts ==
  ASSUME NEW s, Starter(s) \/ s = <<>>
  PROVE  /\ Starter(s \o <<"toApp">> \o AppSteps)
         /\ JoinsLater(s \o <<"toApp">> \o AppSteps) => JoinsLater(s)
<1> DEFINE t == <<"toApp">>
<1>1. GoodSteps(t) /\ Plain(t) /\ t # <<>> /\ GoodSteps(AppSteps) /\ Plain(AppSteps) /\ AppSteps # <<>>
  BY PartsAreGood
<1> HIDE DEF t
<1>2. CASE Starter(s)
  <2>1. Starter(Then(s, t)) /\ (JoinsLater(Then(s, t)) => JoinsLater(s))
    BY <1>1, <1>2, StarterThen
  <2>2. Starter(Then(Then(s, t), AppSteps)) /\ (JoinsLater(Then(Then(s, t), AppSteps)) => JoinsLater(s))
    BY <2>1, <1>1, StarterThen
  <2> QED
    BY <2>2 DEF Then, t
<1>3. CASE s = <<>>
  <2>1. GoodSteps(s) /\ Plain(s) /\ ~JoinsLater(t)
    BY <1>1, <1>3, PartsAreGood, PlainSays DEF JoinsLater
  <2>2. /\ GoodSteps(Then(s, t)) /\ Plain(Then(s, t)) /\ Len(Then(s, t)) = Len(s) + Len(t)
    BY <2>1, <1>1, GoodThen
  <2>3. Len(s) = 0 /\ Len(t) = 1
    BY <1>3 DEF t
  <2>4. Then(s, t) # <<>>
    BY <2>2, <2>3
  <2>5. Starter(Then(s, t)) /\ ~JoinsLater(Then(s, t))
    BY <2>2, <2>4, PlainStarts
  <2>6. Starter(Then(Then(s, t), AppSteps)) /\ ~JoinsLater(Then(Then(s, t), AppSteps))
    BY <2>5, <1>1, StarterThen
  <2> QED
    BY <2>6 DEF Then, t
<1> QED
  BY <1>2, <1>3
------------------------------------------------------------------------------
(* The commands.                                                           *)

\* The lists of the commands are made of steps.
LEMMA StepsThen ==
  ASSUME NEW s, NEW t, GoodSteps(s), GoodSteps(t)
  PROVE  AllSteps(Then(s, t)) <=> AllSteps(s) /\ AllSteps(t)
<1> DEFINE u == Then(s, t)
<1>1. /\ u \in Seq(AnyStep) /\ Len(u) = Len(s) + Len(t) /\ Len(s) \in Nat /\ Len(t) \in Nat
      /\ \A k \in 1..Len(s) : u[k] = s[k]
      /\ \A k \in 1..Len(t) : u[Len(s) + k] = t[k]
  BY Concat DEF GoodSteps, Then
<1> HIDE DEF u
<1>2. ASSUME NEW j \in 1..Len(u), j \notin 1..Len(s)
      PROVE  \E k \in 1..Len(t) : j = Len(s) + k /\ u[j] = t[k]
  <2> DEFINE k == j - Len(s)
  <2>1. k \in 1..Len(t) /\ j = Len(s) + k
    BY <1>1, <1>2
  <2> HIDE DEF k
  <2> QED
    BY <2>1, <1>1
<1>3. \A i \in 1..Len(s) : i \in 1..Len(u)
  BY <1>1
<1>4. \A i \in 1..Len(t) : Len(s) + i \in 1..Len(u)
  BY <1>1
<1>5. AllSteps(u) <=> AllSteps(s) /\ AllSteps(t)
  BY <1>1, <1>2, <1>3, <1>4 DEF AllSteps
<1> QED
  BY <1>5 DEF u

LEMMA ListsAreSteps ==
  /\ AllSteps(InstallSteps) /\ AllSteps(ScaleUpSteps) /\ AllSteps(ScaleDownSteps) /\ AllSteps(UnInstallSteps)
  /\ AllSteps(UpgradeSteps) /\ AllSteps(RollbackSteps) /\ AllSteps(AppSteps)
  /\ AllSteps(<<"update">>) /\ AllSteps(<<"toApp">>) /\ AllSteps(<<>>)
<1> DEFINE L == {InstallSteps, ScaleUpSteps, ScaleDownSteps, UnInstallSteps,
                 UpgradeSteps, RollbackSteps, <<"update", "toApp">>}
           Of(s) == {s[i] : i \in 1..Len(s)}
<1>1. Steps = UNION {Of(s) : s \in L}
  BY DEF Steps
<1>2. InstallSteps \in L /\ ScaleUpSteps \in L /\ ScaleDownSteps \in L /\ UnInstallSteps \in L
      /\ UpgradeSteps \in L /\ RollbackSteps \in L /\ <<"update", "toApp">> \in L
  OBVIOUS
<1> HIDE DEF L
<1>3. \A s \in L : \A i \in 1..Len(s) : s[i] \in Of(s)
  OBVIOUS
<1> HIDE DEF Of
<1>4. \A s \in L : AllSteps(s)
  BY <1>1, <1>3 DEF AllSteps
<1>5. AllSteps(AppSteps)
  <2>1. UpgradeSteps = Then(<<"save", "distribute", "upgrade-host", "upgrade">>, AppSteps)
    BY DEF UpgradeSteps, Then
  <2> QED
    BY <2>1, <1>2, <1>4, BeginningsAreGood, PartsAreGood, StepsThen
<1>6. "update" \in Steps /\ "toApp" \in Steps
  <2> DEFINE t == <<"update", "toApp">>
  <2>1. t[1] = "update" /\ t[2] = "toApp" /\ 1 \in 1..Len(t) /\ 2 \in 1..Len(t)
    OBVIOUS
  <2> HIDE DEF t
  <2>2. AllSteps(t)
    BY <1>2, <1>4 DEF t
  <2> QED
    BY <2>1, <2>2 DEF AllSteps
<1>7. AllSteps(<<"update">>) /\ AllSteps(<<"toApp">>) /\ AllSteps(<<>>)
  <2> HIDE DEF Steps
  <2> QED
    BY <1>6 DEF AllSteps
<1> QED
  BY <1>2, <1>4, <1>5, <1>7

\* Documents stay documents when they are decoded and merged.
LEMMA DecodeKeeps ==
  ASSUME NEW c, IsDoc(c), NEW d, d = decodeClusterFile(c).cf
  PROVE  IsDoc(d) /\ d.M = c.M /\ d.W = c.W /\ d.image = c.image
<1>1. PICK reg, forced, env : checkAndFillCluster(c).cf = [c EXCEPT !.registry = reg, !.forced = forced, !.env = env]
  BY DEF checkAndFillCluster
<1>2. PICK app : d = [checkAndFillCluster(c).cf EXCEPT !.app = app]
  BY DEF decodeClusterFile
<1>3. DOMAIN c = DocFields
  BY DEF IsDoc
<1>4. d = [[c EXCEPT !.registry = reg, !.forced = forced, !.env = env] EXCEPT !.app = app]
  BY <1>1, <1>2
<1>5. DOMAIN d = DocFields /\ d.M = c.M /\ d.W = c.W /\ d.image = c.image
  BY <1>3, <1>4 DEF DocFields
<1> QED
  BY <1>5 DEF IsDoc

LEMMA ExtensionKeeps ==
  ASSUME NEW c, IsDoc(c), NEW ext, NEW d, d = MergeClusterWithImageExtension(c, ext)
  PROVE  IsDoc(d) /\ d.M = c.M /\ d.W = c.W /\ d.image = c.image
<1>1. DOMAIN c = DocFields
  BY DEF IsDoc
<1>2. PICK env : d = [c EXCEPT !.env = env]
  BY DEF MergeClusterWithImageExtension
<1>3. DOMAIN d = DocFields /\ d.M = c.M /\ d.W = c.W /\ d.image = c.image
  BY <1>1, <1>2 DEF DocFields
<1> QED
  BY <1>3 DEF IsDoc

LEMMA AppKeeps ==
  ASSUME NEW c, IsDoc(c), NEW app, NEW d, d = [c EXCEPT !.app = app]
  PROVE  IsDoc(d)
<1>1. DOMAIN c = DocFields
  BY DEF IsDoc
<1>3. DOMAIN d = DocFields /\ d.M = c.M /\ d.W = c.W /\ d.image = c.image
  BY <1>1 DEF DocFields
<1> QED
  BY <1>3 DEF IsDoc

LEMMA ActualIsDoc ==
  ASSUME Docs, GetActualClusterFile.ok
  PROVE  IsDoc(GetActualClusterFile.cf)
<1>1. \/ cm # None /\ GetActualClusterFile = decodeClusterFile(cm[1])
      \/ disk # None /\ GetActualClusterFile = decodeClusterFile(disk[1])
      \/ GetActualClusterFile = [ok |-> FALSE, cf |-> None]
  BY DEF GetActualClusterFile
<1> QED
  BY <1>1, DecodeKeeps DEF Docs

\* A command that begins: masters it lets join are not in the cluster yet.
Begins(o) ==
  /\ OpRecord(o)
  /\ Starter(o.todo) /\ AllSteps(o.todo)
  /\ Kube /\ Up /\ JoinsLater(o.todo) => \A h \in o.touched \cap Hosts : joined[h] # joined[Master0]

LEMMA OpSays ==
  ASSUME NEW cmd, NEW todo, NEW cf, NEW touched, NEW plugins, NEW o, o = Op(cmd, todo, cf, touched, plugins)
  PROVE  DOMAIN o = OpFields /\ o.todo = todo /\ o.touched = touched /\ o.cf = cf /\ o.alt = {}
  BY DEF Op, OpFields

\* The driver of the applications changes nothing else of a command.
LEMMA WithAppSays ==
  ASSUME NEW o, DOMAIN o = OpFields, NEW spec, NEW ext, NEW asked, NEW free, NEW rendered,
         NEW r, r = WithApp(o, spec, ext, asked, free, rendered)
  PROVE  \/ r = Idle
         \/ DOMAIN r = OpFields /\ r.todo = o.todo /\ r.touched = o.touched /\ r.cf = o.cf /\ r.alt = o.alt
  BY DEF WithApp, OpFields

LEMMA KubeInstallBegins ==
  ASSUME NEW cf0, IsDoc(cf0), NEW free, NEW r, r = KubeInstall(cf0, free)
  PROVE  r = Idle \/ Begins(r)
<1> DEFINE ext == Ext[cf0.image]
           cf == MergeClusterWithImageExtension(cf0, ext)
           spec == ConstructApplication(cf.app, cf.cmds, cf.names, cf.env, free)
           plugins == Plugins[cf.image] \o cf.plugins
           doc == [cf EXCEPT !.app = IF @ = None THEN @ ELSE Some(spec)]
           o == Op("install", InstallSteps, doc, All(cf), plugins)
           asked == Asked(cf.cmds, cf.app, Values(cf.want))
           rendered == TRUE
           w == WithApp(o, spec, ext, asked, free, rendered)
<1>1. r = OrIdle(Transferable(plugins), w)
  BY DEF KubeInstall
<1>2. r = Idle \/ r = w
  BY <1>1 DEF OrIdle
<1>3. DOMAIN o = OpFields /\ o.todo = InstallSteps /\ o.cf = doc /\ o.alt = {}
  BY OpSays
<1>4. IsDoc(cf)
  BY ExtensionKeeps
<1>5. IsDoc(doc)
  <2> DEFINE app == IF cf.app = None THEN cf.app ELSE Some(spec)
  <2>1. doc = [cf EXCEPT !.app = app]
    OBVIOUS
  <2> HIDE DEF app, doc, cf
  <2> QED
    BY <2>1, <1>4, AppKeeps
<1> HIDE DEF o, doc, cf, spec, plugins, asked, ext, rendered
<1>6. w = Idle \/ (DOMAIN w = OpFields /\ w.todo = o.todo /\ w.cf = o.cf /\ w.alt = o.alt)
  BY <1>3, WithAppSays
<1> HIDE DEF w
<1>7. w = Idle \/ Begins(w)
  BY <1>3, <1>5, <1>6, InstallStarts, ListsAreSteps DEF Begins, OpRecord
<1> QED
  BY <1>2, <1>7

LEMMA AppInstallBegins ==
  ASSUME Docs, NEW image, NEW app, NEW cmds, NEW names, NEW env, NEW free, NEW rendered,
         NEW r, r = AppInstall(image, app, cmds, names, env, free, rendered)
  PROVE  r = Idle \/ (Begins(r) /\ r.todo = AppSteps)
<1> DEFINE actual == GetActualClusterFile
           spec == ConstructApplication(app, cmds, names, env, free)
           doc == [actual.cf EXCEPT !.app = Some(spec)]
           o == Op(IF IsApp(image) THEN "app" ELSE "apply", AppSteps, doc, {}, <<>>)
           w == WithApp(o, spec, Ext[image], Asked(cmds, app, Values(env)), free, rendered)
<1>1. r = Idle \/ (actual.ok /\ r = w)
  BY DEF AppInstall
<1>2. DOMAIN o = OpFields /\ o.todo = AppSteps /\ o.cf = doc /\ o.alt = {}
  BY OpSays
<1>3. actual.ok => IsDoc(doc)
  <2>1. actual.ok => IsDoc(actual.cf)
    BY ActualIsDoc
  <2> HIDE DEF actual, spec
  <2> QED
    BY <2>1, AppKeeps
<1> HIDE DEF o, doc, spec, actual
<1>4. w = Idle \/ (DOMAIN w = OpFields /\ w.todo = o.todo /\ w.cf = o.cf /\ w.alt = o.alt)
  BY <1>2, WithAppSays
<1> HIDE DEF w
<1>5. actual.ok => w = Idle \/ (Begins(w) /\ w.todo = AppSteps)
  BY <1>2, <1>3, <1>4, PlainCommandsStart, ListsAreSteps DEF Begins, OpRecord
<1> QED
  BY <1>1, <1>5

LEMMA NewImageBegins ==
  ASSUME NEW cmd, NEW todo, Starter(todo), ~JoinsLater(todo), AllSteps(todo), NEW cf, IsDoc(cf), NEW plugins,
         NEW r, r = NewImage(cmd, todo, cf, plugins)
  PROVE  r = Idle \/ Begins(r)
<1> DEFINE o == Op(cmd, todo, cf, All(cf), plugins)
           asked == Asked(cf.cmds, cf.app, Values(cf.want))
<1>1. r = Idle \/ r = [o EXCEPT !.asked = asked]
  BY DEF NewImage, OrIdle
<1>2. DOMAIN o = OpFields /\ o.todo = todo /\ o.cf = cf /\ o.alt = {}
  BY OpSays
<1> HIDE DEF o, asked
<1>3. r = Idle \/ (DOMAIN r = OpFields /\ r.todo = o.todo /\ r.cf = o.cf /\ r.alt = o.alt)
  BY <1>1, <1>2 DEF OpFields
<1> QED
  BY <1>2, <1>3 DEF Begins, OpRecord

LEMMA KubeScaleUpBegins ==
  ASSUME NEW cf0, IsDoc(cf0), NEW added, NEW r, r = KubeScaleUp(cf0, added),
         Kube /\ Up => \A h \in added \cap Hosts : joined[h] # joined[Master0]
  PROVE  r = Idle \/ Begins(r)
<1> DEFINE once == MergeClusterWithImageExtension(cf0, Ext[cf0.image])
           cf == MergeClusterWithImageExtension(once, Ext[cf0.image])
           plugins == Plugins[cf.image] \o cf.plugins
           o == Op("scale-up", ScaleUpSteps, cf, added, plugins)
<1>1. r = OrIdle(Transferable(plugins), o)
  BY DEF KubeScaleUp
<1>2. DOMAIN o = OpFields /\ o.todo = ScaleUpSteps /\ o.touched = added /\ o.cf = cf /\ o.alt = {}
  BY OpSays
<1>3. IsDoc(once)
  BY ExtensionKeeps
<1> HIDE DEF once
<1>4. IsDoc(cf)
  BY <1>3, ExtensionKeeps
<1> HIDE DEF o, plugins, cf
<1>5. Begins(o)
  BY <1>2, <1>4, ScaleUpStarts, ListsAreSteps DEF Begins, OpRecord
<1> QED
  BY <1>1, <1>5 DEF OrIdle

\* What a command typed does.
Begun ==
  /\ IsIdle /\ n < MaxCommands /\ n' = n + 1
  /\ op' = Idle \/ Begins(op')
  /\ UNCHANGED <<kind, docVars, certVars, hostVars, k0sVars, fails>>

LEMMA StartsBegins ==
  ASSUME NEW o, Starts(o), o = Idle \/ Begins(o)
  PROVE  Begun
  BY DEF Starts, Begun

LEMMA TypedIsDoc ==
  ASSUME NEW f \in Files, NEW c, c = Typed(f).cf
  PROVE  IsDoc(c) /\ c.M = f.M /\ c.W = f.W /\ c.image = f.image /\ c.M \cap c.W = {}
<1> DEFINE want == OwnEnv(f.env)
           g == [f EXCEPT !.want = want]
<1>1. c = decodeClusterFile(g).cf
  BY DEF Typed
<1> HIDE DEF want
<1>2. IsDoc(f) /\ f.M \cap f.W = {}
  BY FilesAssumption
<1>3. DOMAIN f = DocFields
  BY <1>2 DEF IsDoc
<1>4. DOMAIN g = DocFields /\ g.M = f.M /\ g.W = f.W /\ g.image = f.image
  BY <1>3 DEF DocFields
<1> HIDE DEF g
<1>5. IsDoc(g)
  BY <1>2, <1>4 DEF IsDoc
<1> QED
  BY <1>1, <1>2, <1>4, <1>5, DecodeKeeps

LEMMA RunFileBegins ==
  ASSUME Docs, runWithClusterfile
  PROVE  Begun
<1>1. PICK f \in Files, flags \in FlagSets :
        LET file == Typed(f)
            merged == MergeClusterWithFlags(file.cf, flags)
            cf == merged.cf
        IN IF ~file.ok \/ ~merged.ok THEN Starts(Idle)
           ELSE \E free \in Rooms(cf.app) :
                  Starts(IF IsApp(cf.image)
                         THEN AppInstall(cf.image, cf.app, cf.cmds, cf.names, flags.env, free, TRUE)
                         ELSE KubeInstall(cf, free))
  BY DEF runWithClusterfile
<1> DEFINE c == Typed(f).cf
           cf == MergeClusterWithFlags(c, flags).cf
           yes == TRUE
<1>2. \/ Starts(Idle)
      \/ \E free : \/ Starts(AppInstall(cf.image, cf.app, cf.cmds, cf.names, flags.env, free, yes))
                   \/ Starts(KubeInstall(cf, free))
  BY <1>1
<1>3. IsDoc(c)
  BY TypedIsDoc
<1> HIDE DEF c, yes
<1>4. IsDoc(cf)
  <2>1. PICK env, cmds, names, want, forced :
          cf = [c EXCEPT !.env = env, !.cmds = cmds, !.names = names, !.M = c.M \cup flags.M,
                         !.W = c.W \cup flags.W, !.want = want, !.forced = forced]
    BY DEF MergeClusterWithFlags
  <2>2. DOMAIN c = DocFields
    BY <1>3 DEF IsDoc
  <2> HIDE DEF cf
  <2>3. DOMAIN cf = DocFields /\ cf.M = c.M \cup flags.M /\ cf.W = c.W \cup flags.W /\ cf.image = c.image
    BY <2>1, <2>2 DEF DocFields
  <2>4. flags.M \subseteq Hosts /\ flags.W \subseteq Hosts
    BY FlagsAssumption
  <2> QED
    BY <1>3, <2>3, <2>4 DEF IsDoc
<1> HIDE DEF cf
<1> QED
  BY <1>2, <1>4, AppInstallBegins, KubeInstallBegins, StartsBegins

LEMMA RunArgsBegins ==
  ASSUME Docs, runWithArgs
  PROVE  Begun
<1>1. PICK args \in ArgSets :
        LET image == args[1]
            flags == args[2]
            file == decodeClusterFile(ConstructClusterForRun(image, flags))
        IN Starts(IF IsApp(image) THEN AppInstall(image, None, flags.cmds, flags.names, flags.env, 0, TRUE)
                  ELSE OrIdle(file.ok /\ flags.M # {}, KubeInstall(file.cf, 0)))
  BY DEF runWithArgs
<1> DEFINE c == ConstructClusterForRun(args[1], args[2])
           cf == decodeClusterFile(c).cf
           yes == TRUE
           none == None
           zero == 0
           kube == KubeInstall(cf, zero)
<1>2. \/ Starts(AppInstall(args[1], none, args[2].cmds, args[2].names, args[2].env, zero, yes))
      \/ Starts(kube)
      \/ Starts(Idle)
  BY <1>1 DEF OrIdle
<1>3. IsDoc(c)
  <2>1. DOMAIN c = DocFields /\ c.M = args[2].M /\ c.W = args[2].W /\ c.image = args[1]
    BY DEF ConstructClusterForRun, DocFields
  <2> HIDE DEF c
  <2> QED
    BY <2>1, FlagsAssumption DEF IsDoc
<1> HIDE DEF c, yes, none, zero
<1>4. IsDoc(cf)
  BY <1>3, DecodeKeeps
<1> HIDE DEF cf
<1>5. kube = Idle \/ Begins(kube)
  BY <1>4, KubeInstallBegins
<1> QED
  BY <1>2, <1>5, AppInstallBegins, StartsBegins

\* apply adds hosts the cluster does not list: nobody is gone and a host of the
\* file has one role.
LEMMA AddedAreNew ==
  ASSUME joined \in [Hosts -> Nat], NEW c, c.M \cap c.W = {}, Kube, Up,
         (CurrentMasters \ c.M) \cup (CurrentNodes \ c.W) = {},
         NEW h \in ((c.M \ CurrentMasters) \cup (c.W \ CurrentNodes)) \cap Hosts
  PROVE  joined[h] # joined[Master0]
  BY DEF CurrentMasters, CurrentNodes, Nodes, Up

LEMMA ApplyBegins ==
  ASSUME Docs, joined \in [Hosts -> Nat], Apply
  PROVE  Begun
<1>1. PICK f \in {g \in Files : ~IsApp(g.image)} :
        LET file == Typed(f)
            cf == file.cf
            gone == (CurrentMasters \ cf.M) \cup (CurrentNodes \ cf.W)
            added == (cf.M \ CurrentMasters) \cup (cf.W \ CurrentNodes)
        IN IF ~file.ok \/ (kubeconfig /\ ~Up) THEN Starts(Idle)
           ELSE \E free \in Rooms(cf.app) :
                  IF ~kubeconfig
                  THEN Starts(KubeInstall(MergeClusterWithImageExtension(cf, Ext[cf.image]), free))
                  ELSE LET o == IF gone # {} \/ added = {} THEN Op("apply", <<>>, cf, {}, <<>>) ELSE KubeScaleUp(cf, added)
                       IN Starts(IF o = Idle THEN Idle
                                 ELSE [o EXCEPT !.todo = @ \o <<"toApp">> \o AppSteps, !.spec = Some(cf), !.free = free])
  BY DEF Apply
<1> DEFINE cf == Typed(f).cf
           gone == (CurrentMasters \ cf.M) \cup (CurrentNodes \ cf.W)
           added == (cf.M \ CurrentMasters) \cup (cf.W \ CurrentNodes)
           merged == MergeClusterWithImageExtension(cf, Ext[cf.image])
           nothing == <<>>
           bare == Op("apply", nothing, cf, {}, nothing)
           up == KubeScaleUp(cf, added)
           Longer(o, free) == [o EXCEPT !.todo = o.todo \o <<"toApp">> \o AppSteps, !.spec = Some(cf), !.free = free]
<1>2. f \in Files
  BY <1>1
<1>3. IsDoc(cf) /\ cf.M \cap cf.W = {}
  BY <1>2, TypedIsDoc
<1>4. \/ Starts(Idle)
      \/ \E free : \/ Starts(KubeInstall(merged, free))
                   \/ Starts(Longer(bare, free))
                   \/ gone = {} /\ up # Idle /\ Starts(Longer(up, free))
  BY <1>1
<1> HIDE DEF cf
<1>5. IsDoc(merged)
  BY <1>3, ExtensionKeeps
<1> HIDE DEF merged
<1>6. DOMAIN bare = OpFields /\ bare.todo = nothing /\ bare.cf = cf /\ bare.alt = {} /\ bare.touched = {}
  BY OpSays
<1>7. gone = {} => up = Idle \/ Begins(up)
  <2>1. gone = {} /\ Kube /\ Up => \A h \in added \cap Hosts : joined[h] # joined[Master0]
    BY <1>3, AddedAreNew
  <2> HIDE DEF gone, added
  <2> QED
    BY <2>1, <1>3, KubeScaleUpBegins
<1> HIDE DEF gone, added, bare, up
<1>8. ASSUME NEW o, NEW free, DOMAIN o = OpFields, IsDoc(o.cf), o.alt \subseteq UNION AltSets,
             Starter(o.todo) \/ o.todo = nothing, AllSteps(o.todo),
             Kube /\ Up /\ JoinsLater(o.todo) => \A h \in o.touched \cap Hosts : joined[h] # joined[Master0]
      PROVE  Begins(Longer(o, free))
  <2> DEFINE l == Longer(o, free)
             t == o.todo \o <<"toApp">> \o AppSteps
  <2>1. DOMAIN l = OpFields /\ l.todo = t /\ l.cf = o.cf /\ l.alt = o.alt /\ l.touched = o.touched
    BY <1>8 DEF OpFields
  <2> HIDE DEF l
  <2>2. Starter(t) /\ (JoinsLater(t) => JoinsLater(o.todo))
    BY <1>8, ApplyStarts
  <2>3. AllSteps(t)
    <3> DEFINE a == <<"toApp">>
    <3>1. GoodSteps(a) /\ Plain(a) /\ AllSteps(a) /\ GoodSteps(AppSteps) /\ AllSteps(AppSteps) /\ GoodSteps(nothing)
      BY PartsAreGood, ListsAreSteps
    <3>2. GoodSteps(o.todo)
      BY <1>8, <3>1 DEF Starter
    <3> HIDE DEF a
    <3>3. GoodSteps(Then(o.todo, a)) /\ AllSteps(Then(o.todo, a))
      BY <1>8, <3>1, <3>2, GoodThen, StepsThen
    <3>4. AllSteps(Then(Then(o.todo, a), AppSteps))
      BY <3>1, <3>3, StepsThen
    <3> QED
      BY <3>4 DEF Then, a
  <2> HIDE DEF t
  <2> QED
    BY <2>1, <2>2, <2>3, <1>8 DEF Begins, OpRecord, l
<1>9. ASSUME NEW free
      PROVE  Begins(Longer(bare, free))
  <2>1. AllSteps(nothing) /\ ~JoinsLater(nothing)
    BY ListsAreSteps, PartsAreGood, PlainSays DEF JoinsLater
  <2> HIDE DEF Longer, nothing
  <2> QED
    BY <1>3, <1>6, <1>8, <2>1
<1>10. ASSUME NEW free, gone = {}, up # Idle
       PROVE  Begins(Longer(up, free))
  <2> HIDE DEF Longer
  <2> QED
    BY <1>7, <1>8, <1>10 DEF Begins, OpRecord
<1> HIDE DEF Longer
<1> QED
  BY <1>4, <1>5, <1>9, <1>10, KubeInstallBegins, StartsBegins

LEMMA ScaleUpBegins ==
  ASSUME Docs, joined \in [Hosts -> Nat], ScaleUp
  PROVE  Begun
<1>1. PICK s \in ScaleSets :
        LET actual == GetActualClusterFile
            current == CurrentMasters \cup CurrentNodes
            mj == s.M \ current
            nj == s.W \ current
        IN Starts(IF ~actual.ok \/ ~kubeconfig \/ ~Up \/ mj \cup nj = {} \/ (mj \cup nj) \cap All(actual.cf) # {} THEN Idle
                  ELSE KubeScaleUp(WithHosts(actual.cf, mj, nj), mj \cup nj))
  BY DEF ScaleUp
<1> DEFINE c == GetActualClusterFile.cf
           current == CurrentMasters \cup CurrentNodes
           mj == s.M \ current
           nj == s.W \ current
           cf == WithHosts(c, mj, nj)
           r == KubeScaleUp(cf, mj \cup nj)
<1>2. Starts(Idle) \/ (GetActualClusterFile.ok /\ Starts(r))
  BY <1>1
<1>3. mj \subseteq Hosts /\ nj \subseteq Hosts
  BY FlagsAssumption
<1>4. Kube /\ Up => \A h \in (mj \cup nj) \cap Hosts : joined[h] # joined[Master0]
  BY DEF CurrentMasters, CurrentNodes, Nodes, Up
<1> HIDE DEF mj, nj
<1>5. ASSUME GetActualClusterFile.ok PROVE IsDoc(cf)
  <2>1. IsDoc(c)
    BY <1>5, ActualIsDoc
  <2> HIDE DEF c
  <2>2. DOMAIN c = DocFields
    BY <2>1 DEF IsDoc
  <2>3. DOMAIN cf = DocFields /\ cf.M = c.M \cup mj /\ cf.W = c.W \cup nj /\ cf.image = c.image
    BY <2>2 DEF DocFields, WithHosts
  <2> HIDE DEF cf
  <2> QED
    BY <2>1, <2>3, <1>3 DEF IsDoc
<1> HIDE DEF cf
<1>6. GetActualClusterFile.ok => r = Idle \/ Begins(r)
  BY <1>4, <1>5, KubeScaleUpBegins
<1> HIDE DEF r
<1> QED
  BY <1>2, <1>6, StartsBegins

LEMMA ScaleDownBegins ==
  ASSUME Docs, ScaleDown
  PROVE  Begun
<1>1. PICK s \in ScaleSets :
        LET actual == GetActualClusterFile
            cf == MergeClusterWithImageExtension(actual.cf, Ext[actual.cf.image])
            md == s.M \cap cf.M
            nd == s.W \cap cf.W
            plugins == (IF md = {} THEN <<>> ELSE Plugins[cf.image]) \o cf.plugins
        IN Starts(IF ~actual.ok \/ Master0 \in md \/ md \cup nd = {} \/ ~Transferable(plugins) \/ ~Up THEN Idle
                  ELSE Op("scale-down", ScaleDownSteps, cf, md \cup nd, plugins))
  BY DEF ScaleDown
<1> DEFINE c == GetActualClusterFile.cf
           cf == MergeClusterWithImageExtension(c, Ext[c.image])
           md == s.M \cap cf.M
           nd == s.W \cap cf.W
           plugins == (IF md = {} THEN <<>> ELSE Plugins[cf.image]) \o cf.plugins
           r == Op("scale-down", ScaleDownSteps, cf, md \cup nd, plugins)
<1>2. Starts(Idle) \/ (GetActualClusterFile.ok /\ Starts(r))
  BY <1>1
<1>3. DOMAIN r = OpFields /\ r.todo = ScaleDownSteps /\ r.cf = cf /\ r.alt = {}
  BY OpSays
<1>4. ASSUME GetActualClusterFile.ok PROVE IsDoc(cf)
  <2>1. IsDoc(c)
    BY <1>4, ActualIsDoc
  <2> HIDE DEF c
  <2> QED
    BY <2>1, ExtensionKeeps
<1> HIDE DEF cf, r
<1>5. GetActualClusterFile.ok => Begins(r)
  BY <1>3, <1>4, ScaleDownStarts, ListsAreSteps DEF Begins, OpRecord
<1> QED
  BY <1>2, <1>5, StartsBegins

LEMMA DeleteBegins ==
  ASSUME Docs, Delete
  PROVE  Begun
<1> DEFINE c == GetActualClusterFile.cf
           cf == MergeClusterWithImageExtension(c, Ext[c.image])
           plugins == Plugins[cf.image] \o cf.plugins
           r == Op("delete", UnInstallSteps, cf, All(cf), plugins)
<1>1. Starts(IF ~GetActualClusterFile.ok THEN Idle ELSE OrIdle(Transferable(plugins), r))
  BY DEF Delete, KubeDelete
<1>2. Starts(Idle) \/ (GetActualClusterFile.ok /\ Starts(r))
  BY <1>1 DEF OrIdle
<1>3. DOMAIN r = OpFields /\ r.todo = UnInstallSteps /\ r.cf = cf /\ r.alt = {}
  BY OpSays
<1>4. ASSUME GetActualClusterFile.ok PROVE IsDoc(cf)
  <2>1. IsDoc(c)
    BY <1>4, ActualIsDoc
  <2> HIDE DEF c
  <2> QED
    BY <2>1, ExtensionKeeps
<1> HIDE DEF cf, r
<1>5. GetActualClusterFile.ok => Begins(r)
  BY <1>3, <1>4, UninstallStarts, ListsAreSteps DEF Begins, OpRecord
<1> QED
  BY <1>2, <1>5, StartsBegins

LEMMA AnotherIsDoc ==
  ASSUME Docs, GetActualClusterFile.ok, NEW image \in DOMAIN Ext
  PROVE  IsDoc(Another(image).cf)
<1> DEFINE c == GetActualClusterFile.cf
           none == None
           w == WithImage(c, image, none)
<1>1. IsDoc(c)
  BY ActualIsDoc
<1> HIDE DEF c, none
<1>2. DOMAIN c = DocFields
  BY <1>1 DEF IsDoc
<1>3. DOMAIN w = DocFields /\ w.M = c.M /\ w.W = c.W /\ w.image = image
  BY <1>2 DEF WithImage, DocFields
<1> HIDE DEF w
<1>4. IsDoc(w)
  BY <1>1, <1>3 DEF IsDoc
<1>5. IsDoc(decodeClusterFile(w).cf)
  BY <1>4, DecodeKeeps
<1> QED
  BY <1>5 DEF Another, w, c, none

LEMMA NewImagesBegin ==
  ASSUME Docs, upgradeWithArgs \/ upgradeWithClusterfile \/ Rollback
  PROVE  Begun
<1> DEFINE up == "upgrade"
           back == "rollback"
<1>1. CASE upgradeWithArgs
  <2>1. PICK image \in DOMAIN Ext :
          Starts(IF ~GetActualClusterFile.ok THEN Idle ELSE NewImage(up, UpgradeSteps, Another(image).cf, Plugins[image]))
    BY <1>1 DEF upgradeWithArgs
  <2> DEFINE r == NewImage(up, UpgradeSteps, Another(image).cf, Plugins[image])
  <2> HIDE DEF up
  <2>2. GetActualClusterFile.ok => r = Idle \/ Begins(r)
    BY AnotherIsDoc, NewImageBegins, PlainCommandsStart, ListsAreSteps
  <2> QED
    BY <2>1, <2>2, StartsBegins
<1>2. CASE upgradeWithClusterfile
  <2>1. PICK f \in Files :
          Starts(IF ~Typed(f).ok THEN Idle
                 ELSE NewImage(up, UpgradeSteps, Typed(f).cf, Plugins[Typed(f).cf.image] \o Typed(f).cf.plugins))
    BY <1>2 DEF upgradeWithClusterfile
  <2> DEFINE c == Typed(f).cf
             plugins == Plugins[c.image] \o c.plugins
             r == NewImage(up, UpgradeSteps, c, plugins)
  <2>2. Starts(Idle) \/ Starts(r)
    BY <2>1
  <2>3. IsDoc(c)
    BY TypedIsDoc
  <2> HIDE DEF up, c, plugins
  <2>4. r = Idle \/ Begins(r)
    BY <2>3, NewImageBegins, PlainCommandsStart, ListsAreSteps
  <2> QED
    BY <2>2, <2>4, StartsBegins
<1>3. CASE Rollback
  <2>1. PICK image \in DOMAIN Ext :
          Starts(IF ~GetActualClusterFile.ok THEN Idle ELSE NewImage(back, RollbackSteps, Another(image).cf, LocalPlugins))
    BY <1>3 DEF Rollback
  <2> DEFINE r == NewImage(back, RollbackSteps, Another(image).cf, LocalPlugins)
  <2> HIDE DEF back
  <2>2. GetActualClusterFile.ok => r = Idle \/ Begins(r)
    BY AnotherIsDoc, NewImageBegins, PlainCommandsStart, ListsAreSteps
  <2> QED
    BY <2>1, <2>2, StartsBegins
<1> QED
  BY <1>1, <1>2, <1>3

LEMMA CertBegins ==
  ASSUME Docs, Cert
  PROVE  Begun
<1> DEFINE c == GetActualClusterFile.cf
           nothing == <<>>
           o == Op("cert", <<"update">>, c, c.M, nothing)
           Naming(alt) == [o EXCEPT !.alt = alt]
<1>1. PICK alt \in AltSets : Starts(IF ~GetActualClusterFile.ok THEN Idle ELSE Naming(alt))
  BY DEF Cert
<1>2. DOMAIN o = OpFields /\ o.todo = <<"update">> /\ o.cf = c
  BY OpSays
<1> HIDE DEF o
<1>3. DOMAIN Naming(alt) = OpFields /\ Naming(alt).todo = <<"update">> /\ Naming(alt).cf = c /\ Naming(alt).alt = alt
  BY <1>2 DEF OpFields
<1>4. GetActualClusterFile.ok => IsDoc(c)
  BY ActualIsDoc
<1> HIDE DEF c, Naming
<1>5. alt \subseteq UNION AltSets
  OBVIOUS
<1>6. GetActualClusterFile.ok => Begins(Naming(alt))
  BY <1>3, <1>4, <1>5, PlainCommandsStart, ListsAreSteps DEF Begins, OpRecord
<1> QED
  BY <1>1, <1>6, StartsBegins

\* Every command that is typed is refused or begins, and touches nothing yet.
LEMMA CommandBegins ==
  ASSUME Docs, joined \in [Hosts -> Nat], Command
  PROVE  Begun
  BY RunFileBegins, RunArgsBegins, ApplyBegins, ScaleUpBegins, ScaleDownBegins, DeleteBegins,
     NewImagesBegin, CertBegins DEF Command
------------------------------------------------------------------------------
(* How a command moves on.                                                 *)

\* It ends, stays with some of its hosts, does its next step, or goes over to
\* the applications.
Moves ==
  \/ op' = Idle
  \/ op' = op
  \/ ~IsIdle /\ OpRecord(op') /\ op'.todo = op.todo /\ op'.touched \subseteq op.touched
  \/ ~IsIdle /\ OpRecord(op') /\ op'.todo = Tail(op.todo) /\ op'.touched = op.touched
  \/ OpRecord(op') /\ op'.todo = AppSteps

\* What is left to do after such a step.
Shrinks ==
  /\ \A x \in Marked : ToDo(op'.todo, x) => ToDo(op.todo, x)
  /\ At("initMaster0")' => At("initMaster0") \/ At("kubeConfig")
  /\ At("kubeConfig")' => At("kubeConfig") \/ At("cert")
  /\ At("cert")' => At("cert") \/ At("config")
  /\ (\E x \in Marked : ToDo(op'.todo, x)) => op'.touched \subseteq op.touched
  /\ ToDo(op.todo, "remove") => ToDo(op'.todo, "remove") \/ At("remove") \/ ~ToDo(op'.todo, "restore")
  /\ ToDo(op.todo, "reset") => ToDo(op'.todo, "reset") \/ At("reset") \/ ~ToDo(op'.todo, "restore")
  /\ ToDo(op.todo, "initMaster0") => ToDo(op'.todo, "initMaster0") \/ At("initMaster0") \/ ~ToDo(op'.todo, "joinMasters")

LEMMA IdleSays == Idle.todo = <<>> /\ \A x : ~ToDo(<<>>, x)
  BY DEF Idle, ToDo

\* The first step decides what is left.
LEMMA AtSays ==
  ASSUME OpInv, NEW x, At(x)
  PROVE  /\ op.todo # <<>> /\ op.todo[1] = x /\ ToDo(op.todo, x) /\ OpRecord(op)
         /\ x \in {"joinMasters", "joinNodes"} => ~ToDo(op.todo, "initMaster0")
         /\ x \in {"joinMasters", "joinNodes"} => ~ToDo(Tail(op.todo), "joinMasters")
         /\ x = "initMaster0" => ~ToDo(Tail(op.todo), "initMaster0") /\ ~ToDo(Tail(op.todo), "restore")
         /\ x = "restore" => ~ToDo(op.todo, "remove") /\ ~ToDo(op.todo, "reset")
         /\ Kube => x \notin K0sSteps
<1> DEFINE s == op.todo
<1>1. s # <<>> /\ GoodSteps(s) /\ OpRecord(op) /\ Head(s) = x
  BY DEF At, IsIdle, OpInv
<1> HIDE DEF s
<1>2. /\ GoodSteps(Tail(s)) /\ Head(s) = s[1] /\ Len(s) \in Nat /\ Len(s) > 0
      /\ Len(Tail(s)) = Len(s) - 1
      /\ \A i \in 1..Len(Tail(s)) : i + 1 \in 1..Len(s) /\ Tail(s)[i] = s[i + 1]
      /\ \A y : ToDo(s, y) <=> y = Head(s) \/ ToDo(Tail(s), y)
  BY <1>1, GoodTail
<1>3. 1 \in 1..Len(s)
  BY <1>2
<1>4. ASSUME NEW y, ToDo(Tail(s), y)
      PROVE  \E j \in 1..Len(s) : 1 < j /\ s[j] = y
  <2>1. PICK i \in 1..Len(Tail(s)) : Tail(s)[i] = y
    BY <1>4 DEF ToDo
  <2>2. i + 1 \in 1..Len(s) /\ s[i + 1] = y /\ 1 < i + 1
    BY <2>1, <1>2
  <2> QED
    BY <2>2
<1>5. /\ x \in {"joinMasters", "joinNodes"} => ~ToDo(Tail(s), "initMaster0") /\ ~ToDo(Tail(s), "joinMasters")
      /\ x = "initMaster0" => ~ToDo(Tail(s), "initMaster0") /\ ~ToDo(Tail(s), "restore")
      /\ x = "restore" => ~ToDo(Tail(s), "remove") /\ ~ToDo(Tail(s), "reset")
  BY <1>1, <1>2, <1>3, <1>4 DEF GoodSteps, Ordered
<1>6. Kube => x \notin K0sSteps
  BY <1>1, <1>2, <1>3 DEF GoodSteps
<1> QED
  BY <1>1, <1>2, <1>5, <1>6 DEF s

LEMMA MovesShrink ==
  ASSUME OpInv, Moves
  PROVE  Shrinks
<1> DEFINE s == op.todo
           t == op'.todo
<1>1. CASE op' = Idle
  <2>1. t = <<>> /\ \A x : ~ToDo(t, x)
    BY <1>1, IdleSays
  <2> QED
    BY <2>1 DEF Shrinks, At, IsIdle
<1>2. CASE op' = op
  BY <1>2 DEF Shrinks, At, IsIdle
<1>3. CASE ~IsIdle /\ OpRecord(op') /\ op'.todo = op.todo /\ op'.touched \subseteq op.touched
  BY <1>3 DEF Shrinks, At, IsIdle
<1>4. CASE ~IsIdle /\ OpRecord(op') /\ op'.todo = Tail(op.todo) /\ op'.touched = op.touched
  <2>1. s # <<>> /\ GoodSteps(s) /\ t = Tail(s)
    BY <1>4 DEF IsIdle, OpInv
  <2> HIDE DEF s, t
  <2>2. /\ Head(s) = s[1] /\ Len(s) > 0 /\ Len(s) \in Nat
        /\ \A x : ToDo(s, x) <=> x = Head(s) \/ ToDo(t, x)
        /\ t # <<>> => Head(t) = s[2] /\ 2 \in 1..Len(s)
    BY <2>1, GoodTail
  <2>3. ASSUME t # <<>>
        PROVE  /\ Head(t) = "initMaster0" => Head(s) = "kubeConfig"
               /\ Head(t) = "kubeConfig" => Head(s) = "cert"
               /\ Head(t) = "cert" => Head(s) = "config"
    <3>1. 1 \in 1..Len(s) /\ 2 \in 1..Len(s) /\ 1 < 2 /\ 2 = 1 + 1
      BY <2>2, <2>3
    <3> QED
      BY <3>1, <2>1, <2>2, <2>3 DEF GoodSteps, Ordered
  <2>4. \A x : At(x) <=> x = Head(s)
    BY <2>1 DEF At, IsIdle, s
  <2>5. \A x : At(x)' <=> t # <<>> /\ x = Head(t)
    BY DEF At, IsIdle, t
  <2>6. /\ \A x \in Marked : ToDo(t, x) => ToDo(s, x)
        /\ At("initMaster0")' => At("kubeConfig")
        /\ At("kubeConfig")' => At("cert")
        /\ At("cert")' => At("config")
        /\ ToDo(s, "remove") => ToDo(t, "remove") \/ At("remove")
        /\ ToDo(s, "reset") => ToDo(t, "reset") \/ At("reset")
        /\ ToDo(s, "initMaster0") => ToDo(t, "initMaster0") \/ At("initMaster0")
    BY <2>2, <2>3, <2>4, <2>5
  <2> QED
    BY <2>6, <1>4 DEF Shrinks, s, t
<1>5. CASE OpRecord(op') /\ op'.todo = AppSteps
  <2>1. \A x \in Marked : ~ToDo(t, x)
    BY <1>5, PartsAreGood DEF Plain, ToDo
  <2>2. t # <<>> /\ Head(t) = "launch"
    BY <1>5 DEF AppSteps
  <2>3. "restore" \in Marked /\ "joinMasters" \in Marked
    BY DEF Marked
  <2>4. ~At("initMaster0")' /\ ~At("kubeConfig")' /\ ~At("cert")'
    BY <2>2 DEF At
  <2> HIDE DEF t
  <2>5. /\ \A x \in Marked : ~ToDo(op'.todo, x)
        /\ ~ToDo(op'.todo, "restore") /\ ~ToDo(op'.todo, "joinMasters")
    BY <2>1, <2>3 DEF t
  <2> QED
    BY <2>4, <2>5 DEF Shrinks
<1> QED
  BY <1>1, <1>2, <1>3, <1>4, <1>5 DEF Moves

LEMMA MovesKeepOp ==
  ASSUME OpInv, Moves, Docs', kind' = kind
  PROVE  OpInv'
<1>1. GoodSteps(op'.todo)
  <2>1. GoodSteps(Idle.todo)
    BY IdleSays, PartsAreGood
  <2>2. ~IsIdle => GoodSteps(Tail(op.todo))
    BY GoodTail DEF OpInv, IsIdle
  <2> QED
    BY <2>1, <2>2, PartsAreGood DEF Moves, OpInv
<1>2. AllSteps(op'.todo)
  <2>1. AllSteps(Idle.todo)
    BY IdleSays, ListsAreSteps
  <2>2. ~IsIdle => AllSteps(Tail(op.todo))
    BY GoodTail DEF OpInv, IsIdle, AllSteps
  <2> QED
    BY <2>1, <2>2, ListsAreSteps DEF Moves, OpInv
<1>3. op'.todo # <<>> => OpRecord(op')
  BY IdleSays DEF Moves, OpInv, IsIdle
<1>4. GoodSteps(op.todo)'
  BY <1>1 DEF GoodSteps, Kube
<1>5. AllSteps(op.todo)'
  <2>1. Steps' = Steps
    BY DEF Steps, InstallSteps, ScaleUpSteps, RuntimeInstall, RuntimeScaleUp, Kube
  <2> QED
    BY <1>2, <2>1 DEF AllSteps
<1> QED
  BY <1>3, <1>4, <1>5 DEF OpInv, IsIdle, OpRecord, IsDoc

LEMMA EndsMoves ==
  ASSUME Ends \/ Fault
  PROVE  Moves /\ op' = Idle
  BY DEF Ends, Fault, Moves

LEMMA GoesOnMoves ==
  ASSUME ~IsIdle, NEW o, OpRecord(o), o.todo = op.todo, o.touched = op.touched, GoesOn(o)
  PROVE  Moves /\ (op' = Idle \/ op'.todo = Tail(op.todo))
<1>1. CASE Tail(o.todo) = <<>>
  BY <1>1, EndsMoves DEF GoesOn
<1>2. CASE Tail(o.todo) # <<>>
  <2>1. op' = [o EXCEPT !.todo = Tail(@)]
    BY <1>2 DEF GoesOn
  <2>2. DOMAIN op' = OpFields /\ op'.todo = Tail(op.todo) /\ op'.touched = op.touched /\ op'.cf = o.cf /\ op'.alt = o.alt
    BY <2>1 DEF OpRecord, OpFields
  <2> QED
    BY <2>2 DEF Moves, OpRecord
<1> QED
  BY <1>1, <1>2

LEMMA DoneMoves ==
  ASSUME OpInv, ~IsIdle, NEW complete, DoneOrFault(complete)
  PROVE  Moves /\ (op' = Idle \/ (complete /\ op'.todo = Tail(op.todo)))
<1>1. CASE complete /\ GoesOn(op)
  BY <1>1, GoesOnMoves DEF OpInv
<1>2. CASE Fault
  BY <1>2, EndsMoves
<1> QED
  BY <1>1, <1>2 DEF DoneOrFault

LEMMA WritesMoves ==
  ASSUME OpInv, ~IsIdle, NEW number, NEW ok, NEW done, Writes(number, ok, done)
  PROVE  Moves /\ (op' = Idle \/ (ok /\ done = number /\ op'.todo = Tail(op.todo)))
<1>1. CASE done = number /\ ok /\ GoesOn(op)
  BY <1>1, GoesOnMoves DEF OpInv
<1>2. CASE Ends \/ Fault
  BY <1>2, EndsMoves
<1> QED
  BY <1>1, <1>2 DEF Writes

\* Every step moves the command on and keeps the documents.
LEMMA StepMoves ==
  ASSUME OpInv, CommandStep
  PROVE  Moves /\ Docs' /\ kind' = kind /\ n' = n
<1> USE DEF docVars
<1>0. ~IsIdle => OpRecord(op) /\ DOMAIN op = OpFields /\ IsDoc(op.cf)
  BY DEF OpInv, OpRecord
<1>a. Docs /\ \A x : At(x) => ~IsIdle
  BY DEF OpInv, At
<1>b. UNCHANGED <<disk, cm>> => Docs'
  BY <1>a DEF Docs, IsDoc
<1>c. (UNCHANGED disk /\ cm' = None) => Docs'
  BY <1>a DEF Docs, IsDoc
<1>d. GoesOn(op) /\ ~IsIdle => Moves
  BY <1>0, GoesOnMoves
<1>1. CASE Save
  <2>1. At("save") /\ disk' = Some(op.cf) /\ GoesOn(op) /\ cm' = cm /\ kind' = kind /\ n' = n
    BY <1>1 DEF Save
  <2>2. disk' # None => disk'[1] = op.cf
    BY <2>1 DEF Some
  <2> QED
    BY <2>1, <2>2, <1>0, <1>a, <1>d DEF Docs, IsDoc
<1>2. CASE Distribute
  <2>1. PICK torn : At("distribute") /\ (GoesOn([op EXCEPT !.torn = torn]) \/ Fault) /\ UNCHANGED <<disk, cm, kind, n>>
    BY <1>2 DEF Distribute
  <2> DEFINE o == [op EXCEPT !.torn = torn]
  <2>2. OpRecord(o) /\ o.todo = op.todo /\ o.touched = op.touched
    BY <2>1, <1>0, <1>a DEF OpRecord, OpFields
  <2> HIDE DEF o
  <2>3. GoesOn(o) => Moves
    BY <2>1, <2>2, <1>a, GoesOnMoves
  <2> QED
    BY <2>1, <2>3, <1>b, EndsMoves DEF o
<1>3. CASE RunHook
  <2>1. PICK phase, ran :
          At(phase) /\ (GoesOn([op EXCEPT !.hooked = ran]) \/ Ends) /\ UNCHANGED <<disk, cm, kind, n>>
    BY <1>3 DEF RunHook
  <2> DEFINE o == [op EXCEPT !.hooked = ran]
  <2>2. OpRecord(o) /\ o.todo = op.todo /\ o.touched = op.touched
    BY <2>1, <1>0, <1>a DEF OpRecord, OpFields
  <2> HIDE DEF o
  <2>3. GoesOn(o) => Moves
    BY <2>1, <2>2, <1>a, GoesOnMoves
  <2> QED
    BY <2>1, <2>3, <1>b, EndsMoves DEF o
<1>4. CASE SetRoles
  BY <1>4, <1>a, <1>b, <1>d, EndsMoves DEF SetRoles
<1>5. CASE InitKubeadmConfig
  BY <1>5, <1>a, <1>b, <1>d DEF InitKubeadmConfig
<1>6. CASE GenerateCert
  <2>1. PICK number, ok, done : Writes(number, ok, done)
    BY <1>6 DEF GenerateCert
  <2> QED
    BY <2>1, <1>6, <1>a, <1>b, WritesMoves DEF GenerateCert
<1>7. CASE CreateKubeConfig
  <2>1. PICK number, ok, done : Writes(number, ok, done)
    BY <1>7 DEF CreateKubeConfig
  <2> QED
    BY <2>1, <1>7, <1>a, <1>b, WritesMoves DEF CreateKubeConfig
<1>8. CASE InitMaster0
  BY <1>8, <1>a, <1>b, <1>c, <1>d, EndsMoves DEF InitMaster0
<1>9. CASE JoinMasters
  BY <1>9, <1>a, <1>b, <1>d, EndsMoves DEF JoinMasters
<1>10. CASE JoinNodes
  BY <1>10, <1>a, <1>b, <1>d, EndsMoves DEF JoinNodes
<1>11. CASE Bootstrap
  BY <1>11, <1>a, <1>b, <1>c, <1>d, EndsMoves DEF Bootstrap
<1>12. CASE GenerateJoinToken
  BY <1>12, <1>a, <1>b, <1>d DEF GenerateJoinToken
<1>13. CASE StartCopies
  <2>1. PICK left : \/ op' = [op EXCEPT !.todo = Tail(@), !.left = left]
                    \/ op' = [op EXCEPT !.todo = Tail(@)]
    BY <1>13 DEF StartCopies
  <2>2. ~IsIdle
    BY <1>13, <1>a DEF StartCopies
  <2>3. DOMAIN op' = OpFields /\ op'.todo = Tail(op.todo) /\ op'.touched = op.touched /\ op'.cf = op.cf /\ op'.alt = op.alt
    BY <2>1, <2>2, <1>0 DEF OpFields
  <2>4. Moves
    BY <2>2, <2>3, <1>0 DEF Moves, OpRecord
  <2> QED
    BY <2>4, <1>13, <1>b DEF StartCopies
<1>14. CASE JoinControllers
  <2>1. \/ GoesOn(op) \/ Ends
        \/ \E left : op' = [op EXCEPT !.left = left]
    BY <1>14 DEF JoinControllers
  <2>2. ~IsIdle
    BY <1>14, <1>a DEF JoinControllers
  <2>3. ASSUME NEW left, op' = [op EXCEPT !.left = left]
        PROVE  Moves
    <3>1. DOMAIN op' = OpFields /\ op'.todo = op.todo /\ op'.touched = op.touched /\ op'.cf = op.cf /\ op'.alt = op.alt
      BY <2>2, <2>3, <1>0 DEF OpFields
    <3> QED
      BY <3>1, <2>2, <1>0 DEF Moves, OpRecord
  <2> QED
    BY <2>1, <2>2, <2>3, <1>14, <1>b, <1>d, EndsMoves DEF JoinControllers
<1>15. CASE JoinWorkers
  BY <1>15, <1>a, <1>b, <1>d, EndsMoves DEF JoinWorkers
<1>16. CASE Launch
  <2> DEFINE late == IF op.app = None THEN WithLateApp(op) ELSE op
  <2>1. PICK launched : At("launch") /\ (GoesOn([late EXCEPT !.launched = launched]) \/ Ends) /\ UNCHANGED <<disk, cm, kind, n>>
    BY <1>16 DEF Launch
  <2>4. OpRecord(late) /\ late.todo = op.todo /\ late.touched = op.touched
    <3>1. OpRecord(op)
      BY <2>1, <1>0, <1>a
    <3>2. CASE op.app # None
      BY <3>1, <3>2
    <3>3. CASE op.app = None
      <4>1. PICK app, a : WithLateApp(op) = [op EXCEPT !.app = app, !.cf = [op.cf EXCEPT !.app = a]]
        BY DEF WithLateApp
      <4> DEFINE cf == [op.cf EXCEPT !.app = a]
      <4>2. IsDoc(cf)
        BY <3>1, AppKeeps DEF OpRecord
      <4>3. late = [op EXCEPT !.app = app, !.cf = cf]
        BY <3>3, <4>1
      <4> HIDE DEF cf, late
      <4> QED
        BY <3>1, <4>2, <4>3 DEF OpRecord, OpFields
    <3> QED
      BY <3>2, <3>3
  <2> DEFINE o == [late EXCEPT !.launched = launched]
  <2> HIDE DEF late
  <2>2. OpRecord(o) /\ o.todo = op.todo /\ o.touched = op.touched
    BY <2>4 DEF OpRecord, OpFields
  <2> HIDE DEF o
  <2>3. GoesOn(o) => Moves
    BY <2>1, <2>2, <1>a, GoesOnMoves
  <2> QED
    BY <2>1, <2>3, <1>b, EndsMoves DEF o
<1>17. CASE SaveApp
  BY <1>17, <1>a, <1>b, <1>d DEF SaveApp
<1>18. CASE Commit
  <2>1. At("commit") /\ disk' = Some(Committed) /\ (cm' = Some(Committed) \/ cm' = cm) /\ kind' = kind /\ n' = n
    BY <1>18 DEF Commit
  <2>2. IsDoc(Committed)
    <3>1. IsDoc(op.cf)
      BY <2>1, <1>0, <1>a
    <3>2. DOMAIN op.cf = DocFields
      BY <3>1 DEF IsDoc
    <3> DEFINE w == WithoutHosts(op.cf, op.touched)
    <3>3. DOMAIN w = DocFields /\ w.M = op.cf.M \ op.touched /\ w.W = op.cf.W \ op.touched /\ w.image = op.cf.image
      BY <3>2 DEF WithoutHosts, DocFields
    <3> HIDE DEF w
    <3>4. IsDoc(w)
      BY <3>1, <3>3 DEF IsDoc
    <3> QED
      BY <3>1, <3>4 DEF Committed, w
  <2> HIDE DEF Committed
  <2>3. Docs'
    BY <2>1, <2>2, <1>a DEF Docs, Some, IsDoc
  <2> QED
    BY <2>1, <2>3, <1>18, <1>a, <1>d, EndsMoves DEF Commit
<1>19. CASE ToApp
  <2> DEFINE f == op.spec[1]
             yes == (op.cmd = "apply")
             o == AppInstall(f.image, f.app, f.cmds, f.names, f.env, op.free, yes)
  <2>1. Ends \/ (o # Idle /\ op' = [o EXCEPT !.torn = op.torn])
    BY <1>19 DEF ToApp
  <2> HIDE DEF f, yes
  <2>2. o = Idle \/ (Begins(o) /\ o.todo = AppSteps)
    BY <1>a, AppInstallBegins
  <2> HIDE DEF o
  <2>3. ASSUME o # Idle, op' = [o EXCEPT !.torn = op.torn]
        PROVE  Moves
    <3>1. DOMAIN o = OpFields /\ IsDoc(o.cf) /\ o.alt \subseteq UNION AltSets /\ o.todo = AppSteps
      BY <2>2, <2>3 DEF Begins, OpRecord
    <3>2. DOMAIN op' = OpFields /\ op'.cf = o.cf /\ op'.alt = o.alt /\ op'.todo = AppSteps
      BY <2>3, <3>1 DEF OpFields
    <3> QED
      BY <3>1, <3>2 DEF Moves, OpRecord
  <2> QED
    BY <2>1, <2>3, <1>19, <1>b, EndsMoves DEF ToApp
<1>20. CASE RemoveHosts
  <2>1. (\E complete : DoneOrFault(complete)) \/ Ends
    BY <1>20 DEF RemoveHosts
  <2> QED
    BY <2>1, <1>20, <1>a, <1>b, DoneMoves, EndsMoves DEF RemoveHosts
<1>21. CASE Reset
  <2>1. (\E complete : DoneOrFault(complete)) /\ disk' = disk /\ (cm' = cm \/ cm' = None)
    BY <1>21 DEF Reset
  <2> QED
    BY <2>1, <1>21, <1>a, <1>b, <1>c, DoneMoves DEF Reset
<1>22. CASE Restore
  <2>1. (\E complete : DoneOrFault(complete)) \/ GoesOn(op)
    BY <1>22 DEF Restore
  <2> QED
    BY <2>1, <1>22, <1>a, <1>b, <1>d, DoneMoves DEF Restore
<1>23. CASE RemoveFiles
  <2>1. ~IsIdle /\ (GoesOn(op) \/ Ends) /\ cm' = cm /\ (disk' = None \/ disk' = disk) /\ kind' = kind /\ n' = n
    BY <1>23, <1>a DEF RemoveFiles
  <2>2. Docs'
    BY <2>1, <1>a DEF Docs, IsDoc
  <2> QED
    BY <2>1, <2>2, <1>d, EndsMoves
<1>24. CASE UpdateCert
  <2>1. \/ Ends \/ Fault
        \/ \E h : op' = [op EXCEPT !.touched = op.touched \ {h}]
    BY <1>24 DEF UpdateCert
  <2>2. ~IsIdle
    BY <1>24, <1>a DEF UpdateCert
  <2>3. ASSUME NEW h, op' = [op EXCEPT !.touched = op.touched \ {h}]
        PROVE  Moves
    <3>1. DOMAIN op' = OpFields /\ op'.todo = op.todo /\ op'.touched = op.touched \ {h} /\ op'.cf = op.cf /\ op'.alt = op.alt
      BY <2>2, <2>3, <1>0 DEF OpFields
    <3> QED
      BY <3>1, <2>2, <1>0 DEF Moves, OpRecord
  <2> QED
    BY <2>1, <2>2, <2>3, <1>24, <1>b, EndsMoves DEF UpdateCert
<1>25. CASE StepFails
  BY <1>25, <1>b, EndsMoves DEF StepFails
<1> QED
  BY <1>1, <1>2, <1>3, <1>4, <1>5, <1>6, <1>7, <1>8, <1>9, <1>10, <1>11, <1>12, <1>13, <1>14, <1>15, <1>16, <1>17,
     <1>18, <1>19, <1>20, <1>21, <1>22, <1>23, <1>24, <1>25 DEF CommandStep
------------------------------------------------------------------------------
(* The invariant, one lemma per kind of step.                              *)

\* The steps after which something else is to be shown.
Turning == {"cert", "kubeConfig", "initMaster0", "remove", "reset"}
Quiet == Moves /\ (op' = Idle \/ op' = op \/ \A x \in Turning : ~At(x))

LEMMA QuietSays ==
  ASSUME OpInv, Quiet
  PROVE  /\ At("initMaster0")' => At("initMaster0")
         /\ At("kubeConfig")' => At("kubeConfig")
         /\ ToDo(op'.todo, "initMaster0") => ToDo(op.todo, "initMaster0")
         /\ ToDo(op'.todo, "restore") /\ ~ToDo(op'.todo, "remove") /\ ~ToDo(op'.todo, "reset") =>
              ToDo(op.todo, "restore") /\ ~ToDo(op.todo, "remove") /\ ~ToDo(op.todo, "reset") /\ op'.touched \subseteq op.touched
         /\ ToDo(op'.todo, "joinMasters") /\ ~ToDo(op'.todo, "initMaster0") =>
              ToDo(op.todo, "joinMasters") /\ ~ToDo(op.todo, "initMaster0") /\ op'.touched \subseteq op.touched
<1>1. "initMaster0" \in Marked /\ "restore" \in Marked /\ "joinMasters" \in Marked
  BY DEF Marked
<1>2. CASE op' = Idle
  <2>1. op'.todo = <<>> /\ \A x : ~ToDo(op'.todo, x)
    BY <1>2, IdleSays
  <2> QED
    BY <2>1 DEF At, IsIdle
<1>3. CASE op' = op
  BY <1>3 DEF At, IsIdle
<1>4. CASE \A x \in Turning : ~At(x)
  <2>1. Shrinks
    BY MovesShrink DEF Quiet
  <2>2. ~At("cert") /\ ~At("kubeConfig") /\ ~At("initMaster0") /\ ~At("remove") /\ ~At("reset")
    BY <1>4 DEF Turning
  <2> QED
    BY <1>1, <2>1, <2>2 DEF Shrinks
<1> QED
  BY <1>2, <1>3, <1>4 DEF Quiet

\* A step that leaves certificates and members alone.
LEMMA QuietKeeps ==
  ASSUME Inv, Quiet, UNCHANGED <<kind, certVars, joined, svc, n>>
  PROVE  NumberInv' /\ CertInv'
<1> USE DEF certVars
<1>0. OpInv /\ NumberInv /\ CertInv
  BY DEF Inv
<1>1. NumberInv'
  BY <1>0, QuietSays DEF NumberInv, Kube
<1>2. ASSUME Kube PROVE PromiseInv' /\ WorkInv' /\ TrustInv' /\ SansInv'
  <2>0. PromiseInv /\ WorkInv /\ TrustInv /\ SansInv
    BY <1>0, <1>2 DEF CertInv
  <2>1. PromiseInv'
    BY <2>0 DEF PromiseInv
  <2>2. WorkInv'
    BY <1>0, <2>0, QuietSays DEF WorkInv, Coherent, Up, Has
  <2>3. TrustInv'
    BY <2>0 DEF TrustInv, Masters, Up
  <2>4. SansInv'
    BY <1>0, <2>0, QuietSays DEF SansInv, Masters, Up, Has
  <2> QED
    BY <2>1, <2>2, <2>3, <2>4
<1>3. Kube' => Kube
  BY DEF Kube
<1> QED
  BY <1>1, <1>2, <1>3 DEF CertInv

\* A command begins.
LEMMA CommandKeeps ==
  ASSUME Inv, Begun
  PROVE  OpInv' /\ NumberInv' /\ CertInv'
<1> USE DEF docVars, certVars, hostVars, k0sVars
<1>0. OpInv /\ NumberInv /\ CertInv
  BY DEF Inv
<1>1. CASE op' = Idle
  <2>1. Moves
    BY <1>1 DEF Moves
  <2>2. Docs'
    BY <1>0 DEF Begun, OpInv, Docs, IsDoc
  <2>3. OpInv'
    BY <2>1, <2>2, <1>0, MovesKeepOp DEF Begun
  <2>4. op'.todo = <<>> /\ \A x : ~ToDo(op'.todo, x)
    BY <1>1, IdleSays
  <2>5. NumberInv'
    BY <2>4, <1>0 DEF NumberInv, Begun, Kube
  <2>6. ASSUME Kube PROVE PromiseInv' /\ WorkInv' /\ TrustInv' /\ SansInv'
    <3>0. PromiseInv /\ WorkInv /\ TrustInv /\ SansInv
      BY <1>0, <2>6 DEF CertInv
    <3>1. UNCHANGED <<pki, conf, yaml, etc, etcConf, promised, joined>> /\ ~At("initMaster0")' /\ ~At("kubeConfig")'
      BY <2>4 DEF Begun, At, IsIdle
    <3>2. PromiseInv'
      BY <3>0, <3>1 DEF PromiseInv
    <3>3. WorkInv'
      BY <2>4, <3>0, <3>1 DEF WorkInv, Coherent, Up, Has
    <3>4. TrustInv'
      BY <3>0, <3>1 DEF TrustInv, Masters, Up
    <3>5. SansInv'
      BY <2>4, <3>0, <3>1 DEF SansInv, Masters, Up, Has
    <3> QED
      BY <3>2, <3>3, <3>4, <3>5
  <2>7. Kube' => Kube
    BY DEF Kube, Begun
  <2> QED
    BY <2>3, <2>5, <2>6, <2>7 DEF CertInv
<1>2. CASE Begins(op')
  <2>1. /\ UNCHANGED <<kind, disk, cm, pki, conf, yaml, etc, etcConf, promised, joined, svc>> /\ n' = n + 1
        /\ op'.todo # <<>> /\ op'.todo[1] \notin {"cert", "kubeConfig", "initMaster0"}
        /\ ToDo(op'.todo, "restore") => ToDo(op'.todo, "remove") \/ ToDo(op'.todo, "reset")
        /\ GoodSteps(op'.todo) /\ AllSteps(op'.todo) /\ OpRecord(op')
    BY <1>2 DEF Begun, Begins, Starter
  <2>2. OpInv'
    <3>1. GoodSteps(op.todo)'
      BY <2>1 DEF GoodSteps, Kube
    <3>2. Steps' = Steps
      BY <2>1 DEF Steps, InstallSteps, ScaleUpSteps, RuntimeInstall, RuntimeScaleUp, Kube
    <3>3. AllSteps(op.todo)'
      BY <2>1, <3>2 DEF AllSteps
    <3>4. Docs'
      BY <2>1, <1>0 DEF OpInv, Docs, IsDoc
    <3> QED
      BY <2>1, <3>1, <3>3, <3>4 DEF OpInv, OpRecord, IsDoc
  <2>3. NumberInv'
    BY <2>1, <1>0 DEF NumberInv, Kube
  <2>4. Head(op'.todo) = op'.todo[1]
    BY <2>1, GoodTail
  <2>5. ~At("initMaster0")' /\ ~At("kubeConfig")'
    BY <2>1, <2>4 DEF At
  <2>6. ASSUME Kube PROVE PromiseInv' /\ WorkInv' /\ TrustInv' /\ SansInv'
    <3>0. PromiseInv /\ WorkInv /\ TrustInv /\ SansInv
      BY <1>0, <2>6 DEF CertInv
    <3>2. PromiseInv'
      BY <3>0, <2>1 DEF PromiseInv
    <3>3. WorkInv'
      BY <2>1, <2>5, <3>0 DEF WorkInv, Coherent, Up, Has
    <3>4. TrustInv'
      BY <3>0, <2>1 DEF TrustInv, Masters, Up
    <3>5. Up /\ ToDo(op'.todo, "joinMasters") /\ ~ToDo(op'.todo, "initMaster0") =>
            \A h \in op'.touched \cap Hosts : joined[h] # joined[Master0]
      BY <1>2, <2>6 DEF Begins, JoinsLater
    <3>6. SansInv'
      BY <2>1, <2>5, <3>0, <3>5 DEF SansInv, Masters, Up, Has
    <3> QED
      BY <3>2, <3>3, <3>4, <3>6
  <2>7. Kube' => Kube
    BY <2>1 DEF Kube
  <2> QED
    BY <2>2, <2>3, <2>6, <2>7 DEF CertInv
<1> QED
  BY <1>1, <1>2 DEF Begun

\* What the following lemmas start from and end with.
All5 == NumberInv /\ PromiseInv /\ WorkInv /\ TrustInv /\ SansInv

\* What is still to do was to do before.
ToDoKept ==
  /\ ToDo(op'.todo, "initMaster0") => ToDo(op.todo, "initMaster0")
  /\ ToDo(op'.todo, "restore") /\ ~ToDo(op'.todo, "remove") /\ ~ToDo(op'.todo, "reset") =>
       ToDo(op.todo, "restore") /\ ~ToDo(op.todo, "remove") /\ ~ToDo(op.todo, "reset") /\ op'.touched \subseteq op.touched
  /\ ToDo(op'.todo, "joinMasters") /\ ~ToDo(op'.todo, "initMaster0") =>
       ToDo(op.todo, "joinMasters") /\ ~ToDo(op.todo, "initMaster0") /\ op'.touched \subseteq op.touched

LEMMA ShrinksSays ==
  ASSUME Shrinks, ~At("remove"), ~At("reset"), ~At("initMaster0")
  PROVE  ToDoKept
<1>1. "initMaster0" \in Marked /\ "restore" \in Marked /\ "joinMasters" \in Marked
  BY DEF Marked
<1> QED
  BY <1>1 DEF Shrinks, ToDoKept

LEMMA ConfigKeeps ==
  ASSUME OpInv, All5, Kube, Moves, InitKubeadmConfig
  PROVE  All5'
<1>1. At("config") /\ UNCHANGED <<kind, pki, conf, etc, etcConf, promised, joined, svc, n>>
  BY DEF InitKubeadmConfig, hostVars
<1>2. \A x \in Turning : ~At(x)
  BY <1>1 DEF At, Turning
<1>3. Quiet
  BY <1>2 DEF Quiet
<1>4. ~At("initMaster0")' /\ ~At("kubeConfig")'
  BY <1>2, <1>3, QuietSays DEF Turning
<1>5. NumberInv'
  BY <1>1, <1>3, QuietSays DEF NumberInv, Kube, All5
<1>6. PromiseInv'
  BY <1>1 DEF PromiseInv, All5
<1>7. WorkInv'
  BY <1>1, <1>3, QuietSays DEF WorkInv, Coherent, Up, Has, All5
<1>8. TrustInv'
  BY <1>1 DEF TrustInv, Masters, Up, All5
<1>9. SansInv'
  BY <1>1, <1>3, <1>4, QuietSays DEF SansInv, Masters, Up, Has, All5
<1> QED
  BY <1>5, <1>6, <1>7, <1>8, <1>9 DEF All5

\* The certificates in the work directory, cut off anywhere.
LEMMA GenerateKeeps ==
  ASSUME OpInv, All5, Kube, GenerateCert
  PROVE  All5'
<1> DEFINE r == GenerateAllKubernetesCerts(pki, Fresh, yaml[1])
<1>1. /\ At("cert") /\ UNCHANGED <<kind, conf, yaml, etc, etcConf, promised, joined, svc, n>>
      /\ \E done \in 0..Len(r.plan) : pki' = Applied(pki, r.plan, done) /\ Writes(Len(r.plan), r.ok, done)
  BY DEF GenerateCert, hostVars
<1>2. PICK done \in 0..Len(r.plan) : pki' = Applied(pki, r.plan, done) /\ Writes(Len(r.plan), r.ok, done)
  BY <1>1
<1>3. ~IsIdle
  BY <1>1 DEF At
<1>4. Moves /\ (op' = Idle \/ (r.ok /\ done = Len(r.plan)))
  <2> HIDE DEF r
  <2> QED
    BY <1>2, <1>3, WritesMoves
<1>5. Coherent(pki)
  BY DEF All5, WorkInv
<1>6. /\ DOMAIN pki \subseteq DOMAIN pki'
      /\ Coherent(pki')
      /\ \A i \in 1..3 : Has(pki, PathForKey(Authority(i))) =>
           pki'[PathForKey(Authority(i))] = pki[PathForKey(Authority(i))]
      /\ Has(pki, PathForKey("sa")) => pki'[PathForKey("sa")] = pki[PathForKey("sa")]
      /\ r.ok /\ done = Len(r.plan) =>
           Has(pki', PathForCert("apiserver")) /\ pki'[PathForCert("apiserver")].sans = yaml[1]
  <2> DEFINE sans == yaml[1]
             new == pki'
             g == Fresh
  <2> SUFFICES /\ DOMAIN pki \subseteq DOMAIN new
               /\ Coherent(new)
               /\ \A i \in 1..3 : Has(pki, PathForKey(Authority(i))) =>
                    new[PathForKey(Authority(i))] = pki[PathForKey(Authority(i))]
               /\ Has(pki, PathForKey("sa")) => new[PathForKey("sa")] = pki[PathForKey("sa")]
               /\ r.ok /\ done = Len(r.plan) =>
                    Has(new, PathForCert("apiserver")) /\ new[PathForCert("apiserver")].sans = sans
    OBVIOUS
  <2>1. r = GenerateAllKubernetesCerts(pki, g, sans) /\ new = Applied(pki, r.plan, done)
    BY <1>2
  <2> HIDE DEF sans, new, g, r
  <2> QED
    BY <2>1, <1>5, GenerateLeaves
<1> HIDE DEF r
<1>7. Shrinks
  BY <1>4, MovesShrink
<1>8. ~At("initMaster0")' /\ (At("kubeConfig")' => Has(pki', PathForCert("apiserver")) /\ pki'[PathForCert("apiserver")].sans = yaml[1])
  <2>1. ~At("initMaster0") /\ ~At("kubeConfig")
    BY <1>1 DEF At
  <2>2. At("kubeConfig")' => op' # Idle
    BY IdleSays DEF At, IsIdle
  <2> QED
    BY <2>1, <2>2, <1>4, <1>6, <1>7 DEF Shrinks
<1>9. ToDoKept
  <2>1. ~At("remove") /\ ~At("reset") /\ ~At("initMaster0")
    BY <1>1 DEF At
  <2> QED
    BY <2>1, <1>7, ShrinksSays
<1>10. NumberInv'
  BY <1>1, <1>9 DEF NumberInv, Kube, All5, ToDoKept
<1>11. PromiseInv'
  BY <1>1 DEF PromiseInv, All5
<1>12. 1 \in 1..3 /\ CaKey = PathForKey(Authority(1))
  BY FamiliesAre DEF CaKey
<1>13. Has(pki, CaKey) => Has(pki', CaKey) /\ pki'[CaKey] = pki[CaKey]
  BY <1>6, <1>12 DEF Has
<1>14. WorkInv'
  <2>1. DOMAIN etc[Master0] \subseteq DOMAIN pki'
    BY <1>6 DEF All5, WorkInv
  <2>2. \A f \in DOMAIN conf : Has(pki', CaKey) /\ conf[f].ca = pki'[CaKey].key
    BY <1>13 DEF All5, WorkInv
  <2> QED
    BY <2>1, <2>2, <1>1, <1>6, <1>8, <1>9 DEF WorkInv, Up, Coherent, Has, All5, ToDoKept
<1>15. TrustInv'
  <2>1. ASSUME Up
        PROVE  /\ AllFiles \subseteq DOMAIN pki'
               /\ \A h \in Masters : Trusts(etc[h], pki')
               /\ pki'[CaKey] = pki[CaKey]
    <3>1. AllFiles \subseteq DOMAIN pki /\ \A h \in Masters : Trusts(etc[h], pki)
      BY <2>1 DEF All5, TrustInv
    <3>2. (\A i \in 1..3 : pki'[PathForKey(Authority(i))] = pki[PathForKey(Authority(i))])
          /\ pki'[PathForKey("sa")] = pki[PathForKey("sa")]
      BY <1>6, <1>12, <3>1, AllFilesSays DEF Has
    <3> QED
      BY <3>1, <3>2, <1>6, <1>12 DEF Trusts
  <2> QED
    BY <2>1, <1>1 DEF TrustInv, Masters, Up, All5, Trusts
<1>16. SansInv'
  BY <1>1, <1>8, <1>9 DEF SansInv, Masters, Up, Has, All5, ToDoKept
<1> QED
  BY <1>10, <1>11, <1>14, <1>15, <1>16 DEF All5

\* The kubeconfigs in the work directory.
LEMMA KubeConfigKeeps ==
  ASSUME OpInv, All5, Kube, CreateKubeConfig
  PROVE  All5'
<1> DEFINE r == createKubeConfigFiles(conf, pki, "apiserver")
<1>1. /\ At("kubeConfig") /\ UNCHANGED <<kind, pki, yaml, etc, etcConf, promised, joined, svc, n>>
      /\ \E done \in 0..r.upTo : conf' = Completed(conf, done, r.config) /\ Writes(r.upTo, r.ok, done)
  BY DEF CreateKubeConfig, hostVars
<1>2. PICK done \in 0..r.upTo : conf' = Completed(conf, done, r.config) /\ Writes(r.upTo, r.ok, done)
  BY <1>1
<1>3. ~IsIdle
  BY <1>1 DEF At
<1>4. Moves /\ (op' = Idle \/ (r.ok /\ done = r.upTo))
  <2> HIDE DEF r
  <2> QED
    BY <1>2, <1>3, WritesMoves
<1>5. 1 \in 1..3 /\ Authority(1) = "ca"
  BY FamiliesAre
<1>6. Coherent(pki)
  BY DEF All5, WorkInv
<1>7. Len(KubeConfigFiles) = 4
  BY DEF KubeConfigFiles
<1>8. \/ ~r.ok /\ r.upTo = 0
      \/ Has(pki, CaKey) /\ r.config.ca = pki[CaKey].key /\ (r.ok => r.upTo = Len(KubeConfigFiles))
  <2>1. CASE ~Readable(pki, "ca")
    BY <2>1 DEF createKubeConfigFiles
  <2>2. CASE Readable(pki, "ca")
    <3>1. Has(pki, CaKey) /\ Has(pki, PathForCert("ca"))
      BY <2>2 DEF Readable, CaKey
    <3>2. pki[PathForCert("ca")].key = pki[CaKey].key
      BY <3>1, <1>5, <1>6 DEF Coherent, CaKey
    <3>3. r.config = KubeConfig(pki, "apiserver") /\ (r.ok => r.upTo = Len(KubeConfigFiles))
      BY <2>2 DEF createKubeConfigFiles
    <3> QED
      BY <3>1, <3>2, <3>3 DEF KubeConfig
  <2> QED
    BY <2>1, <2>2
<1> HIDE DEF r
<1>9. /\ DOMAIN conf' = DOMAIN conf \cup {KubeConfigFiles[i] : i \in 1..done}
      /\ \A f \in DOMAIN conf' : \/ f \in DOMAIN conf /\ conf'[f] = conf[f]
                                 \/ f \in {KubeConfigFiles[i] : i \in 1..done} /\ conf'[f] = r.config
  BY <1>2 DEF Completed, CopiedOver, Has
<1>10. \A f \in DOMAIN conf' : Has(pki, CaKey) /\ conf'[f].ca = pki[CaKey].key
  <2>1. \A f \in DOMAIN conf : Has(pki, CaKey) /\ conf[f].ca = pki[CaKey].key
    BY DEF All5, WorkInv
  <2>2. CASE r.upTo = 0
    <3>1. 1..done = {}
      BY <2>2
    <3> QED
      BY <3>1, <2>1, <1>9
  <2>3. CASE Has(pki, CaKey) /\ r.config.ca = pki[CaKey].key
    BY <2>1, <2>3, <1>9
  <2> QED
    BY <2>2, <2>3, <1>8
<1>11. At("initMaster0")' => ConfSet(KubeConfigFiles) \subseteq DOMAIN conf'
  <2>1. At("initMaster0")' => op' # Idle
    BY IdleSays DEF At, IsIdle
  <2>2. r.ok /\ done = r.upTo => done = Len(KubeConfigFiles)
    BY <1>8
  <2> QED
    BY <2>1, <2>2, <1>4, <1>9 DEF ConfSet
<1>12. Shrinks
  BY <1>4, MovesShrink
<1>13. ToDoKept
  <2>1. ~At("remove") /\ ~At("reset") /\ ~At("initMaster0")
    BY <1>1 DEF At
  <2> QED
    BY <2>1, <1>12, ShrinksSays
<1>14. NumberInv'
  BY <1>1, <1>13 DEF NumberInv, Kube, All5, ToDoKept
<1>15. PromiseInv'
  BY <1>1 DEF PromiseInv, All5
<1>16. WorkInv'
  BY <1>1, <1>10, <1>11, <1>13 DEF WorkInv, Up, Coherent, Has, All5, ToDoKept
<1>17. TrustInv'
  <2>1. Up => ConfSet(KubeConfigFiles) \subseteq DOMAIN conf'
    BY <1>9 DEF All5, TrustInv
  <2> QED
    BY <2>1, <1>1 DEF TrustInv, Masters, Up, All5
<1>18. SansInv'
  BY <1>1, <1>13 DEF SansInv, Masters, Up, Has, All5, ToDoKept
<1> QED
  BY <1>14, <1>15, <1>16, <1>17, <1>18 DEF All5

\* A directory of kubeconfigs that is sent names the authority of the work
\* directory.
LEMMA ConfSent ==
  ASSUME NEW files, NEW there, NEW new, new = CopiedOver([f \in ConfSet(files) |-> conf[f]], there), NEW allowed,
         ConfSet(files) \subseteq DOMAIN conf, \A f \in DOMAIN conf : conf[f].ca = pki[CaKey].key,
         ConfSet(files) \subseteq allowed, DOMAIN there \subseteq allowed
  PROVE  /\ DOMAIN new \subseteq allowed
         /\ (allowed \subseteq ConfSet(files) \/ \A f \in DOMAIN there : there[f].ca = pki[CaKey].key) =>
              \A f \in DOMAIN new : new[f].ca = pki[CaKey].key
<1>1. /\ DOMAIN new = ConfSet(files) \cup DOMAIN there
      /\ \A f \in DOMAIN new : \/ f \in ConfSet(files) /\ new[f] = conf[f]
                               \/ f \in DOMAIN there /\ f \notin ConfSet(files) /\ new[f] = there[f]
  BY DEF CopiedOver, Has
<1> QED
  BY <1>1

\* kubeadm init, with or without success.
LEMMA InitKeeps ==
  ASSUME OpInv, All5, Kube, Moves, InitMaster0
  PROVE  All5'
<1> DEFINE sent == Sent(Master0)
           sentConf == SentConf(Master0, KubeConfigFiles)
<1>1. /\ At("initMaster0") /\ UNCHANGED <<kind, pki, conf, yaml, svc, n>>
      /\ etc' = [etc EXCEPT ![Master0] = sent]
      /\ etcConf' = [etcConf EXCEPT ![Master0] = sentConf]
      /\ promised' = [promised EXCEPT ![Master0] = yaml[1]]
      /\ \/ joined[Master0] = 0 /\ AllFiles \subseteq DOMAIN sent /\ joined' = [joined EXCEPT ![Master0] = n] /\ GoesOn(op)
         \/ joined' = joined /\ op' = Idle
  BY EndsMoves DEF InitMaster0, KubeadmInit
<1>2. /\ n \in Nat /\ joined \in [Hosts -> Nat] /\ Master0 \in Hosts
      /\ \A h \in Hosts : svc[h] = "none" /\ joined[h] < n
  BY <1>1, AtSays, CommandsAssumption DEF All5, NumberInv
<1>3. /\ Coherent(pki) /\ \A f \in DOMAIN conf : Has(pki, CaKey) /\ conf[f].ca = pki[CaKey].key
      /\ ConfSet(KubeConfigFiles) \subseteq DOMAIN conf
      /\ DOMAIN etc[Master0] \subseteq DOMAIN pki
      /\ DOMAIN etc = Hosts /\ DOMAIN etcConf = Hosts /\ DOMAIN promised = Hosts
      /\ \A h \in Hosts : DOMAIN etcConf[h] \subseteq ConfSet(IF h = Master0 THEN KubeConfigFiles ELSE JoinKubeConfigFiles)
      /\ Has(pki, PathForCert("apiserver")) /\ pki[PathForCert("apiserver")].sans = yaml[1]
  BY <1>1 DEF All5, WorkInv, PromiseInv, TrustInv, SansInv
<1>4. /\ etc'[Master0] = sent /\ etcConf'[Master0] = sentConf /\ promised'[Master0] = yaml[1]
      /\ \A h \in Hosts \ {Master0} : etc'[h] = etc[h] /\ etcConf'[h] = etcConf[h] /\ promised'[h] = promised[h]
      /\ DOMAIN etc' = Hosts /\ DOMAIN etcConf' = Hosts /\ DOMAIN promised' = Hosts
  BY <1>1, <1>2, <1>3
<1>5. DOMAIN sentConf \subseteq ConfSet(KubeConfigFiles) /\ \A f \in DOMAIN sentConf : sentConf[f].ca = pki[CaKey].key
  <2>1. sentConf = CopiedOver([f \in ConfSet(KubeConfigFiles) |-> conf[f]], etcConf[Master0])
    BY DEF SentConf, ConfSet
  <2>2. DOMAIN etcConf[Master0] \subseteq ConfSet(KubeConfigFiles)
    BY <1>2, <1>3
  <2>3. \A f \in DOMAIN conf : conf[f].ca = pki[CaKey].key
    BY <1>3
  <2> DEFINE files == KubeConfigFiles
             allowed == ConfSet(files)
             there == etcConf[Master0]
             new == sentConf
  <2>4. /\ new = CopiedOver([f \in ConfSet(files) |-> conf[f]], there)
        /\ ConfSet(files) \subseteq DOMAIN conf /\ ConfSet(files) \subseteq allowed /\ DOMAIN there \subseteq allowed
        /\ allowed \subseteq ConfSet(files)
    BY <2>1, <2>2, <1>3
  <2> HIDE DEF files, allowed, there, new
  <2>5. DOMAIN new \subseteq allowed /\ \A f \in DOMAIN new : new[f].ca = pki[CaKey].key
    BY <2>3, <2>4, ConfSent
  <2> QED
    BY <2>5 DEF files, allowed, there, new
<1>6. /\ DOMAIN sent = DOMAIN pki /\ \A f \in DOMAIN pki : sent[f] = pki[f]
      /\ AllFiles \subseteq DOMAIN pki => Trusts(sent, pki)
  <2>1. sent = CopiedOver(pki, etc[Master0])
    BY DEF Sent
  <2> HIDE DEF sent
  <2>2. DOMAIN sent = DOMAIN pki /\ \A f \in DOMAIN pki : sent[f] = pki[f]
    BY <2>1, <1>3 DEF CopiedOver, Has
  <2> QED
    BY <2>1, <2>2, <1>3, SentSays
<1>7. sent[PathForCert("apiserver")].sans = yaml[1]
  BY <1>3, <1>6 DEF Has
<1> HIDE DEF sent, sentConf
<1>8. ~At("initMaster0")' /\ ~At("kubeConfig")' /\ ~ToDo(op'.todo, "initMaster0") /\ ~ToDo(op'.todo, "restore")
  <2>1. CASE op' = Idle
    <3>1. op'.todo = <<>> /\ \A x : ~ToDo(op'.todo, x)
      BY <2>1, IdleSays
    <3> QED
      BY <3>1 DEF At, IsIdle
  <2>2. CASE GoesOn(op) /\ op' # Idle
    <3>0. ~IsIdle /\ OpRecord(op)
      BY <1>1, AtSays DEF At
    <3>1. op'.todo = Tail(op.todo)
      BY <2>2, <3>0, GoesOnMoves
    <3>2. ~ToDo(op'.todo, "initMaster0") /\ ~ToDo(op'.todo, "restore")
      BY <3>1, <1>1, AtSays
    <3>3. ~At("kubeConfig")'
      <4>1. Shrinks
        BY MovesShrink
      <4> QED
        BY <4>1, <1>1 DEF Shrinks, At
    <3>4. ~At("initMaster0")'
      <4>1. GoodSteps(op'.todo)
        BY <3>0, <3>1, GoodTail DEF OpInv, IsIdle
      <4>2. At("initMaster0")' => ToDo(op'.todo, "initMaster0")
        BY <4>1, GoodTail DEF At, IsIdle
      <4> QED
        BY <4>2, <3>2
    <3> QED
      BY <3>2, <3>3, <3>4
  <2> QED
    BY <1>1, <2>1, <2>2
<1>9. WorkInv'
  <2>1. DOMAIN etc'[Master0] \subseteq DOMAIN pki
    BY <1>4, <1>6
  <2> QED
    BY <2>1, <1>1, <1>3, <1>8 DEF WorkInv, Coherent, Has
<1>10. \A h \in Hosts : DOMAIN etcConf'[h] \subseteq ConfSet(IF h = Master0 THEN KubeConfigFiles ELSE JoinKubeConfigFiles)
  BY <1>3, <1>4, <1>5
<1>11. CASE joined[Master0] = 0 /\ AllFiles \subseteq DOMAIN sent /\ joined' = [joined EXCEPT ![Master0] = n]
  <2>1. joined'[Master0] = n /\ n # 0 /\ \A h \in Hosts \ {Master0} : joined'[h] = joined[h] /\ joined'[h] # n
    BY <1>2, <1>11
  <2>2. NumberInv'
    <3>1. joined' \in [Hosts -> Nat] /\ \A h \in Hosts : joined'[h] <= n
      BY <1>2, <1>11, <2>1
    <3> QED
      BY <3>1, <1>1, <1>2, <1>8 DEF NumberInv
  <2>3. PromiseInv'
    BY <2>1, <1>4 DEF PromiseInv, All5
  <2>4. \A h \in Hosts : h \in Masters' => h = Master0
    BY <2>1 DEF Masters
  <2>5. TrustInv'
    <3>1. AllFiles \subseteq DOMAIN pki /\ Trusts(etc'[Master0], pki)
      BY <1>4, <1>6, <1>11
    <3>2. \A f \in DOMAIN etcConf'[Master0] : etcConf'[Master0][f].ca = pki[CaKey].key
      BY <1>4, <1>5
    <3>3. \A h \in Masters' : h \in Hosts
      BY DEF Masters
    <3> QED
      BY <3>1, <3>2, <3>3, <2>4, <1>1, <1>3, <1>10 DEF TrustInv
  <2>6. SansInv'
    <3>1. \A h \in Masters' : h \in Hosts
      BY DEF Masters
    <3>2. promised'[Master0] \subseteq etc'[Master0][PathForCert("apiserver")].sans
      BY <1>4, <1>7
    <3> QED
      BY <3>1, <3>2, <2>1, <2>4, <1>8 DEF SansInv
  <2> QED
    BY <2>2, <2>3, <2>5, <2>6, <1>9 DEF All5
<1>12. CASE joined' = joined /\ op' = Idle
  <2>0. \A x : ~ToDo(op'.todo, x)
    BY <1>12, IdleSays
  <2>1. NumberInv'
    BY <1>1, <1>8, <1>12 DEF NumberInv, All5, Kube
  <2>2. PromiseInv'
    BY <1>4, <1>12 DEF PromiseInv, All5
  <2>3. \A h \in Masters' : h = Master0 \/ (h \in Masters /\ h \in Hosts \ {Master0})
    BY <1>4, <1>12 DEF Masters
  <2>4. ASSUME Up
        PROVE  /\ AllFiles \subseteq DOMAIN pki
               /\ \A h \in Masters' : Trusts(etc'[h], pki) /\ \A f \in DOMAIN etcConf'[h] : etcConf'[h][f].ca = pki[CaKey].key
    <3>1. AllFiles \subseteq DOMAIN pki
      BY <2>4 DEF All5, TrustInv
    <3>2. Trusts(etc'[Master0], pki) /\ \A f \in DOMAIN etcConf'[Master0] : etcConf'[Master0][f].ca = pki[CaKey].key
      BY <3>1, <1>4, <1>5, <1>6
    <3>3. \A h \in Masters : Trusts(etc[h], pki) /\ \A f \in DOMAIN etcConf[h] : etcConf[h][f].ca = pki[CaKey].key
      BY <2>4 DEF All5, TrustInv
    <3> QED
      BY <3>1, <3>2, <3>3, <2>3, <1>4
  <2>5. TrustInv'
    BY <2>4, <1>1, <1>3, <1>10, <1>12 DEF TrustInv, Up
  <2>6. SansInv'
    <3>1. promised'[Master0] \subseteq etc'[Master0][PathForCert("apiserver")].sans
      BY <1>4, <1>7
    <3>2. Up => \A h \in Masters : promised[h] \subseteq etc[h][PathForCert("apiserver")].sans
      BY DEF All5, SansInv
    <3>3. Up' => \A h \in Masters' : promised'[h] \subseteq etc'[h][PathForCert("apiserver")].sans
      BY <3>1, <3>2, <2>3, <1>4, <1>12 DEF Up
    <3> QED
      BY <3>3, <2>0, <1>8 DEF SansInv
  <2> QED
    BY <2>1, <2>2, <2>5, <2>6, <1>9 DEF All5
<1> QED
  BY <1>1, <1>11, <1>12

\* What a joining master is sent, however far its own generator comes.
LEMMA JoiningTrusts ==
  ASSUME All5, Up, NEW h \in Hosts, NEW done \in 0..Len(CertGen(h).plan)
  PROVE  /\ Trusts(JoinedDir(h, done), pki)
         /\ CertGen(h).ok /\ done = Len(CertGen(h).plan) => JoinedDir(h, done)[PathForCert("apiserver")].sans = yaml[1]
<1> DEFINE dir == etc[h]
           sent == Sent(h)
           g == FreshThere
           sans == yaml[1]
           r == CertGen(h)
           new == JoinedDir(h, done)
<1>1. sent = CopiedOver(pki, dir) /\ r = GenerateAllKubernetesCerts(sent, g, sans) /\ new = Applied(sent, r.plan, done)
  BY DEF Sent, CertGen, JoinedDir
<1>2. Coherent(pki) /\ AllFiles \subseteq DOMAIN pki
  BY DEF All5, WorkInv, TrustInv
<1>3. done \in 0..Len(r.plan)
  OBVIOUS
<1> HIDE DEF dir, sent, g, sans, r, new
<1>4. Trusts(new, pki) /\ (r.ok /\ done = Len(r.plan) => new[PathForCert("apiserver")].sans = sans)
  BY <1>1, <1>2, <1>3, JoinedTrusts
<1> QED
  BY <1>4 DEF r, new, sans

\* The length of the generator's plan.
LEMMA PlanLength ==
  ASSUME NEW h
  PROVE  Len(CertGen(h).plan) \in Nat
<1> DEFINE sent == Sent(h)
           g == FreshThere
           sans == yaml[1]
           r == CertGen(h)
<1>1. r = GenerateAllKubernetesCerts(sent, g, sans)
  BY DEF CertGen
<1> HIDE DEF sent, g, sans, r
<1>2. SoundPlan(sent, g, sans, r.plan)
  BY <1>1, SoundGenerate
<1>3. r.plan \in Seq(Generated(sent, g, sans))
  BY <1>2 DEF SoundPlan
<1>4. Len(r.plan) \in Nat
  BY <1>3
<1> QED
  BY <1>4 DEF r

\* Masters join: new ones get the trust, others keep it.
LEMMA JoinMastersKeeps ==
  ASSUME OpInv, All5, Kube, Moves, JoinMasters
  PROVE  All5'
<1>1. At("joinMasters") /\ UNCHANGED <<kind, pki, conf, yaml, svc, n>>
  BY DEF JoinMasters
<1>2. /\ n \in Nat /\ joined \in [Hosts -> Nat] /\ Master0 \in Hosts /\ Master0 \notin NewMasters
      /\ \A h \in Hosts : svc[h] = "none" /\ joined[h] <= n
  BY CommandsAssumption DEF All5, NumberInv, NewMasters
<1>3. DOMAIN etc = Hosts /\ DOMAIN etcConf = Hosts /\ DOMAIN promised = Hosts
  BY DEF All5, PromiseInv
<1>4. ~ToDo(op.todo, "initMaster0") /\ ToDo(op.todo, "joinMasters") /\ ~ToDo(Tail(op.todo), "joinMasters") /\ ~IsIdle /\ OpRecord(op)
  BY <1>1, AtSays DEF At
<1>5. Quiet /\ ~At("initMaster0")' /\ ~At("kubeConfig")'
  <2>1. \A x \in Turning : ~At(x)
    BY <1>1 DEF At, Turning
  <2>2. Quiet
    BY <2>1 DEF Quiet
  <2> QED
    BY <2>1, <2>2, QuietSays DEF Turning
<1>6. CASE (yaml = None \/ ~Up) /\ Ends /\ UNCHANGED <<etc, etcConf, promised, joined, fails>>
  <2>1. Inv
    BY DEF All5, Inv, CertInv
  <2>2. NumberInv' /\ CertInv'
    BY <1>1, <1>5, <1>6, <2>1, QuietKeeps DEF certVars
  <2>3. Kube'
    BY <1>1 DEF Kube
  <2> QED
    BY <2>2, <2>3 DEF CertInv, All5
<1>7. CASE Up /\ yaml # None
  <2>0. /\ etcConf' = [h \in Hosts |-> IF h \in NewMasters THEN SentConf(h, JoinKubeConfigFiles) ELSE etcConf[h]]
        /\ \/ /\ \A h \in NewMasters : joined[h] = 0 /\ CertGen(h).ok
              /\ etc' = [h \in Hosts |-> IF h \in NewMasters THEN JoinedDir(h, Len(CertGen(h).plan)) ELSE etc[h]]
              /\ joined' = Without(joined, NewMasters, joined[Master0])
              /\ promised' = Without(promised, NewMasters, yaml[1])
              /\ GoesOn(op)
           \/ /\ etc' = [h \in Hosts |-> IF h \in NewMasters THEN JoinedDir(h, Len(CertGen(h).plan)) ELSE etc[h]]
              /\ Ends /\ UNCHANGED <<joined, promised>>
           \/ /\ \E done \in 0..20 :
                   /\ \A h \in NewMasters : done < Len(CertGen(h).plan)
                   /\ etc' = [h \in Hosts |-> IF h \in NewMasters THEN JoinedDir(h, done) ELSE etc[h]]
              /\ Fault /\ UNCHANGED <<joined, promised>>
    BY <1>7 DEF JoinMasters
  <2>1. /\ Coherent(pki) /\ \A f \in DOMAIN conf : Has(pki, CaKey) /\ conf[f].ca = pki[CaKey].key
        /\ AllFiles \subseteq DOMAIN pki
        /\ ConfSet(KubeConfigFiles) \subseteq DOMAIN conf
        /\ \A h \in Hosts : DOMAIN etcConf[h] \subseteq ConfSet(IF h = Master0 THEN KubeConfigFiles ELSE JoinKubeConfigFiles)
        /\ \A h \in Masters : Trusts(etc[h], pki) /\ \A f \in DOMAIN etcConf[h] : etcConf[h][f].ca = pki[CaKey].key
        /\ \A h \in Masters : promised[h] \subseteq etc[h][PathForCert("apiserver")].sans
    BY <1>7 DEF All5, WorkInv, TrustInv, SansInv
  <2>2. ConfSet(JoinKubeConfigFiles) \subseteq ConfSet(KubeConfigFiles)
    <3>1. /\ JoinKubeConfigFiles = <<"admin.conf", "controller-manager.conf", "scheduler.conf">>
          /\ KubeConfigFiles = <<"admin.conf", "controller-manager.conf", "scheduler.conf", "kubelet.conf">>
      BY DEF JoinKubeConfigFiles, KubeConfigFiles
    <3>2. Len(JoinKubeConfigFiles) = 3 /\ Len(KubeConfigFiles) = 4
      BY <3>1
    <3>3. \A i \in 1..3 : i \in 1..4 /\ JoinKubeConfigFiles[i] = KubeConfigFiles[i]
      BY <3>1
    <3> QED
      BY <3>2, <3>3 DEF ConfSet
  <2>3. ASSUME NEW h \in Hosts, h \in NewMasters
        PROVE  /\ DOMAIN etcConf'[h] \subseteq ConfSet(JoinKubeConfigFiles)
               /\ \A f \in DOMAIN etcConf'[h] : etcConf'[h][f].ca = pki[CaKey].key
    <3> DEFINE files == JoinKubeConfigFiles
               allowed == ConfSet(files)
               there == etcConf[h]
               new == SentConf(h, JoinKubeConfigFiles)
    <3>1. etcConf'[h] = new
      BY <2>0, <2>3
    <3>2. /\ new = CopiedOver([f \in ConfSet(files) |-> conf[f]], there)
          /\ ConfSet(files) \subseteq allowed /\ allowed \subseteq ConfSet(files)
      BY DEF SentConf, ConfSet
    <3>3. ConfSet(files) \subseteq DOMAIN conf /\ DOMAIN there \subseteq allowed
      BY <2>1, <2>2, <2>3, <1>2
    <3>4. \A f \in DOMAIN conf : conf[f].ca = pki[CaKey].key
      BY <2>1
    <3> HIDE DEF files, allowed, there, new
    <3>5. DOMAIN new \subseteq allowed /\ \A f \in DOMAIN new : new[f].ca = pki[CaKey].key
      BY <3>2, <3>3, <3>4, ConfSent
    <3> QED
      BY <3>1, <3>5 DEF allowed, files
  <2>4. \A h \in Hosts : h \notin NewMasters => etcConf'[h] = etcConf[h] /\ etc'[h] = etc[h]
    BY <2>0
  <2>5. ASSUME NEW h \in Hosts, h \in NewMasters
        PROVE  Trusts(etc'[h], pki)
    <3>1. Len(CertGen(h).plan) \in Nat
      BY PlanLength
    <3>2. Len(CertGen(h).plan) \in 0..Len(CertGen(h).plan)
      BY <3>1
    <3>3. PICK done \in 0..Len(CertGen(h).plan) : etc'[h] = JoinedDir(h, done)
      <4>1. CASE etc' = [m \in Hosts |-> IF m \in NewMasters THEN JoinedDir(m, Len(CertGen(m).plan)) ELSE etc[m]]
        BY <4>1, <3>2, <2>5
      <4>2. CASE \E done \in 0..20 :
                   /\ \A m \in NewMasters : done < Len(CertGen(m).plan)
                   /\ etc' = [m \in Hosts |-> IF m \in NewMasters THEN JoinedDir(m, done) ELSE etc[m]]
        <5>1. PICK done \in 0..20 :
                /\ \A m \in NewMasters : done < Len(CertGen(m).plan)
                /\ etc' = [m \in Hosts |-> IF m \in NewMasters THEN JoinedDir(m, done) ELSE etc[m]]
          BY <4>2
        <5>2. done < Len(CertGen(h).plan) /\ etc'[h] = JoinedDir(h, done)
          BY <5>1, <2>5
        <5>3. done \in 0..Len(CertGen(h).plan)
          BY <5>2, <3>1
        <5> QED
          BY <5>2, <5>3
      <4> QED
        BY <4>1, <4>2, <2>0
    <3> QED
      BY <3>3, <1>7, JoiningTrusts
  <2>6. /\ DOMAIN etc' = Hosts /\ DOMAIN etcConf' = Hosts
        /\ etc'[Master0] = etc[Master0]
        /\ \A h \in Hosts : DOMAIN etcConf'[h] \subseteq ConfSet(IF h = Master0 THEN KubeConfigFiles ELSE JoinKubeConfigFiles)
    BY <2>0, <2>1, <2>3, <2>4, <1>2
  <2>7. CASE UNCHANGED <<joined, promised>> /\ op' = Idle
    <3>0. Masters' = Masters /\ Up /\ Up' /\ \A h \in Masters : h \in Hosts
      BY <2>7, <1>7 DEF Masters, Up
    <3>1. NumberInv'
      BY <2>7, <1>1, <1>5, QuietSays DEF NumberInv, All5, Kube
    <3>2. PromiseInv'
      BY <2>7, <2>6, <1>3 DEF PromiseInv, All5
    <3>3. WorkInv'
      BY <2>6, <2>7, <1>1, <1>5, QuietSays DEF WorkInv, Coherent, Has, Up, All5
    <3>4. TrustInv'
      BY <3>0, <2>1, <2>3, <2>4, <2>5, <2>6, <1>1 DEF TrustInv
    <3>5. \A h \in Masters : h \notin NewMasters
      BY <3>0, <1>2, <1>4 DEF All5, SansInv, Masters, NewMasters
    <3>6. SansInv'
      BY <3>0, <3>5, <2>1, <2>4, <2>7, <1>5, QuietSays DEF SansInv, All5
    <3> QED
      BY <3>1, <3>2, <3>3, <3>4, <3>6 DEF All5
  <2>8. CASE /\ \A h \in NewMasters : joined[h] = 0 /\ CertGen(h).ok
             /\ etc' = [h \in Hosts |-> IF h \in NewMasters THEN JoinedDir(h, Len(CertGen(h).plan)) ELSE etc[h]]
             /\ joined' = Without(joined, NewMasters, joined[Master0])
             /\ promised' = Without(promised, NewMasters, yaml[1])
             /\ GoesOn(op)
    <3>0. /\ \A h \in Hosts : h \in NewMasters => joined'[h] = joined[Master0] /\ promised'[h] = yaml[1]
          /\ \A h \in Hosts : h \notin NewMasters => joined'[h] = joined[h] /\ promised'[h] = promised[h]
          /\ DOMAIN promised' = Hosts /\ joined' \in [Hosts -> Nat]
      BY <2>8, <1>2 DEF Without
    <3>1. \A h \in Masters' : h \in Hosts /\ (h \in NewMasters \/ (h \in Masters /\ h \notin NewMasters))
      BY <3>0, <1>2 DEF Masters
    <3>2. Up /\ Up'
      BY <3>0, <1>2, <1>7 DEF Up
    <3>3. ~ToDo(op'.todo, "joinMasters")
      <4>1. op' = Idle \/ op'.todo = Tail(op.todo)
        BY <2>8, <1>4, GoesOnMoves
      <4> QED
        BY <4>1, <1>4, IdleSays
    <3>4. ~ToDo(op'.todo, "initMaster0")
      BY <1>4, <1>5, QuietSays
    <3>5. NumberInv'
      BY <3>0, <3>4, <1>1, <1>2 DEF NumberInv
    <3>6. PromiseInv'
      BY <3>0, <3>2, <2>6 DEF PromiseInv, All5, Up
    <3>7. WorkInv'
      BY <3>2, <2>6, <1>1, <1>5, QuietSays DEF WorkInv, Coherent, Has, All5
    <3>8. TrustInv'
      BY <3>1, <3>2, <2>1, <2>3, <2>4, <2>5, <2>6, <1>1 DEF TrustInv
    <3>9. ASSUME NEW h \in Hosts, h \in NewMasters
          PROVE  promised'[h] \subseteq etc'[h][PathForCert("apiserver")].sans
      <4>1. Len(CertGen(h).plan) \in Nat
        BY PlanLength
      <4>2. Len(CertGen(h).plan) \in 0..Len(CertGen(h).plan)
        BY <4>1
      <4>3. etc'[h] = JoinedDir(h, Len(CertGen(h).plan)) /\ CertGen(h).ok
        BY <2>8, <3>9
      <4>4. etc'[h][PathForCert("apiserver")].sans = yaml[1]
        BY <4>2, <4>3, <1>7, JoiningTrusts
      <4> QED
        BY <4>4, <3>0, <3>9
    <3>10. SansInv'
      BY <3>0, <3>1, <3>2, <3>3, <3>9, <2>1, <2>4, <1>5 DEF SansInv
    <3> QED
      BY <3>5, <3>6, <3>7, <3>8, <3>10 DEF All5
  <2> QED
    BY <2>0, <2>7, <2>8, EndsMoves
<1> QED
  BY <1>6, <1>7 DEF JoinMasters

\* Workers join: they are no masters.
LEMMA JoinNodesKeeps ==
  ASSUME OpInv, All5, Kube, Moves, JoinNodes
  PROVE  All5'
<1>1. At("joinNodes") /\ UNCHANGED <<kind, pki, conf, yaml, etc, etcConf, promised, svc, n>>
  BY DEF JoinNodes, certVars
<1>2. /\ n \in Nat /\ joined \in [Hosts -> Nat] /\ Master0 \in Hosts
      /\ \A h \in Hosts : svc[h] = "none" /\ joined[h] <= n
  BY CommandsAssumption DEF All5, NumberInv
<1>4. ~ToDo(op.todo, "initMaster0") /\ ~ToDo(Tail(op.todo), "joinMasters") /\ ~IsIdle /\ OpRecord(op)
  BY <1>1, AtSays DEF At
<1>5. Quiet /\ ~At("initMaster0")' /\ ~At("kubeConfig")'
  <2>1. \A x \in Turning : ~At(x)
    BY <1>1 DEF At, Turning
  <2>2. Quiet
    BY <2>1 DEF Quiet
  <2> QED
    BY <2>1, <2>2, QuietSays DEF Turning
<1>6. CASE UNCHANGED joined
  <2>1. Inv
    BY DEF All5, Inv, CertInv
  <2>2. NumberInv' /\ CertInv'
    BY <1>1, <1>5, <1>6, <2>1, QuietKeeps DEF certVars
  <2>3. Kube'
    BY <1>1 DEF Kube
  <2> QED
    BY <2>2, <2>3 DEF CertInv, All5
<1>7. CASE Up /\ (\A h \in NewWorkers : joined[h] = 0) /\ joined' = Without(joined, NewWorkers, joined[Master0]) /\ GoesOn(op)
  <2>1. /\ \A h \in Hosts : h \in NewWorkers => joined[h] = 0 /\ joined'[h] = joined[Master0]
        /\ \A h \in Hosts : h \notin NewWorkers => joined'[h] = joined[h]
        /\ Master0 \notin NewWorkers
        /\ joined' \in [Hosts -> Nat]
    BY <1>2, <1>7 DEF Without, Up
  <2>2. joined'[Master0] = joined[Master0] /\ Up /\ Up'
    BY <2>1, <1>2, <1>7 DEF Up
  <2>3. Masters' = Masters
    <3>1. \A h \in Hosts : h \in NewWorkers => h \notin Masters /\ h \notin Masters'
      BY <1>1, <2>1, <2>2 DEF All5, PromiseInv, Masters, Up
    <3> QED
      BY <3>1, <2>1, <2>2, <1>1 DEF Masters
  <2>4. ~ToDo(op'.todo, "joinMasters")
    <3>1. op' = Idle \/ op'.todo = Tail(op.todo)
      BY <1>4, <1>7, GoesOnMoves
    <3> QED
      BY <3>1, <1>4, IdleSays
  <2>5. ~ToDo(op'.todo, "initMaster0")
    BY <1>4, <1>5, QuietSays
  <2>6. NumberInv'
    BY <2>1, <2>5, <1>1, <1>2 DEF NumberInv
  <2>7. PromiseInv'
    BY <2>1, <2>2, <1>1 DEF PromiseInv, All5, Up
  <2>8. WorkInv'
    BY <2>2, <1>1, <1>5, QuietSays DEF WorkInv, Coherent, Has, All5
  <2>9. TrustInv'
    BY <2>2, <2>3, <1>1 DEF TrustInv, All5
  <2>10. SansInv'
    BY <2>2, <2>3, <2>4, <1>1, <1>5 DEF SansInv, All5
  <2> QED
    BY <2>6, <2>7, <2>8, <2>9, <2>10 DEF All5
<1> QED
  BY <1>6, <1>7 DEF JoinNodes

\* Hosts that are cleaned leave the cluster, and the others keep what they have;
\* a command that goes on has cleaned all of its hosts.
LEMMA CleanedKeeps ==
  ASSUME OpInv, All5, Kube, Moves, NEW done, Cleaned(done), At("remove") \/ At("reset"),
         UNCHANGED <<kind, pki, conf, yaml, n>>, op' = Idle \/ done = op.touched
  PROVE  All5'
<1>1. /\ DOMAIN etc' = Hosts /\ DOMAIN etcConf' = Hosts /\ DOMAIN promised' = Hosts /\ DOMAIN joined' = Hosts
      /\ \A h \in Hosts : h \in done => etc'[h] = EmptyDir /\ etcConf'[h] = EmptyDir /\ promised'[h] = {} /\ joined'[h] = 0 /\ svc'[h] = "none"
      /\ \A h \in Hosts : h \notin done =>
           etc'[h] = etc[h] /\ etcConf'[h] = etcConf[h] /\ promised'[h] = promised[h] /\ joined'[h] = joined[h] /\ svc'[h] = svc[h]
  BY DEF Cleaned, ResetHosts, Without
<1>2. /\ n \in Nat /\ joined \in [Hosts -> Nat] /\ Master0 \in Hosts
      /\ \A h \in Hosts : svc[h] = "none" /\ joined[h] <= n
  BY CommandsAssumption DEF All5, NumberInv
<1>3. DOMAIN EmptyDir = {}
  BY DEF EmptyDir
<1>4. Shrinks /\ ~At("initMaster0") /\ ~At("kubeConfig") /\ ~At("cert")
  BY MovesShrink DEF At
<1>5. ~At("initMaster0")' /\ ~At("kubeConfig")'
  BY <1>4 DEF Shrinks
<1>6. "initMaster0" \in Marked /\ "restore" \in Marked /\ "joinMasters" \in Marked
  BY DEF Marked
<1>7. joined' \in [Hosts -> Nat]
  <2>1. \A h \in Hosts : joined'[h] \in Nat
    BY <1>1, <1>2
  <2>2. joined' = [h \in Hosts |-> joined'[h]]
    BY DEF Cleaned, ResetHosts
  <2> QED
    BY <2>1, <2>2
<1>8. NumberInv'
  <2>1. \A h \in Hosts : joined'[h] <= joined[h] /\ joined'[h] <= n
    BY <1>1, <1>2
  <2>2. ToDo(op'.todo, "initMaster0") => \A h \in Hosts : joined'[h] < n
    <3>1. ToDo(op'.todo, "initMaster0") => \A h \in Hosts : joined[h] < n
      BY <1>4, <1>6 DEF Shrinks, All5, NumberInv
    <3> QED
      BY <3>1, <2>1, <1>2, <1>7
  <2>3. \A h \in Hosts : svc'[h] = "none"
    BY <1>1, <1>2
  <2> QED
    BY <2>1, <2>2, <2>3, <1>2, <1>7 DEF NumberInv
<1>9. PromiseInv'
  BY <1>1 DEF PromiseInv, All5
<1>10. \A x : ToDo(op'.todo, x) => done = op.touched
  BY IdleSays
<1>11. WorkInv'
  <2>1. DOMAIN etc'[Master0] \subseteq DOMAIN pki
    BY <1>1, <1>2, <1>3 DEF All5, WorkInv
  <2>2. ToDo(op'.todo, "restore") /\ Master0 \in op'.touched => ~Up' /\ DOMAIN etc'[Master0] = {}
    <3>1. ToDo(op'.todo, "restore") /\ Master0 \in op'.touched => Master0 \in done
      BY <1>4, <1>6, <1>10 DEF Shrinks
    <3> QED
      BY <3>1, <1>1, <1>2, <1>3 DEF Up
  <2> QED
    BY <2>1, <2>2, <1>5 DEF WorkInv, Coherent, Has, All5
<1>12. ASSUME Up'
       PROVE  Up /\ Master0 \notin done /\ \A h \in Masters' : h \in Masters /\ h \in Hosts /\ h \notin done
  BY <1>1, <1>2, <1>12 DEF Up, Masters
<1>13. \A h \in Hosts : DOMAIN etcConf'[h] \subseteq ConfSet(IF h = Master0 THEN KubeConfigFiles ELSE JoinKubeConfigFiles)
  BY <1>1, <1>3 DEF All5, TrustInv
<1>14. TrustInv'
  BY <1>1, <1>12, <1>13 DEF TrustInv, All5
<1>15. SansInv'
  <2>1. Up' => \A h \in Masters' : promised'[h] \subseteq etc'[h][PathForCert("apiserver")].sans
    BY <1>1, <1>12 DEF SansInv, All5
  <2>2. ASSUME Up', ToDo(op'.todo, "joinMasters"), ~ToDo(op'.todo, "initMaster0"), NEW h \in op'.touched \cap Hosts, h # Master0
        PROVE  joined'[h] # joined'[Master0]
    <3>1. h \in op.touched
      BY <2>2, <1>4, <1>6 DEF Shrinks
    <3>2. h \in done
      BY <3>1, <2>2, <1>10
    <3> QED
      BY <3>2, <2>2, <1>1 DEF Up
  <2> QED
    BY <2>1, <2>2, <1>5 DEF SansInv
<1> QED
  BY <1>8, <1>9, <1>11, <1>14, <1>15 DEF All5

LEMMA RemoveKeeps ==
  ASSUME OpInv, All5, Kube, RemoveHosts \/ Reset
  PROVE  All5'
<1>0. Moves
  BY StepMoves DEF CommandStep
<1>1. At("remove") \/ At("reset")
  BY DEF RemoveHosts, Reset
<1>2. ~IsIdle
  BY <1>1 DEF At
<1>3. UNCHANGED <<kind, pki, conf, yaml, n>>
  BY DEF RemoveHosts, Reset
<1>4. PICK done : Cleaned(done) /\ (DoneOrFault(done = op.touched) \/ Ends)
  BY DEF RemoveHosts, Reset
<1>5. op' = Idle \/ done = op.touched
  <2> DEFINE complete == (done = op.touched)
  <2>1. DoneOrFault(complete) \/ Ends
    BY <1>4
  <2> HIDE DEF complete
  <2>2. op' = Idle \/ complete
    BY <2>1, <1>2, DoneMoves, EndsMoves
  <2> QED
    BY <2>2 DEF complete
<1> QED
  BY <1>0, <1>1, <1>3, <1>4, <1>5, CleanedKeeps

\* With --prune the work directory is removed with the rootfs of the first
\* master, which has left its cluster by then.
LEMMA RestoreKeeps ==
  ASSUME OpInv, All5, Kube, Restore
  PROVE  All5'
<1>0. Moves
  BY StepMoves DEF CommandStep
<1>1. At("restore") /\ UNCHANGED <<kind, etc, etcConf, promised, joined, svc, n>>
  BY DEF Restore
<1>2. \A x \in Turning : ~At(x)
  BY <1>1 DEF At, Turning
<1>3. Quiet
  BY <1>0, <1>2 DEF Quiet
<1>4. ~At("initMaster0")' /\ ~At("kubeConfig")'
  BY <1>2, <1>3, QuietSays DEF Turning
<1>5. CASE UNCHANGED <<pki, conf, yaml>>
  <2>1. Inv
    BY DEF All5, Inv, CertInv
  <2>2. NumberInv' /\ CertInv'
    BY <1>1, <1>3, <1>5, <2>1, QuietKeeps DEF certVars
  <2>3. Kube'
    BY <1>1 DEF Kube
  <2> QED
    BY <2>2, <2>3 DEF CertInv, All5
<1>6. CASE Master0 \in op.touched /\ pki' = EmptyDir /\ conf' = EmptyDir
  <2>1. ~Up /\ DOMAIN etc[Master0] = {} /\ DOMAIN EmptyDir = {}
    BY <1>1, <1>6, AtSays DEF All5, WorkInv, EmptyDir
  <2>2. ~Up' /\ DOMAIN etc'[Master0] = {} /\ DOMAIN pki' = {} /\ DOMAIN conf' = {}
    BY <2>1, <1>1, <1>6 DEF Up
  <2>3. NumberInv'
    BY <1>1, <1>3, QuietSays DEF NumberInv, Kube, All5
  <2>4. PromiseInv'
    BY <1>1 DEF PromiseInv, All5
  <2>5. WorkInv'
    <3>1. Coherent(pki')
      BY <2>2 DEF Coherent, Has
    <3> QED
      BY <3>1, <2>2, <1>4 DEF WorkInv, Coherent
  <2>6. TrustInv'
    BY <2>2, <1>1 DEF TrustInv, All5
  <2>7. SansInv'
    BY <2>2, <1>4 DEF SansInv
  <2> QED
    BY <2>3, <2>4, <2>5, <2>6, <2>7 DEF All5
<1> QED
  BY <1>5, <1>6 DEF Restore

\* `sealer cert` renews one certificate.
LEMMA UpdateKeeps ==
  ASSUME OpInv, All5, Kube, UpdateCert
  PROVE  All5'
<1>0. Moves
  BY StepMoves DEF CommandStep
<1>1. At("update") /\ UNCHANGED <<kind, pki, conf, yaml, etcConf, joined, svc, n>>
  BY DEF UpdateCert, hostVars
<1>2. \A x \in Turning : ~At(x)
  BY <1>1 DEF At, Turning
<1>3. Quiet
  BY <1>0, <1>2 DEF Quiet
<1>4. ~At("initMaster0")' /\ ~At("kubeConfig")'
  BY <1>2, <1>3, QuietSays DEF Turning
<1> DEFINE h == IF Master0 \in op.touched THEN Master0 ELSE CHOOSE m \in op.touched : TRUE
           alt == op.alt
           g == Fresh
           r == UpdateAPIServerCertSans(etc[h], g, alt)
<1>5. \/ UNCHANGED <<etc, promised>>
      \/ r.ok /\ etc' = [etc EXCEPT ![h] = Applied(@, r.plan, 2)]
              /\ promised' = [promised EXCEPT ![h] = IF @ = {} THEN @ ELSE @ \cup alt]
      \/ r.ok /\ etc' = [etc EXCEPT ![h] = Applied(@, r.plan, 1)] /\ promised' = promised
  BY DEF UpdateCert
<1> HIDE DEF h, alt, g
<1>6. CASE UNCHANGED <<etc, promised>>
  <2>1. Inv
    BY DEF All5, Inv, CertInv
  <2>2. NumberInv' /\ CertInv'
    BY <1>1, <1>3, <1>6, <2>1, QuietKeeps DEF certVars
  <2>3. Kube'
    BY <1>1 DEF Kube
  <2> QED
    BY <2>2, <2>3 DEF CertInv, All5
<1>7. ASSUME r.ok, NEW k \in 1..2, etc' = [etc EXCEPT ![h] = Applied(@, r.plan, k)],
             \/ promised' = promised
             \/ promised' = [promised EXCEPT ![h] = IF @ = {} THEN @ ELSE @ \cup alt]
      PROVE  All5'
  <2>1. DOMAIN etc = Hosts /\ DOMAIN promised = Hosts
    BY DEF All5, PromiseInv
  <2> DEFINE new == Applied(etc[h], r.plan, k)
             dir == etc[h]
  <2>2. /\ DOMAIN new = DOMAIN dir
        /\ \A base : Trusts(dir, base) => Trusts(new, base)
        /\ new[PathForCert("apiserver")].sans = dir[PathForCert("apiserver")].sans \cup alt
    <3>1. r = UpdateAPIServerCertSans(dir, g, alt) /\ new = Applied(dir, r.plan, k)
      OBVIOUS
    <3> HIDE DEF r, new, dir
    <3> QED
      BY <3>1, <1>7, UpdatedTrusts
  <2>3. /\ DOMAIN etc' = Hosts /\ DOMAIN promised' = Hosts
        /\ \A m \in Hosts : m # h => etc'[m] = etc[m] /\ promised'[m] = promised[m]
        /\ h \in Hosts => etc'[h] = new
        /\ h \in Hosts => promised'[h] = promised[h] \/ (promised[h] # {} /\ promised'[h] = promised[h] \cup alt)
    <3> HIDE DEF r
    <3> QED
      BY <2>1, <1>7
  <2> HIDE DEF new, r
  <2>4. \A m \in Hosts : promised'[m] = {} <=> promised[m] = {}
    BY <2>3
  <2>5. Masters' = Masters /\ (Up' <=> Up) /\ \A m \in Masters : m \in Hosts
    BY <2>4, <1>1 DEF Masters, Up
  <2>6. \A m \in Hosts : DOMAIN etc'[m] = DOMAIN etc[m] /\ (Trusts(etc[m], pki) => Trusts(etc'[m], pki))
    BY <2>2, <2>3
  <2>7. NumberInv'
    BY <1>1, <1>3, QuietSays DEF NumberInv, Kube, All5
  <2>8. PromiseInv'
    BY <1>1, <2>3, <2>4 DEF PromiseInv, All5
  <2>9. WorkInv'
    <3>1. Master0 \in Hosts
      BY CommandsAssumption
    <3> QED
      BY <3>1, <2>5, <2>6, <1>1, <1>3, <1>4, QuietSays DEF WorkInv, Coherent, Has, All5
  <2>10. TrustInv'
    BY <2>5, <2>6, <1>1 DEF TrustInv, All5
  <2>11. SansInv'
    <3>1. \A m \in Hosts : promised[m] \subseteq etc[m][PathForCert("apiserver")].sans =>
                             promised'[m] \subseteq etc'[m][PathForCert("apiserver")].sans
      BY <2>2, <2>3
    <3> QED
      BY <3>1, <2>5, <1>1, <1>3, <1>4, QuietSays DEF SansInv, All5
  <2> QED
    BY <2>7, <2>8, <2>9, <2>10, <2>11 DEF All5
<1> HIDE DEF r
<1>8. 1 \in 1..2 /\ 2 \in 1..2
  OBVIOUS
<1> QED
  BY <1>5, <1>6, <1>7, <1>8

\* A host joins the cluster of the command or that of the first master, or none.
LEMMA JoinedStays ==
  ASSUME NumberInv, CommandStep \/ \E h \in Hosts : WorkerJoins(h)
  PROVE  n' = n /\ joined' \in [Hosts -> Nat] /\ \A h \in Hosts : joined'[h] <= n
<1>0. n \in Nat /\ joined \in [Hosts -> Nat] /\ Master0 \in Hosts /\ \A h \in Hosts : joined[h] <= n
  BY CommandsAssumption DEF NumberInv
<1>1. \/ joined' = joined
      \/ \E h, v : v \in {n, joined[Master0]} /\ joined' = [joined EXCEPT ![h] = v]
      \/ \E hosts, v : v \in {0, joined[Master0]} /\ joined' = [h \in Hosts |-> IF h \in hosts THEN v ELSE joined[h]]
  <2>1. CASE \E h \in Hosts : WorkerJoins(h)
    BY <2>1 DEF WorkerJoins, ServiceJoins
  <2>2. CASE Bootstrap \/ JoinControllers
    BY <2>2 DEF Bootstrap, bootstrapMaster0, JoinControllers, InstallController
  <2>3. CASE InitMaster0
    BY <2>3 DEF InitMaster0
  <2>4. CASE JoinMasters \/ JoinNodes
    BY <2>4 DEF JoinMasters, JoinNodes, Without
  <2>5. CASE RemoveHosts \/ Reset
    BY <2>5 DEF RemoveHosts, Reset, Cleaned, ResetHosts
  <2>6. CASE \/ Save \/ Distribute \/ RunHook \/ SetRoles \/ InitKubeadmConfig \/ GenerateCert \/ CreateKubeConfig
             \/ GenerateJoinToken \/ StartCopies \/ JoinWorkers \/ Launch \/ SaveApp \/ Commit \/ ToApp
             \/ Restore \/ RemoveFiles \/ UpdateCert \/ StepFails
    BY <2>6 DEF Save, Distribute, RunHook, SetRoles, InitKubeadmConfig, GenerateCert, CreateKubeConfig,
       GenerateJoinToken, StartCopies, JoinWorkers, Launch, SaveApp, Commit, ToApp, Restore, RemoveFiles, UpdateCert,
       StepFails, hostVars
  <2> QED
    BY <2>1, <2>2, <2>3, <2>4, <2>5, <2>6 DEF CommandStep
<1>2. n' = n
  <2>1. CASE \E h \in Hosts : WorkerJoins(h)
    BY <2>1 DEF WorkerJoins
  <2>2. CASE CommandStep
    BY <2>2 DEF CommandStep, Bootstrap, JoinControllers, InitMaster0, JoinMasters, JoinNodes, RemoveHosts, Reset,
       Save, Distribute, RunHook, SetRoles, InitKubeadmConfig, GenerateCert, CreateKubeConfig,
       GenerateJoinToken, StartCopies, JoinWorkers, Launch, SaveApp, Commit, ToApp, Restore, RemoveFiles, UpdateCert,
       StepFails
  <2> QED
    BY <2>1, <2>2
<1>3. ASSUME NEW h, NEW v, v \in {n, joined[Master0]}, joined' = [joined EXCEPT ![h] = v]
      PROVE  joined' \in [Hosts -> Nat] /\ \A m \in Hosts : joined'[m] <= n
  <2>1. v \in Nat /\ v <= n
    BY <1>0, <1>3
  <2> QED
    BY <2>1, <1>0, <1>3
<1>4. ASSUME NEW hosts, NEW v, v \in {0, joined[Master0]}, joined' = [h \in Hosts |-> IF h \in hosts THEN v ELSE joined[h]]
      PROVE  joined' \in [Hosts -> Nat] /\ \A m \in Hosts : joined'[m] <= n
  <2>1. v \in Nat /\ v <= n
    BY <1>0, <1>4
  <2> QED
    BY <2>1, <1>0, <1>4
<1> QED
  BY <1>0, <1>1, <1>2, <1>3, <1>4

\* The steps that leave members and certificates alone are quiet.
LEMMA QuietSteps ==
  ASSUME OpInv, \/ Save \/ Distribute \/ RunHook \/ SetRoles \/ Launch \/ SaveApp \/ Commit \/ ToApp \/ RemoveFiles \/ StepFails
  PROVE  Quiet /\ UNCHANGED <<kind, certVars, joined, svc, n>>
<1>0. Moves
  BY StepMoves DEF CommandStep
<1>1. CASE StepFails
  <2>1. op' = Idle
    BY <1>1, EndsMoves DEF StepFails
  <2> QED
    BY <1>0, <1>1, <2>1 DEF StepFails, Quiet, hostVars
<1>2. CASE RunHook
  <2>1. PICK phase \in HostPhases \cup ClusterPhases : At(phase)
    BY <1>2 DEF RunHook
  <2>2. phase \notin Turning
    BY <2>1 DEF HostPhases, ClusterPhases, Turning
  <2>3. \A x \in Turning : ~At(x)
    BY <2>1, <2>2 DEF At
  <2> QED
    BY <1>0, <1>2, <2>3 DEF RunHook, Quiet, hostVars
<1>3. CASE Save \/ Distribute \/ SetRoles \/ Launch \/ SaveApp \/ Commit \/ ToApp \/ RemoveFiles
  <2>1. \E x \in {"save", "distribute", "roles", "launch", "saveApp", "commit", "toApp", "rmDisk", "rmApp", "rmKubeconfig"} : At(x)
    BY <1>3 DEF Save, Distribute, SetRoles, Launch, SaveApp, Commit, ToApp, RemoveFiles
  <2>2. \A x \in Turning : ~At(x)
    BY <2>1 DEF At, Turning
  <2>3. UNCHANGED <<kind, certVars, joined, svc, n>>
    BY <1>3 DEF Save, Distribute, SetRoles, Launch, SaveApp, Commit, ToApp, RemoveFiles, hostVars
  <2> QED
    BY <1>0, <2>2, <2>3 DEF Quiet
<1> QED
  BY <1>1, <1>2, <1>3

LEMMA StepKeeps ==
  ASSUME Inv, CommandStep
  PROVE  Inv'
<1>0. OpInv /\ NumberInv /\ CertInv
  BY DEF Inv
<1>1. Moves /\ Docs' /\ kind' = kind /\ n' = n
  BY <1>0, StepMoves
<1>2. OpInv'
  BY <1>0, <1>1, MovesKeepOp
<1>3. CASE ~Kube
  <2>1. NumberInv'
    BY <1>0, <1>1, <1>3, JoinedStays DEF NumberInv, Kube
  <2>2. CertInv'
    BY <1>1, <1>3 DEF CertInv, Kube
  <2> QED
    BY <1>2, <2>1, <2>2 DEF Inv
<1>4. CASE Kube
  <2>0. All5
    BY <1>0, <1>4 DEF All5, CertInv
  <2>1. CASE \/ Save \/ Distribute \/ RunHook \/ SetRoles \/ Launch \/ SaveApp \/ Commit \/ ToApp \/ RemoveFiles \/ StepFails
    <3>1. Quiet /\ UNCHANGED <<kind, certVars, joined, svc, n>>
      BY <1>0, <2>1, QuietSteps
    <3>2. NumberInv' /\ CertInv'
      BY <3>1, QuietKeeps
    <3> QED
      BY <3>2, <1>2 DEF Inv
  <2>2. CASE \/ InitKubeadmConfig \/ GenerateCert \/ CreateKubeConfig \/ InitMaster0 \/ JoinMasters \/ JoinNodes
             \/ RemoveHosts \/ Reset \/ Restore \/ UpdateCert
    <3>1. All5'
      BY <1>0, <1>1, <1>4, <2>0, <2>2, ConfigKeeps, GenerateKeeps, KubeConfigKeeps, InitKeeps, JoinMastersKeeps,
         JoinNodesKeeps, RemoveKeeps, RestoreKeeps, UpdateKeeps
    <3>2. NumberInv' /\ CertInv'
      BY <3>1 DEF All5, CertInv
    <3> QED
      BY <3>2, <1>2 DEF Inv
  <2>3. CASE Bootstrap \/ GenerateJoinToken \/ StartCopies \/ JoinControllers \/ JoinWorkers
    <3>1. \E x \in K0sSteps : At(x)
      BY <2>3 DEF Bootstrap, GenerateJoinToken, StartCopies, JoinControllers, JoinWorkers, K0sSteps
    <3> QED
      BY <3>1, <1>0, <1>4, AtSays
  <2> QED
    BY <2>1, <2>2, <2>3 DEF CommandStep
<1> QED
  BY <1>3, <1>4

LEMMA NextKeeps ==
  ASSUME Inv, [Next]_vars
  PROVE  Inv'
<1>0. OpInv /\ NumberInv /\ CertInv
  BY DEF Inv
<1>1. CASE Command
  <2>1. Begun
    BY <1>0, <1>1, CommandBegins DEF OpInv, NumberInv
  <2> QED
    BY <2>1, CommandKeeps DEF Inv
<1>2. CASE CommandStep
  BY <1>2, StepKeeps
<1>3. CASE CopyEnds \/ UNCHANGED vars
  <2>1. op' = op /\ UNCHANGED <<kind, certVars, joined, svc, n>> /\ UNCHANGED <<disk, cm>>
    BY <1>3 DEF CopyEnds, vars, hostVars, docVars, k0sVars
  <2>2. Quiet /\ Moves
    BY <2>1 DEF Quiet, Moves
  <2>3. Docs'
    BY <2>1, <1>0 DEF OpInv, Docs, IsDoc
  <2>4. OpInv'
    BY <2>1, <2>2, <2>3, <1>0, MovesKeepOp
  <2>5. NumberInv' /\ CertInv'
    BY <2>1, <2>2, QuietKeeps
  <2> QED
    BY <2>4, <2>5 DEF Inv
<1>4. CASE \E h \in Hosts : WorkerJoins(h)
  <2>1. op' = op /\ kind' = kind /\ UNCHANGED <<disk, cm, svc>> /\ n' = n
    BY <1>4 DEF WorkerJoins, docVars, k0sVars
  <2>2. Moves
    BY <2>1 DEF Moves
  <2>3. Docs'
    BY <2>1, <1>0 DEF OpInv, Docs, IsDoc
  <2>4. OpInv'
    BY <2>1, <2>2, <2>3, <1>0, MovesKeepOp
  <2>5. ~Kube
    BY <1>0, <1>4 DEF NumberInv, WorkerJoins, ServiceJoins
  <2>6. NumberInv'
    BY <1>0, <1>4, <2>1, <2>5, JoinedStays DEF NumberInv, Kube
  <2>7. CertInv'
    BY <2>1, <2>5 DEF CertInv, Kube
  <2> QED
    BY <2>4, <2>6, <2>7 DEF Inv
<1> QED
  BY <1>1, <1>2, <1>3, <1>4 DEF Next, Rests

LEMMA InitHolds ==
  ASSUME Init
  PROVE  Inv
<1>1. Idle.todo = <<>> /\ op.todo = <<>> /\ IsIdle /\ \A x : ~ToDo(op.todo, x)
  BY IdleSays DEF Init, IsIdle
<1>2. OpInv
  BY <1>1, PartsAreGood, ListsAreSteps DEF OpInv, Docs, Init, None
<1>3. NumberInv
  BY <1>1 DEF NumberInv, Init
<1>4. DOMAIN EmptyDir = {} /\ ~At("initMaster0") /\ ~At("kubeConfig") /\ Master0 \in Hosts /\ ~Up
  BY <1>1, CommandsAssumption DEF EmptyDir, At, Init, Up
<1>5. PromiseInv
  BY DEF PromiseInv, Init
<1>6. WorkInv
  <2>1. Coherent(pki) /\ DOMAIN conf = {} /\ DOMAIN etc[Master0] = {}
    BY <1>4 DEF Coherent, Has, Init
  <2> QED
    BY <2>1, <1>1, <1>4 DEF WorkInv
<1>7. TrustInv
  BY <1>4 DEF TrustInv, Init
<1>8. SansInv
  BY <1>4 DEF SansInv
<1> QED
  BY <1>2, <1>3, <1>5, <1>6, <1>7, <1>8 DEF Inv, CertInv

\* The inductive invariant holds always: under every command and every failure
\* the directories of certificates stay coherent even half-written, the first
\* master has nothing that the work directory has not, a restore or a join of
\* masters never touches a member, and no two clusters share their authorities.
THEOREM InvHolds == Spec => []Inv
<1>1. Init => Inv
  BY InitHolds
<1>2. Inv /\ [Next]_vars => Inv'
  BY NextKeeps
<1> QED
  BY <1>1, <1>2, PTL DEF Spec
------------------------------------------------------------------------------
(* The theorems.                                                           *)

\* The members of MastersShareTrust are masters of the invariant.
LEMMA MembersAreMasters ==
  ASSUME Inv, NEW h \in Members
  PROVE  /\ Kube /\ Up /\ PromiseInv /\ WorkInv /\ TrustInv /\ SansInv
         /\ h \in Masters /\ Master0 \in Masters
  BY CommandsAssumption DEF Inv, CertInv, Members, Masters

\* All masters of a cluster trust each other (MastersShareTrust): certificates
\* that GenerateAllKubernetesCerts made on several hosts, in several commands and
\* over what failed ones left, were signed by authorities that are the same on
\* every master, for any number of hosts, commands and failures.
THEOREM MastersAlwaysShareTrust == Spec => []MastersShareTrust
<1>1. Inv => MastersShareTrust
  <2> SUFFICES ASSUME Inv, NEW h \in Members
               PROVE  /\ AllFiles \subseteq DOMAIN etc[h]
                      /\ SignedByItsAuthority(etc[h])
                      /\ \A i \in 1..3 : LET ca == PathForKey(Families[i].ca) IN etc[h][ca] = etc[Master0][ca]
                      /\ etc[h][PathForKey("sa")] = etc[Master0][PathForKey("sa")]
                      /\ \A f \in DOMAIN etcConf[h] : etcConf[h][f].ca = etc[Master0][PathForKey("ca")].key
    BY DEF MastersShareTrust
  <2>1. Up /\ TrustInv /\ h \in Masters /\ Master0 \in Masters
    BY MembersAreMasters
  <2>2. /\ Trusts(etc[h], pki) /\ Trusts(etc[Master0], pki)
        /\ \A f \in DOMAIN etcConf[h] : etcConf[h][f].ca = pki[CaKey].key
    BY <2>1 DEF TrustInv
  <2>3. \A i \in 1..3 : etc[h][PathForKey(Authority(i))] = etc[Master0][PathForKey(Authority(i))]
    BY <2>2 DEF Trusts
  <2>4. etc[Master0][PathForKey("ca")] = pki[CaKey]
    <3>1. 1 \in 1..3 /\ Authority(1) = "ca"
      BY FamiliesAre
    <3> QED
      BY <3>1, <2>2 DEF Trusts, CaKey
  <2> QED
    BY <2>2, <2>3, <2>4 DEF Trusts, Authority
<1> QED
  BY <1>1, InvHolds, PTL

\* The API server's certificate of every master has all the names that were
\* asked for (SansKept): those of the file the master joined with, and those of
\* every `sealer cert` that ended well, whatever later commands and failures did.
THEOREM SansAreAlwaysKept == Spec => []SansKept
<1>1. Inv => SansKept
  <2> SUFFICES ASSUME Inv, NEW h \in Members
               PROVE  promised[h] \subseteq etc[h][PathForCert("apiserver")].sans
    BY DEF SansKept
  <2>1. Up /\ SansInv /\ h \in Masters
    BY MembersAreMasters
  <2> QED
    BY <2>1 DEF SansInv
<1> QED
  BY <1>1, InvHolds, PTL
------------------------------------------------------------------------------
(* Types.                                                                  *)

Names == {"base"} \cup Hosts \cup (UNION AltSets) \cup UNION {Split[v] : v \in DOMAIN Split}

\* The bounds on what is typed and what fails.
CountsInv == n \in 0..MaxCommands /\ fails \in 0..MaxFailures

PlainInv ==
  /\ kind \in {"kubernetes", "k0s"} /\ appfile \in BOOLEAN /\ kubeconfig \in BOOLEAN
  /\ rootfs \in [Hosts -> {"none"} \cup DOMAIN Ext] /\ cached \in [Hosts -> SUBSET DOMAIN Ext]
  /\ labelled \subseteq Hosts

\* kubeadm.yaml is there when the certificates are made.
NamesInv ==
  /\ promised \in [Hosts -> SUBSET Names]
  /\ yaml # None => yaml[1] \subseteq Names
  /\ At("cert") \/ At("kubeConfig") \/ At("initMaster0") => yaml # None

Types == Inv /\ CountsInv /\ PlainInv /\ TypeOKK0s /\ NamesInv

\* A failure is counted, and the copies go on or end.
LEMMA StepCounts ==
  ASSUME CommandStep
  PROVE  /\ fails' = fails \/ (fails < MaxFailures /\ fails' = fails + 1)
         /\ UNCHANGED <<copying, lost>> \/ (copying' = {} /\ lost' = lost \cup copying) \/ StartCopies
<1> USE DEF Fault, DoneOrFault, Writes, GoesOn, Ends, CopiesEnd
<1>1. CASE Save \/ SetRoles \/ InitKubeadmConfig \/ GenerateJoinToken \/ SaveApp \/ RemoveFiles
  BY <1>1 DEF Save, SetRoles, InitKubeadmConfig, GenerateJoinToken, SaveApp, RemoveFiles
<1>2. CASE RunHook \/ Launch \/ ToApp \/ JoinNodes
  BY <1>2 DEF RunHook, Launch, ToApp, JoinNodes
<1>3. CASE Distribute \/ GenerateCert \/ CreateKubeConfig
  BY <1>3 DEF Distribute, GenerateCert, CreateKubeConfig
<1>4. CASE InitMaster0 \/ JoinMasters
  BY <1>4 DEF InitMaster0, JoinMasters
<1>5. CASE Bootstrap \/ JoinControllers \/ JoinWorkers
  BY <1>5 DEF Bootstrap, JoinControllers, JoinWorkers
<1>6. CASE Commit \/ UpdateCert \/ StepFails
  BY <1>6 DEF Commit, UpdateCert, StepFails
<1>7. CASE RemoveHosts \/ Reset \/ Restore
  BY <1>7 DEF RemoveHosts, Reset, Restore
<1>8. CASE StartCopies
  BY <1>8 DEF StartCopies
<1> QED
  BY <1>1, <1>2, <1>3, <1>4, <1>5, <1>6, <1>7, <1>8 DEF CommandStep

LEMMA CountsKept ==
  ASSUME Inv, CountsInv, [Next]_vars
  PROVE  CountsInv'
<1>1. MaxCommands \in Nat /\ MaxFailures \in Nat
  BY CommandsAssumption
<1>2. CASE Command
  <2>1. Begun
    BY <1>2, CommandBegins DEF Inv, OpInv, NumberInv
  <2> QED
    BY <1>1, <2>1 DEF Begun, CountsInv
<1>3. CASE CommandStep
  <2>1. n' = n /\ (fails' = fails \/ (fails < MaxFailures /\ fails' = fails + 1))
    BY <1>3, StepCounts, StepMoves DEF Inv
  <2> QED
    BY <1>1, <2>1 DEF CountsInv
<1>4. CASE CopyEnds \/ (\E h \in Hosts : WorkerJoins(h)) \/ UNCHANGED vars
  <2>1. n' = n /\ (fails' = fails \/ (fails < MaxFailures /\ fails' = fails + 1))
    BY <1>4 DEF CopyEnds, WorkerJoins, vars
  <2> QED
    BY <1>1, <2>1 DEF CountsInv
<1> QED
  BY <1>2, <1>3, <1>4 DEF Next, Rests

LEMMA PlainKept ==
  ASSUME Inv, PlainInv, [Next]_vars
  PROVE  PlainInv'
<1> USE DEF docVars, hostVars
<1>0. OpInv /\ Master0 \in Hosts
  BY CommandsAssumption DEF Inv
<1>1. CASE Command
  <2>1. Begun
    BY <1>1, CommandBegins DEF Inv, OpInv, NumberInv
  <2> QED
    BY <2>1 DEF Begun, PlainInv
<1>2. CASE Distribute
  <2>1. PICK copied, flagged :
          /\ rootfs' = Without(rootfs, copied, op.cf.image) /\ UNCHANGED <<kind, appfile, kubeconfig, labelled>>
          /\ cached' = [h \in Hosts |-> IF h \in flagged THEN cached[h] \cup {op.cf.image} ELSE cached[h]]
    BY <1>2 DEF Distribute
  <2>2. op.cf.image \in DOMAIN Ext
    BY <1>0, <1>2, AtSays DEF Distribute, OpRecord, IsDoc
  <2> QED
    BY <2>1, <2>2 DEF PlainInv, Without
<1>3. CASE Restore
  <2>1. /\ UNCHANGED <<rootfs, cached>> \/ \E done : rootfs' = Without(rootfs, done, "none") /\ cached' = Without(cached, done, {})
        /\ UNCHANGED <<kind, appfile, kubeconfig, labelled>>
    BY <1>3 DEF Restore
  <2> QED
    BY <2>1 DEF PlainInv, Without
<1>4. CASE SetRoles
  BY <1>4 DEF SetRoles, PlainInv, Nodes
<1>5. CASE RemoveHosts \/ Reset
  <2>1. UNCHANGED <<kind, appfile, rootfs, cached>> /\ labelled' \subseteq labelled /\ (kubeconfig' = kubeconfig \/ kubeconfig' = FALSE)
    BY <1>5 DEF RemoveHosts, Reset
  <2> QED
    BY <2>1 DEF PlainInv
<1>6. CASE Save \/ RunHook \/ InitKubeadmConfig \/ GenerateCert \/ CreateKubeConfig \/ InitMaster0 \/ JoinMasters \/ JoinNodes
  <2>1. UNCHANGED <<kind, appfile, rootfs, cached, labelled>> /\ (kubeconfig' = kubeconfig \/ kubeconfig' = TRUE)
    BY <1>6 DEF Save, RunHook, InitKubeadmConfig, GenerateCert, CreateKubeConfig, InitMaster0, JoinMasters, JoinNodes
  <2> QED
    BY <2>1 DEF PlainInv
<1>7. CASE Bootstrap \/ GenerateJoinToken \/ StartCopies \/ JoinControllers \/ JoinWorkers
  <2>1. UNCHANGED <<kind, appfile, rootfs, cached, labelled>> /\ (kubeconfig' = kubeconfig \/ kubeconfig' = TRUE)
    BY <1>7 DEF Bootstrap, GenerateJoinToken, StartCopies, JoinControllers, JoinWorkers
  <2> QED
    BY <2>1 DEF PlainInv
<1>8. CASE Launch \/ SaveApp \/ Commit \/ ToApp \/ RemoveFiles \/ UpdateCert \/ StepFails
  <2>1. /\ UNCHANGED <<kind, rootfs, cached, labelled>>
        /\ appfile' = appfile \/ appfile' = TRUE \/ appfile' = FALSE
        /\ kubeconfig' = kubeconfig \/ kubeconfig' = FALSE
    BY <1>8 DEF Launch, SaveApp, Commit, ToApp, RemoveFiles, UpdateCert, StepFails
  <2> QED
    BY <2>1 DEF PlainInv
<1>9. CASE CopyEnds \/ (\E h \in Hosts : WorkerJoins(h)) \/ UNCHANGED vars
  BY <1>9 DEF CopyEnds, WorkerJoins, vars, PlainInv
<1> QED
  BY <1>1, <1>2, <1>3, <1>4, <1>5, <1>6, <1>7, <1>8, <1>9 DEF Next, Rests, CommandStep

\* The services and the tokens of k0s.
LEMMA K0sKept ==
  ASSUME Inv, TypeOKK0s, [Next]_vars
  PROVE  TypeOKK0s'
<1>0. OpInv /\ Master0 \in Hosts
  BY CommandsAssumption DEF Inv
<1>r. Roles = {"controller", "worker"} /\ ControllerRole = "controller" /\ WorkerRole = "worker"
  BY DEF Roles, ControllerRole, WorkerRole
<1>t. svc \in [Hosts -> {"none"} \cup Roles] /\ tok \subseteq Hosts \X Roles /\ copying \subseteq Hosts \X Roles /\ lost \subseteq Hosts \X Roles
  BY DEF TypeOKK0s
<1>1. CASE Command
  <2>1. Begun
    BY <1>1, CommandBegins DEF Inv, OpInv, NumberInv
  <2> QED
    BY <2>1 DEF Begun, k0sVars, TypeOKK0s
<1>2. CASE CommandStep /\ ~StartCopies
  <2>1. copying' \subseteq Hosts \X Roles /\ lost' \subseteq Hosts \X Roles
    BY <1>2, <1>t, StepCounts
  <2>2. svc' \in [Hosts -> {"none"} \cup Roles]
    <3>1. CASE Bootstrap \/ JoinControllers
      <4>1. svc' = svc \/ \E h : svc' = [svc EXCEPT ![h] = ControllerRole]
        BY <3>1 DEF Bootstrap, bootstrapMaster0, JoinControllers, InstallController
      <4> QED
        BY <4>1, <1>r, <1>t
    <3>2. CASE JoinWorkers
      BY <3>2, <1>r, <1>t DEF JoinWorkers, InstallWorkers
    <3>3. CASE RemoveHosts \/ Reset
      <4>1. \E hosts : svc' = [h \in Hosts |-> IF h \in hosts THEN "none" ELSE svc[h]]
        BY <3>3 DEF RemoveHosts, Reset, Cleaned, ResetHosts
      <4> QED
        BY <4>1, <1>t
    <3>4. CASE ~(Bootstrap \/ JoinControllers \/ JoinWorkers \/ RemoveHosts \/ Reset)
      <4>1. svc' = svc
        BY <1>2, <3>4 DEF CommandStep, Save, Distribute, RunHook, SetRoles, InitKubeadmConfig, GenerateCert, CreateKubeConfig,
           InitMaster0, JoinMasters, JoinNodes, GenerateJoinToken, Launch, SaveApp, Commit, ToApp, Restore, RemoveFiles,
           UpdateCert, StepFails
      <4> QED
        BY <4>1, <1>t
    <3> QED
      BY <3>1, <3>2, <3>3, <3>4
  <2>3. tok' \subseteq Hosts \X Roles
    <3>1. CASE GenerateJoinToken
      BY <3>1, <1>0, <1>t DEF GenerateJoinToken, generateJoinToken
    <3>2. CASE RemoveHosts \/ Reset
      <4>1. tok' \subseteq tok
        BY <3>2 DEF RemoveHosts, Reset, Cleaned, ResetHosts
      <4> QED
        BY <4>1, <1>t
    <3>3. CASE ~(GenerateJoinToken \/ RemoveHosts \/ Reset)
      <4>1. tok' = tok
        BY <1>2, <3>3 DEF CommandStep, Save, Distribute, RunHook, SetRoles, InitKubeadmConfig, GenerateCert, CreateKubeConfig,
           InitMaster0, JoinMasters, JoinNodes, Bootstrap, JoinControllers, JoinWorkers, Launch, SaveApp, Commit, ToApp,
           Restore, RemoveFiles, UpdateCert, StepFails
      <4> QED
        BY <4>1, <1>t
    <3> QED
      BY <3>1, <3>2, <3>3
  <2> QED
    BY <2>1, <2>2, <2>3 DEF TypeOKK0s
<1>3. CASE StartCopies
  <2>1. OpRecord(op)
    BY <1>0, <1>3, AtSays DEF StartCopies
  <2>2. NewMasters \subseteq Hosts /\ NewWorkers \subseteq Hosts
    BY <2>1 DEF NewMasters, NewWorkers, OpRecord, IsDoc
  <2>3. \E hosts \in SUBSET Hosts, r \in Roles : copying' = copying \cup (hosts \X {r}) /\ lost' = lost \ (hosts \X {r})
    BY <1>3, <1>r, <2>2 DEF StartCopies, CopyJoinToken, JoinCertPath
  <2>4. copying' \subseteq Hosts \X Roles /\ lost' \subseteq Hosts \X Roles
    BY <2>3, <1>t
  <2> QED
    BY <2>4, <1>3, <1>t DEF StartCopies, TypeOKK0s
<1>4. CASE CopyEnds
  <2>1. PICK h \in Hosts, r \in Roles :
          /\ copying' \subseteq copying /\ svc' = svc
          /\ tok' \subseteq tok \cup {<<h, r>>} /\ lost' \subseteq lost \cup {<<h, r>>}
    BY <1>4 DEF CopyEnds, CopyDone, CopyFails
  <2> QED
    BY <2>1, <1>t DEF TypeOKK0s
<1>5. CASE (\E h \in Hosts : WorkerJoins(h)) \/ UNCHANGED vars
  BY <1>5 DEF WorkerJoins, vars, k0sVars, TypeOKK0s
<1> QED
  BY <1>1, <1>2, <1>3, <1>4, <1>5 DEF Next, Rests, CommandStep

LEMMA NamesKept ==
  ASSUME Inv, NamesInv, [Next]_vars
  PROVE  NamesInv'
<1> USE DEF certVars
<1> DEFINE Near == At("cert") \/ At("kubeConfig") \/ At("initMaster0")
<1>0. OpInv /\ Master0 \in Hosts
  BY CommandsAssumption DEF Inv
<1>p. promised \in [Hosts -> SUBSET Names] /\ (yaml # None => yaml[1] \subseteq Names) /\ (Near => yaml # None)
  BY DEF NamesInv
<1>1. CASE Command
  <2>1. Begun
    BY <1>1, CommandBegins DEF Inv, OpInv, NumberInv
  <2>2. ~Near'
    <3>1. CASE op' = Idle
      BY <3>1, IdleSays DEF At, IsIdle
    <3>2. CASE Begins(op')
      <4>1. GoodSteps(op'.todo) /\ op'.todo # <<>> /\ op'.todo[1] \notin {"cert", "kubeConfig", "initMaster0"}
        BY <3>2 DEF Begins, Starter
      <4>2. Head(op'.todo) = op'.todo[1]
        BY <4>1, GoodTail
      <4> QED
        BY <4>1, <4>2 DEF At
    <3> QED
      BY <2>1, <3>1, <3>2 DEF Begun
  <2>3. promised' = promised /\ yaml' = yaml
    BY <2>1 DEF Begun
  <2> QED
    BY <2>2, <2>3, <1>p DEF NamesInv
<1>2. CASE CommandStep
  <2>0. Moves
    BY <1>0, <1>2, StepMoves
  <2>1. Shrinks
    BY <1>0, <2>0, MovesShrink
  <2>2. ASSUME op' = Idle \/ ~At("config") PROVE Near' => Near
    <3>1. op' = Idle => ~Near'
      BY IdleSays DEF At, IsIdle
    <3> QED
      BY <2>1, <2>2, <3>1 DEF Shrinks
  <2>3. CASE InitKubeadmConfig
    <3> DEFINE extra == ExtraSANs(op.cf.env)
    <3>1. promised' = promised /\ yaml' = Some({"base"} \cup extra \cup op.cf.M)
      BY <2>3 DEF InitKubeadmConfig
    <3>2. op.cf.M \subseteq Hosts
      BY <1>0, <2>3, AtSays DEF InitKubeadmConfig, OpRecord, IsDoc
    <3> DEFINE all == UNION {Split[v] : v \in DOMAIN Split}
    <3>4. extra \subseteq all
      <4>1. extra = {} \/ \E v \in DOMAIN Split : extra = Split[v]
        BY DEF ExtraSANs
      <4> HIDE DEF extra
      <4> QED
        BY <4>1, Zenon
    <3> HIDE DEF extra
    <3>3. yaml' # None /\ yaml'[1] \subseteq Names
      <4>1. yaml' # None /\ yaml'[1] = {"base"} \cup extra \cup op.cf.M
        BY <3>1 DEF Some, None
      <4>2. Names = {"base"} \cup Hosts \cup (UNION AltSets) \cup all
        BY DEF Names
      <4> HIDE DEF all
      <4>3. ASSUME NEW x \in yaml'[1] PROVE x \in Names
        BY <4>1, <4>2, <3>2, <3>4
      <4> QED
        BY <4>1, <4>3
    <3> QED
      BY <3>1, <3>3, <1>p DEF NamesInv
  <2>4. CASE Restore
    <3>1. At("restore") /\ promised' = promised /\ (yaml' = yaml \/ yaml' = None)
      BY <2>4 DEF Restore
    <3>2. ~At("config") /\ ~Near
      BY <3>1 DEF At
    <3>3. ~Near'
      BY <3>2, <2>2
    <3> QED
      BY <3>1, <3>3, <1>p DEF NamesInv
  <2>5. CASE UpdateCert
    <3>1. At("update") /\ yaml' = yaml
      BY <2>5 DEF UpdateCert
    <3>2. Near' => Near
      BY <3>1, <2>2 DEF At
    <3>3. op.alt \subseteq Names
      BY <1>0, <3>1, AtSays DEF OpRecord, Names
    <3> DEFINE h == IF Master0 \in op.touched THEN Master0 ELSE CHOOSE m \in op.touched : TRUE
    <3>4. promised' = promised \/ promised' = [promised EXCEPT ![h] = IF @ = {} THEN @ ELSE @ \cup op.alt]
      BY <2>5 DEF UpdateCert
    <3>5. promised' \in [Hosts -> SUBSET Names]
      <4> HIDE DEF h
      <4> QED
        BY <3>3, <3>4, <1>p
    <3> QED
      BY <3>1, <3>2, <3>5, <1>p DEF NamesInv
  <2>6. CASE InitMaster0
    <3>1. At("initMaster0") /\ yaml' = yaml /\ promised' = [promised EXCEPT ![Master0] = yaml[1]]
      BY <2>6 DEF InitMaster0
    <3>2. Near' => Near
      BY <3>1, <2>2 DEF At
    <3>3. promised' \in [Hosts -> SUBSET Names]
      BY <3>1, <1>p
    <3> QED
      BY <3>1, <3>2, <3>3, <1>p DEF NamesInv
  <2>7. CASE JoinMasters
    <3>1. At("joinMasters") /\ yaml' = yaml /\ (promised' = promised \/ (yaml # None /\ promised' = Without(promised, NewMasters, yaml[1])))
      BY <2>7 DEF JoinMasters
    <3>2. Near' => Near
      BY <3>1, <2>2 DEF At
    <3>3. promised' \in [Hosts -> SUBSET Names]
      BY <3>1, <1>p DEF Without
    <3> QED
      BY <3>1, <3>2, <3>3, <1>p DEF NamesInv
  <2>8. CASE RemoveHosts \/ Reset
    <3>1. (At("remove") \/ At("reset")) /\ yaml' = yaml /\ \E done : promised' = Without(promised, done, {})
      BY <2>8 DEF RemoveHosts, Reset, Cleaned
    <3>2. Near' => Near
      BY <3>1, <2>2 DEF At
    <3>3. promised' \in [Hosts -> SUBSET Names]
      BY <3>1, <1>p DEF Without
    <3> QED
      BY <3>1, <3>2, <3>3, <1>p DEF NamesInv
  <2>9. CASE \/ Save \/ Distribute \/ RunHook \/ SetRoles \/ Launch \/ SaveApp \/ Commit \/ ToApp \/ RemoveFiles \/ StepFails
    <3>1. UNCHANGED <<yaml, promised>>
      BY <2>9 DEF Save, Distribute, RunHook, SetRoles, Launch, SaveApp, Commit, ToApp, RemoveFiles, StepFails
    <3>2. op' = Idle \/ ~At("config")
      <4>1. CASE StepFails
        BY <4>1, EndsMoves DEF StepFails
      <4>2. CASE RunHook
        <5>1. "config" \notin HostPhases \cup ClusterPhases
          BY DEF HostPhases, ClusterPhases
        <5> QED
          BY <4>2, <5>1 DEF RunHook, At
      <4>3. CASE Save \/ Distribute \/ SetRoles \/ Launch \/ SaveApp \/ Commit \/ ToApp \/ RemoveFiles
        BY <4>3 DEF Save, Distribute, SetRoles, Launch, SaveApp, Commit, ToApp, RemoveFiles, At
      <4> QED
        BY <2>9, <4>1, <4>2, <4>3
    <3> QED
      BY <3>1, <3>2, <2>2, <1>p DEF NamesInv
  <2>10. CASE GenerateCert \/ CreateKubeConfig \/ JoinNodes \/ Bootstrap \/ GenerateJoinToken \/ StartCopies \/ JoinControllers \/ JoinWorkers
    <3>1. UNCHANGED <<yaml, promised>> /\ ~At("config")
      BY <2>10 DEF GenerateCert, CreateKubeConfig, JoinNodes, Bootstrap, GenerateJoinToken, StartCopies, JoinControllers, JoinWorkers, At
    <3> QED
      BY <3>1, <2>2, <1>p DEF NamesInv
  <2> QED
    BY <1>2, <2>3, <2>4, <2>5, <2>6, <2>7, <2>8, <2>9, <2>10 DEF CommandStep
<1>3. CASE CopyEnds \/ (\E h \in Hosts : WorkerJoins(h)) \/ UNCHANGED vars
  <2>1. UNCHANGED <<op, yaml, promised>>
    BY <1>3 DEF CopyEnds, WorkerJoins, vars
  <2> QED
    BY <2>1 DEF NamesInv, At, IsIdle
<1> QED
  BY <1>1, <1>2, <1>3 DEF Next, Rests

\* Types is inductive.
LEMMA TypesHold == Spec => []Types
<1>1. Init => Types
  <2> SUFFICES ASSUME Init PROVE Types
    OBVIOUS
  <2>1. Inv
    BY InitHolds
  <2>2. CountsInv
    BY CommandsAssumption DEF Init, CountsInv
  <2>3. PlainInv
    BY DEF Init, PlainInv
  <2>4. TypeOKK0s
    BY DEF Init, TypeOKK0s
  <2>5. NamesInv
    <3>1. ~At("cert") /\ ~At("kubeConfig") /\ ~At("initMaster0")
      BY IdleSays DEF Init, At, IsIdle
    <3> QED
      BY <3>1 DEF Init, NamesInv
  <2> QED
    BY <2>1, <2>2, <2>3, <2>4, <2>5 DEF Types
<1>2. Types /\ [Next]_vars => Types'
  BY NextKeeps, CountsKept, PlainKept, K0sKept, NamesKept DEF Types
<1> QED
  BY <1>1, <1>2, PTL DEF Spec

\* The variables always have their types (TypeOK): whatever commands are typed
\* and wherever they fail, the files name known hosts and images, a k0s service
\* has a role and every step left is one of a command.
THEOREM TypeCorrect == Spec => []TypeOK
<1>1. Types => TypeOK
  <2> SUFFICES ASSUME Types PROVE TypeOK
    OBVIOUS
  <2>1. TypeOKK0s /\ PlainInv /\ CountsInv /\ Docs /\ AllSteps(op.todo)
    BY DEF Types, Inv, OpInv
  <2>2. promised \in [Hosts -> SUBSET ({"base"} \cup Hosts \cup (UNION AltSets) \cup UNION {Split[v] : v \in DOMAIN Split})]
    BY DEF Types, NamesInv, Names
  <2>3. joined \in [Hosts -> 0..MaxCommands]
    <3>1. n \in 0..MaxCommands /\ joined \in [Hosts -> Nat] /\ \A h \in Hosts : joined[h] <= n
      BY DEF Types, CountsInv, Inv, NumberInv
    <3>2. \A h \in Hosts : joined[h] \in 0..MaxCommands
      BY <3>1, CommandsAssumption
    <3> QED
      BY <3>1, <3>2
  <2> QED
    BY <2>1, <2>2, <2>3 DEF TypeOK, PlainInv, CountsInv, Docs, AllSteps
<1> QED
  BY <1>1, TypesHold, PTL
=============================================================================
