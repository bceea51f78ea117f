---------------------------- MODULE ClusterCerts ----------------------------
(***************************************************************************)
(* pkg/clustercert: the certificates of a kubeadm cluster.  A directory of *)
(* certificates is a function from the names of the files that are there   *)
(* to their contents.  Key material is a number, drawn once per run of the *)
(* generator: a key file holds its number, a certificate the number of its *)
(* own key, the number of the key that signed it, and its alternative      *)
(* names.  Cryptography, subjects, usages and expiry are left out.         *)
(***************************************************************************)
EXTENDS Naturals, Sequences, FiniteSets, Functions

EmptyDir == <<>>
Has(dir, file) == file \in DOMAIN dir

\* A directory copied over another one.
CopiedOver(dir, there) ==
  [f \in DOMAIN dir \cup DOMAIN there |-> IF Has(dir, f) THEN dir[f] ELSE there[f]]

PathForCert(name) == <<name, "crt">>
PathForKey(name) == <<name, "key">>
PathForPublicKey(name) == <<name, "pub">>

\* A file written: its name and its contents.
Write(file, content) == <<file, content>>
KeyOf(k) == [key |-> k, signer |-> 0, sans |-> {}]
CertOf(k, signer, sans) == [key |-> k, signer |-> signer, sans |-> sans]

\* CertificateFileManger.Write: the certificate first, then its key.
WritePair(name, k, signer, sans) ==
  <<Write(PathForCert(name), CertOf(k, signer, sans)), Write(PathForKey(name), KeyOf(k))>>

\* CertificateFileManger.Read needs both files.
Readable(dir, name) == Has(dir, PathForKey(name)) /\ Has(dir, PathForCert(name))

\* What the first n writes of a plan leave in a directory; a plan writes a
\* file once.
Applied(dir, plan, n) ==
  [f \in DOMAIN dir \cup {plan[i][1] : i \in 1..n} |->
     IF \E i \in 1..n : plan[i][1] = f
     THEN plan[CHOOSE i \in 1..n : plan[i][1] = f][2]
     ELSE dir[f]]

----------------------------------------------------------------------------
(* The three families, each with its authority and the certificates that   *)
(* authority signs, in the order they are written.                         *)

getKubeCertificateConfig == [ca |-> "ca", common |-> <<"apiserver", "apiserver-kubelet-client">>]
getEtcdCertificateConfig ==
  [ca |-> "etcd/ca",
   common |-> <<"apiserver-etcd-client", "etcd/server", "etcd/peer", "etcd/healthcheck-client">>]
getFrontProxyCertificateConfig == [ca |-> "front-proxy-ca", common |-> <<"front-proxy-client">>]

Families == <<getKubeCertificateConfig, getEtcdCertificateConfig, getFrontProxyCertificateConfig>>

\* The names in a certificate: of all of them only the API server's matter here.
AltNames(name, sans) == IF name = "apiserver" THEN sans ELSE {}

\* generateAuthorityCertificate: a self-signed pair with a fresh key.
generateAuthorityCertificate(fam, g) == WritePair(fam.ca, g, g, {})

\* generateCommonCertificate: every certificate of the family is made anew.
generateCommonCertificate(fam, caKey, g, sans) ==
  [i \in 1..(2 * Len(fam.common)) |->
     LET name == fam.common[(i + 1) \div 2]
     IN WritePair(name, g, caKey, AltNames(name, sans))[IF i % 2 = 1 THEN 1 ELSE 2]]

\* Mutation: every run of the generator makes a new authority.
RegeneratesAuthority(dir, fam, g, sans) ==
  [plan |-> generateAuthorityCertificate(fam, g) \o generateCommonCertificate(fam, g, g, sans), ok |-> TRUE]

\* GenerateAll of a family, from the files that are there: [plan, ok].  An
\* authority whose certificate exists is loaded, and must have its key.
FamilyPlan(dir, fam, g, sans) ==
  IF ~Has(dir, PathForCert(fam.ca))
  THEN [plan |-> generateAuthorityCertificate(fam, g) \o generateCommonCertificate(fam, g, g, sans), ok |-> TRUE]
  ELSE IF ~Readable(dir, fam.ca) THEN [plan |-> <<>>, ok |-> FALSE]
  ELSE [plan |-> generateCommonCertificate(fam, dir[PathForKey(fam.ca)].key, g, sans), ok |-> TRUE]

\* KeyPairFileGenerator.GenerateAll looks at sa.key alone.
ServiceAccountPlan(dir, g) ==
  IF Has(dir, PathForKey("sa")) THEN <<>>
  ELSE <<Write(PathForKey("sa"), KeyOf(g)), Write(PathForPublicKey("sa"), KeyOf(g))>>

\* GenerateAllKubernetesCerts: kube, etcd, front proxy, service account; the
\* first family that cannot be made ends it.
GenerateAllKubernetesCerts(dir, g, sans) ==
  LET k == FamilyPlan(dir, Families[1], g, sans)
      e == FamilyPlan(dir, Families[2], g, sans)
      f == FamilyPlan(dir, Families[3], g, sans)
  IN [plan |-> IF ~k.ok THEN <<>>
               ELSE IF ~e.ok THEN k.plan
               ELSE IF ~f.ok THEN k.plan \o e.plan
               ELSE k.plan \o e.plan \o f.plan \o ServiceAccountPlan(dir, g),
      ok |-> k.ok /\ e.ok /\ f.ok]

\* Mutation: the certificate gets the new names alone.
OnlyNewSans(dir, sans) == sans

\* UpdateAPIServerCertSans: the names the certificate already has stay.
UpdatedSans(dir, sans) == dir[PathForCert("apiserver")].sans \cup sans
UpdateAPIServerCertSans(dir, g, sans) ==
  IF ~Readable(dir, "apiserver") \/ ~Readable(dir, "ca") THEN [plan |-> <<>>, ok |-> FALSE]
  ELSE [plan |-> WritePair("apiserver", g, dir[PathForKey("ca")].key, UpdatedSans(dir, sans)), ok |-> TRUE]

----------------------------------------------------------------------------
(* Kubeconfig files: each holds the authority it trusts and its server.    *)

KubeConfigFiles == <<"admin.conf", "controller-manager.conf", "scheduler.conf", "kubelet.conf">>
\* The files a joining master is sent; its kubelet bootstraps its own.
JoinKubeConfigFiles == <<"admin.conf", "controller-manager.conf", "scheduler.conf">>

\* buildKubeConfigFromSpec: the authority's certificate and the endpoint.
KubeConfig(dir, server) == [ca |-> dir[PathForCert("ca")].key, server |-> server]

\* validateKubeConfig: an existing file must name the same authority and server.
validateKubeConfig(current, config) == current.ca = config.ca /\ current.server = config.server

\* createKubeConfigFiles: one file after the other, up to an existing one that
\* is not valid, which is an error; [upTo, config, ok].
createKubeConfigFiles(conf, dir, server) ==
  IF ~Readable(dir, "ca") THEN [upTo |-> 0, config |-> <<>>, ok |-> FALSE]
  ELSE LET config == KubeConfig(dir, server)
           Stale(i) == Has(conf, KubeConfigFiles[i]) /\ ~validateKubeConfig(conf[KubeConfigFiles[i]], config)
           bad == {i \in 1..Len(KubeConfigFiles) : Stale(i)}
       IN [upTo |-> IF bad = {} THEN Len(KubeConfigFiles)
                    ELSE (CHOOSE i \in bad : \A j \in bad : i <= j) - 1,
           config |-> config,
           ok |-> bad = {}]

\* createKubeConfigFileIfNotExists, for the first files: one that exists stays.
Completed(conf, upTo, config) ==
  CopiedOver(conf, [f \in {KubeConfigFiles[i] : i \in 1..upTo} |-> config])

\* Everything kubeadm needs on a control plane.
AllFiles ==
  (UNION {UNION {{PathForCert(n), PathForKey(n)} : n \in {Families[i].ca} \cup Range(Families[i].common)} : i \in 1..3})
    \cup {PathForKey("sa"), PathForPublicKey("sa")}

\* Every certificate of a complete directory was signed by the authority
\* beside it.
SignedByItsAuthority(dir) ==
  \A i \in 1..3 : \A name \in Range(Families[i].common) :
    dir[PathForCert(name)].signer = dir[PathForKey(Families[i].ca)].key
=============================================================================
