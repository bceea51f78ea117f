--------------------------- MODULE ClusterLifecycle ---------------------------
(***************************************************************************)
(* The life of one cluster under the commands sealer apply (of a new       *)
(* cluster), scale-up, delete of nodes and delete --all, with the kubeadm  *)
(* runtime.                                                                *)
(*                                                                         *)
(* One command runs at a time, on a machine of the cluster (op.from).  It  *)
(* is a sequence of steps, one per function the installer calls; a step    *)
(* runs remote commands on a set of hosts and the command stops at the     *)
(* first step that reports an error, leaving behind what was done so far:  *)
(* nothing is rolled back.  A killed sealer process is such a stop.  Hosts *)
(* lose and regain SSH connectivity at any moment.                         *)
(*                                                                         *)
(* Abstractions: how far a loop over hosts got before it stopped is any    *)
(* subset of its targets (in list order where the code relies on it);      *)
(* plugin hooks, node roles, labels, taints and the application launch     *)
(* keep no state here, so one of them failing is the next step stopping    *)
(* before it has done anything.                                            *)
(***************************************************************************)
EXTENDS Clusterfile, FiniteSets

CONSTANTS
  RegMode,      \* "nonHA" | "HA" (local registry) | "external"
  InstallFile,  \* the Clusterfile given to sealer apply
  Operators,    \* the machines the operator issues commands from
  Prune,        \* the --prune flag of the delete commands
  Commands,     \* the commands the operator issues
  MaxOps,       \* bound: number of commands issued
  MaxDown       \* bound: number of hosts unreachable at the same time

ASSUME LifecycleAssumption ==
  /\ RegMode \in {"nonHA", "HA", "external"}
  /\ InstallFile \in File
  /\ \E h \in Hosts : InstallFile.pos[h] = 1
  /\ \A g, h \in Masters(InstallFile) : InstallFile.pos[g] = InstallFile.pos[h] => g = h
  /\ Masters(InstallFile) \cap InstallFile.workers = {}
  /\ Operators \subseteq Hosts
  /\ Prune \in BOOLEAN
  /\ Commands \subseteq {"install", "scale-up", "scale-down", "delete"}
  /\ MaxOps \in Nat
  /\ MaxDown \in Nat

VARIABLES
  up,    \* hosts that answer over SSH
  kube,  \* what kubeadm has set up on a host; "old": for an abandoned cluster
  node,  \* hosts registered as Node objects, kept in etcd on the masters
  lvs,   \* per host, the masters its kube-lvscare static pod balances over
  rlvs,  \* per host, the registries its reg-lvscare static pod balances over
  on,    \* per host, what sealer has installed besides Kubernetes
  reg,   \* hosts that run the local registry container
  disk,  \* per host, the Clusterfile in its sealer work directory
  cm,    \* the Clusterfile in the sealer-clusterfile ConfigMap, also in etcd
  op,    \* the running or last command and its step
  ops    \* number of commands issued so far

vars == <<up, kube, node, lvs, rlvs, on, reg, disk, cm, op, ops>>
kubeVars == <<kube, node, lvs>>
fileVars == <<disk, cm>>

\* "hosts": lines sealer added to /etc/hosts; "cri": the container runtime.
Footprint == {"hosts", "rootfs", "cri"}

Stopped == {"idle", "done", "failed", "panic"}

Steps == Stopped \cup
         {"alias", "rootfs", "cri", "registry", "regconf", "init", "joinMasters",
          "lvsOld", "lvsNew", "joinNodes", "commit",
          "checkUp", "checkDown", "checkAll", "regClean", "delNodes", "delMasters",
          "lvsRemain", "unregconf", "uncri", "unalias", "restore", "reset", "rmFiles"}

\* from: the machine sealer runs on; file: the Clusterfile the command works
\* with; M, W: the masters and workers it was asked to add or remove; deadM,
\* deadW: those found disconnected; dist: a distributor was built; resetting:
\* in the first of the two passes of a scale-down.
Op == [kind : {"none", "install", "scale-up", "scale-down", "delete"},
       pc : Steps, from : Hosts, file : File, M : SUBSET Hosts, W : SUBSET Hosts,
       deadM : SUBSET Hosts, deadW : SUBSET Hosts,
       dist : BOOLEAN, resetting : BOOLEAN]

Command(kind, pc, from, f, M, W, dist) ==
  [kind |-> kind, pc |-> pc, from |-> from, file |-> f, M |-> M, W |-> W,
   deadM |-> {}, deadW |-> {}, dist |-> dist, resetting |-> TRUE]

\* Every field of the state has the shape the code keeps it in, whatever
\* prefix of a command has been executed.
TypeOK ==
  /\ up \subseteq Hosts
  /\ kube \in [Hosts -> {"none", "master", "worker", "old"}]
  /\ node \subseteq Hosts
  /\ lvs \in [Hosts -> SUBSET Hosts]
  /\ rlvs \in [Hosts -> SUBSET Hosts]
  /\ on \in [Hosts -> SUBSET Footprint]
  /\ reg \subseteq Hosts
  /\ disk \in [Hosts -> File]
  /\ cm \in File
  /\ op \in Op
  /\ ops \in 0 .. MaxOps

\* Install starts on the first master of the Clusterfile.
M0 == GetMaster0IP(InstallFile)

Init ==
  /\ up = Hosts
  /\ kube = [h \in Hosts |-> "none"]
  /\ node = {}
  /\ lvs = [h \in Hosts |-> {}]
  /\ rlvs = [h \in Hosts |-> {}]
  /\ on = [h \in Hosts |-> {}]
  /\ reg = {}
  /\ disk = [h \in Hosts |-> NoFile]
  /\ cm = NoFile
  /\ op = Command("none", "idle", M0, NoFile, {}, {}, FALSE)
  /\ ops = 0

------------------------------------------------------------------------------
(* The shape of a step.                                                    *)

\* A command on the machine sealer runs on is executed without SSH.
Reach == up \cup {op.from}

All == op.M \cup op.W

Goto(step) == op' = [op EXCEPT !.pc = step]

\* The hosts a step over targets can have handled when it stops.
Handled(targets) == SUBSET (targets \cap Reach)

\* The step has handled the hosts of done and reports ok.
Finish(targets, done, ok, next) ==
  /\ ok => done = targets
  /\ Goto(IF ok THEN next ELSE "failed")
  /\ UNCHANGED <<up, ops>>

\* On the hosts of S, function f gets the value v.
Set(f, S, v) == [h \in Hosts |-> IF h \in S THEN v ELSE f[h]]
Install(S, what) == [h \in Hosts |-> IF h \in S THEN on[h] \cup {what} ELSE on[h]]
Remove(S, what) == [h \in Hosts |-> IF h \in S THEN on[h] \ {what} ELSE on[h]]

HostDown(h) ==
  /\ h \in up
  /\ Cardinality(Hosts \ up) < MaxDown
  /\ up' = up \ {h}
  /\ UNCHANGED <<kubeVars, rlvs, on, reg, fileVars, op, ops>>

HostUp(h) ==
  /\ h \notin up
  /\ up' = up \cup {h}
  /\ UNCHANGED <<kubeVars, rlvs, on, reg, fileVars, op, ops>>

------------------------------------------------------------------------------
(* The start of a command, up to the first remote change.  A command that  *)
(* is refused, or stops at masters[0] of a file without masters, changes   *)
(* nothing and is left out.                                                *)

Ready(kind) ==
  /\ kind \in Commands
  /\ op.pc \in Stopped
  /\ ops < MaxOps
  /\ ops' = ops + 1
  /\ UNCHANGED <<up, kubeVars, rlvs, on, reg, cm>>

\* The ConfigMap if it can be fetched; the local file when the fetch fails,
\* for whatever reason.
GetActualClusterFile(h) ==
  ((IF kube[h] = "master" THEN {cm} ELSE {}) \cup {disk[h]}) \ {NoFile}

\* No kubeconfig on master0: no cluster client, so a new cluster is created.
\* The desired file is saved to disk before anything is done.
StartInstall ==
  /\ Ready("install")
  /\ kube[M0] = "none"
  /\ Members(InstallFile) \subseteq up \cup {M0}
  /\ disk' = [disk EXCEPT ![M0] = InstallFile]
  /\ op' = Command("install", "alias", M0, InstallFile,
                   Masters(InstallFile), InstallFile.workers, TRUE)

\* mj and nj are the requested hosts that are not Nodes yet; the operator
\* gives every host one role.  The desired file is saved to disk first.
StartScaleUp ==
  /\ Ready("scale-up")
  /\ \E h \in Operators, mj, nj \in SUBSET (Hosts \ node) :
       /\ kube[h] = "master"
       /\ mj \cap nj = {} /\ mj \cup nj # {}
       /\ mj \cup nj \subseteq up \cup {h}
       /\ \E f \in GetActualClusterFile(h) :
            /\ (mj \cup nj) \cap Members(f) = {}
            /\ \E g \in ConstructClusterForScaleUp(f, mj, nj) :
                 /\ Masters(g) # {}
                 /\ disk' = [disk EXCEPT ![h] = g]
                 /\ op' = Command("scale-up", "checkUp", h, g, mj, nj, TRUE)

\* Mutation: master0 may be removed although it runs the only registry.
ScaleDownOfMaster0(h, f, reqM, reqW) ==
  /\ Masters(f) # {}
  /\ h \notin reqM \cap Masters(f)
  /\ (reqM \cap Masters(f)) \cup (reqW \cap f.workers) # {}

\* Mutation: the local master may be removed.
ScaleDownOfLocalMaster(h, f, reqM, reqW) ==
  /\ Masters(f) # {}
  /\ RegMode = "nonHA" => GetMaster0IP(f) \notin reqM
  /\ (reqM \cap Masters(f)) \cup (reqW \cap f.workers) # {}

\* A request to remove the masters reqM and the workers reqW, worked from file
\* f, is accepted: not master0 while it runs the only registry, nor the local
\* master.
ScaleDownAllowed(h, f, reqM, reqW) ==
  /\ Masters(f) # {}
  /\ RegMode = "nonHA" => GetMaster0IP(f) \notin reqM
  /\ h \notin reqM \cap Masters(f)
  /\ (reqM \cap Masters(f)) \cup (reqW \cap f.workers) # {}

\* Only hosts that the file lists in the requested role are removed.  There is
\* a distributor only if the platform of every master to remove was read.
ScaleDownCommand(h, f, reqM, reqW) ==
  LET md == reqM \cap Masters(f) IN
  Command("scale-down", IF RegMode = "HA" THEN "regClean" ELSE "checkDown",
          h, f, md, reqW \cap f.workers, md \subseteq up \cup {h})

StartScaleDown ==
  /\ Ready("scale-down")
  /\ \E h \in Operators, reqM, reqW \in SUBSET Hosts :
       /\ kube[h] = "master"
       /\ \E f \in GetActualClusterFile(h) :
            /\ ScaleDownAllowed(h, f, reqM, reqW)
            /\ op' = ScaleDownCommand(h, f, reqM, reqW)
  /\ UNCHANGED disk

StartDelete ==
  /\ Ready("delete")
  /\ \E h \in Operators :
       /\ kube[h] # "old"
       /\ \E f \in GetActualClusterFile(h) :
            /\ Masters(f) # {}
            /\ Members(f) \subseteq up \cup {h}
            /\ op' = Command("delete", "checkAll", h, f, Masters(f), f.workers, TRUE)
  /\ UNCHANGED disk

------------------------------------------------------------------------------
(* Adding hosts: the steps apply and scale-up share.                       *)

\* The new hosts and, when masters join, every worker must answer.
CheckNodeSSHUp ==
  /\ op.pc = "checkUp"
  /\ \/ /\ All \cup (IF op.M # {} THEN op.file.workers ELSE {}) \subseteq Reach
        /\ Goto("alias")
     \/ Goto("failed")
  /\ UNCHANGED <<up, kubeVars, rlvs, on, reg, fileVars, ops>>

SetClusterHostAliases ==
  /\ op.pc = "alias"
  /\ \E done \in Handled(All), ok \in BOOLEAN :
       /\ Finish(All, done, ok, "rootfs")
       /\ on' = Install(done, "hosts")
  /\ UNCHANGED <<kubeVars, rlvs, reg, fileVars>>

Distribute ==
  /\ op.pc = "rootfs"
  /\ \E done \in Handled(All), ok \in BOOLEAN :
       /\ Finish(All, done, ok, "cri")
       /\ on' = Install(done, "rootfs")
  /\ UNCHANGED <<kubeVars, rlvs, reg, fileVars>>

InstallOnCRI ==
  /\ op.pc = "cri"
  /\ \E done \in Handled(All), ok \in BOOLEAN :
       /\ Finish(All, done, ok, "registry")
       /\ on' = Install(done, "cri")
  /\ UNCHANGED <<kubeVars, rlvs, reg, fileVars>>

\* The hosts that get a registry: none if it is external or, in a scale-up,
\* already runs on master0.
RegistryHosts ==
  CASE RegMode = "HA"                            -> op.M
    [] RegMode = "nonHA" /\ op.kind = "install"  -> {GetMaster0IP(op.file)}
    [] OTHER                                     -> {}

\* Mutation: the result of the registry start script is not checked.
ReconcileUnchecked ==
  /\ op.pc = "registry"
  /\ \E done \in Handled(RegistryHosts) :
       /\ Goto("regconf")
       /\ reg' = reg \cup done
  /\ UNCHANGED <<up, ops, kubeVars, rlvs, on, fileVars>>

\* Registries are started one after the other.
ReconcileInstall ==
  /\ op.pc = "registry"
  /\ \E done \in Handled(RegistryHosts), ok \in BOOLEAN :
       /\ InOrder(op.file, done, RegistryHosts)
       /\ Finish(RegistryHosts, done, ok, "regconf")
       /\ reg' = reg \cup done
  /\ UNCHANGED <<kubeVars, rlvs, on, fileVars>>

\* With an HA registry and new masters the registry virtual server of every
\* worker is rewritten, not only that of the new ones.
RegistryClients ==
  IF RegMode # "HA" THEN {} ELSE IF op.M = {} THEN op.W ELSE op.file.workers

ConfigureRegistry ==
  /\ op.pc = "regconf"
  /\ \E done \in Handled(All \cup RegistryClients), ok \in BOOLEAN :
       /\ Finish(All \cup RegistryClients, done, ok,
                 IF op.kind = "install" THEN "init" ELSE "joinMasters")
       /\ on' = Install(done, "hosts")
       /\ rlvs' = Set(rlvs, done \cap RegistryClients, Masters(op.file))
  /\ UNCHANGED <<kubeVars, reg, fileVars>>

\* kubeadm init on the local machine starts a new etcd.  Hosts that still run
\* kubelets of an earlier cluster do not belong to the new one.
InitMaster0 ==
  LET m0 == GetMaster0IP(op.file) IN
  /\ op.pc = "init"
  /\ kube[m0] = "none"
  /\ \/ /\ Goto("failed")
        /\ UNCHANGED <<kube, node, on, cm>>
     \/ /\ m0 \in Reach
        /\ Goto("joinMasters") \/ Goto("failed")
        /\ kube' = [h \in Hosts |-> IF h = m0 THEN "master"
                                    ELSE IF kube[h] = "none" THEN "none" ELSE "old"]
        /\ node' = {m0}
        /\ on' = Install({m0}, "hosts")
        /\ cm' = NoFile
  /\ UNCHANGED <<up, lvs, rlvs, reg, disk, ops>>

\* Masters join one after the other through master0, which hands out the
\* token even when only workers join; kubeadm refuses a host already set up.
JoinMasters ==
  LET m0 == GetMaster0IP(op.file)
      targets == IF op.kind = "install" THEN op.M \ {m0} ELSE op.M
  IN /\ op.pc = "joinMasters"
     /\ \E done \in Handled(targets), ok \in BOOLEAN :
          /\ InOrder(op.file, done, targets)
          /\ ok \/ done # {} => m0 \in Reach /\ kube[m0] = "master"
          /\ \A h \in done : kube[h] = "none"
          /\ Finish(targets, done, ok, "lvsOld")
          /\ kube' = Set(kube, done, "master")
          /\ node' = node \cup done
          /\ on' = Install(done, "hosts")
     /\ UNCHANGED <<lvs, rlvs, reg, fileVars>>

\* The API server virtual server of some of the clients now forwards to masters.
ConfigureLvs(masters, clients, next) ==
  /\ \E done \in Handled(clients), ok \in BOOLEAN :
       /\ Finish(clients, done, ok, next)
       /\ lvs' = Set(lvs, done, masters)
       /\ on' = Install(done, "hosts")
  /\ UNCHANGED <<kube, node, rlvs, reg, fileVars>>

\* Mutation: only the new workers learn of the new masters.
UpdateNewWorkersOnly ==
  /\ op.pc = "lvsOld"
  /\ ConfigureLvs(Masters(op.file), op.W, "lvsNew")

\* The workers that were there before learn of the new masters.
UpdateOldWorkers ==
  /\ op.pc = "lvsOld"
  /\ ConfigureLvs(Masters(op.file),
                  IF op.kind = "scale-up" /\ op.M # {} THEN op.file.workers \ op.W ELSE {},
                  "lvsNew")

PrepareNewWorkers ==
  /\ op.pc = "lvsNew"
  /\ ConfigureLvs(Masters(op.file), op.W, "joinNodes")

\* Workers join concurrently, through their own virtual server.
JoinNodes ==
  /\ op.pc = "joinNodes"
  /\ \E done \in Handled(op.W), ok \in BOOLEAN :
       /\ \A h \in done : kube[h] = "none" /\ \E m \in lvs[h] : kube[m] = "master"
       /\ Finish(op.W, done, ok, "commit")
       /\ kube' = Set(kube, done, "worker")
       /\ node' = node \cup done
  /\ UNCHANGED <<lvs, rlvs, on, reg, fileVars>>

\* SaveAll with CommitToCluster, at the end of apply, scale-up and scale-down:
\* first the local file, then the ConfigMap.
SaveAll ==
  LET f == IF op.kind = "scale-down"
           THEN ConstructClusterForScaleDown(op.file, op.M, op.W) ELSE op.file
  IN /\ op.pc = "commit"
     /\ \E saved, committed, ok \in BOOLEAN :
          /\ committed => saved /\ kube[op.from] = "master"
          /\ ok => committed
          /\ disk' = IF saved THEN [disk EXCEPT ![op.from] = f] ELSE disk
          /\ cm' = IF committed THEN f ELSE cm
          /\ Goto(IF ok THEN "done" ELSE "failed")
     /\ UNCHANGED <<up, kubeVars, rlvs, on, reg, ops>>

------------------------------------------------------------------------------
(* Removing hosts.  A scale-down takes the hosts it can reach first, and   *)
(* removes them completely (resetAndScaleDown); then those it cannot reach *)
(* are only taken out of the cluster (onlyScaleDown).                      *)

\* The masters and workers the current pass removes.
PassM == IF op.resetting THEN op.M \ op.deadM ELSE op.deadM
PassW == IF op.resetting THEN op.W \ op.deadW ELSE op.deadW

\* The hosts a clean-up step handles.
Cleaned == IF op.kind = "delete" THEN All ELSE PassM \cup PassW

\* Mutation: a scale-down takes the registries of all masters down.
AllRegistriesToClean ==
  CASE RegMode = "HA"    -> Masters(op.file)
    [] RegMode = "nonHA" -> {GetMaster0IP(op.file)}
    [] OTHER             -> {}

\* The hosts whose registry is taken down.
RegistriesToClean ==
  CASE RegMode = "HA"    -> op.M
    [] RegMode = "nonHA" -> {GetMaster0IP(op.file)}
    [] OTHER             -> {}

\* With an HA registry a scale-down does this before it looks at anything
\* else; a delete does it after the reset.
CleanRegistry ==
  /\ op.pc = "regClean"
  /\ \E done \in Handled(RegistriesToClean), ok \in BOOLEAN :
       /\ InOrder(op.file, done, RegistriesToClean)
       /\ Finish(RegistriesToClean, done, ok,
                 IF op.kind = "delete" THEN "unregconf" ELSE "checkDown")
       /\ reg' = reg \ done
  /\ UNCHANGED <<kubeVars, rlvs, on, fileVars>>

\* When masters leave, the workers that stay must answer; of the hosts that
\* leave it is only noted which ones do not.
CheckNodeSSHDown ==
  /\ op.pc = "checkDown"
  /\ \/ /\ op.M # {} => op.file.workers \ op.W \subseteq Reach
        /\ op' = [op EXCEPT !.pc = "delNodes", !.deadM = op.M \ Reach, !.deadW = op.W \ Reach]
     \/ Goto("failed")
  /\ UNCHANGED <<up, kubeVars, rlvs, on, reg, fileVars, ops>>

CheckNodeSSHAll ==
  /\ op.pc = "checkAll"
  /\ \/ All \subseteq Reach /\ Goto("reset")
     \/ Goto("failed")
  /\ UNCHANGED <<up, kubeVars, rlvs, on, reg, fileVars, ops>>

\* kubeadm reset: no Kubernetes and no static pods on the hosts of S.
Clean(S) ==
  /\ kube' = Set(kube, S, "none")
  /\ lvs' = Set(lvs, S, {})
  /\ rlvs' = Set(rlvs, S, {})

\* deleteNode and deleteMaster: the clean-up of a host may fail unnoticed; the
\* Node object is then deleted through the first remaining master.  A look-up
\* of the name that fails, for whatever reason, is taken for "not a Node".
DeleteFromCluster(targets, next) ==
  LET remaining == Masters(op.file) \ PassM IN
  /\ IF remaining = {}
     THEN /\ Goto("failed")
          /\ UNCHANGED <<kubeVars, rlvs>>
     ELSE \E cleaned \in Handled(targets), gone \in SUBSET (targets \cap node), ok \in BOOLEAN :
          /\ gone # {} => /\ First(op.file, remaining) \in Reach
                          /\ kube[First(op.file, remaining)] = "master"
          /\ Clean(cleaned)
          /\ node' = node \ gone
          /\ Goto(IF ok THEN next ELSE "failed")
  /\ UNCHANGED <<up, on, reg, fileVars, ops>>

DeleteNodes == op.pc = "delNodes" /\ DeleteFromCluster(PassW, "delMasters")

DeleteMasters == op.pc = "delMasters" /\ DeleteFromCluster(PassM, "lvsRemain")

\* Mutation: the workers are pointed at the masters that leave.
PointAtRemovedMasters ==
  /\ op.pc = "lvsRemain"
  /\ ConfigureLvs(PassM,
                  IF PassM # {} THEN op.file.workers \ PassW ELSE {},
                  IF op.resetting THEN "unregconf" ELSE "commit")

UpdateRemainingWorkers ==
  /\ op.pc = "lvsRemain"
  /\ ConfigureLvs(Masters(op.file) \ PassM,
                  IF PassM # {} THEN op.file.workers \ PassW ELSE {},
                  IF op.resetting THEN "unregconf" ELSE "commit")

\* Mutation: the registry virtual servers keep the masters that leave.
KeepRemovedRegistries ==
  LET clients == IF RegMode = "HA" /\ op.kind = "scale-down" /\ PassM # {}
                 THEN op.file.workers \ PassW ELSE {}
  IN /\ op.pc = "unregconf"
     /\ \E done \in Handled(clients), ok \in BOOLEAN :
          /\ ok => Cleaned \subseteq Reach
          /\ Finish(clients, done, ok, "uncri")
          /\ rlvs' = Set(rlvs, done, Masters(op.file))
          /\ on' = Install(done, "hosts")
     /\ UNCHANGED <<kubeVars, reg, fileVars>>

\* UninstallFrom: a logout on the hosts that leave; with an HA registry and
\* masters leaving, the virtual server of the other workers is rewritten.
UnconfigureRegistry ==
  LET clients == IF RegMode = "HA" /\ op.kind = "scale-down" /\ PassM # {}
                 THEN op.file.workers \ PassW ELSE {}
  IN /\ op.pc = "unregconf"
     /\ \E done \in Handled(clients), ok \in BOOLEAN :
          /\ ok => Cleaned \subseteq Reach
          /\ Finish(clients, done, ok, "uncri")
          /\ rlvs' = Set(rlvs, done, Masters(op.file) \ op.M)
          /\ on' = Install(done, "hosts")
     /\ UNCHANGED <<kubeVars, reg, fileVars>>

\* The uninstall script is part of the rootfs on the host.
UnInstallFromCRI ==
  /\ op.pc = "uncri"
  /\ \E done \in Handled(Cleaned), ok \in BOOLEAN :
       /\ \A h \in done : "rootfs" \in on[h]
       /\ Finish(Cleaned, done, ok, "unalias")
       /\ on' = Remove(done, "cri")
  /\ UNCHANGED <<kubeVars, rlvs, reg, fileVars>>

DeleteClusterHostAliases ==
  /\ op.pc = "unalias"
  /\ \E done \in Handled(Cleaned), ok \in BOOLEAN :
       /\ Finish(Cleaned, done, ok, "restore")
       /\ on' = Remove(done, "hosts")
  /\ UNCHANGED <<kubeVars, rlvs, reg, fileVars>>

\* Distributor.Restore is called on a nil Distributor if none was built.
RestoreNil ==
  /\ op.pc = "restore" /\ ~op.dist
  /\ Goto("panic")
  /\ UNCHANGED <<up, kubeVars, rlvs, on, reg, fileVars, ops>>

\* A scale-down then goes on with the hosts it could not reach.
Restore ==
  LET targets == IF Prune THEN Cleaned ELSE {} IN
  /\ op.pc = "restore" /\ op.dist
  /\ \E done \in Handled(targets), ok \in BOOLEAN :
       /\ ok => done = targets
       /\ on' = Remove(done, "rootfs")
       /\ \/ ~ok /\ Goto("failed")
          \/ ok /\ op.kind = "delete" /\ Goto("rmFiles")
          \/ ok /\ op.kind # "delete" /\ op' = [op EXCEPT !.pc = "delNodes", !.resetting = FALSE]
  /\ UNCHANGED <<up, kubeVars, rlvs, reg, fileVars, ops>>

Reset ==
  /\ op.pc = "reset"
  /\ \E done \in Handled(All), ok \in BOOLEAN :
       /\ Finish(All, done, ok, "regClean")
       /\ Clean(done)
  /\ UNCHANGED <<node, on, reg, fileVars>>

\* The local files go last; removing a file that does not exist is an error.
RemoveLocalFiles ==
  /\ op.pc = "rmFiles"
  /\ \E removed, ok \in BOOLEAN :
       /\ removed => disk[op.from] # NoFile
       /\ ok => removed
       /\ disk' = IF removed THEN [disk EXCEPT ![op.from] = NoFile] ELSE disk
       /\ Goto(IF ok THEN "done" ELSE "failed")
  /\ UNCHANGED <<up, kubeVars, rlvs, on, reg, cm, ops>>

------------------------------------------------------------------------------
Start ==
  \/ StartInstall
  \/ StartScaleUp
  \/ StartScaleDown
  \/ StartDelete

AddStep ==
  \/ CheckNodeSSHUp
  \/ SetClusterHostAliases
  \/ Distribute
  \/ InstallOnCRI
  \/ ReconcileInstall
  \/ ConfigureRegistry
  \/ InitMaster0
  \/ JoinMasters
  \/ UpdateOldWorkers
  \/ PrepareNewWorkers
  \/ JoinNodes
  \/ SaveAll

RemoveStep ==
  \/ CleanRegistry
  \/ CheckNodeSSHDown
  \/ CheckNodeSSHAll
  \/ DeleteNodes
  \/ DeleteMasters
  \/ UpdateRemainingWorkers
  \/ UnconfigureRegistry
  \/ UnInstallFromCRI
  \/ DeleteClusterHostAliases
  \/ RestoreNil
  \/ Restore
  \/ Reset
  \/ RemoveLocalFiles

Environment == \E h \in Hosts : HostDown(h) \/ HostUp(h)

Next == Start \/ AddStep \/ RemoveStep \/ Environment

Spec == Init /\ [][Next]_vars

------------------------------------------------------------------------------
(* Properties.                                                             *)

\* With a single registry, as long as master0 runs Kubernetes the registry on
\* it is there: whatever command fails at whatever step, the images a pod of
\* the cluster is restarted from stay available.
RegistryServed == RegMode = "nonHA" /\ kube[M0] = "master" => M0 \in reg

\* With a single registry, every joined worker keeps master0 among the API
\* servers its virtual server forwards to, through all partial scale-ups and
\* scale-downs, including those worked from a stale local Clusterfile.
WorkerKeepsMaster0 ==
  RegMode = "nonHA" => \A h \in Hosts : kube[h] = "worker" => M0 \in lvs[h]

\* With a single registry, master0 stops being a master only in a delete of
\* the whole cluster ("master0 machine cannot be deleted", delete.go).
Master0Kept ==
  [][RegMode = "nonHA" /\ kube[M0] = "master" /\ kube'[M0] # "master"
       => op.kind = "delete"]_vars

\* No scale-down takes the last running master away ("cleaning up all masters
\* is illegal", runtime.go), although it is decided from a file that need not
\* describe the cluster and executed in two passes.
ControlPlaneSurvives ==
  [][(\E h \in Hosts : kube[h] = "master") /\ (\A h \in Hosts : kube'[h] # "master")
       => op.kind = "delete"]_vars

\* A command that changed the masters and succeeded leaves every worker of the
\* new Clusterfile with the new list of masters behind its API server virtual
\* server and, with an HA registry, behind its registry virtual server.  (Not
\* if hosts to remove were found disconnected on the way.)
LvsFollowsMasters ==
  op.pc = "done" /\ op.kind # "delete" /\ op.M # {} /\ op.deadM \cup op.deadW = {} =>
    \A h \in cm.workers : /\ lvs[h] = Masters(cm)
                          /\ RegMode = "HA" => rlvs[h] = Masters(cm)

\* With an HA registry, a worker of the cluster always has a running registry
\* behind its registry virtual server as long as the master sealer runs on is
\* not itself deleted, even after a scale-down that took a
\* registry down and then failed.
WorkerReachesRegistry ==
  RegMode = "HA" /\ op.kind # "delete" /\ kube[op.from] = "master" =>
    \A h \in cm.workers : kube[h] = "worker" => rlvs[h] \cap reg # {}

\* A joined worker always has a running master behind its API server virtual
\* server, as long as the master sealer runs on is not itself deleted.
WorkerReachesAPI ==
  op.kind # "delete" /\ kube[op.from] = "master" =>
    \A h \in Hosts : kube[h] = "worker" => \E m \in lvs[h] : kube[m] = "master"

\* After a successful delete --all no host runs Kubernetes or a container
\* runtime that sealer installed.  ("we need to save desired clusterfile to
\* local disk temporarily. and will use it later to clean the cluster node if
\* ScaleUp failed", installer.go.)
NothingLeftBehind ==
  op.kind = "delete" /\ op.pc = "done" =>
    \A h \in Hosts : kube[h] = "none" /\ "cri" \notin on[h]

\* A host whose platform cannot be read is skipped by a scale-down ("failed to
\* get hosts platform for deleting node, we will skip reset work on it in next
\* steps", installer.go): the command never crashes on it.
UnreachableHostIsSkipped == op.pc # "panic"

\* Whatever a failed apply left behind, delete --all can run its clean-up on
\* every host ("will use it later to clean the cluster node if apply failed",
\* installer.go): the uninstall script is there when it is called.
CleanUpCanRun ==
  op.kind = "delete" /\ op.pc = "uncri" =>
    \A h \in All : "rootfs" \in on[h]

------------------------------------------------------------------------------
(* The inductive invariant behind RegistryServed, WorkerKeepsMaster0,      *)
(* Master0Kept and, when all commands are issued on master0, behind        *)
(* WorkerReachesRegistry, WorkerReachesAPI and ControlPlaneSurvives: every *)
(* Clusterfile a command can pick up, committed or left on some disk by a  *)
(* failed command, starts with the same master0, so no command is ever     *)
(* asked to add or remove it.                                              *)

\* Master0 is refused as a host to remove: it runs the only registry, or it is
\* the local master of every command.
Master0Protected == RegMode = "nonHA" \/ Operators \subseteq {M0}

\* f is absent, or lists M0 first and only as a master.
StartsWithM0(f) ==
  f # NoFile =>
    /\ f.pos[M0] = 1
    /\ \A h \in Masters(f) : h # M0 => f.pos[h] > 1
    /\ M0 \notin f.workers

FilesStartWithM0 ==
  /\ StartsWithM0(cm)
  /\ \A h \in Hosts : StartsWithM0(disk[h])
  /\ StartsWithM0(op.file)
  /\ op.pc \notin Stopped => op.file # NoFile

\* The steps belong to the commands that take them.
StepOfCommand ==
  /\ op.pc \in {"alias", "rootfs", "cri", "registry", "regconf", "joinMasters",
                "lvsOld", "lvsNew", "joinNodes"} => op.kind \in {"install", "scale-up"}
  /\ op.pc = "init" => op.kind = "install"
  /\ op.pc = "checkUp" => op.kind = "scale-up"
  /\ op.pc \in {"checkDown", "delNodes", "delMasters", "lvsRemain"} => op.kind = "scale-down"
  /\ op.pc \in {"reset", "checkAll", "rmFiles"} => op.kind = "delete"
  /\ op.pc \in {"unregconf", "uncri", "unalias", "restore"} => op.kind \in {"scale-down", "delete"}
  /\ op.pc = "regClean" => op.kind \in (IF RegMode = "HA" THEN {"scale-down", "delete"} ELSE {"delete"})
  /\ op.pc = "commit" => op.kind # "delete"

\* Neither a scale-up nor a scale-down works on M0; apply and delete do.  The
\* hosts to add are in the file.
TargetsOfCommand ==
  /\ op.kind \in {"scale-up", "scale-down"} => M0 \notin op.M
  /\ op.kind \in {"install", "scale-up", "scale-down"} => M0 \notin op.W
  /\ op.kind \in {"install", "scale-up"} => op.W \subseteq op.file.workers
  /\ op.kind = "scale-down" => op.deadM \subseteq op.M /\ op.deadW \subseteq op.W
  /\ op.kind \in {"install", "delete"} => M0 \in op.M
  /\ Operators \subseteq {M0} => op.from = M0

\* What the steps of apply, scale-up and delete that touch M0 or new workers rely
\* on, and the master a scale-down is issued from.
StepsInOrder ==
  /\ op.pc = "init" \/ (op.pc = "regconf" /\ op.kind = "install") => RegMode = "external" \/ M0 \in reg
  /\ op.pc = "regClean" /\ op.kind = "delete" => kube[M0] # "master"
  /\ op.pc = "joinNodes" => \A h \in op.W : M0 \in lvs[h]
  /\ op.pc \in {"init", "joinMasters", "lvsOld", "lvsNew", "joinNodes"} /\ RegMode = "HA" =>
       \A h \in op.W : M0 \in rlvs[h]
  /\ op.kind = "scale-down" /\ op.pc \notin Stopped /\ Operators \subseteq {M0} => kube[M0] = "master"

\* A local registry is there on M0 as long as M0 is a master.
RegistryOnM0 == kube[M0] = "master" => RegMode = "external" \/ M0 \in reg

\* M0 stays behind the virtual servers of every joined worker.
WorkersBehindM0 ==
  \A h \in Hosts : kube[h] = "worker" => M0 \in lvs[h] /\ (RegMode = "HA" => M0 \in rlvs[h])

Master0Inv ==
  Master0Protected =>
    /\ FilesStartWithM0
    /\ StepOfCommand
    /\ TargetsOfCommand
    /\ StepsInOrder
    /\ RegistryOnM0
    /\ WorkersBehindM0

==============================================================================
