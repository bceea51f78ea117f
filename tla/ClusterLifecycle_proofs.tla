----------------------- MODULE ClusterLifecycle_proofs -----------------------
(* What is proved of ClusterLifecycle, for every set of hosts, every       *)
(* Clusterfile and any number of commands and failures.                    *)
EXTENDS ClusterLifecycle, TLAPS

------------------------------------------------------------------------------
(* Clusterfiles.                                                           *)

\* The Clusterfile of apply has a first master, M0.
LEMMA M0First ==
  /\ M0 \in Hosts
  /\ InstallFile.pos[M0] = 1
  /\ InstallFile # NoFile
  /\ StartsWithM0(InstallFile)
<1> DEFINE P(h) == h \in Masters(InstallFile)
                   /\ \A g \in Masters(InstallFile) : InstallFile.pos[h] <= InstallFile.pos[g]
<1>0. InstallFile \in File /\ InstallFile.pos \in [Hosts -> 0 .. MaxPos] /\ MaxPos \in Nat
  BY LifecycleAssumption, MaxPosAssumption DEF File
<1>1. PICK k \in Hosts : InstallFile.pos[k] = 1
  BY LifecycleAssumption
<1>2. P(k)
  BY <1>0, <1>1 DEF Masters
<1>3. M0 \in Masters(InstallFile) /\ \A g \in Masters(InstallFile) : InstallFile.pos[M0] <= InstallFile.pos[g]
  BY <1>2 DEF M0, GetMaster0IP, First
<1>4. M0 \in Hosts /\ InstallFile.pos[M0] = 1
  BY <1>0, <1>1, <1>2, <1>3 DEF Masters
<1>5. InstallFile # NoFile
  BY <1>4 DEF NoFile
<1>6. \A h \in Masters(InstallFile) : h # M0 => InstallFile.pos[h] > 1
  BY <1>0, <1>3, <1>4, LifecycleAssumption DEF Masters
<1>7. M0 \notin InstallFile.workers
  BY <1>3, LifecycleAssumption
<1> QED
  BY <1>4, <1>5, <1>6, <1>7 DEF StartsWithM0

\* masters[0] of a file that starts with M0 is M0.
LEMMA FirstIsM0 ==
  ASSUME NEW f \in File, StartsWithM0(f), f # NoFile
  PROVE  GetMaster0IP(f) = M0 /\ M0 \in Masters(f) /\ M0 \notin f.workers
<1>0. f.pos \in [Hosts -> 0 .. MaxPos] /\ MaxPos \in Nat
  BY MaxPosAssumption DEF File
<1>1. M0 \in Masters(f) /\ f.pos[M0] = 1
  BY M0First DEF StartsWithM0, Masters
<1>2. \A h \in Masters(f) : f.pos[M0] <= f.pos[h]
  BY <1>0, <1>1 DEF Masters
<1>3. \A h \in Masters(f) : (\A g \in Masters(f) : f.pos[h] <= f.pos[g]) => h = M0
  BY <1>0, <1>1 DEF StartsWithM0, Masters
<1>4. GetMaster0IP(f) = M0
  BY <1>1, <1>2, <1>3 DEF GetMaster0IP, First
<1> QED
  BY <1>1, <1>4 DEF StartsWithM0

\* The absence of a Clusterfile has the shape of one.
LEMMA NoFileType == NoFile \in File
  BY MaxPosAssumption DEF NoFile, File

\* Adding hosts to a file gives a file.
LEMMA ScaleUpFileType ==
  ASSUME NEW f \in File, NEW mj \in SUBSET Hosts, NEW nj \in SUBSET Hosts,
         NEW g \in ConstructClusterForScaleUp(f, mj, nj)
  PROVE  g \in File
  BY MaxPosAssumption DEF ConstructClusterForScaleUp, AppendedPositions, File

\* Removing hosts from a file gives a file.
LEMMA ScaleDownFileType ==
  ASSUME NEW f \in File, NEW md \in SUBSET Hosts, NEW nd \in SUBSET Hosts
  PROVE  ConstructClusterForScaleDown(f, md, nd) \in File
  BY MaxPosAssumption DEF ConstructClusterForScaleDown, File

\* Adding hosts to a file that starts with M0 gives one that does.
LEMMA ScaleUpKeepsM0 ==
  ASSUME NEW f \in File, StartsWithM0(f), f # NoFile,
         NEW mj \in SUBSET Hosts, NEW nj \in SUBSET Hosts,
         M0 \notin mj, M0 \notin nj,
         NEW g \in ConstructClusterForScaleUp(f, mj, nj)
  PROVE  StartsWithM0(g) /\ g # NoFile
<1>0. f.pos \in [Hosts -> 0 .. MaxPos] /\ MaxPos \in Nat /\ M0 \in Hosts /\ f.pos[M0] = 1
  BY MaxPosAssumption, M0First DEF File, StartsWithM0
<1>1. PICK p \in AppendedPositions(f, mj) :
        g = [pos     |-> [h \in Hosts |-> IF h \in mj THEN p[h] ELSE f.pos[h]],
             workers |-> f.workers \cup nj]
  BY DEF ConstructClusterForScaleUp
<1>2. \A a \in mj : p[a] \in 1 .. MaxPos /\ p[a] > f.pos[M0]
  BY <1>0, <1>1 DEF AppendedPositions
<1>3. g.pos[M0] = 1 /\ M0 \notin g.workers
  BY <1>0, <1>1 DEF StartsWithM0
<1>4. \A h \in Masters(g) : h # M0 => g.pos[h] > 1
  BY <1>0, <1>1, <1>2 DEF StartsWithM0, Masters
<1>5. g # NoFile
  BY <1>0, <1>3 DEF NoFile
<1> QED
  BY <1>3, <1>4, <1>5 DEF StartsWithM0

\* Removing hosts other than M0 from a file that starts with M0 as well.
LEMMA ScaleDownKeepsM0 ==
  ASSUME NEW f \in File, StartsWithM0(f), f # NoFile,
         NEW md \in SUBSET Hosts, NEW nd \in SUBSET Hosts, M0 \notin md
  PROVE  StartsWithM0(ConstructClusterForScaleDown(f, md, nd))
  BY M0First DEF ConstructClusterForScaleDown, StartsWithM0, Masters, File

------------------------------------------------------------------------------
(* Type correctness.                                                       *)

\* Moving the control to another step keeps the record of the command.
LEMMA GotoType ==
  ASSUME op \in Op, NEW s \in Steps, Goto(s)
  PROVE  op' \in Op
  BY DEF Op, Goto

\* Writing a value on some hosts keeps a per-host table a table.
LEMMA SetType ==
  ASSUME NEW V, NEW f \in [Hosts -> V], NEW S, NEW v \in V
  PROVE  Set(f, S, v) \in [Hosts -> V]
  BY DEF Set

\* Installing or removing a part of the footprint keeps its type.
LEMMA InstallType ==
  ASSUME on \in [Hosts -> SUBSET Footprint], NEW S, NEW w \in Footprint
  PROVE  Install(S, w) \in [Hosts -> SUBSET Footprint] /\ Remove(S, w) \in [Hosts -> SUBSET Footprint]
  BY DEF Install, Remove

\* The types of the command's sets, and what a step can have handled.
LEMMA HandledType ==
  ASSUME TypeOK, NEW S \in SUBSET Hosts, NEW done \in Handled(S)
  PROVE  done \in SUBSET Hosts
  BY DEF Handled

\* Moving the running command to another step keeps its type.
LEMMA OpType ==
  ASSUME TypeOK
  PROVE  /\ op.M \in SUBSET Hosts /\ op.W \in SUBSET Hosts
         /\ op.deadM \in SUBSET Hosts /\ op.deadW \in SUBSET Hosts
         /\ op.file \in File /\ op.file.workers \in SUBSET Hosts /\ op.from \in Hosts
         /\ Masters(op.file) \in SUBSET Hosts
         /\ All \in SUBSET Hosts /\ PassM \in SUBSET Hosts /\ PassW \in SUBSET Hosts
         /\ Cleaned \in SUBSET Hosts /\ RegistryClients \in SUBSET Hosts
  BY DEF TypeOK, Op, File, Masters, All, PassM, PassW, Cleaned, RegistryClients

\* The start of a command changes only the command record and one disk.
LEMMA ReadyType ==
  ASSUME TypeOK, NEW k, Ready(k), op' \in Op, disk' \in [Hosts -> File]
  PROVE  TypeOK'
<1>1. ops' \in 0 .. MaxOps
  BY LifecycleAssumption DEF TypeOK, Ready
<1> QED
  BY <1>1 DEF TypeOK, Ready, kubeVars

\* Every way a command can start keeps the types.
LEMMA StartType ==
  ASSUME TypeOK, Start
  PROVE  TypeOK'
<1> USE MaxPosAssumption, LifecycleAssumption
<1>1. CASE StartInstall
  <2>1. Command("install", "alias", M0, InstallFile, Masters(InstallFile), InstallFile.workers, TRUE) \in Op
    BY M0First DEF Command, Op, Steps, Stopped, File, Masters
  <2> QED
    <3>1. disk' \in [Hosts -> File] /\ op' \in Op /\ Ready("install")
      BY <1>1, <2>1, M0First DEF TypeOK, StartInstall
    <3> QED
      BY <3>1, ReadyType
<1>2. CASE StartScaleUp
  <2>1. PICK h \in Operators, mj \in SUBSET (Hosts \ node), nj \in SUBSET (Hosts \ node) :
          \E f \in GetActualClusterFile(h) : \E g \in ConstructClusterForScaleUp(f, mj, nj) :
            /\ disk' = [disk EXCEPT ![h] = g]
            /\ op' = Command("scale-up", "checkUp", h, g, mj, nj, TRUE)
    BY <1>2 DEF StartScaleUp
  <2>2. PICK f \in GetActualClusterFile(h) : \E g \in ConstructClusterForScaleUp(f, mj, nj) :
            /\ disk' = [disk EXCEPT ![h] = g]
            /\ op' = Command("scale-up", "checkUp", h, g, mj, nj, TRUE)
    BY <2>1
  <2>3. PICK g \in ConstructClusterForScaleUp(f, mj, nj) :
            /\ disk' = [disk EXCEPT ![h] = g]
            /\ op' = Command("scale-up", "checkUp", h, g, mj, nj, TRUE)
    BY <2>2
  <2>4. f \in File /\ h \in Hosts /\ mj \in SUBSET Hosts /\ nj \in SUBSET Hosts
    BY <2>1, <2>2 DEF GetActualClusterFile, TypeOK
  <2>5. g \in File
    BY <2>3, <2>4, ScaleUpFileType
  <2>6. op' \in Op
    BY <2>3, <2>4, <2>5 DEF Command, Op, Steps, Stopped
  <2> QED
    <3>1. disk' \in [Hosts -> File]
      BY <2>3, <2>4, <2>5 DEF TypeOK
    <3>2. Ready("scale-up")
      BY <1>2 DEF StartScaleUp
    <3> QED
      BY <2>6, <3>1, <3>2, ReadyType
<1>3. CASE StartScaleDown
  <2>1. PICK h \in Operators, reqM \in SUBSET Hosts, reqW \in SUBSET Hosts :
          \E f \in GetActualClusterFile(h) :
            op' = ScaleDownCommand(h, f, reqM, reqW)
    BY <1>3 DEF StartScaleDown
  <2>2. PICK f \in GetActualClusterFile(h) :
            op' = ScaleDownCommand(h, f, reqM, reqW)
    BY <2>1
  <2>3. f \in File /\ h \in Hosts
    BY <2>1, <2>2 DEF GetActualClusterFile, TypeOK
  <2>4. op' \in Op
    BY <2>1, <2>2, <2>3 DEF ScaleDownCommand, Command, Op, Steps, Stopped
  <2> QED
    <3>1. Ready("scale-down") /\ disk' = disk
      BY <1>3 DEF StartScaleDown
    <3> QED
      BY <2>4, <3>1, ReadyType DEF TypeOK
<1>4. CASE StartDelete
  <2>1. PICK h \in Operators : \E f \in GetActualClusterFile(h) :
            op' = Command("delete", "checkAll", h, f, Masters(f), f.workers, TRUE)
    BY <1>4 DEF StartDelete
  <2>2. PICK f \in GetActualClusterFile(h) :
            op' = Command("delete", "checkAll", h, f, Masters(f), f.workers, TRUE)
    BY <2>1
  <2>3. f \in File /\ h \in Hosts
    BY <2>1, <2>2 DEF GetActualClusterFile, TypeOK
  <2>4. op' \in Op
    BY <2>2, <2>3 DEF Command, Op, Steps, Stopped, Masters, File
  <2> QED
    <3>1. Ready("delete") /\ disk' = disk
      BY <1>4 DEF StartDelete
    <3> QED
      BY <2>4, <3>1, ReadyType DEF TypeOK
<1> QED
  BY <1>1, <1>2, <1>3, <1>4 DEF Start

\* The end of a step over some hosts moves only the control.
LEMMA FinishType ==
  ASSUME TypeOK, NEW T, NEW done, NEW ok, NEW s \in Steps, Finish(T, done, ok, s)
  PROVE  op' \in Op /\ up' = up /\ ops' = ops
<1>1. (IF ok THEN s ELSE "failed") \in Steps
  BY DEF Steps, Stopped
<1> QED
  BY <1>1, GotoType DEF Finish, TypeOK

\* A rewrite of API server virtual servers keeps the types.
LEMMA ConfigureLvsType ==
  ASSUME TypeOK, NEW m \in SUBSET Hosts, NEW C \in SUBSET Hosts, NEW s \in Steps,
         ConfigureLvs(m, C, s)
  PROVE  TypeOK'
<1>1. PICK done \in Handled(C), ok \in BOOLEAN :
        Finish(C, done, ok, s) /\ lvs' = Set(lvs, done, m) /\ on' = Install(done, "hosts")
  BY DEF ConfigureLvs
<1>2. lvs' \in [Hosts -> SUBSET Hosts] /\ on' \in [Hosts -> SUBSET Footprint]
  BY <1>1, SetType, InstallType DEF TypeOK, Footprint
<1> QED
  BY <1>1, <1>2, FinishType DEF TypeOK, ConfigureLvs, fileVars

\* A reset of some hosts keeps the types.
LEMMA CleanType ==
  ASSUME TypeOK, NEW S, Clean(S)
  PROVE  /\ kube' \in [Hosts -> {"none", "master", "worker", "old"}]
         /\ lvs' \in [Hosts -> SUBSET Hosts]
         /\ rlvs' \in [Hosts -> SUBSET Hosts]
  BY SetType DEF TypeOK, Clean

\* Taking hosts out of the cluster keeps the types.
LEMMA DeleteType ==
  ASSUME TypeOK, NEW T, NEW s \in Steps, DeleteFromCluster(T, s)
  PROVE  TypeOK'
<1>1. CASE Masters(op.file) \ PassM = {}
  <2>1. Goto("failed") /\ UNCHANGED <<kubeVars, rlvs>>
    BY <1>1 DEF DeleteFromCluster
  <2> QED
    BY <2>1, GotoType DEF TypeOK, DeleteFromCluster, kubeVars, fileVars, Steps, Stopped
<1>2. CASE Masters(op.file) \ PassM # {}
  <2>1. PICK cleaned \in Handled(T), gone \in SUBSET (T \cap node), ok \in BOOLEAN :
          /\ Clean(cleaned)
          /\ node' = node \ gone
          /\ Goto(IF ok THEN s ELSE "failed")
    BY <1>2 DEF DeleteFromCluster
  <2>2. op' \in Op
    BY <2>1, GotoType DEF TypeOK, Steps, Stopped
  <2> QED
    BY <2>1, <2>2, CleanType DEF TypeOK, DeleteFromCluster, fileVars
<1> QED
  BY <1>1, <1>2

\* Every step of apply and scale-up keeps the types.
LEMMA AddStepType ==
  ASSUME TypeOK, AddStep
  PROVE  TypeOK'
<1> USE OpType
<1> "failed" \in Steps /\ "alias" \in Steps /\ "rootfs" \in Steps /\ "cri" \in Steps
    /\ "registry" \in Steps /\ "regconf" \in Steps /\ "init" \in Steps /\ "joinMasters" \in Steps
    /\ "lvsOld" \in Steps /\ "lvsNew" \in Steps /\ "joinNodes" \in Steps /\ "commit" \in Steps
    /\ "done" \in Steps /\ "hosts" \in Footprint /\ "rootfs" \in Footprint /\ "cri" \in Footprint
  BY DEF Steps, Stopped, Footprint
<1>1. CASE CheckNodeSSHUp
  BY <1>1, GotoType DEF CheckNodeSSHUp, TypeOK, kubeVars, fileVars
<1>2. CASE SetClusterHostAliases
  <2>1. PICK done \in Handled(All), ok \in BOOLEAN :
          Finish(All, done, ok, "rootfs") /\ on' = Install(done, "hosts")
    BY <1>2 DEF SetClusterHostAliases
  <2> QED
    BY <1>2, <2>1, FinishType, InstallType DEF SetClusterHostAliases, TypeOK, kubeVars, fileVars
<1>3. CASE Distribute
  <2>1. PICK done \in Handled(All), ok \in BOOLEAN :
          Finish(All, done, ok, "cri") /\ on' = Install(done, "rootfs")
    BY <1>3 DEF Distribute
  <2> QED
    BY <1>3, <2>1, FinishType, InstallType DEF Distribute, TypeOK, kubeVars, fileVars
<1>4. CASE InstallOnCRI
  <2>1. PICK done \in Handled(All), ok \in BOOLEAN :
          Finish(All, done, ok, "registry") /\ on' = Install(done, "cri")
    BY <1>4 DEF InstallOnCRI
  <2> QED
    BY <1>4, <2>1, FinishType, InstallType DEF InstallOnCRI, TypeOK, kubeVars, fileVars
<1>5. CASE ReconcileInstall
  <2>1. PICK done \in Handled(RegistryHosts), ok \in BOOLEAN :
          Finish(RegistryHosts, done, ok, "regconf") /\ reg' = reg \cup done
    BY <1>5 DEF ReconcileInstall
  <2>2. done \subseteq Hosts
    BY DEF Handled, Reach, TypeOK
  <2> QED
    BY <1>5, <2>1, <2>2, FinishType DEF ReconcileInstall, TypeOK, kubeVars, fileVars
<1>6. CASE ConfigureRegistry
  <2>1. PICK done \in Handled(All \cup RegistryClients), ok \in BOOLEAN :
          /\ Finish(All \cup RegistryClients, done, ok,
                    IF op.kind = "install" THEN "init" ELSE "joinMasters")
          /\ on' = Install(done, "hosts")
          /\ rlvs' = Set(rlvs, done \cap RegistryClients, Masters(op.file))
    BY <1>6 DEF ConfigureRegistry
  <2>2. on' \in [Hosts -> SUBSET Footprint] /\ rlvs' \in [Hosts -> SUBSET Hosts]
    BY <2>1, SetType, InstallType DEF TypeOK
  <2>3. op' \in Op /\ up' = up /\ ops' = ops
    BY <2>1, FinishType
  <2> QED
    BY <1>6, <2>2, <2>3 DEF ConfigureRegistry, TypeOK, kubeVars, fileVars
<1>7. CASE InitMaster0
  <2>1. op' \in Op
    BY <1>7, GotoType DEF InitMaster0, TypeOK
  <2>2. kube' \in [Hosts -> {"none", "master", "worker", "old"}]
    BY <1>7 DEF InitMaster0, TypeOK
  <2>3. node' \subseteq Hosts
    BY <1>7 DEF InitMaster0, TypeOK, Reach
  <2>4. on' \in [Hosts -> SUBSET Footprint] /\ cm' \in File
    BY <1>7, InstallType, NoFileType DEF InitMaster0, TypeOK
  <2> QED
    BY <1>7, <2>1, <2>2, <2>3, <2>4 DEF InitMaster0, TypeOK
<1>8. CASE JoinMasters
  <2> DEFINE targets == IF op.kind = "install" THEN op.M \ {GetMaster0IP(op.file)} ELSE op.M
  <2>1. PICK done \in Handled(targets), ok \in BOOLEAN :
          /\ Finish(targets, done, ok, "lvsOld")
          /\ kube' = Set(kube, done, "master")
          /\ node' = node \cup done
          /\ on' = Install(done, "hosts")
    BY <1>8 DEF JoinMasters
  <2>2. done \subseteq Hosts
    BY DEF Handled
  <2>3. kube' \in [Hosts -> {"none", "master", "worker", "old"}] /\ on' \in [Hosts -> SUBSET Footprint]
    BY <2>1, SetType, InstallType DEF TypeOK
  <2>4. op' \in Op /\ up' = up /\ ops' = ops
    BY <2>1, FinishType
  <2> QED
    BY <1>8, <2>1, <2>2, <2>3, <2>4 DEF JoinMasters, TypeOK, fileVars
<1>9. CASE UpdateOldWorkers
  BY <1>9, ConfigureLvsType DEF UpdateOldWorkers
<1>10. CASE PrepareNewWorkers
  BY <1>10, ConfigureLvsType DEF PrepareNewWorkers
<1>11. CASE JoinNodes
  <2>1. PICK done \in Handled(op.W), ok \in BOOLEAN :
          /\ Finish(op.W, done, ok, "commit")
          /\ kube' = Set(kube, done, "worker")
          /\ node' = node \cup done
    BY <1>11 DEF JoinNodes
  <2>2. done \subseteq Hosts /\ kube' \in [Hosts -> {"none", "master", "worker", "old"}]
    BY <2>1, SetType DEF Handled, TypeOK
  <2>3. op' \in Op /\ up' = up /\ ops' = ops
    BY <2>1, FinishType
  <2> QED
    BY <1>11, <2>1, <2>2, <2>3 DEF JoinNodes, TypeOK, fileVars
<1>12. CASE SaveAll
  <2> DEFINE f == IF op.kind = "scale-down"
                  THEN ConstructClusterForScaleDown(op.file, op.M, op.W) ELSE op.file
  <2>1. PICK saved \in BOOLEAN, committed \in BOOLEAN, ok \in BOOLEAN :
          /\ disk' = IF saved THEN [disk EXCEPT ![op.from] = f] ELSE disk
          /\ cm' = IF committed THEN f ELSE cm
          /\ Goto(IF ok THEN "done" ELSE "failed")
    BY <1>12 DEF SaveAll
  <2>2. f \in File
    BY ScaleDownFileType
  <2>3. disk' \in [Hosts -> File] /\ cm' \in File
    BY <2>1, <2>2 DEF TypeOK
  <2>4. op' \in Op
    BY <2>1, GotoType DEF TypeOK
  <2> QED
    BY <1>12, <2>3, <2>4 DEF SaveAll, TypeOK, kubeVars
<1> QED
  BY <1>1, <1>2, <1>3, <1>4, <1>5, <1>6, <1>7, <1>8, <1>9, <1>10, <1>11, <1>12 DEF AddStep

\* Every step of scale-down and delete keeps the types.
LEMMA RemoveStepType ==
  ASSUME TypeOK, RemoveStep
  PROVE  TypeOK'
<1> USE OpType
<1> "failed" \in Steps /\ "panic" \in Steps /\ "unregconf" \in Steps /\ "checkDown" \in Steps
    /\ "delNodes" \in Steps /\ "reset" \in Steps /\ "delMasters" \in Steps /\ "lvsRemain" \in Steps
    /\ "commit" \in Steps /\ "uncri" \in Steps /\ "unalias" \in Steps /\ "restore" \in Steps
    /\ "rmFiles" \in Steps /\ "regClean" \in Steps /\ "done" \in Steps
    /\ "hosts" \in Footprint /\ "rootfs" \in Footprint /\ "cri" \in Footprint
  BY DEF Steps, Stopped, Footprint
<1>1. CASE CleanRegistry
  <2>1. PICK done \in Handled(RegistriesToClean), ok \in BOOLEAN :
          /\ Finish(RegistriesToClean, done, ok,
                    IF op.kind = "delete" THEN "unregconf" ELSE "checkDown")
          /\ reg' = reg \ done
    BY <1>1 DEF CleanRegistry
  <2>2. op' \in Op /\ up' = up /\ ops' = ops
    BY <2>1, FinishType
  <2> QED
    BY <1>1, <2>1, <2>2 DEF CleanRegistry, TypeOK, kubeVars, fileVars
<1>2. CASE CheckNodeSSHDown
  <2>1. \/ Goto("failed")
        \/ op' = [op EXCEPT !.pc = "delNodes", !.deadM = op.M \ Reach, !.deadW = op.W \ Reach]
    BY <1>2 DEF CheckNodeSSHDown
  <2>2. op \in Op /\ op.M \ Reach \in SUBSET Hosts /\ op.W \ Reach \in SUBSET Hosts
    BY DEF TypeOK
  <2>3. op' \in Op
    <3>1. CASE Goto("failed")
      BY <2>2, <3>1, GotoType
    <3>2. CASE op' = [op EXCEPT !.pc = "delNodes", !.deadM = op.M \ Reach, !.deadW = op.W \ Reach]
      BY <2>2, <3>2 DEF Op
    <3> QED
      BY <2>1, <3>1, <3>2
  <2> QED
    BY <1>2, <2>3 DEF CheckNodeSSHDown, TypeOK, kubeVars, fileVars
<1>3. CASE CheckNodeSSHAll
  BY <1>3, GotoType DEF CheckNodeSSHAll, TypeOK, kubeVars, fileVars
<1>4. CASE DeleteNodes
  BY <1>4, DeleteType DEF DeleteNodes
<1>5. CASE DeleteMasters
  BY <1>5, DeleteType DEF DeleteMasters
<1>6. CASE UpdateRemainingWorkers
  BY <1>6, ConfigureLvsType DEF UpdateRemainingWorkers
<1>7. CASE UnconfigureRegistry
  <2> DEFINE C == IF RegMode = "HA" /\ op.kind = "scale-down" /\ PassM # {}
                  THEN op.file.workers \ PassW ELSE {}
  <2>1. PICK done \in Handled(C), ok \in BOOLEAN :
          /\ Finish(C, done, ok, "uncri")
          /\ rlvs' = Set(rlvs, done, Masters(op.file) \ op.M)
          /\ on' = Install(done, "hosts")
    BY <1>7 DEF UnconfigureRegistry
  <2>2. on' \in [Hosts -> SUBSET Footprint] /\ rlvs' \in [Hosts -> SUBSET Hosts]
    BY <2>1, SetType, InstallType DEF TypeOK
  <2>3. op' \in Op /\ up' = up /\ ops' = ops
    BY <2>1, FinishType
  <2> QED
    BY <1>7, <2>2, <2>3 DEF UnconfigureRegistry, TypeOK, kubeVars, fileVars
<1>8. CASE UnInstallFromCRI
  <2>1. PICK done \in Handled(Cleaned), ok \in BOOLEAN :
          Finish(Cleaned, done, ok, "unalias") /\ on' = Remove(done, "cri")
    BY <1>8 DEF UnInstallFromCRI
  <2> QED
    BY <1>8, <2>1, FinishType, InstallType DEF UnInstallFromCRI, TypeOK, kubeVars, fileVars
<1>9. CASE DeleteClusterHostAliases
  <2>1. PICK done \in Handled(Cleaned), ok \in BOOLEAN :
          Finish(Cleaned, done, ok, "restore") /\ on' = Remove(done, "hosts")
    BY <1>9 DEF DeleteClusterHostAliases
  <2> QED
    BY <1>9, <2>1, FinishType, InstallType DEF DeleteClusterHostAliases, TypeOK, kubeVars, fileVars
<1>10. CASE RestoreNil
  BY <1>10, GotoType DEF RestoreNil, TypeOK, kubeVars, fileVars
<1>11. CASE Restore
  <2>1. PICK done \in Handled(IF Prune THEN Cleaned ELSE {}), ok \in BOOLEAN :
          /\ on' = Remove(done, "rootfs")
          /\ \/ Goto("failed") \/ Goto("rmFiles")
             \/ op' = [op EXCEPT !.pc = "delNodes", !.resetting = FALSE]
    BY <1>11 DEF Restore
  <2>2. op' \in Op
    <3>1. CASE Goto("failed") \/ Goto("rmFiles")
      BY <3>1, GotoType DEF TypeOK
    <3>2. CASE op' = [op EXCEPT !.pc = "delNodes", !.resetting = FALSE]
      BY <3>2 DEF TypeOK, Op
    <3> QED
      BY <2>1, <3>1, <3>2
  <2> QED
    BY <1>11, <2>1, <2>2, InstallType DEF Restore, TypeOK, kubeVars, fileVars
<1>12. CASE Reset
  <2>1. PICK done \in Handled(All), ok \in BOOLEAN :
          Finish(All, done, ok, "regClean") /\ Clean(done)
    BY <1>12 DEF Reset
  <2>2. op' \in Op /\ up' = up /\ ops' = ops
    BY <2>1, FinishType
  <2> QED
    BY <1>12, <2>1, <2>2, CleanType DEF Reset, TypeOK, fileVars
<1>13. CASE RemoveLocalFiles
  <2>1. disk' \in [Hosts -> File]
    BY <1>13, NoFileType DEF RemoveLocalFiles, TypeOK
  <2>2. op' \in Op
    BY <1>13, GotoType DEF RemoveLocalFiles, TypeOK
  <2> QED
    BY <1>13, <2>1, <2>2 DEF RemoveLocalFiles, TypeOK, kubeVars
<1> QED
  BY <1>1, <1>2, <1>3, <1>4, <1>5, <1>6, <1>7, <1>8, <1>9, <1>10, <1>11, <1>12, <1>13 DEF RemoveStep

\* Every host stays in the state sealer put it in, and every command keeps a
\* well-formed record, through any interleaving of steps, failures and losses
\* of connectivity.
THEOREM TypeCorrect == Spec => []TypeOK
<1>1. Init => TypeOK
  BY M0First, NoFileType, LifecycleAssumption DEF Init, TypeOK, Command, Op, Steps, Stopped
<1>2. TypeOK /\ [Next]_vars => TypeOK'
  <2>1. CASE Environment /\ TypeOK
    BY <2>1 DEF Environment, HostDown, HostUp, TypeOK, kubeVars, fileVars
  <2>2. CASE UNCHANGED vars /\ TypeOK
    BY <2>2 DEF vars, TypeOK
  <2> QED
    BY <2>1, <2>2, StartType, AddStepType, RemoveStepType DEF Next
<1> QED
  BY <1>1, <1>2, PTL DEF Spec

------------------------------------------------------------------------------
(* Master0: with a single registry, or with all commands issued on it, it *)
(* keeps its registry, its place behind the virtual servers of every worker *)
(* and its role.                                                           *)

\* What a running command knows of M0.
LEMMA CommandKnowsM0 ==
  ASSUME TypeOK, FilesStartWithM0, TargetsOfCommand, op.pc \notin Stopped
  PROVE  /\ GetMaster0IP(op.file) = M0
         /\ M0 \in Masters(op.file)
         /\ M0 \notin op.file.workers
         /\ op.kind = "scale-down" => M0 \notin PassM /\ M0 \notin PassW
<1>1. op.file \in File
  BY OpType
<1>2. op.kind = "scale-down" => M0 \notin PassM /\ M0 \notin PassW
  BY DEF TargetsOfCommand, PassM, PassW
<1> QED
  BY <1>1, <1>2, FirstIsM0 DEF FilesStartWithM0

\* A step that moves only the control of the command and no Clusterfile.
LEMMA GotoKeeps ==
  ASSUME TypeOK, FilesStartWithM0, TargetsOfCommand, op.pc \notin Stopped,
         NEW s, Goto(s), UNCHANGED fileVars
  PROVE  /\ FilesStartWithM0'
         /\ TargetsOfCommand'
         /\ op'.pc = s /\ op'.kind = op.kind /\ op'.W = op.W
<1>1. /\ op'.pc = s /\ op'.kind = op.kind /\ op'.W = op.W /\ op'.M = op.M /\ op'.from = op.from
      /\ op'.deadM = op.deadM /\ op'.deadW = op.deadW /\ op'.file = op.file
  BY DEF Goto, TypeOK, Op
<1>2. TargetsOfCommand'
  BY <1>1 DEF TargetsOfCommand
<1>3. FilesStartWithM0'
  BY <1>1 DEF FilesStartWithM0, StartsWithM0, fileVars
<1> QED
  BY <1>1, <1>2, <1>3

\* A step that ends changes nothing of the command but its step.
LEMMA FinishKeeps ==
  ASSUME TypeOK, FilesStartWithM0, TargetsOfCommand, op.pc \notin Stopped,
         NEW T, NEW done, NEW ok \in BOOLEAN, NEW s, Finish(T, done, ok, s), UNCHANGED fileVars
  PROVE  /\ FilesStartWithM0'
         /\ TargetsOfCommand'
         /\ op'.pc = IF ok THEN s ELSE "failed"
         /\ op'.kind = op.kind /\ op'.W = op.W
         /\ op'.pc # "failed" => op'.pc = s /\ done = T
<1>1. Goto(IF ok THEN s ELSE "failed")
  BY DEF Finish
<1>2. ok => done = T
  BY DEF Finish
<1> QED
  BY <1>1, <1>2, GotoKeeps

\* The invariant without its premise on the registry.
Inv ==
  /\ TypeOK
  /\ FilesStartWithM0
  /\ StepOfCommand
  /\ TargetsOfCommand
  /\ StepsInOrder
  /\ RegistryOnM0
  /\ WorkersBehindM0

\* Starting a command.
LEMMA StartKeepsM0 ==
  ASSUME Inv, Master0Protected, Start
  PROVE  Inv'
<1> USE DEF Inv
<1>0. TypeOK'
  BY StartType
<1>1. CASE StartInstall
  <2>1. /\ op'.kind = "install" /\ op'.pc = "alias" /\ op'.file = InstallFile
        /\ op'.M = Masters(InstallFile) /\ op'.W = InstallFile.workers /\ op'.from = M0
    BY <1>1 DEF StartInstall, Command
  <2>2. cm' = cm /\ kube' = kube /\ lvs' = lvs /\ rlvs' = rlvs /\ reg' = reg /\ disk' = [disk EXCEPT ![M0] = InstallFile]
    BY <1>1 DEF StartInstall, Ready, kubeVars
  <2>3. FilesStartWithM0'
    BY <2>1, <2>2, M0First DEF FilesStartWithM0, StartsWithM0, TypeOK
  <2>4. StepOfCommand' /\ StepsInOrder'
    BY <2>1 DEF StepOfCommand, StepsInOrder
  <2>5. TargetsOfCommand'
    BY <2>1, M0First DEF TargetsOfCommand, StartsWithM0, Masters
  <2>6. RegistryOnM0' /\ WorkersBehindM0'
    BY <2>2 DEF RegistryOnM0, WorkersBehindM0
  <2> QED
    BY <1>0, <2>3, <2>4, <2>5, <2>6
<1>2. CASE StartScaleUp
  <2>0. cm' = cm /\ kube' = kube /\ lvs' = lvs /\ rlvs' = rlvs /\ reg' = reg
    BY <1>2 DEF StartScaleUp, Ready, kubeVars
  <2>1. PICK h \in Operators, mj \in SUBSET (Hosts \ node), nj \in SUBSET (Hosts \ node) :
          \E f \in GetActualClusterFile(h) :
            /\ (mj \cup nj) \cap Members(f) = {}
            /\ \E g \in ConstructClusterForScaleUp(f, mj, nj) :
                 /\ disk' = [disk EXCEPT ![h] = g]
                 /\ op' = Command("scale-up", "checkUp", h, g, mj, nj, TRUE)
    BY <1>2 DEF StartScaleUp
  <2>2. PICK f \in GetActualClusterFile(h) :
            /\ (mj \cup nj) \cap Members(f) = {}
            /\ \E g \in ConstructClusterForScaleUp(f, mj, nj) :
                 /\ disk' = [disk EXCEPT ![h] = g]
                 /\ op' = Command("scale-up", "checkUp", h, g, mj, nj, TRUE)
    BY <2>1
  <2>3. PICK g \in ConstructClusterForScaleUp(f, mj, nj) :
            /\ disk' = [disk EXCEPT ![h] = g]
            /\ op' = Command("scale-up", "checkUp", h, g, mj, nj, TRUE)
    BY <2>2
  <2>4. h \in Hosts /\ mj \in SUBSET Hosts /\ nj \in SUBSET Hosts
    BY LifecycleAssumption
  <2>5. f \in File /\ StartsWithM0(f) /\ f # NoFile
    BY <2>2, <2>4 DEF GetActualClusterFile, FilesStartWithM0, TypeOK
  <2>6. M0 \notin mj /\ M0 \notin nj
    BY <2>2, <2>5, FirstIsM0 DEF Members
  <2>7. StartsWithM0(g) /\ g # NoFile
    BY <2>3, <2>4, <2>5, <2>6, ScaleUpKeepsM0
  <2>8. op'.kind = "scale-up" /\ op'.pc = "checkUp" /\ op'.file = g /\ op'.M = mj /\ op'.W = nj /\ op'.from = h
    BY <2>3 DEF Command
  <2>9. FilesStartWithM0'
    <3>1. \A k \in Hosts : disk'[k] = g \/ disk'[k] = disk[k]
      BY <2>3 DEF TypeOK
    <3>2. op'.file # NoFile /\ cm' = cm /\ op'.file = g
      BY <2>0, <2>7, <2>8
    <3> QED
      BY <2>7, <3>1, <3>2 DEF FilesStartWithM0, StartsWithM0
  <2>10. StepOfCommand' /\ StepsInOrder'
    BY <2>8 DEF StepOfCommand, StepsInOrder
  <2>11. TargetsOfCommand'
    <3>1. nj \subseteq g.workers
      BY <2>3 DEF ConstructClusterForScaleUp
    <3> QED
      BY <2>6, <2>8, <3>1 DEF TargetsOfCommand
  <2>12. RegistryOnM0' /\ WorkersBehindM0'
    BY <2>0 DEF RegistryOnM0, WorkersBehindM0
  <2> QED
    BY <1>0, <2>9, <2>10, <2>11, <2>12
<1>3. CASE StartScaleDown
  <2>0. cm' = cm /\ kube' = kube /\ lvs' = lvs /\ rlvs' = rlvs /\ reg' = reg /\ disk' = disk
    BY <1>3 DEF StartScaleDown, Ready, kubeVars
  <2>1. PICK h \in Operators, reqM \in SUBSET Hosts, reqW \in SUBSET Hosts :
          /\ kube[h] = "master"
          /\ \E f \in GetActualClusterFile(h) :
            /\ ScaleDownAllowed(h, f, reqM, reqW)
            /\ op' = ScaleDownCommand(h, f, reqM, reqW)
    BY <1>3 DEF StartScaleDown
  <2>2. PICK f \in GetActualClusterFile(h) :
            /\ ScaleDownAllowed(h, f, reqM, reqW)
            /\ op' = ScaleDownCommand(h, f, reqM, reqW)
    BY <2>1
  <2>3. h \in Hosts
    BY LifecycleAssumption
  <2>4. f \in File /\ StartsWithM0(f) /\ f # NoFile
    BY <2>2, <2>3 DEF GetActualClusterFile, FilesStartWithM0, TypeOK
  <2>5. M0 \notin reqM \cap Masters(f) /\ M0 \notin f.workers
    BY <2>2, <2>4, FirstIsM0 DEF ScaleDownAllowed, Master0Protected
  <2>6. /\ op'.kind = "scale-down" /\ op'.file = f /\ op'.from = h
        /\ op'.pc = IF RegMode = "HA" THEN "regClean" ELSE "checkDown"
        /\ op'.M = reqM \cap Masters(f) /\ op'.W = reqW \cap f.workers
        /\ op'.deadM = {} /\ op'.deadW = {}
    BY <2>2 DEF ScaleDownCommand, Command
  <2>7. FilesStartWithM0'
    BY <2>0, <2>4, <2>6 DEF FilesStartWithM0, StartsWithM0
  <2>8. StepOfCommand' /\ StepsInOrder'
    BY <2>0, <2>1, <2>6 DEF StepOfCommand, StepsInOrder
  <2>9. TargetsOfCommand'
    BY <2>5, <2>6 DEF TargetsOfCommand
  <2>10. RegistryOnM0' /\ WorkersBehindM0'
    BY <2>0 DEF RegistryOnM0, WorkersBehindM0
  <2> QED
    BY <1>0, <2>7, <2>8, <2>9, <2>10
<1>4. CASE StartDelete
  <2>0. cm' = cm /\ kube' = kube /\ lvs' = lvs /\ rlvs' = rlvs /\ reg' = reg /\ disk' = disk
    BY <1>4 DEF StartDelete, Ready, kubeVars
  <2>1. PICK h \in Operators : \E f \in GetActualClusterFile(h) :
            op' = Command("delete", "checkAll", h, f, Masters(f), f.workers, TRUE)
    BY <1>4 DEF StartDelete
  <2>2. PICK f \in GetActualClusterFile(h) :
            op' = Command("delete", "checkAll", h, f, Masters(f), f.workers, TRUE)
    BY <2>1
  <2>3. h \in Hosts
    BY LifecycleAssumption
  <2>4. f \in File /\ StartsWithM0(f) /\ f # NoFile
    BY <2>2, <2>3 DEF GetActualClusterFile, FilesStartWithM0, TypeOK
  <2>5. op'.kind = "delete" /\ op'.pc = "checkAll" /\ op'.file = f /\ op'.M = Masters(f) /\ op'.from = h
    BY <2>2 DEF Command
  <2>6. FilesStartWithM0'
    BY <2>0, <2>4, <2>5 DEF FilesStartWithM0, StartsWithM0
  <2>7. StepOfCommand' /\ StepsInOrder'
    BY <2>5 DEF StepOfCommand, StepsInOrder
  <2>8. TargetsOfCommand'
    BY <2>4, <2>5, FirstIsM0 DEF TargetsOfCommand
  <2>9. RegistryOnM0' /\ WorkersBehindM0'
    BY <2>0 DEF RegistryOnM0, WorkersBehindM0
  <2> QED
    BY <1>0, <2>6, <2>7, <2>8, <2>9
<1> QED
  BY <1>1, <1>2, <1>3, <1>4 DEF Start

------------------------------------------------------------------------------
(* The steps that change nothing M0 depends on.                            *)

\* A step that moves the control from one of the steps that make no promise of
\* M0 to another one, and touches no Clusterfile, Kubernetes or registry.
LEMMA QuietStep ==
  ASSUME Inv, op.pc \notin Stopped, NEW s, Goto(s), UNCHANGED <<kube, lvs, rlvs, reg, disk, cm>>, TypeOK',
         s \notin {"init", "joinMasters", "lvsOld", "lvsNew", "joinNodes", "regClean"},
         s = "regconf" => op.kind # "install" \/ RegMode = "external" \/ M0 \in reg,
         LET k == op.kind IN
         /\ s \in {"alias", "rootfs", "cri", "registry", "regconf", "joinMasters",
                   "lvsOld", "lvsNew", "joinNodes"} => k \in {"install", "scale-up"}
         /\ s = "init" => k = "install"
         /\ s = "checkUp" => k = "scale-up"
         /\ s \in {"checkDown", "delNodes", "delMasters", "lvsRemain"} => k = "scale-down"
         /\ s \in {"reset", "regClean", "checkAll", "rmFiles"} => k = "delete"
         /\ s \in {"unregconf", "uncri", "unalias", "restore"} => k \in {"scale-down", "delete"}
         /\ s = "commit" => k # "delete"
  PROVE  Inv'
<1>1. FilesStartWithM0' /\ TargetsOfCommand' /\ op'.pc = s /\ op'.kind = op.kind /\ op'.W = op.W
  BY GotoKeeps DEF Inv, fileVars
<1>2. StepOfCommand'
  BY <1>1 DEF StepOfCommand
<1>3. StepsInOrder'
  BY <1>1 DEF Inv, StepsInOrder
<1>4. RegistryOnM0' /\ WorkersBehindM0'
  BY DEF Inv, RegistryOnM0, WorkersBehindM0
<1> QED
  BY <1>1, <1>2, <1>3, <1>4 DEF Inv

\* The steps of apply and scale-up that change neither Kubernetes nor a file.
LEMMA QuietAddStep ==
  ASSUME Inv, CheckNodeSSHUp \/ SetClusterHostAliases \/ Distribute \/ InstallOnCRI
  PROVE  Inv'
<1>0. TypeOK'
  BY AddStepType DEF Inv, AddStep
<1> USE DEF Inv
<1>1. CASE CheckNodeSSHUp
  <2>1. op.pc = "checkUp" /\ op.kind = "scale-up" /\ UNCHANGED <<kube, lvs, rlvs, reg, disk, cm>>
    BY <1>1 DEF CheckNodeSSHUp, StepOfCommand, kubeVars, fileVars
  <2>2. Goto("alias") \/ Goto("failed")
    BY <1>1 DEF CheckNodeSSHUp
  <2>3. op.pc \notin Stopped
    BY <2>1 DEF Stopped
  <2> QED
    BY <1>0, <2>1, <2>2, <2>3, QuietStep
<1>2. CASE SetClusterHostAliases
  <2>1. op.pc = "alias" /\ op.kind \in {"install", "scale-up"} /\ UNCHANGED <<kube, lvs, rlvs, reg, disk, cm>>
    BY <1>2 DEF SetClusterHostAliases, StepOfCommand, kubeVars, fileVars
  <2>2. PICK s \in {"rootfs", "failed"} : Goto(s)
    BY <1>2 DEF SetClusterHostAliases, Finish
  <2>3. op.pc \notin Stopped
    BY <2>1 DEF Stopped
  <2> QED
    BY <1>0, <2>1, <2>2, <2>3, QuietStep
<1>3. CASE Distribute
  <2>1. op.pc = "rootfs" /\ op.kind \in {"install", "scale-up"} /\ UNCHANGED <<kube, lvs, rlvs, reg, disk, cm>>
    BY <1>3 DEF Distribute, StepOfCommand, kubeVars, fileVars
  <2>2. PICK s \in {"cri", "failed"} : Goto(s)
    BY <1>3 DEF Distribute, Finish
  <2>3. op.pc \notin Stopped
    BY <2>1 DEF Stopped
  <2> QED
    BY <1>0, <2>1, <2>2, <2>3, QuietStep
<1>4. CASE InstallOnCRI
  <2>1. op.pc = "cri" /\ op.kind \in {"install", "scale-up"} /\ UNCHANGED <<kube, lvs, rlvs, reg, disk, cm>>
    BY <1>4 DEF InstallOnCRI, StepOfCommand, kubeVars, fileVars
  <2>2. PICK s \in {"registry", "failed"} : Goto(s)
    BY <1>4 DEF InstallOnCRI, Finish
  <2>3. op.pc \notin Stopped
    BY <2>1 DEF Stopped
  <2> QED
    BY <1>0, <2>1, <2>2, <2>3, QuietStep
<1> QED
  BY <1>1, <1>2, <1>3, <1>4

\* The steps of scale-down and delete that change neither Kubernetes nor a file.
LEMMA QuietRemoveStep ==
  ASSUME Inv, CheckNodeSSHAll \/ UnInstallFromCRI \/ DeleteClusterHostAliases \/ RestoreNil
  PROVE  Inv'
<1>0. TypeOK'
  BY RemoveStepType DEF Inv, RemoveStep
<1> USE DEF Inv
<1>1. CASE CheckNodeSSHAll
  <2>1. op.pc = "checkAll" /\ op.kind = "delete" /\ UNCHANGED <<kube, lvs, rlvs, reg, disk, cm>>
    BY <1>1 DEF CheckNodeSSHAll, StepOfCommand, kubeVars, fileVars
  <2>2. Goto("reset") \/ Goto("failed")
    BY <1>1 DEF CheckNodeSSHAll
  <2>3. op.pc \notin Stopped
    BY <2>1 DEF Stopped
  <2> QED
    BY <1>0, <2>1, <2>2, <2>3, QuietStep
<1>2. CASE UnInstallFromCRI
  <2>1. /\ op.pc = "uncri" /\ op.kind \in {"scale-down", "delete"}
        /\ UNCHANGED <<kube, lvs, rlvs, reg, disk, cm>>
    BY <1>2 DEF UnInstallFromCRI, StepOfCommand, kubeVars, fileVars
  <2>2. PICK s \in {"unalias", "failed"} : Goto(s)
    BY <1>2 DEF UnInstallFromCRI, Finish
  <2>3. op.pc \notin Stopped
    BY <2>1 DEF Stopped
  <2> QED
    BY <1>0, <2>1, <2>2, <2>3, QuietStep
<1>3. CASE DeleteClusterHostAliases
  <2>1. /\ op.pc = "unalias" /\ op.kind \in {"scale-down", "delete"}
        /\ UNCHANGED <<kube, lvs, rlvs, reg, disk, cm>>
    BY <1>3 DEF DeleteClusterHostAliases, StepOfCommand, kubeVars, fileVars
  <2>2. PICK s \in {"restore", "failed"} : Goto(s)
    BY <1>3 DEF DeleteClusterHostAliases, Finish
  <2>3. op.pc \notin Stopped
    BY <2>1 DEF Stopped
  <2> QED
    BY <1>0, <2>1, <2>2, <2>3, QuietStep
<1>4. CASE RestoreNil
  <2>1. op.pc = "restore" /\ UNCHANGED <<kube, lvs, rlvs, reg, disk, cm>> /\ Goto("panic")
    BY <1>4 DEF RestoreNil, kubeVars, fileVars
  <2>3. op.pc \notin Stopped
    BY <2>1 DEF Stopped
  <2> QED
    BY <1>0, <2>1, <2>3, QuietStep
<1> QED
  BY <1>1, <1>2, <1>3, <1>4

------------------------------------------------------------------------------
(* The steps that touch a registry, Kubernetes or a Clusterfile.           *)

\* Every other step of apply and scale-up.
LEMMA AddStepKeepsM0 ==
  ASSUME Inv, Master0Protected, AddStep
  PROVE  Inv'
<1>0. TypeOK'
  BY AddStepType DEF Inv
<1> USE DEF Inv
<1>1. CASE ReconcileInstall
  <2>1. op.pc = "registry" /\ op.kind \in {"install", "scale-up"} /\ UNCHANGED <<kube, lvs, rlvs, fileVars>>
    BY <1>1 DEF ReconcileInstall, StepOfCommand, kubeVars
  <2>2. PICK done \in Handled(RegistryHosts), ok \in BOOLEAN :
          Finish(RegistryHosts, done, ok, "regconf") /\ reg' = reg \cup done
    BY <1>1 DEF ReconcileInstall
  <2>3. op.pc \notin Stopped
    BY <2>1 DEF Stopped
  <2>4. /\ FilesStartWithM0' /\ TargetsOfCommand' /\ op'.kind = op.kind /\ op'.W = op.W
        /\ op'.pc # "failed" => op'.pc = "regconf" /\ done = RegistryHosts
    BY <2>1, <2>2, <2>3, FinishKeeps
  <2>5. op.kind = "install" /\ RegMode # "external" => M0 \in RegistryHosts
    BY <2>3, CommandKnowsM0, LifecycleAssumption DEF RegistryHosts, TargetsOfCommand
  <2>6. StepOfCommand'
    BY <2>1, <2>4 DEF StepOfCommand
  <2>7. StepsInOrder'
    BY <2>1, <2>2, <2>4, <2>5 DEF StepsInOrder
  <2>8. RegistryOnM0' /\ WorkersBehindM0'
    BY <2>1, <2>2 DEF RegistryOnM0, WorkersBehindM0
  <2> QED
    BY <1>0, <2>4, <2>6, <2>7, <2>8
<1>2. CASE ConfigureRegistry
  <2>1. /\ op.pc = "regconf" /\ op.kind \in {"install", "scale-up"}
        /\ UNCHANGED <<kube, lvs, reg, fileVars>>
    BY <1>2 DEF ConfigureRegistry, StepOfCommand, kubeVars
  <2>2. PICK done \in Handled(All \cup RegistryClients), ok \in BOOLEAN :
          /\ Finish(All \cup RegistryClients, done, ok,
                    IF op.kind = "install" THEN "init" ELSE "joinMasters")
          /\ rlvs' = Set(rlvs, done \cap RegistryClients, Masters(op.file))
    BY <1>2 DEF ConfigureRegistry
  <2>3. op.pc \notin Stopped
    BY <2>1 DEF Stopped
  <2>4. /\ FilesStartWithM0' /\ TargetsOfCommand' /\ op'.kind = op.kind /\ op'.W = op.W
        /\ op'.pc # "failed" => /\ op'.pc = IF op.kind = "install" THEN "init" ELSE "joinMasters"
                                /\ done = All \cup RegistryClients
    BY <2>1, <2>2, <2>3, FinishKeeps
  <2>5. StepOfCommand'
    BY <2>1, <2>4 DEF StepOfCommand
  <2>6. M0 \in Masters(op.file)
    BY <2>3, CommandKnowsM0
  <2>7. \A h \in Hosts : (h \in done \cap RegistryClients \/ M0 \in rlvs[h]) => M0 \in rlvs'[h]
    BY <2>2, <2>6 DEF Set
  <2>8. RegMode = "HA" => op.W \subseteq RegistryClients /\ op.W \subseteq Hosts
    BY <2>1, OpType DEF RegistryClients, TargetsOfCommand
  <2>9. StepsInOrder'
    BY <2>1, <2>4, <2>7, <2>8 DEF StepsInOrder
  <2>10. RegistryOnM0' /\ WorkersBehindM0'
    BY <2>1, <2>7 DEF RegistryOnM0, WorkersBehindM0
  <2> QED
    BY <1>0, <2>4, <2>5, <2>9, <2>10
<1>3. CASE InitMaster0
  <2>1. op.pc = "init" /\ op.kind = "install" /\ (RegMode = "external" \/ M0 \in reg)
    BY <1>3 DEF InitMaster0, StepOfCommand, StepsInOrder
  <2>2. op.pc \notin Stopped
    BY <2>1 DEF Stopped
  <2>3. GetMaster0IP(op.file) = M0
    BY <2>2, CommandKnowsM0
  <2>4. lvs' = lvs /\ rlvs' = rlvs /\ reg' = reg /\ disk' = disk
    BY <1>3 DEF InitMaster0
  <2>5. PICK s \in {"failed", "joinMasters"} : Goto(s)
    BY <1>3 DEF InitMaster0
  <2>6. /\ op'.pc = s /\ op'.kind = op.kind /\ op'.W = op.W /\ op'.M = op.M /\ op'.from = op.from
        /\ op'.deadM = op.deadM /\ op'.deadW = op.deadW /\ op'.file = op.file
    BY <2>5 DEF Goto, TypeOK, Op
  <2>7. cm' = cm \/ cm' = NoFile
    BY <1>3 DEF InitMaster0, fileVars
  <2>8. FilesStartWithM0' /\ TargetsOfCommand'
    <3>1. StartsWithM0(cm)'
      BY <2>7 DEF FilesStartWithM0, StartsWithM0
    <3>2. TargetsOfCommand'
      BY <2>6 DEF TargetsOfCommand
    <3> QED
      BY <2>2, <2>4, <2>6, <3>1, <3>2 DEF FilesStartWithM0, StartsWithM0
  <2>9. StepOfCommand' /\ StepsInOrder'
    BY <2>1, <2>4, <2>5, <2>6 DEF StepOfCommand, StepsInOrder
  <2>10. RegistryOnM0'
    BY <2>1, <2>4 DEF RegistryOnM0
  <2>11. WorkersBehindM0'
    <3>1. kube' = kube \/ \A h \in Hosts : kube'[h] # "worker"
      BY <1>3 DEF InitMaster0, kubeVars
    <3> QED
      BY <2>4, <3>1 DEF WorkersBehindM0
  <2> QED
    BY <1>0, <2>8, <2>9, <2>10, <2>11
<1>4. CASE JoinMasters
  <2> DEFINE targets == IF op.kind = "install" THEN op.M \ {GetMaster0IP(op.file)} ELSE op.M
  <2>1. op.pc = "joinMasters" /\ op.kind \in {"install", "scale-up"} /\ UNCHANGED <<lvs, rlvs, reg, fileVars>>
    BY <1>4 DEF JoinMasters, StepOfCommand
  <2>2. PICK done \in Handled(targets), ok \in BOOLEAN :
          Finish(targets, done, ok, "lvsOld") /\ kube' = Set(kube, done, "master")
    BY <1>4 DEF JoinMasters
  <2>3. op.pc \notin Stopped
    BY <2>1 DEF Stopped
  <2>4. /\ FilesStartWithM0' /\ TargetsOfCommand' /\ op'.kind = op.kind /\ op'.W = op.W
        /\ op'.pc # "failed" => op'.pc = "lvsOld"
    BY <2>1, <2>2, <2>3, FinishKeeps
  <2>5. M0 \notin done
    BY <2>1, <2>3, CommandKnowsM0 DEF Handled, TargetsOfCommand
  <2>6. \A h \in Hosts : kube'[h] = "worker" => kube[h] = "worker"
    BY <2>2 DEF Set
  <2>7. kube'[M0] = kube[M0]
    BY <2>2, <2>5, M0First DEF Set
  <2>8. StepOfCommand' /\ StepsInOrder'
    BY <2>1, <2>4 DEF StepOfCommand, StepsInOrder
  <2>9. RegistryOnM0' /\ WorkersBehindM0'
    BY <2>1, <2>6, <2>7 DEF RegistryOnM0, WorkersBehindM0
  <2> QED
    BY <1>0, <2>4, <2>8, <2>9
<1>5. CASE UpdateOldWorkers \/ PrepareNewWorkers
  <2>1. /\ op.pc \in {"lvsOld", "lvsNew"} /\ op.kind \in {"install", "scale-up"}
        /\ UNCHANGED <<kube, rlvs, reg, fileVars>>
    BY <1>5 DEF UpdateOldWorkers, PrepareNewWorkers, ConfigureLvs, StepOfCommand
  <2>2. PICK C \in SUBSET Hosts, done \in SUBSET Hosts, ok \in BOOLEAN, s \in {"lvsNew", "joinNodes"} :
          /\ Finish(C, done, ok, s)
          /\ s = "joinNodes" => C = op.W
          /\ lvs' = Set(lvs, done, Masters(op.file))
    <3>1. CASE UpdateOldWorkers
      BY <3>1, OpType DEF UpdateOldWorkers, ConfigureLvs, Handled
    <3>2. CASE PrepareNewWorkers
      BY <3>2, OpType DEF PrepareNewWorkers, ConfigureLvs, Handled
    <3> QED
      BY <1>5, <3>1, <3>2
  <2>3. op.pc \notin Stopped
    BY <2>1 DEF Stopped
  <2>4. /\ FilesStartWithM0' /\ TargetsOfCommand' /\ op'.kind = op.kind /\ op'.W = op.W
        /\ op'.pc # "failed" => op'.pc = s /\ done = C
    BY <2>1, <2>2, <2>3, FinishKeeps
  <2>5. M0 \in Masters(op.file)
    BY <2>3, CommandKnowsM0
  <2>6. \A h \in Hosts : (h \in done \/ M0 \in lvs[h]) => M0 \in lvs'[h]
    BY <2>2, <2>5 DEF Set
  <2>7. op.W \in SUBSET Hosts
    BY OpType
  <2>8. StepOfCommand' /\ StepsInOrder'
    BY <2>1, <2>2, <2>4, <2>6, <2>7 DEF StepOfCommand, StepsInOrder
  <2>9. RegistryOnM0' /\ WorkersBehindM0'
    BY <2>1, <2>6 DEF RegistryOnM0, WorkersBehindM0
  <2> QED
    BY <1>0, <2>4, <2>8, <2>9
<1>6. CASE JoinNodes
  <2>1. op.pc = "joinNodes" /\ op.kind \in {"install", "scale-up"} /\ UNCHANGED <<lvs, rlvs, reg, fileVars>>
    BY <1>6 DEF JoinNodes, StepOfCommand
  <2>2. PICK done \in Handled(op.W), ok \in BOOLEAN :
          Finish(op.W, done, ok, "commit") /\ kube' = Set(kube, done, "worker")
    BY <1>6 DEF JoinNodes
  <2>3. op.pc \notin Stopped
    BY <2>1 DEF Stopped
  <2>4. /\ FilesStartWithM0' /\ TargetsOfCommand' /\ op'.kind = op.kind
        /\ op'.pc # "failed" => op'.pc = "commit"
    BY <2>1, <2>2, <2>3, FinishKeeps
  <2>5. M0 \notin done /\ \A h \in done : M0 \in lvs[h] /\ (RegMode = "HA" => M0 \in rlvs[h])
    BY <2>1 DEF Handled, TargetsOfCommand, StepsInOrder
  <2>6. \A h \in Hosts : kube'[h] = "worker" => kube[h] = "worker" \/ h \in done
    BY <2>2 DEF Set
  <2>7. kube'[M0] = kube[M0]
    BY <2>2, <2>5, M0First DEF Set
  <2>8. StepOfCommand' /\ StepsInOrder'
    BY <2>1, <2>4 DEF StepOfCommand, StepsInOrder
  <2>9. RegistryOnM0' /\ WorkersBehindM0'
    BY <2>1, <2>5, <2>6, <2>7 DEF RegistryOnM0, WorkersBehindM0
  <2> QED
    BY <1>0, <2>4, <2>8, <2>9
<1>7. CASE SaveAll
  <2> DEFINE f == IF op.kind = "scale-down"
                  THEN ConstructClusterForScaleDown(op.file, op.M, op.W) ELSE op.file
  <2>1. op.pc = "commit" /\ op.kind # "delete" /\ UNCHANGED <<kube, lvs, rlvs, reg>>
    BY <1>7 DEF SaveAll, StepOfCommand, kubeVars
  <2>2. PICK saved \in BOOLEAN, committed \in BOOLEAN, ok \in BOOLEAN :
          /\ disk' = IF saved THEN [disk EXCEPT ![op.from] = f] ELSE disk
          /\ cm' = IF committed THEN f ELSE cm
          /\ Goto(IF ok THEN "done" ELSE "failed")
    BY <1>7 DEF SaveAll
  <2>3. op.pc \notin Stopped
    BY <2>1 DEF Stopped
  <2>4. StartsWithM0(f)
    <3>1. StartsWithM0(op.file) /\ op.file # NoFile
      BY <2>3 DEF FilesStartWithM0
    <3>2. op.kind = "scale-down" => M0 \notin op.M
      BY DEF TargetsOfCommand
    <3> QED
      BY <3>1, <3>2, OpType, ScaleDownKeepsM0
  <2>5. PICK s \in {"done", "failed"} : Goto(s)
    BY <2>2
  <2>6. /\ op'.pc = s /\ op'.kind = op.kind /\ op'.W = op.W /\ op'.M = op.M /\ op'.from = op.from
        /\ op'.deadM = op.deadM /\ op'.deadW = op.deadW /\ op'.file = op.file
    BY <2>5 DEF Goto, TypeOK, Op
  <2>7. FilesStartWithM0'
    <3>1. (cm' = f \/ cm' = cm) /\ \A h \in Hosts : disk'[h] = f \/ disk'[h] = disk[h]
      BY <2>2 DEF TypeOK
    <3> HIDE DEF f
    <3> QED
      BY <2>3, <2>4, <2>6, <3>1 DEF FilesStartWithM0, StartsWithM0
  <2>8. TargetsOfCommand'
    BY <2>6 DEF TargetsOfCommand
  <2>9. StepOfCommand' /\ StepsInOrder'
    BY <2>5, <2>6 DEF StepOfCommand, StepsInOrder, Stopped
  <2>10. RegistryOnM0' /\ WorkersBehindM0'
    BY <2>1 DEF RegistryOnM0, WorkersBehindM0
  <2> QED
    BY <1>0, <2>7, <2>8, <2>9, <2>10
<1> QED
  BY <1>1, <1>2, <1>3, <1>4, <1>5, <1>6, <1>7, QuietAddStep DEF AddStep

\* Resetting hosts other than M0 leaves M0 and the remaining workers as they are.
LEMMA CleanOthers ==
  ASSUME Inv, Master0Protected, NEW S, Clean(S), M0 \notin S, reg' = reg
  PROVE  RegistryOnM0' /\ WorkersBehindM0' /\ kube'[M0] = kube[M0]
<1>1. kube'[M0] = kube[M0]
  BY M0First DEF Clean, Set
<1>2. \A h \in Hosts : kube'[h] = "worker" =>
        kube[h] = "worker" /\ lvs'[h] = lvs[h] /\ rlvs'[h] = rlvs[h]
  BY DEF Clean, Set
<1> QED
  BY <1>1, <1>2 DEF Inv, RegistryOnM0, WorkersBehindM0

\* Taking hosts out of the cluster.
LEMMA DeleteKeepsM0 ==
  ASSUME Inv, Master0Protected, TypeOK', op.pc \in {"delNodes", "delMasters"},
         NEW T \in {PassW, PassM}, NEW n \in {"delMasters", "lvsRemain"}, DeleteFromCluster(T, n)
  PROVE  Inv'
<1>1. op.kind = "scale-down" /\ op.pc \notin Stopped
  BY DEF Inv, StepOfCommand, Stopped
<1>2. M0 \notin T /\ M0 \in Masters(op.file) \ PassM
  BY <1>1, CommandKnowsM0 DEF Inv
<1>3. UNCHANGED <<reg, fileVars>>
  BY DEF DeleteFromCluster
<1>4. PICK cleaned \in Handled(T), gone \in SUBSET (T \cap node), ok \in BOOLEAN :
        /\ Clean(cleaned)
        /\ Goto(IF ok THEN n ELSE "failed")
  BY <1>2 DEF DeleteFromCluster
<1>5. PICK s \in {n, "failed"} : Goto(s)
  BY <1>4
<1>6. FilesStartWithM0' /\ TargetsOfCommand' /\ op'.pc = s /\ op'.kind = op.kind
  BY <1>1, <1>3, <1>5, GotoKeeps DEF Inv
<1>7. M0 \notin cleaned
  BY <1>2 DEF Handled
<1>8. RegistryOnM0' /\ WorkersBehindM0' /\ kube'[M0] = kube[M0]
  BY <1>3, <1>4, <1>7, CleanOthers
<1>9. StepOfCommand' /\ StepsInOrder'
  BY <1>1, <1>5, <1>6, <1>8 DEF Inv, StepOfCommand, StepsInOrder
<1> QED
  BY <1>6, <1>8, <1>9 DEF Inv

\* Every other step of scale-down and delete.
LEMMA RemoveStepKeepsM0 ==
  ASSUME Inv, Master0Protected, RemoveStep
  PROVE  Inv'
<1>0. TypeOK'
  BY RemoveStepType DEF Inv
<1> USE DEF Inv
<1>1. CASE CleanRegistry
  <2> DEFINE n == IF op.kind = "delete" THEN "unregconf" ELSE "checkDown"
  <2>1. /\ op.pc = "regClean" /\ op.kind \in {"scale-down", "delete"}
        /\ op.kind = "delete" => kube[M0] # "master"
        /\ op.kind = "scale-down" => RegMode = "HA"
        /\ UNCHANGED <<kube, lvs, rlvs, fileVars>>
    BY <1>1 DEF CleanRegistry, StepOfCommand, StepsInOrder, kubeVars
  <2>2. PICK done \in Handled(RegistriesToClean), ok \in BOOLEAN :
          Finish(RegistriesToClean, done, ok, n) /\ reg' = reg \ done
    BY <1>1 DEF CleanRegistry
  <2>3. op.pc \notin Stopped
    BY <2>1 DEF Stopped
  <2>4. /\ FilesStartWithM0' /\ TargetsOfCommand' /\ op'.kind = op.kind
        /\ op'.pc # "failed" => op'.pc = n
    BY <2>1, <2>2, <2>3, FinishKeeps
  <2>5. StepOfCommand' /\ StepsInOrder'
    BY <2>1, <2>3, <2>4 DEF StepOfCommand, StepsInOrder
  <2>6. op.kind = "scale-down" => M0 \notin done
    BY <2>1 DEF Handled, RegistriesToClean, TargetsOfCommand
  <2>7. RegistryOnM0' /\ WorkersBehindM0'
    BY <2>1, <2>2, <2>6 DEF RegistryOnM0, WorkersBehindM0
  <2> QED
    BY <1>0, <2>4, <2>5, <2>7
<1>2. CASE CheckNodeSSHDown
  <2>1. /\ op.pc = "checkDown" /\ op.kind = "scale-down"
        /\ UNCHANGED <<kube, lvs, rlvs, reg, disk, cm>>
    BY <1>2 DEF CheckNodeSSHDown, StepOfCommand, kubeVars, fileVars
  <2>2. op.pc \notin Stopped
    BY <2>1 DEF Stopped
  <2>3. CASE Goto("failed")
    BY <1>0, <2>1, <2>2, <2>3, QuietStep
  <2>4. CASE op' = [op EXCEPT !.pc = "delNodes", !.deadM = op.M \ Reach, !.deadW = op.W \ Reach]
    <3>1. /\ op'.pc = "delNodes" /\ op'.kind = op.kind /\ op'.W = op.W /\ op'.M = op.M /\ op'.from = op.from
          /\ op'.deadM \subseteq op.M /\ op'.deadW \subseteq op.W /\ op'.file = op.file
      BY <2>4 DEF TypeOK, Op
    <3>2. FilesStartWithM0'
      BY <2>1, <2>2, <3>1 DEF FilesStartWithM0, StartsWithM0
    <3>3. TargetsOfCommand'
      BY <2>1, <3>1 DEF TargetsOfCommand
    <3>4. StepOfCommand' /\ StepsInOrder'
      BY <2>1, <2>2, <3>1 DEF StepOfCommand, StepsInOrder
    <3>5. RegistryOnM0' /\ WorkersBehindM0'
      BY <2>1 DEF RegistryOnM0, WorkersBehindM0
    <3> QED
      BY <1>0, <3>2, <3>3, <3>4, <3>5
  <2> QED
    BY <1>2, <2>3, <2>4 DEF CheckNodeSSHDown
<1>3. CASE DeleteNodes
  BY <1>0, <1>3, DeleteKeepsM0 DEF DeleteNodes
<1>4. CASE DeleteMasters
  BY <1>0, <1>4, DeleteKeepsM0 DEF DeleteMasters
<1>5. CASE UpdateRemainingWorkers
  <2> DEFINE C == IF PassM # {} THEN op.file.workers \ PassW ELSE {}
             n == IF op.resetting THEN "unregconf" ELSE "commit"
  <2>1. op.pc = "lvsRemain" /\ op.kind = "scale-down" /\ UNCHANGED <<kube, rlvs, reg, fileVars>>
    BY <1>5 DEF UpdateRemainingWorkers, ConfigureLvs, StepOfCommand
  <2>2. PICK done \in Handled(C), ok \in BOOLEAN :
          Finish(C, done, ok, n) /\ lvs' = Set(lvs, done, Masters(op.file) \ PassM)
    BY <1>5 DEF UpdateRemainingWorkers, ConfigureLvs
  <2>3. op.pc \notin Stopped
    BY <2>1 DEF Stopped
  <2>4. /\ FilesStartWithM0' /\ TargetsOfCommand' /\ op'.kind = op.kind
        /\ op'.pc # "failed" => op'.pc \in {"unregconf", "commit"}
    BY <2>1, <2>2, <2>3, FinishKeeps
  <2>5. M0 \in Masters(op.file) \ PassM
    BY <2>1, <2>3, CommandKnowsM0
  <2>6. \A h \in Hosts : M0 \in lvs[h] => M0 \in lvs'[h]
    BY <2>2, <2>5 DEF Set
  <2>7. StepOfCommand' /\ StepsInOrder'
    BY <2>1, <2>3, <2>4 DEF StepOfCommand, StepsInOrder
  <2>8. RegistryOnM0' /\ WorkersBehindM0'
    BY <2>1, <2>6 DEF RegistryOnM0, WorkersBehindM0
  <2> QED
    BY <1>0, <2>4, <2>7, <2>8
<1>6. CASE Restore
  <2>1. /\ op.pc = "restore" /\ op.kind \in {"scale-down", "delete"}
        /\ UNCHANGED <<kube, lvs, rlvs, reg, disk, cm>>
    BY <1>6 DEF Restore, StepOfCommand, kubeVars, fileVars
  <2>2. op.pc \notin Stopped
    BY <2>1 DEF Stopped
  <2>3. \/ Goto("failed")
        \/ op.kind = "delete" /\ Goto("rmFiles")
        \/ op.kind # "delete" /\ op' = [op EXCEPT !.pc = "delNodes", !.resetting = FALSE]
    BY <1>6 DEF Restore
  <2>4. CASE Goto("failed") \/ (op.kind = "delete" /\ Goto("rmFiles"))
    BY <1>0, <2>1, <2>2, <2>4, QuietStep
  <2>5. CASE op.kind # "delete" /\ op' = [op EXCEPT !.pc = "delNodes", !.resetting = FALSE]
    <3>1. /\ op'.pc = "delNodes" /\ op'.kind = op.kind /\ op'.W = op.W /\ op'.M = op.M /\ op'.from = op.from
          /\ op'.deadM = op.deadM /\ op'.deadW = op.deadW /\ op'.file = op.file
      BY <2>5 DEF TypeOK, Op
    <3>2. FilesStartWithM0' /\ TargetsOfCommand'
      BY <2>1, <2>2, <3>1 DEF FilesStartWithM0, StartsWithM0, TargetsOfCommand
    <3>3. StepOfCommand' /\ StepsInOrder'
      BY <2>1, <2>2, <2>5, <3>1 DEF StepOfCommand, StepsInOrder
    <3>4. RegistryOnM0' /\ WorkersBehindM0'
      BY <2>1 DEF RegistryOnM0, WorkersBehindM0
    <3> QED
      BY <1>0, <3>2, <3>3, <3>4
  <2> QED
    BY <2>3, <2>4, <2>5
<1>7. CASE Reset
  <2>1. op.pc = "reset" /\ op.kind = "delete" /\ UNCHANGED <<reg, fileVars>>
    BY <1>7 DEF Reset, StepOfCommand
  <2>2. PICK done \in Handled(All), ok \in BOOLEAN :
          Finish(All, done, ok, "regClean") /\ Clean(done)
    BY <1>7 DEF Reset
  <2>3. op.pc \notin Stopped
    BY <2>1 DEF Stopped
  <2>4. /\ FilesStartWithM0' /\ TargetsOfCommand' /\ op'.kind = op.kind
        /\ op'.pc # "failed" => op'.pc = "regClean" /\ done = All
    BY <2>1, <2>2, <2>3, FinishKeeps
  <2>5. M0 \in All
    BY <2>1 DEF TargetsOfCommand, All
  <2>6. \A h \in Hosts : h \in done => kube'[h] = "none"
    BY <2>2 DEF Clean, Set
  <2>7. \A h \in Hosts : h \notin done => kube'[h] = kube[h] /\ lvs'[h] = lvs[h] /\ rlvs'[h] = rlvs[h]
    BY <2>2 DEF Clean, Set
  <2>8. StepOfCommand' /\ StepsInOrder'
    BY <2>1, <2>4, <2>5, <2>6, M0First DEF StepOfCommand, StepsInOrder
  <2>9. RegistryOnM0' /\ WorkersBehindM0'
    BY <2>1, <2>6, <2>7, M0First DEF RegistryOnM0, WorkersBehindM0
  <2> QED
    BY <1>0, <2>4, <2>8, <2>9
<1>8. CASE RemoveLocalFiles
  <2>1. op.pc = "rmFiles" /\ UNCHANGED <<kube, lvs, rlvs, reg, cm>>
    BY <1>8 DEF RemoveLocalFiles, kubeVars
  <2>2. PICK s \in {"done", "failed"} : Goto(s)
    BY <1>8 DEF RemoveLocalFiles
  <2>3. /\ op'.pc = s /\ op'.kind = op.kind /\ op'.W = op.W /\ op'.M = op.M /\ op'.from = op.from
        /\ op'.deadM = op.deadM /\ op'.deadW = op.deadW /\ op'.file = op.file
    BY <2>2 DEF Goto, TypeOK, Op
  <2>4. \A h \in Hosts : disk'[h] = disk[h] \/ disk'[h] = NoFile
    BY <1>8 DEF RemoveLocalFiles, TypeOK
  <2>5. op.pc \notin Stopped
    BY <2>1 DEF Stopped
  <2>6. FilesStartWithM0' /\ TargetsOfCommand'
    BY <2>1, <2>3, <2>4, <2>5 DEF FilesStartWithM0, StartsWithM0, TargetsOfCommand
  <2>7. StepOfCommand' /\ StepsInOrder'
    BY <2>2, <2>3 DEF StepOfCommand, StepsInOrder, Stopped
  <2>8. RegistryOnM0' /\ WorkersBehindM0'
    BY <2>1 DEF RegistryOnM0, WorkersBehindM0
  <2> QED
    BY <1>0, <2>6, <2>7, <2>8
<1>9. CASE UnconfigureRegistry
  <2> DEFINE C == IF RegMode = "HA" /\ op.kind = "scale-down" /\ PassM # {}
                  THEN op.file.workers \ PassW ELSE {}
  <2>1. /\ op.pc = "unregconf" /\ op.kind \in {"scale-down", "delete"}
        /\ UNCHANGED <<kube, lvs, reg, fileVars>>
    BY <1>9 DEF UnconfigureRegistry, StepOfCommand, kubeVars
  <2>2. PICK done \in Handled(C), ok \in BOOLEAN :
          Finish(C, done, ok, "uncri") /\ rlvs' = Set(rlvs, done, Masters(op.file) \ op.M)
    BY <1>9 DEF UnconfigureRegistry
  <2>3. op.pc \notin Stopped
    BY <2>1 DEF Stopped
  <2>4. /\ FilesStartWithM0' /\ TargetsOfCommand' /\ op'.kind = op.kind
        /\ op'.pc # "failed" => op'.pc = "uncri"
    BY <2>1, <2>2, <2>3, FinishKeeps
  <2>5. op.kind = "scale-down" => M0 \in Masters(op.file) \ op.M
    BY <2>3, CommandKnowsM0 DEF TargetsOfCommand
  <2>6. \A h \in Hosts : M0 \in rlvs[h] => M0 \in rlvs'[h]
    BY <2>2, <2>5 DEF Set, Handled
  <2>7. StepOfCommand' /\ StepsInOrder'
    BY <2>1, <2>3, <2>4 DEF StepOfCommand, StepsInOrder
  <2>8. RegistryOnM0' /\ WorkersBehindM0'
    BY <2>1, <2>6 DEF RegistryOnM0, WorkersBehindM0
  <2> QED
    BY <1>0, <2>4, <2>7, <2>8
<1> QED
  BY <1>1, <1>2, <1>3, <1>4, <1>5, <1>6, <1>7, <1>8, <1>9, QuietRemoveStep DEF RemoveStep

------------------------------------------------------------------------------
(* The theorems.                                                           *)

\* Where master0 is protected, the parts of Master0Inv hold at every moment.
LEMMA InvHolds == Master0Protected /\ Spec => []Inv
<1> SUFFICES ASSUME Master0Protected PROVE Spec => []Inv
  OBVIOUS
<1>1. Init => Inv
  <2> SUFFICES ASSUME Init PROVE Inv
    OBVIOUS
  <2>1. TypeOK
    BY M0First, NoFileType, LifecycleAssumption DEF Init, TypeOK, Command, Op, Steps, Stopped
  <2>2. op.pc = "idle" /\ op.kind = "none" /\ op.file = NoFile /\ op.from = M0
    BY DEF Init, Command
  <2>3. FilesStartWithM0
    BY <2>2 DEF Init, FilesStartWithM0, StartsWithM0, Stopped
  <2>4. StepOfCommand /\ TargetsOfCommand /\ StepsInOrder
    BY <2>2 DEF StepOfCommand, TargetsOfCommand, StepsInOrder
  <2>5. RegistryOnM0 /\ WorkersBehindM0
    BY M0First DEF Init, RegistryOnM0, WorkersBehindM0
  <2> QED
    BY <2>1, <2>3, <2>4, <2>5 DEF Inv
<1>2. Inv /\ [Next]_vars => Inv'
  <2> SUFFICES ASSUME Inv, [Next]_vars PROVE Inv'
    OBVIOUS
  <2>1. CASE UNCHANGED <<kube, lvs, rlvs, reg, disk, cm, op>> /\ TypeOK'
    BY <2>1 DEF Inv, FilesStartWithM0, StartsWithM0, StepOfCommand, TargetsOfCommand, StepsInOrder,
                RegistryOnM0, WorkersBehindM0
  <2>2. CASE Environment
    <3>1. UNCHANGED <<kube, lvs, rlvs, reg, disk, cm, op>>
      BY <2>2 DEF Environment, HostDown, HostUp, kubeVars, fileVars
    <3>2. TypeOK'
      BY <2>2 DEF Inv, Environment, HostDown, HostUp, TypeOK, kubeVars, fileVars
    <3> QED
      BY <2>1, <3>1, <3>2
  <2>3. CASE UNCHANGED vars
    <3>1. UNCHANGED <<kube, lvs, rlvs, reg, disk, cm, op>> /\ TypeOK'
      BY <2>3 DEF Inv, vars, TypeOK
    <3> QED
      BY <2>1, <3>1
  <2> QED
    BY <2>2, <2>3, StartKeepsM0, AddStepKeepsM0, RemoveStepKeepsM0 DEF Next
<1> QED
  BY <1>1, <1>2, PTL DEF Spec

\* Through any sequence of commands that fail anywhere, every Clusterfile that
\* can be picked up starts with the same master0, and no scale command is ever
\* directed at it.
THEOREM Master0Invariant == Spec => []Master0Inv
<1>1. Inv => Master0Inv
  BY DEF Inv, Master0Inv
<1>2. CASE Master0Protected
  BY <1>1, <1>2, InvHolds, PTL
<1>3. CASE ~Master0Protected
  <2>1. Master0Inv
    BY <1>3 DEF Master0Inv
  <2> QED
    BY <2>1, PTL
<1> QED
  BY <1>2, <1>3

\* The single registry is there as long as master0 runs Kubernetes.
THEOREM RegistryAlwaysServed == Spec => []RegistryServed
<1>1. Master0Inv => RegistryServed
  BY DEF Master0Inv, Master0Protected, RegistryOnM0, RegistryServed
<1> QED
  BY <1>1, Master0Invariant, PTL

\* With a single registry, no partial scale command takes master0 out of a
\* worker's virtual server.
THEOREM WorkersAlwaysKeepMaster0 == Spec => []WorkerKeepsMaster0
<1>1. Master0Inv => WorkerKeepsMaster0
  BY DEF Master0Inv, Master0Protected, WorkersBehindM0, WorkerKeepsMaster0
<1> QED
  BY <1>1, Master0Invariant, PTL

\* Outside a delete no step turns M0 into anything but a master.
LEMMA StepKeepsRole ==
  ASSUME Inv, Master0Protected, Next, kube[M0] = "master", op.kind # "delete"
  PROVE  kube'[M0] = "master"
<1> USE DEF Inv
<1>1. CASE Start \/ Environment
  <2>1. kube' = kube
    BY <1>1 DEF Start, StartInstall, StartScaleUp, StartScaleDown, StartDelete, Ready,
                Environment, HostDown, HostUp, kubeVars
  <2> QED
    BY <2>1
<1>2. CASE AddStep
  <2>1. CASE InitMaster0
    <3>1. op.pc \notin Stopped
      BY <2>1 DEF InitMaster0, Stopped
    <3>2. GetMaster0IP(op.file) = M0
      BY <3>1, CommandKnowsM0
    <3> QED
      BY <2>1, <3>2, M0First DEF InitMaster0, kubeVars
  <2>2. CASE JoinMasters
    <3>1. PICK done : kube' = Set(kube, done, "master")
      BY <2>2 DEF JoinMasters
    <3> QED
      BY <3>1, M0First DEF Set
  <2>3. CASE JoinNodes
    <3>1. op.kind \in {"install", "scale-up"}
      BY <2>3 DEF JoinNodes, StepOfCommand
    <3>2. PICK done \in Handled(op.W) : kube' = Set(kube, done, "worker")
      BY <2>3 DEF JoinNodes
    <3>3. M0 \notin done
      BY <3>1 DEF Handled, TargetsOfCommand
    <3> QED
      BY <3>2, <3>3, M0First DEF Set
  <2>4. CASE UNCHANGED kube
    BY <2>4
  <2>5. CASE \/ CheckNodeSSHUp \/ SetClusterHostAliases \/ Distribute \/ InstallOnCRI
             \/ ReconcileInstall \/ ConfigureRegistry \/ UpdateOldWorkers \/ PrepareNewWorkers
             \/ SaveAll
    BY <2>4, <2>5 DEF CheckNodeSSHUp, SetClusterHostAliases, Distribute, InstallOnCRI,
                      ReconcileInstall, ConfigureRegistry, UpdateOldWorkers, PrepareNewWorkers,
                      ConfigureLvs, SaveAll, kubeVars
  <2> QED
    BY <1>2, <2>1, <2>2, <2>3, <2>5 DEF AddStep
<1>3. CASE RemoveStep
  <2>1. CASE DeleteNodes \/ DeleteMasters
    <3>1. PICK T \in {PassW, PassM}, n \in {"delMasters", "lvsRemain"} : DeleteFromCluster(T, n)
      BY <2>1 DEF DeleteNodes, DeleteMasters
    <3>2. op.pc \notin Stopped /\ op.kind = "scale-down"
      BY <2>1 DEF DeleteNodes, DeleteMasters, StepOfCommand, Stopped
    <3>3. M0 \notin T /\ M0 \in Masters(op.file) \ PassM
      BY <3>1, <3>2, CommandKnowsM0
    <3>4. PICK cleaned \in Handled(T) : Clean(cleaned)
      BY <3>1, <3>3 DEF DeleteFromCluster
    <3>5. M0 \notin cleaned
      BY <3>3 DEF Handled
    <3> QED
      BY <3>4, <3>5, M0First DEF Clean, Set
  <2>2. CASE Reset
    BY <2>2 DEF Reset, StepOfCommand
  <2>3. CASE UNCHANGED kube
    BY <2>3
  <2>4. CASE \/ CleanRegistry \/ CheckNodeSSHDown \/ CheckNodeSSHAll \/ UpdateRemainingWorkers
             \/ UnconfigureRegistry \/ UnInstallFromCRI \/ DeleteClusterHostAliases
             \/ RestoreNil \/ Restore \/ RemoveLocalFiles
    BY <2>3, <2>4 DEF CleanRegistry, CheckNodeSSHDown, CheckNodeSSHAll, UpdateRemainingWorkers,
                      ConfigureLvs, UnconfigureRegistry, UnInstallFromCRI, DeleteClusterHostAliases,
                      RestoreNil, Restore, RemoveLocalFiles, kubeVars
  <2> QED
    BY <1>3, <2>1, <2>2, <2>4 DEF RemoveStep
<1> QED
  BY <1>1, <1>2, <1>3 DEF Next

\* With a single registry only a delete of the cluster takes master0 down.
THEOREM Master0AlwaysKept == Spec => Master0Kept
<1> DEFINE A == RegMode = "nonHA" /\ kube[M0] = "master" /\ kube'[M0] # "master"
                  => op.kind = "delete"
<1>1. CASE RegMode = "nonHA"
  <2>1. Inv /\ [Next]_vars => [A]_vars
    BY <1>1, StepKeepsRole DEF Master0Protected
  <2>2. Master0Protected
    BY <1>1 DEF Master0Protected
  <2> QED
    BY <2>1, <2>2, InvHolds, PTL DEF Spec, Master0Kept
<1>2. CASE RegMode # "nonHA"
  <2>1. [Next]_vars => [A]_vars
    BY <1>2
  <2> QED
    BY <2>1, PTL DEF Spec, Master0Kept
<1> QED
  BY <1>1, <1>2

------------------------------------------------------------------------------
(* When all commands are issued on master0, with any kind of registry.     *)

\* The master sealer runs on is M0.
LEMMA IssuedOnM0 ==
  ASSUME Inv, Operators \subseteq {M0}
  PROVE  op.from = M0
  BY DEF Inv, TargetsOfCommand

\* A joined worker always has a running master behind its virtual server, until
\* the cluster is deleted: whatever scale-up or scale-down fails, wherever.
THEOREM WorkersAlwaysReachAPI == Operators \subseteq {M0} /\ Spec => []WorkerReachesAPI
<1> SUFFICES ASSUME Operators \subseteq {M0} PROVE Spec => []WorkerReachesAPI
  OBVIOUS
<1>1. Inv => WorkerReachesAPI
  BY IssuedOnM0 DEF Inv, WorkersBehindM0, WorkerReachesAPI
<1>2. Master0Protected
  BY DEF Master0Protected
<1> QED
  BY <1>1, <1>2, InvHolds, PTL

\* With an HA registry, a worker always has a running registry behind its registry
\* virtual server, also after a scale-down that cleaned a registry and failed.
THEOREM WorkersAlwaysReachRegistry == Operators \subseteq {M0} /\ Spec => []WorkerReachesRegistry
<1> SUFFICES ASSUME Operators \subseteq {M0} PROVE Spec => []WorkerReachesRegistry
  OBVIOUS
<1>1. Inv => WorkerReachesRegistry
  <2> SUFFICES ASSUME Inv, RegMode = "HA", kube[op.from] = "master",
                      NEW h \in cm.workers, kube[h] = "worker"
               PROVE  rlvs[h] \cap reg # {}
    BY DEF WorkerReachesRegistry
  <2>1. h \in Hosts
    BY DEF Inv, TypeOK, File
  <2>2. M0 \in reg
    BY IssuedOnM0 DEF Inv, RegistryOnM0
  <2>3. M0 \in rlvs[h]
    BY <2>1 DEF Inv, WorkersBehindM0
  <2> QED
    BY <2>2, <2>3
<1>2. Master0Protected
  BY DEF Master0Protected
<1> QED
  BY <1>1, <1>2, InvHolds, PTL

\* Outside a delete, no step takes a master away unless M0 stays one.
LEMMA StepKeepsAMaster ==
  ASSUME Inv, Operators \subseteq {M0}, Next, op.kind # "delete",
         NEW h \in Hosts, kube[h] = "master"
  PROVE  \E g \in Hosts : kube'[g] = "master"
<1>0. Master0Protected
  BY DEF Master0Protected
<1>1. CASE kube[M0] = "master"
  BY <1>0, <1>1, StepKeepsRole, M0First
<1>2. CASE kube[M0] # "master"
  <2>1. CASE InitMaster0
    <3>1. op.pc \notin Stopped
      BY <2>1 DEF InitMaster0, Stopped
    <3>2. GetMaster0IP(op.file) = M0
      BY <3>1, CommandKnowsM0 DEF Inv
    <3>3. kube' = kube \/ kube'[M0] = "master"
      <4> DEFINE started == [k \in Hosts |-> IF k = M0 THEN "master"
                                             ELSE IF kube[k] = "none" THEN "none" ELSE "old"]
      <4>1. kube' = kube \/ kube' = started
        BY <2>1, <3>2 DEF InitMaster0
      <4>2. M0 \in Hosts
        BY M0First
      <4>3. started[M0] = "master"
        BY <4>2
      <4> QED
        BY <4>1, <4>3
    <3> QED
      BY <3>3, M0First
  <2>2. CASE JoinMasters
    <3>1. PICK done : kube' = Set(kube, done, "master")
      BY <2>2 DEF JoinMasters
    <3> QED
      BY <3>1 DEF Set
  <2>3. CASE JoinNodes
    <3>1. PICK done \in Handled(op.W) : kube' = Set(kube, done, "worker") /\ \A k \in done : kube[k] = "none"
      BY <2>3 DEF JoinNodes
    <3> QED
      BY <3>1 DEF Set
  <2>4. ~(DeleteNodes \/ DeleteMasters \/ Reset)
    <3>1. ASSUME DeleteNodes \/ DeleteMasters PROVE FALSE
      <4>1. op.kind = "scale-down" /\ op.pc \notin Stopped
        BY <3>1 DEF DeleteNodes, DeleteMasters, Inv, StepOfCommand, Stopped
      <4> QED
        BY <1>2, <4>1 DEF Inv, StepsInOrder
    <3>2. ~Reset
      BY DEF Reset, Inv, StepOfCommand
    <3> QED
      BY <3>1, <3>2
  <2>5. CASE UNCHANGED kube
    BY <2>5
  <2>6. CASE \/ CheckNodeSSHUp \/ SetClusterHostAliases \/ Distribute \/ InstallOnCRI
             \/ ReconcileInstall \/ ConfigureRegistry \/ UpdateOldWorkers \/ PrepareNewWorkers
             \/ SaveAll
    BY <2>5, <2>6 DEF CheckNodeSSHUp, SetClusterHostAliases, Distribute, InstallOnCRI,
                      ReconcileInstall, ConfigureRegistry, UpdateOldWorkers, PrepareNewWorkers,
                      ConfigureLvs, SaveAll, kubeVars
  <2>7. CASE \/ CleanRegistry \/ CheckNodeSSHDown \/ CheckNodeSSHAll \/ UpdateRemainingWorkers
             \/ UnconfigureRegistry \/ UnInstallFromCRI \/ DeleteClusterHostAliases
             \/ RestoreNil \/ Restore \/ RemoveLocalFiles
    BY <2>5, <2>7 DEF CleanRegistry, CheckNodeSSHDown, CheckNodeSSHAll, UpdateRemainingWorkers,
                      ConfigureLvs, UnconfigureRegistry, UnInstallFromCRI, DeleteClusterHostAliases,
                      RestoreNil, Restore, RemoveLocalFiles, kubeVars
  <2>8. CASE Start \/ Environment
    BY <2>5, <2>8 DEF Start, StartInstall, StartScaleUp, StartScaleDown, StartDelete, Ready,
                      Environment, HostDown, HostUp, kubeVars
  <2> QED
    BY <2>1, <2>2, <2>3, <2>4, <2>6, <2>7, <2>8 DEF Next, AddStep, RemoveStep
<1> QED
  BY <1>1, <1>2

\* No scale-down takes the last running master away, in either of its passes and
\* whatever file it works from.
THEOREM ControlPlaneAlwaysSurvives == Operators \subseteq {M0} /\ Spec => ControlPlaneSurvives
<1> SUFFICES ASSUME Operators \subseteq {M0} PROVE Spec => ControlPlaneSurvives
  OBVIOUS
<1> DEFINE A == (\E h \in Hosts : kube[h] = "master") /\ (\A h \in Hosts : kube'[h] # "master")
                  => op.kind = "delete"
<1>1. Inv /\ [Next]_vars => [A]_vars
  BY StepKeepsAMaster
<1>2. Master0Protected
  BY DEF Master0Protected
<1> QED
  BY <1>1, <1>2, InvHolds, PTL DEF Spec, ControlPlaneSurvives

------------------------------------------------------------------------------
(* The virtual servers of the workers follow the masters, for every kind of *)
(* registry, every set of hosts and operator machines and any number of     *)
(* commands and failures.                                                   *)

\* The steps before which a scale-down has been through its first pass over the
\* API server virtual servers, or the registry ones.
RemovedFromApi ==
  \/ op.pc \in {"unregconf", "uncri", "unalias", "restore", "commit"}
  \/ ~op.resetting /\ op.pc \in {"delNodes", "delMasters", "lvsRemain"}

RemovedFromRegistry == RemovedFromApi /\ op.pc # "unregconf"

\* What a command that changes the masters has written when it comes to a step.
AddedSoFar ==
  op.kind \in {"install", "scale-up"} /\ op.M # {} =>
    /\ RegMode = "HA" /\ op.pc \in {"init", "joinMasters", "lvsOld", "lvsNew", "joinNodes", "commit"} =>
         \A h \in op.file.workers : rlvs[h] = Masters(op.file)
    /\ op.pc \in {"lvsNew", "joinNodes", "commit"} =>
         \A h \in op.file.workers \ op.W : lvs[h] = Masters(op.file)
    /\ op.pc \in {"joinNodes", "commit"} => \A h \in op.W : lvs[h] = Masters(op.file)

RemovedSoFar ==
  op.kind = "scale-down" /\ op.M # {} /\ op.deadM \cup op.deadW = {} =>
    /\ RemovedFromApi => \A h \in op.file.workers \ op.W : lvs[h] = Masters(op.file) \ op.M
    /\ RegMode = "HA" /\ RemovedFromRegistry =>
         \A h \in op.file.workers \ op.W : rlvs[h] = Masters(op.file) \ op.M

\* A scale-down makes its first pass up to restore, and commits after the second;
\* apply installs all workers of its file.
PassOfStep ==
  /\ op.kind = "none" => op.M = {}
  /\ op.kind = "install" => op.W = op.file.workers
  /\ op.pc \in {"regClean", "checkAll", "reset", "checkDown", "unregconf", "uncri", "unalias", "restore"} =>
       op.resetting

ServersInv ==
  /\ TypeOK
  /\ StepOfCommand
  /\ PassOfStep
  /\ AddedSoFar
  /\ RemovedSoFar
  /\ LvsFollowsMasters

------------------------------------------------------------------------------
(* Moving from one step to the next.                                       *)

\* What a move leaves alone.
LEMMA GotoFields ==
  ASSUME TypeOK, NEW s, Goto(s)
  PROVE  /\ op'.pc = s /\ op'.kind = op.kind /\ op'.M = op.M /\ op'.W = op.W /\ op'.file = op.file
         /\ op'.deadM = op.deadM /\ op'.deadW = op.deadW /\ op'.resetting = op.resetting
  BY DEF Goto, TypeOK, Op

\* A command that stops without success promises nothing.
LEMMA FailKeeps ==
  ASSUME ServersInv, TypeOK', NEW s \in {"failed", "panic"}, Goto(s)
  PROVE  ServersInv'
<1>1. /\ op'.pc = s /\ op'.kind = op.kind /\ op'.M = op.M /\ op'.W = op.W /\ op'.file = op.file
      /\ op'.resetting = op.resetting
  BY GotoFields DEF ServersInv
<1>2. StepOfCommand' /\ PassOfStep'
  BY <1>1 DEF ServersInv, StepOfCommand, PassOfStep
<1>3. AddedSoFar' /\ RemovedSoFar' /\ LvsFollowsMasters'
  BY <1>1 DEF AddedSoFar, RemovedSoFar, RemovedFromApi, RemovedFromRegistry, LvsFollowsMasters
<1> QED
  BY <1>2, <1>3 DEF ServersInv

\* The moves between steps where no virtual server is written.
QuietMove(s) ==
  \/ op.pc = "checkUp" /\ s = "alias"
  \/ op.pc = "alias" /\ s = "rootfs"
  \/ op.pc = "rootfs" /\ s = "cri"
  \/ op.pc = "cri" /\ s = "registry"
  \/ op.pc = "registry" /\ s = "regconf"
  \/ op.pc = "init" /\ s = "joinMasters"
  \/ op.pc = "joinMasters" /\ s = "lvsOld"
  \/ op.pc = "joinNodes" /\ s = "commit"
  \/ op.pc = "regClean" /\ s = IF op.kind = "delete" THEN "unregconf" ELSE "checkDown"
  \/ op.pc = "checkAll" /\ s = "reset"
  \/ op.pc = "uncri" /\ s = "unalias"
  \/ op.pc = "unalias" /\ s = "restore"
  \/ op.pc = "restore" /\ op.kind = "delete" /\ s = "rmFiles"
  \/ op.pc = "rmFiles" /\ s = "done"

LEMMA QuietKeeps ==
  ASSUME ServersInv, TypeOK', NEW s, Goto(s), UNCHANGED <<lvs, rlvs>>, QuietMove(s)
  PROVE  ServersInv'
<1>1. /\ op'.pc = s /\ op'.kind = op.kind /\ op'.M = op.M /\ op'.W = op.W /\ op'.file = op.file
      /\ op'.deadM = op.deadM /\ op'.deadW = op.deadW /\ op'.resetting = op.resetting
  BY GotoFields DEF ServersInv
<1>2. StepOfCommand'
  BY <1>1 DEF ServersInv, StepOfCommand, QuietMove
<1>3. PassOfStep'
  BY <1>1 DEF ServersInv, PassOfStep, QuietMove
<1>4. AddedSoFar'
  BY <1>1 DEF ServersInv, AddedSoFar, QuietMove, StepOfCommand
<1>5. RemovedSoFar'
  BY <1>1 DEF ServersInv, RemovedSoFar, RemovedFromApi, RemovedFromRegistry, QuietMove, StepOfCommand
<1>6. LvsFollowsMasters'
  BY <1>1 DEF ServersInv, LvsFollowsMasters, QuietMove, StepOfCommand
<1> QED
  BY <1>2, <1>3, <1>4, <1>5, <1>6 DEF ServersInv

\* A step over hosts, where it only moves or fails.
LEMMA QuietFinish ==
  ASSUME ServersInv, TypeOK', NEW T, NEW done, NEW ok \in BOOLEAN, NEW s, Finish(T, done, ok, s),
         UNCHANGED <<lvs, rlvs>>, QuietMove(s)
  PROVE  ServersInv'
<1>1. Goto("failed") \/ Goto(s)
  BY DEF Finish
<1> QED
  BY <1>1, FailKeeps, QuietKeeps

------------------------------------------------------------------------------
(* The commands.                                                           *)

LEMMA StartServers ==
  ASSUME ServersInv, Start
  PROVE  ServersInv'
<1>0. TypeOK'
  BY StartType DEF ServersInv
<1>1. CASE StartInstall
  <2>1. /\ op'.kind = "install" /\ op'.pc = "alias" /\ op'.file = InstallFile
        /\ op'.W = InstallFile.workers
    BY <1>1 DEF StartInstall, Command
  <2> QED
    BY <1>0, <2>1 DEF ServersInv, StepOfCommand, PassOfStep, AddedSoFar, RemovedSoFar, LvsFollowsMasters
<1>2. CASE StartScaleUp
  <2>1. op'.kind = "scale-up" /\ op'.pc = "checkUp"
    BY <1>2 DEF StartScaleUp, Command
  <2> QED
    BY <1>0, <2>1 DEF ServersInv, StepOfCommand, PassOfStep, AddedSoFar, RemovedSoFar, LvsFollowsMasters
<1>3. CASE StartScaleDown
  <2>1. /\ op'.kind = "scale-down" /\ op'.resetting
        /\ op'.pc = IF RegMode = "HA" THEN "regClean" ELSE "checkDown"
    BY <1>3 DEF StartScaleDown, ScaleDownCommand, Command
  <2> QED
    BY <1>0, <2>1 DEF ServersInv, StepOfCommand, PassOfStep, AddedSoFar, RemovedSoFar, RemovedFromApi,
                      RemovedFromRegistry, LvsFollowsMasters
<1>4. CASE StartDelete
  <2>1. op'.kind = "delete" /\ op'.pc = "checkAll" /\ op'.resetting
    BY <1>4 DEF StartDelete, Command
  <2> QED
    BY <1>0, <2>1 DEF ServersInv, StepOfCommand, PassOfStep, AddedSoFar, RemovedSoFar, LvsFollowsMasters
<1> QED
  BY <1>1, <1>2, <1>3, <1>4 DEF Start

\* What is left of a file after a scale-down.
LEMMA ScaleDownFile ==
  ASSUME NEW f \in File, NEW md \in SUBSET Hosts, NEW nd \in SUBSET Hosts
  PROVE  /\ ConstructClusterForScaleDown(f, md, nd).workers = f.workers \ nd
         /\ Masters(ConstructClusterForScaleDown(f, md, nd)) = Masters(f) \ md
<1> DEFINE g == ConstructClusterForScaleDown(f, md, nd)
<1>1. g.workers = f.workers \ nd
  BY DEF ConstructClusterForScaleDown
<1>2. \A h \in Hosts : g.pos[h] = IF h \in md THEN 0 ELSE f.pos[h]
  BY DEF ConstructClusterForScaleDown
<1> HIDE DEF g
<1>3. \A h \in Hosts : h \in Masters(g) <=> h \in Masters(f) /\ h \notin md
  <2> TAKE h \in Hosts
  <2>1. f.pos[h] \in Nat
    BY MaxPosAssumption DEF File
  <2>2. CASE h \in md
    <3>1. g.pos[h] = 0
      BY <1>2, <2>2
    <3> QED
      BY <2>2, <3>1 DEF Masters
  <2>3. CASE h \notin md
    <3>1. g.pos[h] = f.pos[h]
      BY <1>2, <2>3
    <3> QED
      BY <2>3, <3>1 DEF Masters
  <2> QED
    BY <2>2, <2>3
<1>4. Masters(g) \subseteq Hosts /\ Masters(f) \subseteq Hosts
  BY DEF Masters
<1>5. Masters(g) = Masters(f) \ md
  BY <1>3, <1>4
<1> QED
  BY <1>1, <1>5 DEF g

\* The steps of apply and scale-up.
LEMMA AddServers ==
  ASSUME ServersInv, AddStep
  PROVE  ServersInv'
<1>0. TypeOK' /\ TypeOK
  BY AddStepType DEF ServersInv
<1>1. CASE CheckNodeSSHUp
  <2>1. op.pc = "checkUp" /\ UNCHANGED <<lvs, rlvs>> /\ (Goto("alias") \/ Goto("failed"))
    BY <1>1 DEF CheckNodeSSHUp, kubeVars
  <2> QED
    BY <1>0, <2>1, FailKeeps, QuietKeeps DEF QuietMove
<1>2. CASE SetClusterHostAliases
  <2>1. op.pc = "alias" /\ UNCHANGED <<lvs, rlvs>>
    BY <1>2 DEF SetClusterHostAliases, kubeVars
  <2>2. PICK done \in Handled(All), ok \in BOOLEAN : Finish(All, done, ok, "rootfs")
    BY <1>2 DEF SetClusterHostAliases
  <2> QED
    BY <1>0, <2>1, <2>2, QuietFinish DEF QuietMove
<1>3. CASE Distribute
  <2>1. op.pc = "rootfs" /\ UNCHANGED <<lvs, rlvs>>
    BY <1>3 DEF Distribute, kubeVars
  <2>2. PICK done \in Handled(All), ok \in BOOLEAN : Finish(All, done, ok, "cri")
    BY <1>3 DEF Distribute
  <2> QED
    BY <1>0, <2>1, <2>2, QuietFinish DEF QuietMove
<1>4. CASE InstallOnCRI
  <2>1. op.pc = "cri" /\ UNCHANGED <<lvs, rlvs>>
    BY <1>4 DEF InstallOnCRI, kubeVars
  <2>2. PICK done \in Handled(All), ok \in BOOLEAN : Finish(All, done, ok, "registry")
    BY <1>4 DEF InstallOnCRI
  <2> QED
    BY <1>0, <2>1, <2>2, QuietFinish DEF QuietMove
<1>5. CASE ReconcileInstall
  <2>1. op.pc = "registry" /\ UNCHANGED <<lvs, rlvs>>
    BY <1>5 DEF ReconcileInstall, kubeVars
  <2>2. PICK done \in Handled(RegistryHosts), ok \in BOOLEAN : Finish(RegistryHosts, done, ok, "regconf")
    BY <1>5 DEF ReconcileInstall
  <2> QED
    BY <1>0, <2>1, <2>2, QuietFinish DEF QuietMove
<1>6. CASE ConfigureRegistry
  <2> DEFINE n == IF op.kind = "install" THEN "init" ELSE "joinMasters"
  <2>1. op.pc = "regconf" /\ op.kind \in {"install", "scale-up"} /\ lvs' = lvs
    BY <1>6 DEF ConfigureRegistry, kubeVars, ServersInv, StepOfCommand
  <2>2. PICK done \in Handled(All \cup RegistryClients), ok \in BOOLEAN :
          /\ Finish(All \cup RegistryClients, done, ok, n)
          /\ rlvs' = Set(rlvs, done \cap RegistryClients, Masters(op.file))
    BY <1>6 DEF ConfigureRegistry
  <2>3. CASE Goto("failed")
    BY <1>0, <2>3, FailKeeps
  <2>4. CASE Goto(n) /\ done = All \cup RegistryClients
    <3>1. /\ op'.pc = n /\ op'.kind = op.kind /\ op'.M = op.M /\ op'.W = op.W /\ op'.file = op.file
          /\ op'.resetting = op.resetting
      BY <1>0, <2>4, GotoFields
    <3>2. RegMode = "HA" /\ op.M # {} => \A h \in op.file.workers : rlvs'[h] = Masters(op.file)
      BY <1>0, <2>2, <2>4, OpType DEF RegistryClients, Set
    <3>3. StepOfCommand' /\ PassOfStep'
      BY <2>1, <3>1 DEF ServersInv, StepOfCommand, PassOfStep
    <3>4. AddedSoFar' /\ RemovedSoFar' /\ LvsFollowsMasters'
      BY <2>1, <3>1, <3>2 DEF AddedSoFar, RemovedSoFar, LvsFollowsMasters
    <3> QED
      BY <1>0, <3>3, <3>4 DEF ServersInv
  <2> QED
    BY <2>2, <2>3, <2>4 DEF Finish
<1>7. CASE InitMaster0
  <2>1. op.pc = "init" /\ UNCHANGED <<lvs, rlvs>> /\ (Goto("joinMasters") \/ Goto("failed"))
    BY <1>7 DEF InitMaster0
  <2> QED
    BY <1>0, <2>1, FailKeeps, QuietKeeps DEF QuietMove
<1>8. CASE JoinMasters
  <2>1. op.pc = "joinMasters" /\ UNCHANGED <<lvs, rlvs>>
    BY <1>8 DEF JoinMasters
  <2> DEFINE m0 == GetMaster0IP(op.file)
             targets == IF op.kind = "install" THEN op.M \ {m0} ELSE op.M
  <2>2. PICK done \in Handled(targets), ok \in BOOLEAN : Finish(targets, done, ok, "lvsOld")
    BY <1>8 DEF JoinMasters
  <2> QED
    BY <1>0, <2>1, <2>2, QuietFinish DEF QuietMove
<1>9. CASE UpdateOldWorkers
  <2> DEFINE C == IF op.kind = "scale-up" /\ op.M # {} THEN op.file.workers \ op.W ELSE {}
  <2>1. op.pc = "lvsOld" /\ op.kind \in {"install", "scale-up"} /\ rlvs' = rlvs
    BY <1>9 DEF UpdateOldWorkers, ConfigureLvs, ServersInv, StepOfCommand
  <2>2. PICK done \in Handled(C), ok \in BOOLEAN :
          Finish(C, done, ok, "lvsNew") /\ lvs' = Set(lvs, done, Masters(op.file))
    BY <1>9 DEF UpdateOldWorkers, ConfigureLvs
  <2>3. CASE Goto("failed")
    BY <1>0, <2>3, FailKeeps
  <2>4. CASE Goto("lvsNew") /\ done = C
    <3>1. /\ op'.pc = "lvsNew" /\ op'.kind = op.kind /\ op'.M = op.M /\ op'.W = op.W /\ op'.file = op.file
          /\ op'.resetting = op.resetting
      BY <1>0, <2>4, GotoFields
    <3>2. op.M # {} => \A h \in op.file.workers \ op.W : lvs'[h] = Masters(op.file)
      <4>1. CASE op.kind = "install"
        BY <4>1 DEF ServersInv, PassOfStep
      <4>2. CASE op.kind = "scale-up"
        BY <1>0, <2>2, <2>4, <4>2, OpType DEF Set
      <4> QED
        BY <2>1, <4>1, <4>2
    <3>3. StepOfCommand' /\ PassOfStep'
      BY <2>1, <3>1 DEF ServersInv, StepOfCommand, PassOfStep
    <3>4. AddedSoFar' /\ RemovedSoFar' /\ LvsFollowsMasters'
      BY <2>1, <3>1, <3>2 DEF ServersInv, AddedSoFar, RemovedSoFar, LvsFollowsMasters
    <3> QED
      BY <1>0, <3>3, <3>4 DEF ServersInv
  <2> QED
    BY <2>2, <2>3, <2>4 DEF Finish
<1>10. CASE PrepareNewWorkers
  <2>1. op.pc = "lvsNew" /\ op.kind \in {"install", "scale-up"} /\ rlvs' = rlvs
    BY <1>10 DEF PrepareNewWorkers, ConfigureLvs, ServersInv, StepOfCommand
  <2>2. PICK done \in Handled(op.W), ok \in BOOLEAN :
          Finish(op.W, done, ok, "joinNodes") /\ lvs' = Set(lvs, done, Masters(op.file))
    BY <1>10 DEF PrepareNewWorkers, ConfigureLvs
  <2>3. CASE Goto("failed")
    BY <1>0, <2>3, FailKeeps
  <2>4. CASE Goto("joinNodes") /\ done = op.W
    <3>1. /\ op'.pc = "joinNodes" /\ op'.kind = op.kind /\ op'.M = op.M /\ op'.W = op.W /\ op'.file = op.file
          /\ op'.resetting = op.resetting
      BY <1>0, <2>4, GotoFields
    <3>2. /\ \A h \in op.W : lvs'[h] = Masters(op.file)
          /\ \A h \in op.file.workers \ op.W : lvs'[h] = lvs[h]
      BY <1>0, <2>2, <2>4, OpType DEF Set
    <3>3. StepOfCommand' /\ PassOfStep'
      BY <2>1, <3>1 DEF ServersInv, StepOfCommand, PassOfStep
    <3>4. AddedSoFar' /\ RemovedSoFar' /\ LvsFollowsMasters'
      BY <2>1, <3>1, <3>2 DEF ServersInv, AddedSoFar, RemovedSoFar, LvsFollowsMasters
    <3> QED
      BY <1>0, <3>3, <3>4 DEF ServersInv
  <2> QED
    BY <2>2, <2>3, <2>4 DEF Finish
<1>11. CASE JoinNodes
  <2>1. op.pc = "joinNodes" /\ UNCHANGED <<lvs, rlvs>>
    BY <1>11 DEF JoinNodes
  <2>2. PICK done \in Handled(op.W), ok \in BOOLEAN : Finish(op.W, done, ok, "commit")
    BY <1>11 DEF JoinNodes
  <2> QED
    BY <1>0, <2>1, <2>2, QuietFinish DEF QuietMove
<1>12. CASE SaveAll
  <2> DEFINE f == IF op.kind = "scale-down"
                  THEN ConstructClusterForScaleDown(op.file, op.M, op.W) ELSE op.file
  <2>1. op.pc = "commit" /\ op.kind # "delete" /\ UNCHANGED <<lvs, rlvs>>
    BY <1>12 DEF SaveAll, kubeVars, ServersInv, StepOfCommand
  <2>2. Goto("failed") \/ (Goto("done") /\ cm' = f)
    BY <1>12 DEF SaveAll
  <2>3. CASE Goto("failed")
    BY <1>0, <2>3, FailKeeps
  <2>4. CASE Goto("done") /\ cm' = f
    <3>1. /\ op'.pc = "done" /\ op'.kind = op.kind /\ op'.M = op.M /\ op'.W = op.W /\ op'.file = op.file
          /\ op'.deadM = op.deadM /\ op'.deadW = op.deadW /\ op'.resetting = op.resetting
      BY <1>0, <2>4, GotoFields
    <3>2. StepOfCommand' /\ PassOfStep'
      BY <2>1, <3>1 DEF ServersInv, StepOfCommand, PassOfStep
    <3>3. AddedSoFar' /\ RemovedSoFar'
      BY <3>1 DEF AddedSoFar, RemovedSoFar, RemovedFromApi, RemovedFromRegistry
    <3>4. LvsFollowsMasters'
      <4>1. CASE op.kind = "none"
        BY <3>1, <4>1 DEF ServersInv, PassOfStep, LvsFollowsMasters
      <4>2. CASE op.kind \in {"install", "scale-up"}
        BY <2>1, <2>4, <3>1, <4>2 DEF ServersInv, AddedSoFar, LvsFollowsMasters
      <4>3. CASE op.kind = "scale-down"
        <5>1. f.workers = op.file.workers \ op.W /\ Masters(f) = Masters(op.file) \ op.M
          <6>1. f = ConstructClusterForScaleDown(op.file, op.M, op.W)
            BY <4>3
          <6> HIDE DEF f
          <6>2. op.file \in File /\ op.M \in SUBSET Hosts /\ op.W \in SUBSET Hosts
            BY <1>0, OpType
          <6>3. /\ ConstructClusterForScaleDown(op.file, op.M, op.W).workers = op.file.workers \ op.W
                /\ Masters(ConstructClusterForScaleDown(op.file, op.M, op.W)) = Masters(op.file) \ op.M
            BY <6>2, ScaleDownFile
          <6> QED
            BY <6>1, <6>3
        <5> QED
          BY <2>1, <2>4, <3>1, <4>3, <5>1
             DEF ServersInv, RemovedSoFar, RemovedFromApi, RemovedFromRegistry, LvsFollowsMasters
      <4> QED
        BY <1>0, <2>1, <4>1, <4>2, <4>3 DEF TypeOK, Op
    <3> QED
      BY <1>0, <3>2, <3>3, <3>4 DEF ServersInv
  <2> QED
    BY <2>2, <2>3, <2>4
<1> QED
  BY <1>1, <1>2, <1>3, <1>4, <1>5, <1>6, <1>7, <1>8, <1>9, <1>10, <1>11, <1>12 DEF AddStep
\* Setting f on no host changes no value of it.
LEMMA SetNowhere ==
  ASSUME NEW f, NEW S, S = {}, NEW v
  PROVE  \A h \in Hosts : Set(f, S, v)[h] = f[h]
  BY DEF Set

\* deleteNode and deleteMaster.  Only the first pass, which promises nothing yet,
\* or a pass over disconnected hosts changes a virtual server.
LEMMA DeleteServers ==
  ASSUME ServersInv, TypeOK', NEW T \in {PassM, PassW}, NEW s, DeleteFromCluster(T, s),
         \/ op.pc = "delNodes" /\ s = "delMasters"
         \/ op.pc = "delMasters" /\ s = "lvsRemain"
  PROVE  ServersInv'
<1>0. TypeOK /\ op.kind = "scale-down"
  BY DEF ServersInv, StepOfCommand
<1>1. CASE Goto("failed")
  BY <1>1, FailKeeps
<1>2. CASE ~ Goto("failed")
  <2>1. PICK cleaned \in Handled(T) : Clean(cleaned) /\ Goto(s)
    BY <1>2 DEF DeleteFromCluster
  <2>2. /\ op'.pc = s /\ op'.kind = op.kind /\ op'.M = op.M /\ op'.W = op.W /\ op'.file = op.file
        /\ op'.deadM = op.deadM /\ op'.deadW = op.deadW /\ op'.resetting = op.resetting
    BY <1>0, <2>1, GotoFields
  <2>3. StepOfCommand' /\ PassOfStep' /\ AddedSoFar' /\ LvsFollowsMasters'
    BY <1>0, <2>2 DEF ServersInv, StepOfCommand, PassOfStep, AddedSoFar, LvsFollowsMasters
  <2>4. RemovedSoFar'
    <3>1. CASE op.resetting \/ op.deadM \cup op.deadW # {}
      BY <2>2, <3>1 DEF RemovedSoFar, RemovedFromApi, RemovedFromRegistry
    <3>2. CASE ~op.resetting /\ op.deadM = {} /\ op.deadW = {}
      <4>1. cleaned = {}
        BY <3>2 DEF Handled, PassM, PassW
      <4>2. \A h \in Hosts : lvs'[h] = lvs[h] /\ rlvs'[h] = rlvs[h]
        BY <2>1, <4>1, SetNowhere DEF Clean
      <4> QED
        BY <1>0, <2>2, <3>2, <4>2, OpType
           DEF ServersInv, RemovedSoFar, RemovedFromApi, RemovedFromRegistry
    <3> QED
      BY <1>0, <3>1, <3>2 DEF TypeOK, Op
  <2> QED
    BY <2>3, <2>4 DEF ServersInv
<1> QED
  BY <1>1, <1>2

\* The steps of delete and scale-down.
LEMMA RemoveServers ==
  ASSUME ServersInv, RemoveStep
  PROVE  ServersInv'
<1>0. TypeOK' /\ TypeOK
  BY RemoveStepType DEF ServersInv
<1>1. CASE CleanRegistry
  <2> DEFINE n == IF op.kind = "delete" THEN "unregconf" ELSE "checkDown"
  <2>1. op.pc = "regClean" /\ UNCHANGED <<lvs, rlvs>>
    BY <1>1 DEF CleanRegistry, kubeVars
  <2>2. PICK done \in Handled(RegistriesToClean), ok \in BOOLEAN : Finish(RegistriesToClean, done, ok, n)
    BY <1>1 DEF CleanRegistry
  <2>3. QuietMove(n)
    BY <2>1 DEF QuietMove
  <2> QED
    BY <1>0, <2>1, <2>2, <2>3, QuietFinish
<1>2. CASE CheckNodeSSHDown
  <2>1. op.pc = "checkDown" /\ op.kind = "scale-down" /\ op.resetting
    BY <1>2 DEF CheckNodeSSHDown, ServersInv, StepOfCommand, PassOfStep
  <2>2. CASE Goto("failed")
    BY <1>0, <2>2, FailKeeps
  <2>3. CASE op' = [op EXCEPT !.pc = "delNodes", !.deadM = op.M \ Reach, !.deadW = op.W \ Reach]
    <3>1. op'.pc = "delNodes" /\ op'.kind = "scale-down" /\ op'.resetting
      BY <1>0, <2>1, <2>3 DEF TypeOK, Op
    <3> QED
      BY <1>0, <3>1 DEF ServersInv, StepOfCommand, PassOfStep, AddedSoFar, RemovedSoFar,
                        RemovedFromApi, RemovedFromRegistry, LvsFollowsMasters
  <2> QED
    BY <1>2, <2>2, <2>3 DEF CheckNodeSSHDown
<1>3. CASE CheckNodeSSHAll
  <2>1. op.pc = "checkAll" /\ UNCHANGED <<lvs, rlvs>> /\ (Goto("reset") \/ Goto("failed"))
    BY <1>3 DEF CheckNodeSSHAll, kubeVars
  <2> QED
    BY <1>0, <2>1, FailKeeps, QuietKeeps DEF QuietMove
<1>4. CASE DeleteNodes
  BY <1>0, <1>4, DeleteServers DEF DeleteNodes
<1>5. CASE DeleteMasters
  BY <1>0, <1>5, DeleteServers DEF DeleteMasters
<1>6. CASE UpdateRemainingWorkers
  <2> DEFINE C == IF PassM # {} THEN op.file.workers \ PassW ELSE {}
             n == IF op.resetting THEN "unregconf" ELSE "commit"
  <2>1. op.pc = "lvsRemain" /\ op.kind = "scale-down" /\ rlvs' = rlvs
    BY <1>6 DEF UpdateRemainingWorkers, ConfigureLvs, ServersInv, StepOfCommand
  <2>2. PICK done \in Handled(C), ok \in BOOLEAN :
          Finish(C, done, ok, n) /\ lvs' = Set(lvs, done, Masters(op.file) \ PassM)
    BY <1>6 DEF UpdateRemainingWorkers, ConfigureLvs
  <2>3. CASE Goto("failed")
    BY <1>0, <2>3, FailKeeps
  <2>4. CASE Goto(n) /\ done = C
    <3>1. /\ op'.pc = n /\ op'.kind = op.kind /\ op'.M = op.M /\ op'.W = op.W /\ op'.file = op.file
          /\ op'.deadM = op.deadM /\ op'.deadW = op.deadW /\ op'.resetting = op.resetting
      BY <1>0, <2>4, GotoFields
    <3>2. StepOfCommand' /\ PassOfStep' /\ AddedSoFar' /\ LvsFollowsMasters'
      BY <1>0, <2>1, <3>1 DEF ServersInv, StepOfCommand, PassOfStep, AddedSoFar, LvsFollowsMasters, TypeOK, Op
    <3>3. CASE op.M = {} \/ op.deadM \cup op.deadW # {}
      BY <1>0, <3>1, <3>2, <3>3 DEF ServersInv, RemovedSoFar
    <3>4. CASE op.M # {} /\ op.deadM = {} /\ op.deadW = {} /\ op.resetting
      <4>1. PassM = op.M /\ C = op.file.workers \ op.W
        BY <3>4 DEF PassM, PassW
      <4>2. \A h \in op.file.workers \ op.W : lvs'[h] = Masters(op.file) \ op.M
        BY <1>0, <2>2, <2>4, <4>1, OpType DEF Set
      <4>3. op'.pc = "unregconf"
        BY <3>1, <3>4
      <4>4. RemovedSoFar'
        BY <3>1, <4>2, <4>3 DEF RemovedSoFar, RemovedFromRegistry
      <4> QED
        BY <1>0, <3>2, <4>4 DEF ServersInv
    <3>5. CASE op.M # {} /\ op.deadM = {} /\ op.deadW = {} /\ ~op.resetting
      <4>1. done = {}
        BY <2>4, <3>5 DEF PassM
      <4>2. \A h \in Hosts : lvs'[h] = lvs[h]
        BY <2>2, <4>1, SetNowhere
      <4>3. RemovedSoFar'
        BY <1>0, <2>1, <3>1, <3>5, <4>2, OpType
           DEF ServersInv, RemovedSoFar, RemovedFromApi, RemovedFromRegistry
      <4> QED
        BY <1>0, <3>2, <4>3 DEF ServersInv
    <3> QED
      BY <1>0, <3>3, <3>4, <3>5 DEF TypeOK, Op
  <2> QED
    BY <2>2, <2>3, <2>4 DEF Finish
<1>7. CASE UnconfigureRegistry
  <2> DEFINE C == IF RegMode = "HA" /\ op.kind = "scale-down" /\ PassM # {}
                  THEN op.file.workers \ PassW ELSE {}
  <2>1. op.pc = "unregconf" /\ op.kind \in {"scale-down", "delete"} /\ op.resetting /\ lvs' = lvs
    BY <1>7 DEF UnconfigureRegistry, kubeVars, ServersInv, StepOfCommand, PassOfStep
  <2>2. PICK done \in Handled(C), ok \in BOOLEAN :
          Finish(C, done, ok, "uncri") /\ rlvs' = Set(rlvs, done, Masters(op.file) \ op.M)
    BY <1>7 DEF UnconfigureRegistry
  <2>3. CASE Goto("failed")
    BY <1>0, <2>3, FailKeeps
  <2>4. CASE Goto("uncri") /\ done = C
    <3>1. /\ op'.pc = "uncri" /\ op'.kind = op.kind /\ op'.M = op.M /\ op'.W = op.W /\ op'.file = op.file
          /\ op'.deadM = op.deadM /\ op'.deadW = op.deadW /\ op'.resetting = op.resetting
      BY <1>0, <2>4, GotoFields
    <3>2. StepOfCommand' /\ PassOfStep' /\ AddedSoFar' /\ LvsFollowsMasters'
      BY <2>1, <3>1 DEF ServersInv, StepOfCommand, PassOfStep, AddedSoFar, LvsFollowsMasters
    <3>3. RemovedSoFar'
      <4> SUFFICES ASSUME op.kind = "scale-down", op.M # {}, op.deadM = {}, op.deadW = {}
                   PROVE  RemovedSoFar'
        BY <3>1 DEF RemovedSoFar
      <4>1. PassM = op.M /\ PassW = op.W
        BY <2>1 DEF PassM, PassW
      <4>2. RegMode = "HA" => \A h \in op.file.workers \ op.W : rlvs'[h] = Masters(op.file) \ op.M
        BY <1>0, <2>2, <2>4, <4>1, OpType DEF Set
      <4>3. \A h \in op.file.workers \ op.W : lvs'[h] = Masters(op.file) \ op.M
        BY <2>1 DEF ServersInv, RemovedSoFar, RemovedFromApi
      <4> QED
        BY <3>1, <4>2, <4>3 DEF RemovedSoFar
    <3> QED
      BY <1>0, <3>2, <3>3 DEF ServersInv
  <2> QED
    BY <2>2, <2>3, <2>4 DEF Finish
<1>8. CASE UnInstallFromCRI
  <2>1. op.pc = "uncri" /\ UNCHANGED <<lvs, rlvs>>
    BY <1>8 DEF UnInstallFromCRI, kubeVars
  <2>2. PICK done \in Handled(Cleaned), ok \in BOOLEAN : Finish(Cleaned, done, ok, "unalias")
    BY <1>8 DEF UnInstallFromCRI
  <2> QED
    BY <1>0, <2>1, <2>2, QuietFinish DEF QuietMove
<1>9. CASE DeleteClusterHostAliases
  <2>1. op.pc = "unalias" /\ UNCHANGED <<lvs, rlvs>>
    BY <1>9 DEF DeleteClusterHostAliases, kubeVars
  <2>2. PICK done \in Handled(Cleaned), ok \in BOOLEAN : Finish(Cleaned, done, ok, "restore")
    BY <1>9 DEF DeleteClusterHostAliases
  <2> QED
    BY <1>0, <2>1, <2>2, QuietFinish DEF QuietMove
<1>10. CASE RestoreNil
  BY <1>0, <1>10, FailKeeps DEF RestoreNil
<1>11. CASE Restore
  <2>1. op.pc = "restore" /\ op.kind \in {"scale-down", "delete"} /\ UNCHANGED <<lvs, rlvs>>
    BY <1>11 DEF Restore, kubeVars, ServersInv, StepOfCommand
  <2>2. \/ Goto("failed")
        \/ op.kind = "delete" /\ Goto("rmFiles")
        \/ op.kind # "delete" /\ op' = [op EXCEPT !.pc = "delNodes", !.resetting = FALSE]
    BY <1>11 DEF Restore
  <2>3. CASE Goto("failed")
    BY <1>0, <2>3, FailKeeps
  <2>4. CASE op.kind = "delete" /\ Goto("rmFiles")
    BY <1>0, <2>1, <2>4, QuietKeeps DEF QuietMove
  <2>5. CASE op.kind # "delete" /\ op' = [op EXCEPT !.pc = "delNodes", !.resetting = FALSE]
    <3>1. /\ op'.pc = "delNodes" /\ op'.kind = "scale-down" /\ op'.M = op.M /\ op'.W = op.W
          /\ op'.file = op.file /\ op'.deadM = op.deadM /\ op'.deadW = op.deadW /\ ~op'.resetting
      BY <1>0, <2>1, <2>5 DEF TypeOK, Op
    <3>2. StepOfCommand' /\ PassOfStep' /\ AddedSoFar' /\ LvsFollowsMasters'
      BY <3>1 DEF StepOfCommand, PassOfStep, AddedSoFar, LvsFollowsMasters
    <3>3. RemovedSoFar'
      BY <2>1, <2>5, <3>1 DEF ServersInv, RemovedSoFar, RemovedFromApi, RemovedFromRegistry
    <3> QED
      BY <1>0, <3>2, <3>3 DEF ServersInv
  <2> QED
    BY <2>2, <2>3, <2>4, <2>5
<1>12. CASE Reset
  <2>1. op.pc = "reset" /\ op.kind = "delete"
    BY <1>12 DEF Reset, ServersInv, StepOfCommand
  <2>2. PICK done \in Handled(All), ok \in BOOLEAN : Finish(All, done, ok, "regClean")
    BY <1>12 DEF Reset
  <2>3. CASE Goto("failed")
    BY <1>0, <2>3, FailKeeps
  <2>4. CASE Goto("regClean")
    <3>1. op'.pc = "regClean" /\ op'.kind = "delete" /\ op'.resetting = op.resetting
      BY <1>0, <2>1, <2>4, GotoFields
    <3>2. op.resetting
      BY <2>1 DEF ServersInv, PassOfStep
    <3> QED
      BY <1>0, <3>1, <3>2 DEF ServersInv, StepOfCommand, PassOfStep, AddedSoFar, RemovedSoFar,
                              LvsFollowsMasters
  <2> QED
    BY <2>2, <2>3, <2>4 DEF Finish
<1>13. CASE RemoveLocalFiles
  <2>1. op.pc = "rmFiles" /\ UNCHANGED <<lvs, rlvs>> /\ (Goto("done") \/ Goto("failed"))
    BY <1>13 DEF RemoveLocalFiles, kubeVars
  <2> QED
    BY <1>0, <2>1, FailKeeps, QuietKeeps DEF QuietMove
<1> QED
  BY <1>1, <1>2, <1>3, <1>4, <1>5, <1>6, <1>7, <1>8, <1>9, <1>10, <1>11, <1>12, <1>13 DEF RemoveStep

------------------------------------------------------------------------------

\* After a command that changed the masters and succeeded, the API server virtual
\* server of every worker, and with an HA registry its registry one, forwards to
\* the masters of the new Clusterfile: for every set of hosts, operator machines
\* and kind of registry, after any sequence of commands that failed anywhere.
THEOREM VirtualServersFollowMasters == Spec => []LvsFollowsMasters
<1>1. Init => ServersInv
  <2>1. Init => TypeOK
    BY M0First, NoFileType, LifecycleAssumption DEF Init, TypeOK, Command, Op, Steps, Stopped
  <2> QED
    BY <2>1 DEF Init, Command, ServersInv, StepOfCommand, PassOfStep, AddedSoFar, RemovedSoFar,
                LvsFollowsMasters
<1>2. ServersInv /\ [Next]_vars => ServersInv'
  <2> SUFFICES ASSUME ServersInv, [Next]_vars
               PROVE  ServersInv'
    OBVIOUS
  <2>1. CASE Start
    BY <2>1, StartServers
  <2>2. CASE AddStep
    BY <2>2, AddServers
  <2>3. CASE RemoveStep
    BY <2>3, RemoveServers
  <2>4. CASE Environment \/ UNCHANGED vars
    <3>1. UNCHANGED <<kube, node, lvs, rlvs, on, reg, disk, cm, op, ops>>
      BY <2>4 DEF Environment, HostDown, HostUp, kubeVars, fileVars, vars
    <3>2. TypeOK'
      BY <2>4, <3>1 DEF ServersInv, TypeOK, Environment, HostDown, HostUp, vars
    <3> QED
      BY <3>1, <3>2 DEF ServersInv, StepOfCommand, PassOfStep, AddedSoFar, RemovedSoFar, RemovedFromApi,
                        RemovedFromRegistry, LvsFollowsMasters
  <2> QED
    BY <2>1, <2>2, <2>3, <2>4 DEF Next
<1>3. ServersInv => LvsFollowsMasters
  BY DEF ServersInv
<1> QED
  BY <1>1, <1>2, <1>3, PTL DEF Spec
==============================================================================
