----------------------------- MODULE AliProvider -----------------------------
(***************************************************************************)
(* The Alibaba Cloud provider of pkg/infra: Apply reconciles the resources *)
(* a Clusterfile asks for with what its annotations record, one resource   *)
(* after the other, and saves the Clusterfile after each one it created;   *)
(* with a deletion timestamp it releases what is recorded.                 *)
(*                                                                         *)
(* The cloud is external.  A request may be refused, and its answer may be *)
(* lost after it took effect, in which case utils.Retry sends it again:    *)
(* none of the create requests carries a client token.  The machine may    *)
(* fail to write the Clusterfile, and the process may die between two      *)
(* steps, after which the cluster is read back from the file.              *)
(*                                                                         *)
(* Resources are numbered as they are created; an instance's private IP is *)
(* its number.  Regions, image, disks, ports and the SSH password keep no  *)
(* state the properties tell apart.                                        *)
(***************************************************************************)
EXTENDS Integers, FiniteSets, Sequences

CONSTANTS
  Wants,      \* the requests of the user: [count : role -> number, size : role -> size]
  MaxApply,   \* bound: number of Apply calls
  MaxFaults   \* bound: number of faults

VARIABLES
  cloud,   \* the resources that exist: [kind, id]
  inst,    \* the instances that exist: [id, role, size, on, vsw, sg]
  bound,   \* the instance an elastic IP is associated with: id of the EIP -> id
  mem,     \* the Cluster object the provider works on
  disk,    \* the Clusterfile
  want,    \* what the object's spec asks for
  pc,      \* the next step of Apply
  snap,    \* the instances GetInstancesInfo returned before a change
  next,    \* the number of the next resource
  applies, \* number of Apply calls so far
  faults   \* the faults that happened

aliVars == <<cloud, inst, bound, mem, disk, want, pc, snap, next, applies, faults>>
cloudVars == <<cloud, inst, bound, next>>

Roles == {"Master", "Node"}
Keys == {"VpcID", "ZoneID", "VSwitchID", "SecurityGroupID", "EipID", "Master0ID"}
Faults == {"error", "lost", "stock", "save", "crash"}
None == 0

ASSUME WantsAssumption ==
  /\ Wants # {}
  /\ \A w \in Wants : w.count \in [Roles -> Int]
  /\ MaxApply \in Nat /\ MaxFaults \in Nat

Fault(kind) == Len(faults) < MaxFaults /\ faults' = Append(faults, kind)
Faultless == faults = <<>>

\* ann: the annotations that name a resource; ids: the roles whose
\* AliMasterIDs or AliNodeIDs annotation is not empty; ips: the IPLists.
NewCluster == [ann |-> [k \in Keys |-> None], ids |-> {}, ips |-> [r \in Roles |-> {}]]

AliInit ==
  /\ cloud = {} /\ inst = {} /\ bound = [i \in {} |-> None]
  /\ mem = NewCluster /\ disk = NewCluster
  /\ want = CHOOSE w \in Wants : TRUE   \* every Apply sets it
  /\ pc = "idle" /\ snap = {} /\ next = 1 /\ applies = 0
  /\ faults = <<>>

Goto(step) == pc' = step /\ snap' = {}

\* The steps of Reconcile after the given one.
After == [VpcID |-> "ZoneID", ZoneID |-> "VSwitchID", VSwitchID |-> "SecurityGroupID",
          SecurityGroupID |-> "Master", Master |-> "MasterType", MasterType |-> "Node",
          Node |-> "NodeType", NodeType |-> "EipID", EipID |-> "done"]

\* Apply of the cluster as the user edited it.
Apply(w) ==
  /\ pc \in {"idle", "done", "failed"} /\ applies < MaxApply
  /\ applies' = applies + 1
  /\ want' = w
  /\ Goto("VpcID")
  /\ UNCHANGED <<cloudVars, mem, disk, faults>>

------------------------------------------------------------------------------
(* ReconcileResource.                                                      *)

\* SaveToDisk of the object m after a step created what it was asked for.
SaveToDisk(m, step) ==
  /\ mem' = m
  /\ \/ /\ disk' = m /\ Goto(step) /\ UNCHANGED faults
     \/ /\ Fault("save") /\ Goto("failed") /\ UNCHANGED disk

\* A request to create fails; with or without having taken effect.
RequestFails(made) ==
  /\ Fault("error")
  /\ Goto("failed")
  /\ cloud' \in {cloud, cloud \cup made}
  /\ next' = next + 1
  /\ UNCHANGED <<inst, bound, mem, disk>>

\* Mutant: the answer is recorded without looking at the error.
CreateUnchecked(key) ==
  /\ IF mem.ann[key] # None
     THEN Goto(After[key]) /\ UNCHANGED <<cloudVars, mem, disk, faults>>
     ELSE /\ cloud' \in {cloud, cloud \cup {[kind |-> key, id |-> next]}} /\ next' = next + 1
          /\ SaveToDisk([mem EXCEPT !.ann[key] = next], After[key])
          /\ UNCHANGED <<inst, bound>>
  /\ UNCHANGED <<want, applies>>

\* CreateVPC, CreateVSwitch and CreateSecurityGroup: the resource of the
\* answer is recorded.  When an answer was lost the cloud holds one more.
CreateResource(key) ==
  LET made(n) == [kind |-> key, id |-> n] IN
  /\ \/ /\ mem.ann[key] # None
        /\ Goto(After[key]) /\ UNCHANGED <<cloudVars, mem, disk, faults>>
     \/ /\ mem.ann[key] = None
        /\ \/ /\ cloud' = cloud \cup {made(next)} /\ next' = next + 1
              /\ SaveToDisk([mem EXCEPT !.ann[key] = next], After[key])
           \/ /\ Fault("lost")
              /\ cloud' = cloud \cup {made(next), made(next + 1)} /\ next' = next + 2
              /\ mem' = [mem EXCEPT !.ann[key] = next + 1] /\ disk' = mem'
              /\ Goto(After[key])
        /\ UNCHANGED <<inst, bound>>
     \/ mem.ann[key] = None /\ RequestFails({made(next)})
  /\ UNCHANGED <<want, applies>>

CreateVPC == pc = "VpcID" /\ CreateResource("VpcID")
CreateVSwitch == pc = "VSwitchID" /\ CreateResource("VSwitchID")
\* A group whose ports could not be authorised stays in the cloud.
CreateSecurityGroup == pc = "SecurityGroupID" /\ CreateResource("SecurityGroupID")

\* The zone is read, nothing is created.
GetZoneID ==
  /\ pc = "ZoneID"
  /\ \/ /\ mem.ann["ZoneID"] # None
        /\ Goto(After["ZoneID"]) /\ UNCHANGED <<mem, disk, faults>>
     \/ /\ mem.ann["ZoneID"] = None
        /\ SaveToDisk([mem EXCEPT !.ann["ZoneID"] = 1], After["ZoneID"])
     \/ /\ mem.ann["ZoneID"] = None
        /\ Fault("error") /\ Goto("failed") /\ UNCHANGED <<mem, disk>>
  /\ UNCHANGED <<cloudVars, want, applies>>

------------------------------------------------------------------------------
(* ReconcileInstances.                                                     *)

\* GetInstancesInfo: the instances with the cluster's tags, in the switch and
\* the group the annotations of c name.
Found(c, role) ==
  {i \in inst : /\ i.role = role
                /\ c.ann["VSwitchID"] \in {None, i.vsw}
                /\ c.ann["SecurityGroupID"] \in {None, i.sg}}

Ids(s) == {i.id : i \in s}

NewInstance(role, n) ==
  [id |-> n, role |-> role, size |-> want.size[role], on |-> TRUE,
   vsw |-> mem.ann["VSwitchID"], sg |-> mem.ann["SecurityGroupID"]]

\* The instances of the role before a change: none if the annotation says that
\* none was ever created.
Known(role) == IF role \in mem.ids THEN Found(mem, role) ELSE {}

\* TryGetInstance inside InputIPlist gives up unless the number is as expected.
InputIPlist(role, all) == Cardinality(all) = want.count[role]

Matching(all, role) == {i \in all : i.role = role /\ i.vsw = mem.ann["VSwitchID"]
                                                /\ i.sg = mem.ann["SecurityGroupID"]}

\* len(instances) < Count: RunInstances, whose answer names the new instances,
\* then the IPList becomes the union with the IPs of the role.
ScaleUpInstances(role) ==
  LET n == want.count[role] - Cardinality(Known(role))
      made(k) == {NewInstance(role, next + j) : j \in 0 .. k * n - 1}
      run(k) == /\ inst' = inst \cup made(k) /\ next' = next + k * n
                /\ LET all == Matching(inst', role) IN
                   IF InputIPlist(role, all)
                   THEN /\ mem' = [mem EXCEPT !.ids = @ \cup {role},
                                              !.ips[role] = @ \cup Ids(all)]
                        /\ pc' = After[role] /\ snap' = Known(role)
                   ELSE mem' = [mem EXCEPT !.ids = @ \cup {role}] /\ Goto("failed") IN
  /\ n > 0
  /\ \/ run(1) /\ UNCHANGED faults
     \/ run(2) /\ Fault("lost")
     \/ \* the answer never comes, or the look-up in InputIPlist fails
        /\ Fault("error") /\ Goto("failed")
        /\ inst' = inst \cup made(1) /\ next' = next + n
        /\ mem' \in {mem, [mem EXCEPT !.ids = @ \cup {role}]}
     \/ \* no instance type is in stock: RetryEcsInstanceType returns without error
        Fault("stock") /\ Goto("failed") /\ UNCHANGED <<inst, next, mem>>

\* Mutant: master0 is not spared.
DeleteAnyInstance(role) == Known(role)

\* len(instances) > Count: DeleteInstances of as many as are too many, never of
\* master0, then the IPList becomes the intersection with what is left.
DeleteCandidates(role) == {i \in Known(role) : i.id # mem.ann["Master0ID"]}

ScaleDownInstances(role) ==
  LET n == Cardinality(Known(role)) - want.count[role]
      k == IF n < Cardinality(DeleteCandidates(role)) THEN n
           ELSE Cardinality(DeleteCandidates(role)) IN
  /\ n > 0
  /\ UNCHANGED next
  /\ \E gone \in SUBSET DeleteCandidates(role) :
       /\ Cardinality(gone) = k
       /\ inst' \in {inst, inst \ gone}
       /\ \/ /\ inst' = inst \ gone /\ UNCHANGED faults
             /\ LET all == Matching(inst', role) IN
                IF InputIPlist(role, all)
                THEN /\ mem' = [mem EXCEPT !.ips[role] = @ \cap Ids(all)]
                     /\ pc' = After[role] /\ snap' = Known(role)
                ELSE Goto("failed") /\ UNCHANGED mem
          \/ Fault("error") /\ Goto("failed") /\ UNCHANGED mem

ReconcileInstances(role) ==
  /\ pc = role
  /\ \/ /\ Cardinality(Known(role)) = want.count[role]
        /\ pc' = After[role] /\ snap' = Known(role)
        /\ UNCHANGED <<inst, next, mem, faults>>
     \/ ScaleUpInstances(role)
     \/ ScaleDownInstances(role)
     \/ Fault("error") /\ Goto("failed") /\ UNCHANGED <<inst, next, mem>>
  /\ UNCHANGED <<cloud, bound, disk, want, applies>>

\* Mutant: the instance is not started again.
ResizedAndOff(i, role, on) == [i EXCEPT !.size = want.size[role], !.on = FALSE]

\* ChangeInstanceType of every instance known before the change whose size
\* differs: stop, modify, start.  An instance that is gone has no status.  With
\* no instance type in stock the instance is restarted as it was.
Resized(i, role, on) == [i EXCEPT !.size = want.size[role], !.on = on]

ChangeInstanceType(role) ==
  LET todo == {i \in snap : i.size # want.size[role]}
      set(some, on) == (inst \ some) \cup {Resized(i, role, on) : i \in some} IN
  /\ pc = (IF role = "Master" THEN "MasterType" ELSE "NodeType")
  /\ \/ /\ todo \subseteq inst /\ inst' = set(todo, TRUE)
        /\ Goto(After[pc]) /\ UNCHANGED faults
     \/ /\ todo # {} /\ todo \subseteq inst /\ inst' = (inst \ todo) \cup {[i EXCEPT !.on = TRUE] : i \in todo}
        /\ Fault("stock") /\ Goto(After[pc])
     \/ \E some \in SUBSET (todo \cap inst) :
          /\ todo \notin SUBSET inst
          /\ inst' = set(some, TRUE)
          /\ Goto("failed") /\ UNCHANGED faults
     \/ \E i \in todo \cap inst, on \in BOOLEAN :
          /\ inst' = (inst \ {i}) \cup {IF on THEN [i EXCEPT !.on = FALSE]
                                              ELSE Resized(i, role, FALSE)}
          /\ Fault("error") /\ Goto("failed")
  /\ UNCHANGED <<cloud, bound, next, mem, disk, want, applies>>

\* BindEipForMaster0: allocate, associate with the first master listed, record.
BindEIP ==
  LET eip(n) == [kind |-> "EipID", id |-> n] IN
  /\ pc = "EipID"
  /\ \/ /\ mem.ann["EipID"] # None
        /\ Goto(After["EipID"]) /\ UNCHANGED <<cloudVars, mem, disk, faults>>
     \/ /\ mem.ann["EipID"] = None
        /\ \E m \in Found(mem, "Master") :
             /\ cloud' = cloud \cup {eip(next)} /\ next' = next + 1
             /\ bound' = [e \in DOMAIN bound \cup {next} |->
                            IF e = next THEN m.id ELSE bound[e]]
             /\ SaveToDisk([mem EXCEPT !.ann["EipID"] = next, !.ann["Master0ID"] = m.id],
                           After["EipID"])
        /\ UNCHANGED inst
     \/ mem.ann["EipID"] = None /\ Found(mem, "Master") # {} /\ RequestFails({eip(next)})
     \/ /\ mem.ann["EipID"] = None /\ Found(mem, "Master") = {}
        /\ Goto("failed") /\ UNCHANGED <<cloudVars, mem, disk, faults>>
  /\ UNCHANGED <<want, applies>>

\* The cluster has a deletion timestamp.
Clearing == pc \in {"ReleaseEIP", "ClearInstances", "DeleteVSwitch", "DeleteSecurityGroup",
                    "DeleteVPC", "clearing", "cleared"}

\* The process dies in the middle of a step or between two: the next one works
\* on the cluster of the file.
Crash ==
  /\ pc \notin {"idle", "cleared"} /\ Fault("crash")
  /\ mem' = disk
  /\ Goto(IF Clearing THEN "clearing" ELSE "failed")
  /\ UNCHANGED <<cloudVars, disk, want, applies>>

------------------------------------------------------------------------------
(* ClearCluster, the Apply of a cluster with a deletion timestamp.         *)

ClearCluster ==
  /\ pc \in {"idle", "done", "failed", "clearing"} /\ applies < MaxApply
  /\ applies' = applies + 1
  /\ Goto("ReleaseEIP")
  /\ UNCHANGED <<cloudVars, mem, disk, want, faults>>

\* DeleteResource logs an error and goes on; annotations stay.
DeleteStep(step, follows, res) ==
  /\ pc = step
  /\ \/ cloud' = cloud \ res /\ UNCHANGED faults
     \/ cloud' = cloud /\ res # {} /\ Fault("error")
  /\ Goto(follows)
  /\ UNCHANGED <<inst, mem, disk, want, next, applies>>

Recorded(key) == {r \in cloud : r.kind = key /\ r.id = mem.ann[key]}

ReleaseEIP ==
  /\ DeleteStep("ReleaseEIP", "ClearInstances", Recorded("EipID"))
  /\ bound' = [e \in {r.id : r \in {x \in cloud' : x.kind = "EipID"}} \cap DOMAIN bound |-> bound[e]]

\* Mutant: only the masters are released.
ClearMasters ==
  /\ pc = "ClearInstances"
  /\ inst' = inst \ Found(mem, "Master")
  /\ Goto("DeleteVSwitch")
  /\ UNCHANGED <<cloud, bound, next, mem, disk, want, applies, faults>>

ClearInstances ==
  /\ pc = "ClearInstances"
  /\ \/ /\ inst' = inst \ UNION {Found(mem, r) : r \in Roles} /\ UNCHANGED faults
     \/ /\ UNCHANGED inst /\ Fault("error")
  /\ Goto("DeleteVSwitch")
  /\ UNCHANGED <<cloud, bound, next, mem, disk, want, applies>>

\* The cloud refuses to delete a switch or a group an instance is in, and a
\* VPC that still has one (external).
Deletable(res) ==
  {r \in res : CASE r.kind = "VSwitchID" -> \A i \in inst : i.vsw # r.id
                 [] r.kind = "SecurityGroupID" -> \A i \in inst : i.sg # r.id
                 [] r.kind = "VpcID" -> \A x \in cloud : x.kind \notin {"VSwitchID", "SecurityGroupID"}
                 [] OTHER -> TRUE}

DeleteVSwitch ==
  /\ DeleteStep("DeleteVSwitch", "DeleteSecurityGroup", Deletable(Recorded("VSwitchID")))
  /\ UNCHANGED bound
DeleteSecurityGroup ==
  /\ DeleteStep("DeleteSecurityGroup", "DeleteVPC", Deletable(Recorded("SecurityGroupID")))
  /\ UNCHANGED bound
DeleteVPC ==
  /\ DeleteStep("DeleteVPC", "cleared", Deletable(Recorded("VpcID")))
  /\ UNCHANGED bound

AliNext ==
  \/ \E w \in Wants : Apply(w)
  \/ CreateVPC \/ GetZoneID \/ CreateVSwitch \/ CreateSecurityGroup
  \/ \E r \in Roles : ReconcileInstances(r) \/ ChangeInstanceType(r)
  \/ BindEIP \/ Crash
  \/ ClearCluster \/ ReleaseEIP \/ ClearInstances \/ DeleteVSwitch \/ DeleteSecurityGroup \/ DeleteVPC

------------------------------------------------------------------------------
(* A resource named in the Clusterfile on disk exists in the cloud, until    *)
(* the cluster is cleared: whatever failed, was lost or crashed, the next    *)
(* Apply does not build on something that is not there.                      *)
SavedIsReal ==
  ~Clearing =>
    \A key \in {"VpcID", "VSwitchID", "SecurityGroupID", "EipID"} :
      disk.ann[key] # None => [kind |-> key, id |-> disk.ann[key]] \in cloud

(* The elastic IP the Clusterfile names is associated with an instance that  *)
(* exists and that is recorded as master0: no scale-down takes it away, even *)
(* one of a process that started from an older file.                         *)
ClusterEIPServes ==
  ~Clearing /\ disk.ann["EipID"] # None =>
    /\ bound[disk.ann["EipID"]] = disk.ann["Master0ID"]
    /\ disk.ann["Master0ID"] \in Ids(inst)

(* When Apply reports success and no request failed before, the cloud is     *)
(* what the Clusterfile asks for: the number of instances, their size, all   *)
(* running, and their addresses are the ones of the IPList.  The Clusterfile *)
(* may have failed to be saved.                                              *)
Converged ==
  pc = "done" /\ (\A k \in DOMAIN faults : faults[k] = "save") =>
    \A r \in Roles : LET mine == {i \in inst : i.role = r} IN
      /\ Cardinality(mine) = want.count[r]
      /\ \A i \in mine : i.on /\ i.size = want.size[r]
      /\ mem.ips[r] = Ids(mine)

(* Without faults, clearing a cluster that was applied any number of times   *)
(* leaves nothing in the cloud.                                              *)
ClearLeavesNothing == pc = "cleared" /\ Faultless => cloud = {} /\ inst = {}
=============================================================================
