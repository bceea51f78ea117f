-------------------------- MODULE ContainerProvider --------------------------
(***************************************************************************)
(* The container provider of pkg/infra: hosts are Docker containers.       *)
(* Apply compares the counts of the Clusterfile with its lists of IPs and  *)
(* runs or removes containers one at a time; an annotation IP -> container *)
(* records what it made.  Docker is external: a request may fail, a        *)
(* container may be created and not start, and the address of a removed    *)
(* container is given out again.                                           *)
(***************************************************************************)
EXTENDS Integers, Sequences, SequencesExt, FiniteSets

CONSTANTS
  Addresses,     \* the addresses of the Docker network
  Counts,        \* the counts a user may ask for, per role
  MaxContainerApply, \* bound: number of Apply calls
  MaxDockerFaults    \* bound: number of requests that fail

VARIABLES
  containers, \* the containers that exist: [id, ip, first]; ip is NoIP if it never started
  dockerd,    \* networks of sealer's name, and whether the base image is there
  recorded,   \* the annotations of the Cluster: IP -> container id
  ipList,     \* Spec.Masters.IPList and Spec.Nodes.IPList
  job,        \* the running Apply: role it works on or outcome, hosts left to add and to
              \* remove per role, addresses that joined, length of the tail to cut off
  lastId,     \* the number of containers created so far
  conApplies, \* number of Apply calls so far
  conFaults   \* the operations that failed so far

conVars == <<containers, dockerd, recorded, ipList, job, lastId, conApplies, conFaults>>

NoIP == "none"
HostRoles == {"master", "node"}

ASSUME ContainerAssumption ==
  /\ NoIP \notin Addresses
  /\ Counts \subseteq Nat
  /\ MaxContainerApply \in Nat /\ MaxDockerFaults \in Nat

NoWork(pc) == [pc |-> pc, join |-> [r \in HostRoles |-> 0], delete |-> [r \in HostRoles |-> <<>>],
               joined |-> <<>>, trim |-> 0]

ContainerInit ==
  /\ containers = {} /\ dockerd \in {[networks |-> n, image |-> n > 0] : n \in {0, 2}}
  /\ recorded = [a \in {} |-> 0]
  /\ ipList = [r \in HostRoles |-> <<>>]
  /\ job = NoWork("idle")
  /\ lastId = 0 /\ conApplies = 0 /\ conFaults = <<>>

Quiet == job.pc \in {"idle", "ok", "failed"}
DockerFails(op) == Len(conFaults) < MaxDockerFaults /\ conFaults' = Append(conFaults, op)

\* Mutant: the head of the list is removed.
GetDiffHead(count, list) ==
  [join |-> IF count > Len(list) THEN count - Len(list) ELSE 0,
   delete |-> SubSeq(list, 1, Len(list) - count)]

\* getDiff: how many hosts to add, or the tail of the list to remove.
GetDiff(count, list) ==
  [join |-> IF count > Len(list) THEN count - Len(list) ELSE 0,
   delete |-> SubSeq(list, count + 1, Len(list))]

\* Apply and the plan of ReconcileContainer.  Nothing is done when the counts
\* are those of the lists; CheckServerInfo may refuse the Docker server of a
\* new cluster.
ReconcileContainer(counts) ==
  LET diff == [r \in HostRoles |-> GetDiff(counts[r], ipList[r])]
      masters == Len(ipList["master"]) + diff["master"].join - Len(diff["master"].delete) IN
  job' = IF \A r \in HostRoles : counts[r] = Len(ipList[r]) THEN NoWork("ok")
         ELSE IF masters <= 0 THEN NoWork("failed")
         ELSE [pc |-> "master", join |-> [r \in HostRoles |-> diff[r].join],
               delete |-> [r \in HostRoles |-> diff[r].delete], joined |-> <<>>,
               trim |-> Len(diff["master"].delete)]

ContainerApply(counts) ==
  /\ Quiet /\ conApplies < MaxContainerApply
  /\ conApplies' = conApplies + 1
  /\ \/ ReconcileContainer(counts) /\ UNCHANGED conFaults
     \/ /\ conApplies = 0 /\ DockerFails("info") /\ job' = NoWork("failed")
  /\ UNCHANGED <<containers, dockerd, recorded, ipList, lastId>>

Role == job.pc
FreeAddresses == Addresses \ {c.ip : c \in containers}

\* Mutant: the lists are not looked at.
FirstOfLoop == job.joined = <<>>

\* The label of the first master is given when no master is listed and it is
\* the first container of the loop.
FirstMaster == ipList["master"] = <<>> /\ job.joined = <<>>

\* One network of the name is kept, or one is created.
PrepareNetworkResource == [dockerd EXCEPT !.networks = 1]
\* The base image is pulled unless it is there.
PullImage(d) == [d EXCEPT !.image = TRUE]

RunContainer(ip) ==
  /\ dockerd' = PullImage(PrepareNetworkResource)
  /\ containers' = containers \cup {[id |-> lastId + 1, ip |-> ip, first |-> FirstMaster]}
  /\ lastId' = lastId + 1

\* One turn of applyToJoin: RunContainer (network, image, create, start), then
\* the container's address, then the password.
ApplyToJoin ==
  /\ Role \in HostRoles /\ job.join[Role] > 0
  /\ \/ \E ip \in FreeAddresses :
          /\ RunContainer(ip)
          /\ \/ /\ recorded' = [a \in DOMAIN recorded \cup {ip} |->
                                  IF a = ip THEN lastId + 1 ELSE recorded[a]]
                /\ job' = [job EXCEPT !.join[Role] = @ - 1, !.joined = Append(@, ip)]
                /\ UNCHANGED conFaults
             \/ \* GetContainerInfo or changeDefaultPasswd
                DockerFails("join") /\ job' = NoWork("failed") /\ UNCHANGED recorded
     \/ /\ DockerFails("run") /\ job' = NoWork("failed") /\ UNCHANGED recorded
        /\ \/ dockerd' \in {dockerd, PrepareNetworkResource} /\ UNCHANGED <<containers, lastId>>
           \/ RunContainer(NoIP)
  /\ UNCHANGED <<ipList, conApplies>>

\* Mutant: the list is replaced.
ReplaceByJoined ==
  /\ Role \in HostRoles /\ job.join[Role] = 0 /\ job.joined # <<>>
  /\ ipList' = [ipList EXCEPT ![Role] = job.joined]
  /\ job' = [job EXCEPT !.joined = <<>>]
  /\ UNCHANGED <<containers, dockerd, recorded, lastId, conApplies, conFaults>>

\* The addresses that joined are appended once all of them are there.
AppendJoined ==
  /\ Role \in HostRoles /\ job.join[Role] = 0 /\ job.joined # <<>>
  /\ ipList' = [ipList EXCEPT ![Role] = @ \o job.joined]
  /\ job' = [job EXCEPT !.joined = <<>>]
  /\ UNCHANGED <<containers, dockerd, recorded, lastId, conApplies, conFaults>>

Without(f, a) == [x \in DOMAIN f \ {a} |-> f[x]]
Removed(id) == {c \in containers : c.id # id}

\* One turn of applyToDelete; an address without annotation is passed over.
\* Docker reports a container that does not exist as an error.
ApplyToDelete ==
  /\ Role \in HostRoles /\ job.join[Role] = 0 /\ job.joined = <<>>
  /\ job.delete[Role] # <<>>
  /\ LET ip == Head(job.delete[Role])
         done == [job EXCEPT !.delete[Role] = Tail(@)] IN
     \/ /\ ip \notin DOMAIN recorded
        /\ job' = done /\ UNCHANGED <<containers, recorded, conFaults>>
     \/ /\ ip \in DOMAIN recorded /\ recorded[ip] \in {c.id : c \in containers}
        /\ containers' = Removed(recorded[ip]) /\ recorded' = Without(recorded, ip)
        /\ job' = done /\ UNCHANGED conFaults
     \/ /\ ip \in DOMAIN recorded
        /\ DockerFails("rm") /\ job' = NoWork("failed") /\ UNCHANGED <<containers, recorded>>
  /\ UNCHANGED <<dockerd, ipList, lastId, conApplies>>

\* The list loses its tail once every removal went through; then the workers.
TrimAndGoOn ==
  /\ Role \in HostRoles /\ job.join[Role] = 0 /\ job.joined = <<>> /\ job.delete[Role] = <<>>
  /\ ipList' = [ipList EXCEPT ![Role] = SubSeq(@, 1, Len(@) - job.trim)]
  /\ job' = IF Role = "master" THEN [job EXCEPT !.pc = "node", !.trim = Len(job.delete["node"])]
                               ELSE NoWork("ok")
  /\ UNCHANGED <<containers, dockerd, recorded, lastId, conApplies, conFaults>>

\* Apply of a cluster with a deletion timestamp: CleanUp goes through the lists
\* and stops at the first error; annotations stay.
CleanUp ==
  /\ Quiet /\ conApplies < MaxContainerApply
  /\ conApplies' = MaxContainerApply
  /\ LET ids(list) == {recorded[list[k]] : k \in {j \in DOMAIN list : list[j] \in DOMAIN recorded}}
         all == ipList["master"] \o ipList["node"] IN
     \/ /\ ids(all) \subseteq {c.id : c \in containers}
        /\ containers' = {c \in containers : c.id \notin ids(all)}
        /\ job' = NoWork("clean") /\ UNCHANGED conFaults
     \/ /\ DockerFails("rm")
        /\ \E n \in 0 .. Len(all) - 1 :
             containers' = {c \in containers : c.id \notin ids(SubSeq(all, 1, n))}
        /\ job' = NoWork("failed")
  /\ UNCHANGED <<dockerd, recorded, ipList, lastId>>

ContainerNext ==
  \/ \E counts \in [HostRoles -> Counts] : ContainerApply(counts)
  \/ ApplyToJoin \/ AppendJoined \/ ApplyToDelete \/ TrimAndGoOn
  \/ CleanUp

------------------------------------------------------------------------------
Listed == Range(ipList["master"]) \cup Range(ipList["node"])
At(ip) == {c \in containers : c.ip = ip /\ ip \in DOMAIN recorded /\ recorded[ip] = c.id}

(* The first master listed, and no other host listed, is the container that *)
(* carries the master label (applyToJoin), whatever failed before.           *)
FirstMasterLabelled ==
  \A ip \in Listed : \A c \in At(ip) : c.first <=> ip = Head(ipList["master"])

(* As long as no removal failed, every host of the lists between two calls   *)
(* of Apply is a running container of its own, recorded in the annotations,  *)
(* so a later scale-down or CleanUp can find it: requests of other kinds may  *)
(* have failed at any point.                                                 *)
ListedHostsRun ==
  Quiet /\ "rm" \notin Range(conFaults) =>
    /\ \A ip \in Listed : At(ip) # {}
    /\ Cardinality(Listed) = Len(ipList["master"]) + Len(ipList["node"])

(* Without failed requests CleanUp leaves no container, through any sequence *)
(* of scale-ups and scale-downs before.                                      *)
CleanUpRemovesAll == job.pc = "clean" /\ conFaults = <<>> => containers = {}
=============================================================================
