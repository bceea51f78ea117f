----------------------- MODULE ContainerProvider_proofs -----------------------
(***************************************************************************)
(* Proofs about the container provider: for every set of addresses, all    *)
(* counts and any number of Apply calls and failed requests of Docker, the *)
(* first listed master alone carries the master label, the listed hosts    *)
(* run, and CleanUp leaves no container.                                   *)
(***************************************************************************)
EXTENDS Infra, FiniteSetTheorems, TLAPS

-------------------------------------------------------------------------------
(* The inductive invariant *)

\* CleanUp uses up the bound of Apply calls: every step starts in such a state.
Managed == job.pc \in HostRoles \/ conApplies < MaxContainerApply

JobStates == {"idle", "ok", "failed", "clean"} \cup HostRoles

Job == [pc : JobStates, join : [HostRoles -> Nat], delete : [HostRoles -> Seq(Addresses)],
        joined : Seq(Addresses), trim : Nat]
Container == [id : Nat, ip : Addresses \cup {NoIP}, first : BOOLEAN]
DockerFaults == {"info", "join", "run", "rm"}

(* The variables have their types. *)
ContainerTypeOK ==
  /\ containers \subseteq Container
  /\ DOMAIN recorded \subseteq Addresses
  /\ recorded \in [DOMAIN recorded -> Nat]
  /\ ipList \in [HostRoles -> Seq(Addresses)]
  /\ job \in Job
  /\ lastId \in Nat /\ conApplies \in Nat
  /\ conFaults \in Seq(DockerFaults)

(* Docker's side: ids and addresses are of one container each, and an       *)
(* annotation names a container that has the address it is filed under.     *)
IdsUnique ==
  /\ \A c \in containers : c.id <= lastId
  /\ \A c, d \in containers : c.id = d.id => c = d
AddressesUnique == \A c, d \in containers : c.ip = d.ip /\ c.ip # NoIP => c = d
AnnotationsTrue ==
  \A a \in DOMAIN recorded : \E c \in containers : c.id = recorded[a] /\ c.ip = a

(* The job: hosts are added or removed, never both; what is left to remove  *)
(* is the end of the list; and one master stays.                            *)
AddOrRemove ==
  /\ job.pc \in HostRoles /\ (job.join[job.pc] > 0 \/ job.joined # <<>>) =>
       job.trim = 0 /\ job.delete[job.pc] = <<>>
  /\ \A r \in HostRoles : job.join[r] > 0 => job.delete[r] = <<>>
DeleteIsTail ==
  /\ job.pc \in HostRoles =>
       Len(job.delete[job.pc]) <= job.trim /\ job.trim <= Len(ipList[job.pc])
  /\ \A r \in HostRoles :
       /\ Len(job.delete[r]) <= Len(ipList[r])
       /\ \A k \in 1 .. Len(job.delete[r]) :
            job.delete[r][k] = ipList[r][Len(ipList[r]) - Len(job.delete[r]) + k]
OneMasterStays ==
  /\ job.pc = "master" => Len(ipList["master"]) + Len(job.joined) + job.join["master"] > job.trim
  /\ job.pc = "node" \/ ipList["node"] # <<>> => ipList["master"] # <<>>
  /\ job.pc \notin HostRoles => Quiet /\ job = NoWork(job.pc)

\* The hosts listed, and those the running loop has made.
Mine == Listed \cup Range(job.joined)
AnyMaster == ipList["master"] # <<>> \/ job.joined # <<>>
FirstHost == IF ipList["master"] # <<>> THEN Head(ipList["master"]) ELSE Head(job.joined)

(* The first host runs, is not to be removed, and is the only one of the    *)
(* cluster's hosts whose container has the label.                           *)
FirstHostRuns == AnyMaster => FirstHost \in DOMAIN recorded
FirstHostOnce ==
  /\ \A k \in DOMAIN ipList["master"] : ipList["master"][k] = FirstHost => k = 1
  /\ \A k \in DOMAIN ipList["node"] : ipList["node"][k] # FirstHost
  /\ \A k \in DOMAIN job.joined : job.joined[k] = FirstHost => ipList["master"] = <<>> /\ k = 1
LabelInv == \A ip \in Mine : \A c \in At(ip) : c.first <=> ip = FirstHost

\* The part of the list whose containers applyToDelete has removed.
Gone(r) ==
  {k \in DOMAIN ipList[r] : /\ r = job.pc
                            /\ k > Len(ipList[r]) - job.trim
                            /\ k <= Len(ipList[r]) - Len(job.delete[r])}

NoFailedRemoval == "rm" \notin Range(conFaults)

(* As long as no removal failed, a listed host runs unless the loop removed *)
(* it, and no two hosts of the lists are the same.                          *)
HostsRun ==
  NoFailedRemoval =>
    /\ \A r \in HostRoles : \A k \in DOMAIN ipList[r] :
         ipList[r][k] \in DOMAIN recorded <=> k \notin Gone(r)
    /\ \A k \in DOMAIN job.joined : job.joined[k] \in DOMAIN recorded
HostsDistinct ==
  NoFailedRemoval =>
    /\ \A r \in HostRoles : \A k, l \in DOMAIN ipList[r] : ipList[r][k] = ipList[r][l] => k = l
    /\ \A k \in DOMAIN ipList["master"] : \A l \in DOMAIN ipList["node"] :
         ipList["master"][k] # ipList["node"][l]
    /\ \A k, l \in DOMAIN job.joined : job.joined[k] = job.joined[l] => k = l
    /\ \A r \in HostRoles : \A k \in DOMAIN ipList[r] : \A l \in DOMAIN job.joined :
         ipList[r][k] # job.joined[l]

(* Without a failed request every container is one of the cluster's hosts.  *)
AllMine ==
  conFaults = <<>> => \A c \in containers : c.ip \in DOMAIN recorded /\ c.ip \in Mine

DockerInv == IdsUnique /\ AddressesUnique /\ AnnotationsTrue
JobInv == AddOrRemove /\ DeleteIsTail /\ OneMasterStays
FirstInv == FirstHostRuns /\ FirstHostOnce /\ LabelInv
ManagedInv == DockerInv /\ JobInv /\ FirstInv /\ HostsRun /\ HostsDistinct /\ AllMine

ContainerInv ==
  /\ ContainerTypeOK
  /\ Managed => ManagedInv
  /\ FirstMasterLabelled /\ ListedHostsRun /\ CleanUpRemovesAll

-------------------------------------------------------------------------------
(* The parts of the state *)

LEMMA JobFields ==
  ASSUME ContainerTypeOK
  PROVE  /\ job.pc \in JobStates /\ job.join \in [HostRoles -> Nat]
         /\ job.delete \in [HostRoles -> Seq(Addresses)]
         /\ job.joined \in Seq(Addresses) /\ job.trim \in Nat
         /\ ipList \in [HostRoles -> Seq(Addresses)]
         /\ \A r \in HostRoles : /\ job.join[r] \in Nat /\ job.delete[r] \in Seq(Addresses)
                                 /\ ipList[r] \in Seq(Addresses)
  BY DEF ContainerTypeOK, Job

LEMMA NoWorkFields ==
  ASSUME NEW p \in JobStates
  PROVE  /\ NoWork(p) \in Job
         /\ NoWork(p).pc = p /\ NoWork(p).joined = <<>> /\ NoWork(p).trim = 0
         /\ \A r \in HostRoles : NoWork(p).join[r] = 0 /\ NoWork(p).delete[r] = <<>>
  BY DEF NoWork, Job

LEMMA FaultRecorded ==
  ASSUME ContainerTypeOK, NEW op \in DockerFaults, DockerFails(op)
  PROVE  /\ conFaults' \in Seq(DockerFaults) /\ conFaults' # <<>>
         /\ op \in Range(conFaults')
         /\ Range(conFaults) \subseteq Range(conFaults')
<1>1. conFaults \in Seq(DockerFaults) /\ conFaults' = Append(conFaults, op)
  BY DEF ContainerTypeOK, DockerFails
<1>2. conFaults'[Len(conFaults) + 1] = op /\ Len(conFaults) + 1 \in DOMAIN conFaults'
  BY <1>1
<1>3. \A k \in DOMAIN conFaults : k \in DOMAIN conFaults' /\ conFaults'[k] = conFaults[k]
  BY <1>1
<1>4. conFaults' \in Seq(DockerFaults) /\ conFaults' # <<>>
  BY <1>1
<1> QED
  BY <1>2, <1>3, <1>4 DEF Range

\* A container in use keeps its address from others.
LEMMA RecordedIsTaken ==
  ASSUME ContainerTypeOK, DockerInv, NEW a \in DOMAIN recorded
  PROVE  /\ a \notin FreeAddresses /\ recorded[a] <= lastId /\ recorded[a] \in Nat
         /\ At(a) # {}
<1>1. PICK c \in containers : c.id = recorded[a] /\ c.ip = a
  BY DEF DockerInv, AnnotationsTrue
<1> QED
  BY <1>1 DEF FreeAddresses, DockerInv, IdsUnique, ContainerTypeOK, At

\* No host of the list is gone when no work is going on, or while hosts are added.
LEMMA NothingGone ==
  ASSUME ContainerTypeOK, JobInv, NEW r \in HostRoles,
         \/ job.pc \notin HostRoles
         \/ job.pc \in HostRoles /\ (job.join[job.pc] > 0 \/ job.joined # <<>>)
  PROVE  Gone(r) = {}
<1>1. r # job.pc \/ job.trim = 0
  BY JobFields DEF JobInv, AddOrRemove
<1> QED
  BY <1>1, JobFields DEF Gone

-------------------------------------------------------------------------------
(* Ends of a job *)

\* The job ends and the lists are those of before: what runs is what ran, except
\* for containers no annotation names.
LEMMA JobEnds ==
  ASSUME ContainerTypeOK, ManagedInv, NEW p \in {"ok", "failed"}, job' = NoWork(p),
         UNCHANGED <<ipList, recorded>>, DockerInv', Range(conFaults) \subseteq Range(conFaults'),
         \A c \in containers' \ containers : c.id > lastId,
         \/ "rm" \in Range(conFaults')
         \/ \A r \in HostRoles : Gone(r) = {},
         \/ conFaults' # <<>>
         \/ containers' = containers /\ job.joined = <<>> /\ conFaults = conFaults'
  PROVE  ManagedInv'
<1>1. /\ p \in JobStates /\ p \notin HostRoles
      /\ job'.pc = p /\ job'.joined = <<>> /\ job'.trim = 0
      /\ \A r \in HostRoles : job'.join[r] = 0 /\ job'.delete[r] = <<>>
  BY NoWorkFields DEF JobStates, HostRoles
<1>2. JobInv'
  <2>1. AddOrRemove' /\ OneMasterStays'
    BY <1>1 DEF ManagedInv, JobInv, AddOrRemove, OneMasterStays, HostRoles, Quiet
  <2>2. DeleteIsTail'
    <3>1. \A r \in HostRoles : Len(job'.delete[r]) = 0 /\ Len(ipList'[r]) \in Nat
      BY <1>1, JobFields
    <3>2. ~(job'.pc \in HostRoles)
      BY <1>1
    <3>3. \A r \in HostRoles : Len(job'.delete[r]) <= Len(ipList'[r])
      BY <3>1
    <3>4. \A r \in HostRoles : \A k \in 1 .. Len(job'.delete[r]) :
            job'.delete[r][k] = ipList'[r][Len(ipList'[r]) - Len(job'.delete[r]) + k]
      BY <3>1
    <3> QED
      BY <3>2, <3>3, <3>4, Zenon DEF DeleteIsTail
  <2> QED
    BY <2>1, <2>2 DEF JobInv
<1>3. Listed' = Listed /\ Mine' = Listed /\ Listed \subseteq Mine
  BY <1>1 DEF Listed, Mine, Range
<1>4. \A ip : At(ip)' \subseteq At(ip)
  <2> SUFFICES ASSUME NEW ip, NEW c \in containers', c.ip = ip, ip \in DOMAIN recorded, recorded[ip] = c.id
               PROVE  c \in containers
    BY DEF At
  <2>1. recorded[ip] <= lastId /\ recorded[ip] \in Nat /\ lastId \in Nat
    BY RecordedIsTaken DEF ManagedInv, ContainerTypeOK
  <2> QED
    BY <2>1
<1>5. AnyMaster' => AnyMaster /\ FirstHost' = FirstHost /\ ipList["master"] # <<>>
  BY <1>1 DEF AnyMaster, FirstHost
<1>6. FirstHostRuns'
  BY <1>5 DEF FirstHostRuns, ManagedInv, FirstInv
<1>7. FirstHostOnce'
  <2>1. CASE ipList["master"] = <<>>
    BY <2>1, <1>1 DEF FirstHostOnce, ManagedInv, JobInv, OneMasterStays
  <2>2. CASE ipList["master"] # <<>>
    BY <2>2, <1>1, <1>5 DEF FirstHostOnce, ManagedInv, FirstInv, AnyMaster
  <2> QED
    BY <2>1, <2>2
<1>8. LabelInv'
  <2>1. CASE ipList["master"] = <<>>
    BY <2>1, <1>3 DEF LabelInv, ManagedInv, JobInv, OneMasterStays, Listed, Range
  <2>2. CASE ipList["master"] # <<>>
    BY <2>2, <1>3, <1>4, <1>5 DEF LabelInv, ManagedInv, FirstInv, AnyMaster
  <2> QED
    BY <2>1, <2>2
<1>9. \A r \in HostRoles : Gone(r)' = {}
  BY <1>1 DEF Gone
<1>10. HostsRun'
  BY <1>1, <1>9 DEF HostsRun, NoFailedRemoval, ManagedInv
<1>11. HostsDistinct'
  BY <1>1 DEF HostsDistinct, NoFailedRemoval, ManagedInv
<1>12. AllMine'
  BY <1>3 DEF AllMine, ManagedInv, Mine, Range
<1> QED
  BY <1>2, <1>6, <1>7, <1>8, <1>10, <1>11, <1>12 DEF ManagedInv, FirstInv

-------------------------------------------------------------------------------
(* Apply *)

\* getDiff adds hosts or cuts the end of the list off.
LEMMA DiffFacts ==
  ASSUME NEW list \in Seq(Addresses), NEW count \in Nat
  PROVE  /\ GetDiff(count, list).join \in Nat
         /\ GetDiff(count, list).delete \in Seq(Addresses)
         /\ GetDiff(count, list).join > 0 => GetDiff(count, list).delete = <<>>
         /\ Len(GetDiff(count, list).delete) <= Len(list)
         /\ \A k \in 1 .. Len(GetDiff(count, list).delete) :
              GetDiff(count, list).delete[k] = list[Len(list) - Len(GetDiff(count, list).delete) + k]
<1> DEFINE d == SubSeq(list, count + 1, Len(list))
<1>1. /\ GetDiff(count, list).delete = d
      /\ GetDiff(count, list).join = IF count > Len(list) THEN count - Len(list) ELSE 0
  BY DEF GetDiff
<1>2. CASE count >= Len(list)
  <2>1. d = <<>> /\ Len(d) = 0 /\ d \in Seq(Addresses)
    BY <1>2
  <2> HIDE DEF d
  <2>2. GetDiff(count, list).join \in Nat
    BY <1>1, <1>2
  <2>3. Len(GetDiff(count, list).delete) = 0 /\ Len(list) \in Nat
    BY <1>1, <2>1
  <2> QED
    BY <1>1, <2>1, <2>2, <2>3
<1>3. CASE count < Len(list)
  <2>1. d \in Seq(Addresses) /\ Len(d) = Len(list) - count
    BY <1>3
  <2>2. \A k \in 1 .. Len(d) : d[k] = list[count + k]
    BY <1>3
  <2>3. Len(list) - Len(d) = count
    BY <1>3, <2>1
  <2> HIDE DEF d
  <2> QED
    BY <1>1, <1>3, <2>1, <2>2, <2>3
<1>4. count >= Len(list) \/ count < Len(list)
  OBVIOUS
<1> QED
  BY <1>2, <1>3, <1>4, Zenon

\* The plan of a job is within the lists.
LEMMA PlanFields ==
  ASSUME ContainerTypeOK, NEW counts \in [HostRoles -> Counts], ReconcileContainer(counts)
  PROVE  \/ \E p \in {"ok", "failed"} : job' = NoWork(p)
         \/ /\ job' \in Job /\ job'.pc = "master" /\ job'.joined = <<>>
            /\ job'.trim = Len(job'.delete["master"])
            /\ \A r \in HostRoles :
                 /\ job'.join[r] > 0 => job'.delete[r] = <<>>
                 /\ Len(job'.delete[r]) <= Len(ipList[r])
                 /\ \A k \in 1 .. Len(job'.delete[r]) :
                      job'.delete[r][k] = ipList[r][Len(ipList[r]) - Len(job'.delete[r]) + k]
            /\ Len(ipList["master"]) + job'.join["master"] > job'.trim
<1> DEFINE diff == [r \in HostRoles |-> GetDiff(counts[r], ipList[r])]
           masters == Len(ipList["master"]) + diff["master"].join - Len(diff["master"].delete)
           plan == [pc |-> "master", join |-> [r \in HostRoles |-> diff[r].join],
                    delete |-> [r \in HostRoles |-> diff[r].delete], joined |-> <<>>,
                    trim |-> Len(diff["master"].delete)]
<1>1. CASE \E p \in {"ok", "failed"} : job' = NoWork(p)
  BY <1>1
<1>2. CASE job' = plan /\ ~(masters <= 0)
  <2>1. \A r \in HostRoles : counts[r] \in Nat /\ ipList[r] \in Seq(Addresses)
    BY JobFields, ContainerAssumption
  <2>2. \A r \in HostRoles :
          /\ diff[r].join \in Nat /\ diff[r].delete \in Seq(Addresses)
          /\ diff[r].join > 0 => diff[r].delete = <<>>
          /\ Len(diff[r].delete) <= Len(ipList[r])
          /\ \A k \in 1 .. Len(diff[r].delete) :
               diff[r].delete[k] = ipList[r][Len(ipList[r]) - Len(diff[r].delete) + k]
    BY <2>1, DiffFacts
  <2> HIDE DEF diff
  <2>3. "master" \in HostRoles /\ "master" \in JobStates
    BY DEF HostRoles, JobStates
  <2>4. Len(diff["master"].delete) \in Nat /\ Len(ipList["master"]) \in Nat
    BY <2>1, <2>2, <2>3
  <2>5. plan \in Job
    <3>1. [r \in HostRoles |-> diff[r].join] \in [HostRoles -> Nat]
      BY <2>2
    <3>2. [r \in HostRoles |-> diff[r].delete] \in [HostRoles -> Seq(Addresses)]
      BY <2>2
    <3>3. <<>> \in Seq(Addresses)
      OBVIOUS
    <3> QED
      BY <2>3, <2>4, <3>1, <3>2, <3>3, Zenon DEF Job
  <2>6. \A r \in HostRoles : plan.join[r] = diff[r].join /\ plan.delete[r] = diff[r].delete
    OBVIOUS
  <2>7. plan.pc = "master" /\ plan.joined = <<>> /\ plan.trim = Len(diff["master"].delete)
    OBVIOUS
  <2>8. Len(ipList["master"]) + diff["master"].join > Len(diff["master"].delete)
    <3>1. ~(masters <= 0)
      BY <1>2
    <3>2. diff["master"].join \in Nat
      BY <2>2, <2>3
    <3> QED
      BY <2>4, <3>1, <3>2
  <2> HIDE DEF plan
  <2>9. job' = plan
    BY <1>2
  <2>10. \A r \in HostRoles :
           /\ job'.join[r] > 0 => job'.delete[r] = <<>>
           /\ Len(job'.delete[r]) <= Len(ipList[r])
           /\ \A k \in 1 .. Len(job'.delete[r]) :
                job'.delete[r][k] = ipList[r][Len(ipList[r]) - Len(job'.delete[r]) + k]
    BY <2>2, <2>6, <2>9, Zenon
  <2>11. /\ job'.trim = Len(job'.delete["master"])
         /\ Len(ipList["master"]) + job'.join["master"] > job'.trim
    BY <2>3, <2>6, <2>7, <2>8, <2>9
  <2> QED
    BY <2>5, <2>7, <2>9, <2>10, <2>11
<1> QED
  BY <1>1, <1>2 DEF ReconcileContainer

LEMMA ApplyStep ==
  ASSUME ContainerTypeOK, ManagedInv, NEW counts \in [HostRoles -> Counts], ContainerApply(counts)
  PROVE  ContainerTypeOK' /\ ManagedInv'
<1>1. /\ Quiet /\ conApplies' = conApplies + 1
      /\ UNCHANGED <<containers, dockerd, recorded, ipList, lastId>>
  BY DEF ContainerApply
<1>2. DockerInv'
  BY <1>1 DEF ManagedInv, DockerInv, IdsUnique, AddressesUnique, AnnotationsTrue
<1>3. job.pc \notin HostRoles
  BY <1>1 DEF Quiet, HostRoles
<1>4. /\ job.joined = <<>> /\ job.trim = 0
      /\ \A r \in HostRoles : Gone(r) = {}
  <2>1. job = NoWork(job.pc)
    BY <1>3 DEF ManagedInv, JobInv, OneMasterStays
  <2>2. \A r \in HostRoles : Gone(r) = {}
    BY <1>3, NothingGone DEF ManagedInv
  <2> QED
    BY <2>1, <2>2, NoWorkFields, JobFields
<1>5. CASE ReconcileContainer(counts) /\ UNCHANGED conFaults
  <2>1. CASE \E p \in {"ok", "failed"} : job' = NoWork(p)
    <3>1. PICK p \in {"ok", "failed"} : job' = NoWork(p)
      BY <2>1
    <3>2. p \in JobStates
      BY DEF JobStates
    <3>3. ManagedInv'
      BY <1>1, <1>2, <1>4, <1>5, <3>1, JobEnds
    <3>4. ContainerTypeOK'
      BY <1>1, <1>5, <3>1, <3>2, NoWorkFields DEF ContainerTypeOK
    <3> QED
      BY <3>3, <3>4
  <2>2. CASE /\ job' \in Job /\ job'.pc = "master" /\ job'.joined = <<>>
             /\ job'.trim = Len(job'.delete["master"])
             /\ \A r \in HostRoles :
                  /\ job'.join[r] > 0 => job'.delete[r] = <<>>
                  /\ Len(job'.delete[r]) <= Len(ipList[r])
                  /\ \A k \in 1 .. Len(job'.delete[r]) :
                       job'.delete[r][k] = ipList[r][Len(ipList[r]) - Len(job'.delete[r]) + k]
             /\ Len(ipList["master"]) + job'.join["master"] > job'.trim
    <3>1. ContainerTypeOK'
      BY <1>1, <1>5, <2>2 DEF ContainerTypeOK
    <3>2. "master" \in HostRoles /\ "master" # "node"
      BY DEF HostRoles
    <3>3. /\ Len(job'.delete["master"]) \in Nat /\ Len(ipList["master"]) \in Nat
          /\ job'.join["master"] \in Nat /\ Len(job'.joined) = 0
      BY <2>2, <3>2, JobFields DEF Job
    <3>4. JobInv'
      <4>1. AddOrRemove'
        BY <2>2, <3>2 DEF AddOrRemove
      <4>2. DeleteIsTail'
        <5>1. Len(job'.delete[job'.pc]) <= job'.trim /\ job'.trim <= Len(ipList'[job'.pc])
          <6>1. job'.pc = "master" /\ ipList' = ipList
            BY <1>1, <2>2
          <6>2. Len(job'.delete["master"]) <= Len(ipList["master"]) /\ job'.trim = Len(job'.delete["master"])
            BY <2>2, <3>2
          <6> QED
            BY <3>3, <6>1, <6>2
        <5>2. ipList' = ipList
          BY <1>1
        <5> QED
          BY <2>2, <5>1, <5>2, Zenon DEF DeleteIsTail
      <4>3. OneMasterStays'
        BY <1>1, <2>2, <3>2, <3>3 DEF OneMasterStays, ManagedInv, JobInv
      <4> QED
        BY <4>1, <4>2, <4>3 DEF JobInv
    <3>5. Mine' = Mine /\ AnyMaster' = AnyMaster /\ FirstHost' = FirstHost /\ \A ip : At(ip)' = At(ip)
      BY <1>1, <1>4, <2>2 DEF Mine, Listed, AnyMaster, FirstHost, At
    <3>6. FirstInv'
      BY <1>1, <1>4, <2>2, <3>5 DEF FirstInv, ManagedInv, FirstHostRuns, FirstHostOnce, LabelInv
    <3>7. \A r \in HostRoles : Gone(r)' = {}
      <4>1. ASSUME NEW r \in HostRoles, NEW k \in Gone(r)'
            PROVE  FALSE
        <5>1. /\ r = "master" /\ k > Len(ipList[r]) - job'.trim
              /\ k <= Len(ipList[r]) - Len(job'.delete[r]) /\ k \in DOMAIN ipList[r]
          BY <1>1, <2>2, <4>1 DEF Gone
        <5>2. k \in Nat
          BY <5>1, JobFields, <4>1
        <5>3. Len(job'.delete[r]) = job'.trim /\ Len(job'.delete[r]) \in Nat
              /\ Len(ipList[r]) \in Nat
          BY <2>2, <3>3, <5>1
        <5> QED
          BY <5>1, <5>2, <5>3
      <4> QED
        BY <4>1
    <3>8. HostsRun'
      BY <1>1, <1>4, <1>5, <2>2, <3>7 DEF HostsRun, NoFailedRemoval, ManagedInv
    <3>9. HostsDistinct'
      BY <1>1, <1>4, <1>5, <2>2 DEF HostsDistinct, NoFailedRemoval, ManagedInv
    <3>10. AllMine'
      BY <1>1, <1>5, <3>5 DEF AllMine, ManagedInv
    <3> QED
      BY <1>2, <3>1, <3>4, <3>6, <3>8, <3>9, <3>10 DEF ManagedInv
  <2> QED
    BY <1>5, <2>1, <2>2, PlanFields
<1>6. CASE conApplies = 0 /\ DockerFails("info") /\ job' = NoWork("failed")
  <2>1. conFaults' \in Seq(DockerFaults) /\ conFaults' # <<>> /\ Range(conFaults) \subseteq Range(conFaults')
    BY <1>6, FaultRecorded DEF DockerFaults
  <2>2. ManagedInv'
    BY <1>1, <1>2, <1>4, <1>6, <2>1, JobEnds
  <2>3. ContainerTypeOK'
    BY <1>1, <1>6, <2>1, NoWorkFields DEF ContainerTypeOK, JobStates
  <2> QED
    BY <2>2, <2>3
<1> QED
  BY <1>5, <1>6 DEF ContainerApply

-------------------------------------------------------------------------------
(* Hosts are added *)

\* A new container has an id and, if it started, an address of its own.
LEMMA RunKeepsDocker ==
  ASSUME ContainerTypeOK, DockerInv, NEW ip \in FreeAddresses \cup {NoIP}, RunContainer(ip),
         \/ recorded' = recorded
         \/ /\ ip \in FreeAddresses
            /\ recorded' = [a \in DOMAIN recorded \cup {ip} |-> IF a = ip THEN lastId + 1 ELSE recorded[a]]
  PROVE  /\ containers' \subseteq Container /\ lastId' \in Nat /\ DockerInv'
         /\ \A c \in containers' \ containers : c.id > lastId
<1> DEFINE new == [id |-> lastId + 1, ip |-> ip, first |-> FirstMaster]
<1>1. lastId \in Nat /\ lastId' = lastId + 1 /\ containers' = containers \cup {new}
  BY DEF RunContainer, ContainerTypeOK
<1>2. new \in Container /\ new.id = lastId + 1 /\ new.ip = ip
  BY <1>1 DEF Container, FreeAddresses, FirstMaster
<1>3. \A c \in containers : c.id \in Nat /\ c.id <= lastId
  BY DEF ContainerTypeOK, Container, DockerInv, IdsUnique
<1> HIDE DEF new
<1>4. containers' \subseteq Container /\ lastId' \in Nat
  BY <1>1, <1>2 DEF ContainerTypeOK
<1>5. IdsUnique'
  <2>1. \A c \in containers' : c.id <= lastId'
    BY <1>1, <1>2, <1>3
  <2>2. \A c \in containers : c.id # new.id
    BY <1>1, <1>2, <1>3
  <2> QED
    BY <1>1, <2>1, <2>2 DEF IdsUnique, DockerInv
<1>6. AddressesUnique'
  <2>1. \A c \in containers : new.ip # NoIP => c.ip # new.ip
    BY <1>2 DEF FreeAddresses
  <2> QED
    BY <1>1, <2>1 DEF AddressesUnique, DockerInv
<1>7. AnnotationsTrue'
  <2>1. CASE recorded' = recorded
    BY <1>1, <2>1 DEF AnnotationsTrue, DockerInv
  <2>2. CASE recorded' = [a \in DOMAIN recorded \cup {ip} |-> IF a = ip THEN lastId + 1 ELSE recorded[a]]
    BY <1>1, <1>2, <2>2 DEF AnnotationsTrue, DockerInv
  <2> QED
    BY <2>1, <2>2
<1>8. \A c \in containers' \ containers : c.id > lastId
  BY <1>1, <1>2
<1> QED
  BY <1>4, <1>5, <1>6, <1>7, <1>8 DEF DockerInv

\* The job after one more host.
LEMMA JoinedFields ==
  ASSUME ContainerTypeOK, job.pc \in HostRoles, job.join[job.pc] > 0, NEW ip \in Addresses,
         job' = [job EXCEPT !.join[Role] = @ - 1, !.joined = Append(@, ip)]
  PROVE  /\ job' \in Job /\ job'.pc = job.pc /\ job'.delete = job.delete /\ job'.trim = job.trim
         /\ job'.join[job.pc] = job.join[job.pc] - 1
         /\ \A r \in HostRoles : r # job.pc => job'.join[r] = job.join[r]
         /\ job'.joined = Append(job.joined, ip)
<1>1. job \in Job /\ Role = job.pc
  BY DEF ContainerTypeOK, Role
<1>2. job' = [job EXCEPT !.join = [job.join EXCEPT ![Role] = @ - 1], !.joined = Append(job.joined, ip)]
  BY <1>1 DEF Job
<1>3. [job.join EXCEPT ![Role] = @ - 1] \in [HostRoles -> Nat]
  BY <1>1, JobFields
<1>4. Append(job.joined, ip) \in Seq(Addresses)
  BY JobFields
<1>5. job' \in Job
  BY <1>1, <1>2, <1>3, <1>4 DEF Job
<1>6. /\ job'.pc = job.pc /\ job'.delete = job.delete /\ job'.trim = job.trim
      /\ job'.joined = Append(job.joined, ip) /\ job'.join = [job.join EXCEPT ![Role] = @ - 1]
  BY <1>1, <1>2 DEF Job
<1> QED
  BY <1>1, <1>5, <1>6, JobFields

\* What a longer sequence holds.
LEMMA Appended ==
  ASSUME NEW S, NEW s \in Seq(S), NEW x \in S
  PROVE  /\ Append(s, x) # <<>> /\ Len(Append(s, x)) = Len(s) + 1 /\ Len(s) \in Nat
         /\ DOMAIN Append(s, x) = DOMAIN s \cup {Len(s) + 1} /\ Len(s) + 1 \notin DOMAIN s
         /\ DOMAIN s \subseteq Nat
         /\ \A k \in DOMAIN s : Append(s, x)[k] = s[k]
         /\ Append(s, x)[Len(s) + 1] = x
         /\ Range(Append(s, x)) = Range(s) \cup {x}
         /\ s # <<>> => Head(Append(s, x)) = Head(s)
         /\ s = <<>> => Head(Append(s, x)) = x /\ Len(s) = 0
<1>1. DOMAIN Append(s, x) = DOMAIN s \cup {Len(s) + 1}
  OBVIOUS
<1>2. (\A k \in DOMAIN s : Append(s, x)[k] = s[k]) /\ Append(s, x)[Len(s) + 1] = x
  OBVIOUS
<1>3. Range(Append(s, x)) = Range(s) \cup {x}
  BY <1>1, <1>2 DEF Range
<1> QED
  BY <1>1, <1>2, <1>3

LEMMA HostJoined ==
  ASSUME ContainerTypeOK, ManagedInv, job.pc \in HostRoles, job.join[job.pc] > 0,
         NEW ip \in FreeAddresses, RunContainer(ip),
         recorded' = [a \in DOMAIN recorded \cup {ip} |-> IF a = ip THEN lastId + 1 ELSE recorded[a]],
         job' = [job EXCEPT !.join[Role] = @ - 1, !.joined = Append(@, ip)],
         UNCHANGED <<ipList, conApplies, conFaults>>
  PROVE  ContainerTypeOK' /\ ManagedInv'
<1>1. ip \in Addresses /\ ip # NoIP /\ ip \notin DOMAIN recorded
  <2>1. ip \notin DOMAIN recorded
    BY RecordedIsTaken DEF ManagedInv
  <2> QED
    BY <2>1, ContainerAssumption DEF FreeAddresses
<1>2. /\ job' \in Job /\ job'.pc = job.pc /\ job'.delete = job.delete /\ job'.trim = job.trim
      /\ job'.join[job.pc] = job.join[job.pc] - 1
      /\ \A r \in HostRoles : r # job.pc => job'.join[r] = job.join[r]
      /\ job'.joined = Append(job.joined, ip)
  BY <1>1, JoinedFields
<1>3. containers' \subseteq Container /\ lastId' \in Nat /\ DockerInv'
  BY RunKeepsDocker DEF ManagedInv
<1>4. ContainerTypeOK'
  <2>1. DOMAIN recorded' = DOMAIN recorded \cup {ip} /\ recorded' \in [DOMAIN recorded' -> Nat]
    BY DEF ContainerTypeOK
  <2> QED
    BY <1>1, <1>2, <1>3, <2>1 DEF ContainerTypeOK
<1>5. job.trim = 0 /\ job.delete[job.pc] = <<>>
  BY DEF ManagedInv, JobInv, AddOrRemove
<1>6. /\ job'.joined # <<>> /\ Len(job'.joined) = Len(job.joined) + 1 /\ Len(job.joined) \in Nat
      /\ DOMAIN job'.joined = DOMAIN job.joined \cup {Len(job.joined) + 1}
      /\ Len(job.joined) + 1 \notin DOMAIN job.joined /\ DOMAIN job.joined \subseteq Nat
      /\ \A k \in DOMAIN job.joined : job'.joined[k] = job.joined[k]
      /\ job'.joined[Len(job.joined) + 1] = ip
      /\ Range(job'.joined) = Range(job.joined) \cup {ip}
      /\ job.joined # <<>> => Head(job'.joined) = Head(job.joined)
      /\ job.joined = <<>> => Head(job'.joined) = ip /\ Len(job.joined) = 0
  BY <1>1, <1>2, Appended, JobFields
<1>7. JobInv'
  <2>1. AddOrRemove'
    BY <1>2, <1>5, JobFields DEF ManagedInv, JobInv, AddOrRemove
  <2>2. DeleteIsTail'
    <3>1. ipList' = ipList
      OBVIOUS
    <3>2. DeleteIsTail
      BY DEF ManagedInv, JobInv
    <3>3. job'.pc = job.pc /\ job'.delete = job.delete /\ job'.trim = job.trim
      BY <1>2
    <3> QED
      BY <3>1, <3>2, <3>3, SMT DEF DeleteIsTail
  <2>3. OneMasterStays'
    <3>1. job'.pc \in HostRoles
      BY <1>2
    <3>2. /\ job.pc = "master" => Len(ipList["master"]) + Len(job.joined) + job.join["master"] > job.trim
          /\ job.pc = "node" \/ ipList["node"] # <<>> => ipList["master"] # <<>>
      BY DEF ManagedInv, JobInv, OneMasterStays
    <3>3. Len(ipList["master"]) \in Nat /\ job.join["master"] \in Nat
      BY JobFields DEF HostRoles
    <3>4. job.pc = "master" =>
            Len(ipList'["master"]) + Len(job'.joined) + job'.join["master"] > job'.trim
      <4> SUFFICES ASSUME job.pc = "master"
                   PROVE  Len(ipList["master"]) + Len(job'.joined) + job'.join["master"] > job'.trim
        OBVIOUS
      <4>1. /\ Len(job'.joined) = Len(job.joined) + 1 /\ job'.trim = 0
            /\ job'.join["master"] = job.join["master"] - 1 /\ Len(job.joined) \in Nat
            /\ job.join["master"] > 0
        BY <1>2, <1>5, <1>6
      <4>2. ASSUME NEW m \in Nat, NEW n \in Nat, NEW j \in Nat, j > 0
            PROVE  m + (n + 1) + (j - 1) > 0
        BY <4>2
      <4> QED
        BY <3>3, <4>1, <4>2
    <3> QED
      BY <1>2, <3>1, <3>2, <3>4 DEF OneMasterStays
  <2> QED
    BY <2>1, <2>2, <2>3 DEF JobInv
<1>8. Mine' = Mine \cup {ip} /\ Listed' = Listed
  BY <1>6 DEF Mine, Listed
<1>9. AnyMaster' /\ FirstHost' = IF AnyMaster THEN FirstHost ELSE ip
  BY <1>6 DEF AnyMaster, FirstHost
<1>10. AnyMaster => FirstHost \in DOMAIN recorded /\ FirstHost # ip
  BY <1>1 DEF ManagedInv, FirstInv, FirstHostRuns
<1>11. DOMAIN recorded' = DOMAIN recorded \cup {ip}
  OBVIOUS
<1>12. FirstHostRuns'
  BY <1>9, <1>10, <1>11 DEF FirstHostRuns
<1>13. ~AnyMaster => Mine = {} /\ job.pc = "master" /\ ipList["master"] = <<>> /\ ipList["node"] = <<>> /\ job.joined = <<>>
  BY DEF AnyMaster, ManagedInv, JobInv, OneMasterStays, Mine, Listed, Range, HostRoles
<1>14. FirstHostOnce'
  <2>1. CASE AnyMaster
    BY <2>1, <1>6, <1>9, <1>10 DEF FirstHostOnce, ManagedInv, FirstInv
  <2>2. CASE ~AnyMaster
    BY <2>2, <1>6, <1>9, <1>13 DEF FirstHostOnce
  <2> QED
    BY <2>1, <2>2
<1>15. \A a : a # ip => At(a)' \subseteq At(a)
  <2> SUFFICES ASSUME NEW a, a # ip, NEW c \in At(a)'
               PROVE  c \in At(a)
    OBVIOUS
  <2>1. c \in containers' /\ c.ip = a /\ a \in DOMAIN recorded /\ recorded[a] = c.id
    BY <1>11 DEF At
  <2>2. c \in containers
    BY <2>1 DEF RunContainer
  <2> QED
    BY <2>1, <2>2 DEF At
<1>16. \A c \in At(ip)' : c.first <=> ~AnyMaster
  <2> SUFFICES ASSUME NEW c \in At(ip)'
               PROVE  c.first <=> ~AnyMaster
    OBVIOUS
  <2>1. c \in containers' /\ c.ip = ip
    BY DEF At
  <2>2. c \notin containers
    BY <2>1 DEF FreeAddresses
  <2>3. c = [id |-> lastId + 1, ip |-> ip, first |-> FirstMaster]
    BY <2>1, <2>2 DEF RunContainer
  <2> QED
    BY <2>3 DEF FirstMaster, AnyMaster
<1>17. LabelInv'
  <2>1. ASSUME NEW a \in Mine', NEW c \in At(a)', a = ip
        PROVE  c.first <=> a = FirstHost'
    BY <2>1, <1>9, <1>10, <1>16
  <2>2. ASSUME NEW a \in Mine', NEW c \in At(a)', a # ip
        PROVE  c.first <=> a = FirstHost'
    <3>1. a \in Mine /\ c \in At(a) /\ AnyMaster
      BY <2>2, <1>8, <1>13, <1>15
    <3> QED
      BY <3>1, <1>9 DEF LabelInv, ManagedInv, FirstInv
  <2> QED
    BY <2>1, <2>2 DEF LabelInv
<1>18. \A r \in HostRoles : Gone(r) = {} /\ Gone(r)' = {}
  <2>1. \A r \in HostRoles : Gone(r) = {}
    BY NothingGone DEF ManagedInv
  <2>2. \A r \in HostRoles : Gone(r)' = Gone(r)
    BY <1>2 DEF Gone
  <2> QED
    BY <2>1, <2>2
<1>19. HostsRun'
  BY <1>6, <1>11, <1>18 DEF HostsRun, NoFailedRemoval, ManagedInv
<1>20. HostsDistinct'
  <2> SUFFICES ASSUME NoFailedRemoval
               PROVE  HostsDistinct'
    BY DEF HostsDistinct, NoFailedRemoval
  <2>1. /\ \A r \in HostRoles : \A k \in DOMAIN ipList[r] : ipList[r][k] # ip
        /\ \A k \in DOMAIN job.joined : job.joined[k] # ip
    BY <1>1, <1>18 DEF ManagedInv, HostsRun
  <2> QED
    BY <1>6, <2>1 DEF HostsDistinct, ManagedInv
<1>21. AllMine'
  <2>1. \A c \in containers' : c \in containers \/ c.ip = ip
    BY DEF RunContainer
  <2> QED
    BY <1>8, <1>11, <2>1 DEF AllMine, ManagedInv
<1> QED
  BY <1>3, <1>4, <1>7, <1>12, <1>14, <1>17, <1>19, <1>20, <1>21 DEF ManagedInv, FirstInv

LEMMA ApplyToJoinStep ==
  ASSUME ContainerTypeOK, ManagedInv, ApplyToJoin
  PROVE  ContainerTypeOK' /\ ManagedInv'
<1>1. job.pc \in HostRoles /\ job.join[job.pc] > 0 /\ UNCHANGED <<ipList, conApplies>>
  BY DEF ApplyToJoin, Role
<1>2. \A r \in HostRoles : Gone(r) = {}
  BY <1>1, NothingGone DEF ManagedInv
<1>3. ASSUME NEW op \in {"join", "run"}, DockerFails(op), job' = NoWork("failed"), UNCHANGED recorded,
             \/ UNCHANGED <<containers, lastId>>
             \/ \E ip \in FreeAddresses \cup {NoIP} : RunContainer(ip)
      PROVE  ContainerTypeOK' /\ ManagedInv'
  <2>1. conFaults' \in Seq(DockerFaults) /\ conFaults' # <<>> /\ Range(conFaults) \subseteq Range(conFaults')
    BY <1>3, FaultRecorded DEF DockerFaults
  <2>2. /\ containers' \subseteq Container /\ lastId' \in Nat /\ DockerInv'
        /\ \A c \in containers' \ containers : c.id > lastId
    <3>1. CASE UNCHANGED <<containers, lastId>>
      BY <1>3, <3>1 DEF ContainerTypeOK, ManagedInv, DockerInv, IdsUnique, AddressesUnique, AnnotationsTrue
    <3>2. CASE \E ip \in FreeAddresses \cup {NoIP} : RunContainer(ip)
      BY <1>3, <3>2, RunKeepsDocker DEF ManagedInv
    <3> QED
      BY <1>3, <3>1, <3>2
  <2>3. ManagedInv'
    BY <1>1, <1>2, <1>3, <2>1, <2>2, JobEnds
  <2>4. ContainerTypeOK'
    BY <1>1, <1>3, <2>1, <2>2, NoWorkFields DEF ContainerTypeOK, JobStates
  <2> QED
    BY <2>3, <2>4
<1>4. ASSUME NEW ip \in FreeAddresses, RunContainer(ip),
             recorded' = [a \in DOMAIN recorded \cup {ip} |-> IF a = ip THEN lastId + 1 ELSE recorded[a]],
             job' = [job EXCEPT !.join[Role] = @ - 1, !.joined = Append(@, ip)], UNCHANGED conFaults
      PROVE  ContainerTypeOK' /\ ManagedInv'
  BY <1>1, <1>4, HostJoined
<1>5. ASSUME NEW ip \in FreeAddresses, RunContainer(ip), DockerFails("join"), job' = NoWork("failed"),
             UNCHANGED recorded
      PROVE  ContainerTypeOK' /\ ManagedInv'
  BY <1>3, <1>5
<1>6. CASE DockerFails("run") /\ job' = NoWork("failed") /\ UNCHANGED recorded
           /\ (UNCHANGED <<containers, lastId>> \/ RunContainer(NoIP))
  BY <1>3, <1>6
<1> QED
  BY <1>4, <1>5, <1>6 DEF ApplyToJoin

\* What two sequences hold together.
Joins(u, s, t) ==
  /\ Len(u) = Len(s) + Len(t)
  /\ \A k \in DOMAIN s : k \in DOMAIN u /\ u[k] = s[k]
  /\ \A k \in DOMAIN t : Len(s) + k \in DOMAIN u /\ u[Len(s) + k] = t[k]
  /\ \A k \in DOMAIN u : k \in DOMAIN s \/ \E l \in DOMAIN t : k = Len(s) + l
  /\ Range(u) = Range(s) \cup Range(t)
  /\ s # <<>> => u # <<>> /\ Head(u) = Head(s)
  /\ t # <<>> => u # <<>>
  /\ s = <<>> => u = t

LEMMA Concatenated ==
  ASSUME NEW S, NEW s \in Seq(S), NEW t \in Seq(S)
  PROVE  s \o t \in Seq(S) /\ Joins(s \o t, s, t)
<1> s \o t \in Seq(S)
  OBVIOUS
<1> PICK u \in Seq(S) : u = s \o t
  OBVIOUS
<1>1. Len(u) = Len(s) + Len(t)
  OBVIOUS
<1>2. \A k \in DOMAIN s : k \in DOMAIN u /\ u[k] = s[k]
  OBVIOUS
<1>3. \A k \in DOMAIN t : Len(s) + k \in DOMAIN u /\ u[Len(s) + k] = t[k]
  OBVIOUS
<1>4. \A k \in DOMAIN u : k \in DOMAIN s \/ \E l \in DOMAIN t : k = Len(s) + l
  <2> SUFFICES ASSUME NEW k \in DOMAIN u, k \notin DOMAIN s
               PROVE  k - Len(s) \in DOMAIN t /\ k = Len(s) + (k - Len(s))
    OBVIOUS
  <2> QED
    BY <1>1
<1>5. Range(u) = Range(s) \cup Range(t)
  <2>1. Range(u) \subseteq Range(s) \cup Range(t)
    BY <1>2, <1>3, <1>4 DEF Range
  <2>2. Range(s) \cup Range(t) \subseteq Range(u)
    BY <1>2, <1>3 DEF Range
  <2> QED
    BY <2>1, <2>2
<1>6. s # <<>> => u # <<>> /\ Head(u) = Head(s)
  OBVIOUS
<1>7. (t # <<>> => u # <<>>) /\ (s = <<>> => u = t)
  OBVIOUS
<1> QED
  BY <1>1, <1>2, <1>3, <1>4, <1>5, <1>6, <1>7 DEF Joins

LEMMA AppendJoinedStep ==
  ASSUME ContainerTypeOK, ManagedInv, AppendJoined
  PROVE  ContainerTypeOK' /\ ManagedInv'
<1> PICK r0 \in HostRoles : r0 = job.pc
  BY DEF AppendJoined, Role
<1> DEFINE more == ipList[r0] \o job.joined
<1>1. /\ r0 \in HostRoles /\ job.join[r0] = 0 /\ job.joined # <<>>
      /\ ipList' = [ipList EXCEPT ![r0] = more]
      /\ job' = [job EXCEPT !.joined = <<>>]
      /\ UNCHANGED <<containers, dockerd, recorded, lastId, conApplies, conFaults>>
  BY DEF AppendJoined, Role
<1>2. /\ job' \in Job /\ job'.pc = r0 /\ job'.delete = job.delete /\ job'.trim = job.trim
      /\ job'.join = job.join /\ job'.joined = <<>>
  <2>1. job \in Job /\ <<>> \in Seq(Addresses)
    BY DEF ContainerTypeOK
  <2>2. job' \in Job
    BY <1>1, <2>1 DEF Job
  <2> QED
    BY <1>1, <2>1, <2>2 DEF Job
<1>3. ipList[r0] \in Seq(Addresses) /\ job.joined \in Seq(Addresses) /\ more = ipList[r0] \o job.joined
  BY <1>1, JobFields
<1> HIDE DEF more
<1>4. /\ more \in Seq(Addresses) /\ Len(more) = Len(ipList[r0]) + Len(job.joined)
      /\ \A k \in DOMAIN ipList[r0] : k \in DOMAIN more /\ more[k] = ipList[r0][k]
      /\ \A k \in DOMAIN job.joined : Len(ipList[r0]) + k \in DOMAIN more /\ more[Len(ipList[r0]) + k] = job.joined[k]
      /\ \A k \in DOMAIN more : k \in DOMAIN ipList[r0] \/ \E l \in DOMAIN job.joined : k = Len(ipList[r0]) + l
      /\ Range(more) = Range(ipList[r0]) \cup Range(job.joined)
      /\ ipList[r0] # <<>> => more # <<>> /\ Head(more) = Head(ipList[r0])
      /\ more # <<>>
      /\ ipList[r0] = <<>> => more = job.joined
  <2>1. more \in Seq(Addresses) /\ Joins(more, ipList[r0], job.joined)
    BY <1>3, Concatenated
  <2> QED
    BY <1>1, <2>1, Zenon DEF Joins
<1>5. ipList'[r0] = more /\ \A r \in HostRoles : r # r0 => ipList'[r] = ipList[r]
  BY <1>1, JobFields
<1>6. ContainerTypeOK'
  <2>1. ipList' \in [HostRoles -> Seq(Addresses)]
    BY <1>1, <1>4, JobFields
  <2> QED
    BY <1>1, <1>2, <2>1 DEF ContainerTypeOK
<1>7. DockerInv'
  BY <1>1 DEF ManagedInv, DockerInv, IdsUnique, AddressesUnique, AnnotationsTrue
<1>8. job.trim = 0 /\ job.delete[r0] = <<>>
  BY <1>1 DEF ManagedInv, JobInv, AddOrRemove
<1>9. r0 = "node" => ipList["master"] # <<>>
  BY DEF ManagedInv, JobInv, OneMasterStays
<1>10. r0 \in {"master", "node"} /\ \A r \in HostRoles : r = "master" \/ r = "node"
  BY <1>1 DEF HostRoles
<1>11. JobInv'
  <2>1. AddOrRemove'
    BY <1>2, <1>8 DEF ManagedInv, JobInv, AddOrRemove
  <2>2. DeleteIsTail'
    <3>1. Len(job.delete[r0]) = 0 /\ Len(more) \in Nat
      <4>1. more \in Seq(Addresses)
        BY <1>4
      <4> QED
        BY <1>8, <4>1
    <3>2. Len(job'.delete[job'.pc]) <= job'.trim /\ job'.trim <= Len(ipList'[job'.pc])
      BY <1>2, <1>5, <1>8, <3>1
    <3>3. ASSUME NEW r \in HostRoles
          PROVE  /\ Len(job'.delete[r]) <= Len(ipList'[r])
                 /\ \A k \in 1 .. Len(job'.delete[r]) :
                      job'.delete[r][k] = ipList'[r][Len(ipList'[r]) - Len(job'.delete[r]) + k]
      <4>1. CASE r = r0
        <5>1. Len(job'.delete[r]) = 0 /\ Len(ipList'[r]) \in Nat
          BY <1>2, <1>5, <3>1, <4>1
        <5> QED
          BY <5>1
      <4>2. CASE r # r0
        BY <1>2, <1>5, <4>2 DEF ManagedInv, JobInv, DeleteIsTail
      <4> QED
        BY <4>1, <4>2
    <3> QED
      BY <3>2, <3>3, Zenon DEF DeleteIsTail
  <2>3. OneMasterStays'
    <3>1. job'.pc \in HostRoles
      BY <1>1, <1>2
    <3>2. ipList'["master"] # <<>>
      BY <1>1, <1>4, <1>5, <1>9, <1>10 DEF HostRoles
    <3>3. job'.pc = "master" => Len(ipList'["master"]) + Len(job'.joined) + job'.join["master"] > job'.trim
      <4> SUFFICES ASSUME r0 = "master"
                   PROVE  Len(ipList'["master"]) + Len(job'.joined) + job'.join["master"] > job'.trim
        BY <1>2
      <4>1. Len(ipList["master"]) + Len(job.joined) + job.join["master"] > job.trim
        BY DEF ManagedInv, JobInv, OneMasterStays
      <4>2. Len(job'.joined) = 0 /\ Len(ipList'["master"]) = Len(ipList["master"]) + Len(job.joined)
        BY <1>2, <1>4, <1>5
      <4>3. Len(ipList["master"]) \in Nat /\ Len(job.joined) \in Nat /\ job'.join = job.join
            /\ job'.trim = job.trim /\ job.join["master"] = 0 /\ job.trim \in Nat
        BY <1>1, <1>2, <1>3, JobFields
      <4>4. ASSUME NEW m \in Nat, NEW n \in Nat, NEW t \in Nat, m + n + 0 > t
            PROVE  (m + n) + 0 + 0 > t
        BY <4>4
      <4> QED
        BY <4>1, <4>2, <4>3, <4>4
    <3> QED
      BY <3>1, <3>2, <3>3 DEF OneMasterStays
  <2> QED
    BY <2>1, <2>2, <2>3 DEF JobInv
<1>12. Mine' = Mine
  <2>1. Range(job'.joined) = {}
    BY <1>2 DEF Range
  <2>2. CASE r0 = "master"
    BY <1>4, <1>5, <2>1, <2>2 DEF Mine, Listed, HostRoles
  <2>3. CASE r0 = "node"
    BY <1>4, <1>5, <2>1, <2>3 DEF Mine, Listed, HostRoles
  <2> QED
    BY <1>10, <2>2, <2>3
<1>13. AnyMaster /\ AnyMaster' /\ FirstHost' = FirstHost
  <2>1. CASE ipList["master"] = <<>>
    <3>1. r0 = "master" /\ ipList'["master"] = job.joined
      BY <1>4, <1>5, <1>9, <1>10, <2>1
    <3> QED
      BY <1>1, <2>1, <3>1 DEF AnyMaster, FirstHost
  <2>2. CASE ipList["master"] # <<>>
    <3>1. ipList'["master"] # <<>> /\ Head(ipList'["master"]) = Head(ipList["master"])
      BY <1>4, <1>5, <1>10, <2>2 DEF HostRoles
    <3> QED
      BY <1>1, <2>2, <3>1 DEF AnyMaster, FirstHost
  <2> QED
    BY <2>1, <2>2
<1>14. FirstHostRuns'
  BY <1>1, <1>13 DEF ManagedInv, FirstInv, FirstHostRuns
<1>15. FirstHostOnce'
  <2>1. FirstHostOnce
    BY DEF ManagedInv, FirstInv
  <2>2. ASSUME NEW k \in DOMAIN ipList'["master"], ipList'["master"][k] = FirstHost
        PROVE  k = 1
    <3>1. CASE r0 = "node" \/ k \in DOMAIN ipList["master"]
      <4>1. k \in DOMAIN ipList["master"] /\ ipList["master"][k] = FirstHost
        BY <1>4, <1>5, <1>10, <2>2, <3>1 DEF HostRoles
      <4> QED
        BY <2>1, <4>1 DEF FirstHostOnce
    <3>2. CASE r0 = "master" /\ k \notin DOMAIN ipList["master"]
      <4>1. PICK l \in DOMAIN job.joined : k = Len(ipList["master"]) + l
        BY <1>4, <1>5, <2>2, <3>2
      <4>2. job.joined[l] = FirstHost
        BY <1>4, <1>5, <2>2, <3>2, <4>1
      <4>3. ipList["master"] = <<>> /\ l = 1
        BY <2>1, <4>2 DEF FirstHostOnce
      <4> QED
        BY <4>1, <4>3
    <3> QED
      BY <1>10, <3>1, <3>2
  <2>3. ASSUME NEW k \in DOMAIN ipList'["node"]
        PROVE  ipList'["node"][k] # FirstHost
    <3>1. CASE r0 = "master" \/ k \in DOMAIN ipList["node"]
      <4>1. k \in DOMAIN ipList["node"] /\ ipList'["node"][k] = ipList["node"][k]
        BY <1>4, <1>5, <1>10, <2>3, <3>1 DEF HostRoles
      <4> QED
        BY <2>1, <4>1 DEF FirstHostOnce
    <3>2. CASE r0 = "node" /\ k \notin DOMAIN ipList["node"]
      <4>1. PICK l \in DOMAIN job.joined : k = Len(ipList["node"]) + l
        BY <1>4, <1>5, <2>3, <3>2
      <4>2. ipList'["node"][k] = job.joined[l]
        BY <1>4, <1>5, <2>3, <3>2, <4>1
      <4> QED
        BY <1>9, <2>1, <3>2, <4>2 DEF FirstHostOnce
    <3> QED
      BY <1>10, <3>1, <3>2
  <2> QED
    BY <1>2, <1>13, <2>2, <2>3 DEF FirstHostOnce
<1>16. LabelInv'
  <2>1. \A a : At(a)' = At(a)
    BY <1>1 DEF At
  <2> QED
    BY <1>12, <1>13, <2>1 DEF ManagedInv, FirstInv, LabelInv
<1>17. \A r \in HostRoles : Gone(r) = {} /\ Gone(r)' = {}
  <2>1. \A r \in HostRoles : Gone(r) = {}
    BY <1>1, NothingGone DEF ManagedInv
  <2>2. ASSUME NEW r \in HostRoles, NEW k \in Gone(r)'
        PROVE  FALSE
    <3>1. r = r0 /\ k \in DOMAIN ipList'[r] /\ k > Len(ipList'[r]) - job'.trim
      BY <1>2, <2>2 DEF Gone
    <3>2. k > Len(more) - 0 /\ k \in DOMAIN more
      BY <1>2, <1>5, <1>8, <3>1
    <3>3. more \in Seq(Addresses)
      BY <1>4
    <3> QED
      BY <3>2, <3>3
  <2> QED
    BY <2>1, <2>2
<1>18. \A r \in HostRoles : \A k \in DOMAIN ipList'[r] :
         \/ k \in DOMAIN ipList[r] /\ ipList'[r][k] = ipList[r][k]
         \/ r = r0 /\ \E l \in DOMAIN job.joined : k = Len(ipList[r]) + l /\ ipList'[r][k] = job.joined[l]
  <2>1. ASSUME NEW k \in DOMAIN more, k \notin DOMAIN ipList[r0]
        PROVE  \E l \in DOMAIN job.joined : k = Len(ipList[r0]) + l /\ more[k] = job.joined[l]
    <3>1. PICK l \in DOMAIN job.joined : k = Len(ipList[r0]) + l
      BY <1>4, <2>1
    <3>2. more[Len(ipList[r0]) + l] = job.joined[l]
      BY <1>4
    <3> QED
      BY <3>1, <3>2
  <2>2. \A k \in DOMAIN ipList[r0] : more[k] = ipList[r0][k]
    BY <1>4
  <2> QED
    BY <1>5, <2>1, <2>2
<1>19. HostsRun'
  BY <1>1, <1>2, <1>17, <1>18 DEF ManagedInv, HostsRun, NoFailedRemoval
<1>20. HostsDistinct'
  <2> SUFFICES ASSUME NoFailedRemoval
               PROVE  HostsDistinct'
    BY <1>1 DEF HostsDistinct, NoFailedRemoval
  <2>1. /\ \A r \in HostRoles : \A k, l \in DOMAIN ipList[r] : ipList[r][k] = ipList[r][l] => k = l
        /\ \A k \in DOMAIN ipList["master"] : \A l \in DOMAIN ipList["node"] :
             ipList["master"][k] # ipList["node"][l]
        /\ \A k, l \in DOMAIN job.joined : job.joined[k] = job.joined[l] => k = l
        /\ \A r \in HostRoles : \A k \in DOMAIN ipList[r] : \A l \in DOMAIN job.joined :
             ipList[r][k] # job.joined[l]
    BY DEF ManagedInv, HostsDistinct
  <2>2. \A r \in HostRoles : \A k, l \in DOMAIN ipList'[r] : ipList'[r][k] = ipList'[r][l] => k = l
    BY <1>18, <2>1
  <2>3. \A k \in DOMAIN ipList'["master"] : \A l \in DOMAIN ipList'["node"] :
          ipList'["master"][k] # ipList'["node"][l]
    BY <1>18, <2>1 DEF HostRoles
  <2> QED
    BY <1>2, <2>2, <2>3 DEF HostsDistinct
<1>21. AllMine'
  BY <1>1, <1>12 DEF ManagedInv, AllMine
<1> QED
  BY <1>6, <1>7, <1>11, <1>14, <1>15, <1>16, <1>19, <1>20, <1>21 DEF ManagedInv, FirstInv

-------------------------------------------------------------------------------
(* Hosts are removed *)

\* The host to remove next is in the list, and is not the first master.
LEMMA NextToRemove ==
  ASSUME ContainerTypeOK, ManagedInv, job.pc \in HostRoles, job.delete[job.pc] # <<>>,
         job.join[job.pc] = 0, job.joined = <<>>
  PROVE  \E n \in DOMAIN ipList[job.pc] :
           /\ n = Len(ipList[job.pc]) - Len(job.delete[job.pc]) + 1
           /\ n > Len(ipList[job.pc]) - job.trim
           /\ ipList[job.pc][n] = Head(job.delete[job.pc])
           /\ Head(job.delete[job.pc]) # FirstHost
<1>1. PICK r \in HostRoles : r = job.pc
  OBVIOUS
<1>2. PICK L \in Seq(Addresses), D \in Seq(Addresses), t \in Nat : L = ipList[r] /\ D = job.delete[r] /\ t = job.trim
  BY JobFields
<1>3. Len(D) <= t /\ t <= Len(L) /\ \A k \in 1 .. Len(D) : D[k] = L[Len(L) - Len(D) + k]
  BY <1>1, <1>2 DEF ManagedInv, JobInv, DeleteIsTail
<1>4. PICK n \in Nat : n = Len(L) - Len(D) + 1
  <2>1. Len(L) - Len(D) + 1 \in Nat
    BY <1>3
  <2> QED
    BY <2>1
<1>5. D # <<>> /\ Len(D) > 0
  BY <1>1, <1>2
<1>6. n \in 1 .. Len(L) /\ n > Len(L) - t /\ Head(D) = D[1] /\ L[n] = D[1]
  BY <1>3, <1>4, <1>5
<1>7. L[n] # FirstHost
  <2>1. FirstHostOnce
    BY DEF ManagedInv, FirstInv
  <2>2. CASE r = "node"
    BY <1>2, <1>6, <2>1, <2>2 DEF FirstHostOnce
  <2>3. CASE r = "master"
    <3>1. Len(L) > t
      <4>1. Len(ipList["master"]) + Len(job.joined) + job.join["master"] > job.trim
        BY <1>1, <2>3 DEF ManagedInv, JobInv, OneMasterStays
      <4>2. Len(job.joined) = 0 /\ job.join["master"] = 0
        BY <1>1, <2>3
      <4> QED
        BY <1>2, <2>3, <4>1, <4>2
    <3>2. n # 1
      BY <1>3, <1>4, <3>1
    <3> QED
      BY <1>2, <1>6, <2>1, <2>3, <3>2 DEF FirstHostOnce
  <2> QED
    BY <2>2, <2>3 DEF HostRoles
<1>8. n \in DOMAIN L
  BY <1>6
<1> QED
  BY <1>1, <1>2, <1>4, <1>6, <1>7, <1>8

\* The container of an annotation goes, and the annotation with it.
LEMMA RemovedContainer ==
  ASSUME ContainerTypeOK, DockerInv, NEW ip \in DOMAIN recorded,
         containers' = Removed(recorded[ip]), recorded' = Without(recorded, ip), lastId' = lastId
  PROVE  DockerInv' /\ \A c \in containers' : c.ip # ip
<1>1. PICK d \in containers : d.id = recorded[ip] /\ d.ip = ip
  BY DEF DockerInv, AnnotationsTrue
<1>2. containers' = {c \in containers : c.id # d.id}
  BY <1>1 DEF Removed
<1>3. DOMAIN recorded' = DOMAIN recorded \ {ip} /\ \A a \in DOMAIN recorded' : recorded'[a] = recorded[a]
  BY DEF Without
<1>4. IdsUnique' /\ AddressesUnique'
  BY <1>2 DEF IdsUnique, AddressesUnique, DockerInv
<1>5. AnnotationsTrue'
  <2> SUFFICES ASSUME NEW a \in DOMAIN recorded'
               PROVE  \E c \in containers' : c.id = recorded'[a] /\ c.ip = a
    BY DEF AnnotationsTrue
  <2>1. PICK c \in containers : c.id = recorded[a] /\ c.ip = a
    BY <1>3 DEF DockerInv, AnnotationsTrue
  <2>2. c.id # d.id
    BY <1>1, <1>3, <2>1 DEF DockerInv, IdsUnique
  <2> QED
    BY <1>2, <1>3, <2>1, <2>2
<1>6. \A c \in containers' : c.ip # ip
  <2>1. ip # NoIP
    BY ContainerAssumption DEF ContainerTypeOK
  <2> QED
    BY <1>1, <1>2, <2>1 DEF DockerInv, AddressesUnique
<1> QED
  BY <1>4, <1>5, <1>6 DEF DockerInv

\* The job after one host less.
LEMMA DeletedFields ==
  ASSUME ContainerTypeOK, job.pc \in HostRoles, job.delete[job.pc] # <<>>,
         job' = [job EXCEPT !.delete[Role] = Tail(@)]
  PROVE  /\ job' \in Job /\ job'.pc = job.pc /\ job'.join = job.join /\ job'.trim = job.trim
         /\ job'.joined = job.joined
         /\ job'.delete[job.pc] = Tail(job.delete[job.pc])
         /\ \A r \in HostRoles : r # job.pc => job'.delete[r] = job.delete[r]
<1>1. job \in Job /\ Role = job.pc
  BY DEF ContainerTypeOK, Role
<1>2. job' = [job EXCEPT !.delete = [job.delete EXCEPT ![Role] = Tail(@)]]
  BY <1>1 DEF Job
<1>3. Tail(job.delete[job.pc]) \in Seq(Addresses)
  BY JobFields
<1>4. [job.delete EXCEPT ![Role] = Tail(@)] \in [HostRoles -> Seq(Addresses)]
  BY <1>1, <1>3, JobFields
<1>5. job' \in Job
  BY <1>1, <1>2, <1>4 DEF Job
<1>6. /\ job'.pc = job.pc /\ job'.join = job.join /\ job'.trim = job.trim /\ job'.joined = job.joined
      /\ job'.delete = [job.delete EXCEPT ![Role] = Tail(@)]
  BY <1>1, <1>2 DEF Job
<1> QED
  BY <1>1, <1>5, <1>6, JobFields

LEMMA HostDeleted ==
  ASSUME ContainerTypeOK, ManagedInv, job.pc \in HostRoles, job.join[job.pc] = 0,
         job.joined = <<>>, job.delete[job.pc] # <<>>,
         NEW ip \in Addresses, ip = Head(job.delete[job.pc]),
         job' = [job EXCEPT !.delete[Role] = Tail(@)],
         \/ ip \notin DOMAIN recorded /\ UNCHANGED <<containers, recorded>>
         \/ /\ ip \in DOMAIN recorded
            /\ containers' = Removed(recorded[ip]) /\ recorded' = Without(recorded, ip),
         UNCHANGED <<ipList, lastId, conApplies, conFaults>>
  PROVE  ContainerTypeOK' /\ ManagedInv'
<1>1. PICK r0 \in HostRoles : r0 = job.pc
  OBVIOUS
<1>2. /\ job' \in Job /\ job'.pc = job.pc /\ job'.join = job.join /\ job'.trim = job.trim
      /\ job'.joined = job.joined
      /\ job'.delete[r0] = Tail(job.delete[r0])
      /\ \A r \in HostRoles : r # r0 => job'.delete[r] = job.delete[r]
  BY <1>1, DeletedFields
<1>3. PICK n \in DOMAIN ipList[r0] :
        /\ n = Len(ipList[r0]) - Len(job.delete[r0]) + 1
        /\ n > Len(ipList[r0]) - job.trim
        /\ ipList[r0][n] = ip
        /\ ip # FirstHost
  BY <1>1, NextToRemove
<1>4. /\ containers' \subseteq containers
      /\ DOMAIN recorded' = DOMAIN recorded \ {ip}
      /\ \A a \in DOMAIN recorded' : recorded'[a] = recorded[a]
  BY DEF Removed, Without
<1>5. DockerInv' /\ \A c \in containers' : c.ip \in DOMAIN recorded => c.ip # ip
  <2>1. CASE ip \notin DOMAIN recorded /\ UNCHANGED <<containers, recorded>>
    BY <2>1 DEF ManagedInv, DockerInv, IdsUnique, AddressesUnique, AnnotationsTrue
  <2>2. CASE ip \in DOMAIN recorded /\ containers' = Removed(recorded[ip]) /\ recorded' = Without(recorded, ip)
    BY <2>2, RemovedContainer DEF ManagedInv
  <2> QED
    BY <2>1, <2>2
<1>6. ContainerTypeOK'
  <2>1. recorded' \in [DOMAIN recorded' -> Nat]
    BY DEF ContainerTypeOK, Without
  <2> QED
    BY <1>2, <1>4, <2>1 DEF ContainerTypeOK
<1>7. PICK D \in Seq(Addresses) : D = job.delete[r0] /\ D # <<>> /\ job'.delete[r0] = Tail(D)
  BY <1>1, <1>2, JobFields
<1>8. Len(Tail(D)) = Len(D) - 1 /\ \A k \in 1 .. Len(Tail(D)) : Tail(D)[k] = D[k + 1]
  BY <1>7
<1>9. JobInv'
  <2>1. AddOrRemove'
    <3>1. ~(job'.pc \in HostRoles /\ (job'.join[job'.pc] > 0 \/ job'.joined # <<>>))
      BY <1>2
    <3>2. ASSUME NEW r \in HostRoles, job'.join[r] > 0
          PROVE  job'.delete[r] = <<>>
      <4>1. r # r0
        BY <1>1, <1>2, <3>2
      <4> QED
        BY <1>2, <3>2, <4>1 DEF ManagedInv, JobInv, AddOrRemove
    <3> QED
      BY <3>1, <3>2, Zenon DEF AddOrRemove
  <2>2. DeleteIsTail'
    <3>1. DeleteIsTail
      BY DEF ManagedInv, JobInv
    <3>2. PICK L \in Seq(Addresses) : L = ipList[r0]
      BY JobFields
    <3>3. Len(D) <= job.trim /\ job.trim <= Len(L) /\ \A k \in 1 .. Len(D) : D[k] = L[Len(L) - Len(D) + k]
      BY <1>1, <1>7, <3>1, <3>2 DEF DeleteIsTail
    <3>4. Len(Tail(D)) <= job.trim /\ Len(Tail(D)) <= Len(L)
      BY <1>7, <1>8, <3>2, <3>3, JobFields
    <3>5. \A k \in 1 .. Len(Tail(D)) : Tail(D)[k] = L[Len(L) - Len(Tail(D)) + k]
      <4> SUFFICES ASSUME NEW k \in 1 .. Len(Tail(D))
                   PROVE  Tail(D)[k] = L[Len(L) - Len(Tail(D)) + k]
        OBVIOUS
      <4>1. k + 1 \in 1 .. Len(D) /\ Len(L) - Len(D) + (k + 1) = Len(L) - Len(Tail(D)) + k
        BY <1>7, <1>8
      <4>2. Tail(D)[k] = D[k + 1]
        BY <1>8
      <4> QED
        BY <3>3, <4>1, <4>2
    <3>6. ipList' = ipList
      OBVIOUS
    <3>7. Len(job'.delete[job'.pc]) <= job'.trim /\ job'.trim <= Len(ipList'[job'.pc])
      BY <1>1, <1>2, <1>7, <3>2, <3>3, <3>4, <3>6
    <3>8. ASSUME NEW r \in HostRoles
          PROVE  /\ Len(job'.delete[r]) <= Len(ipList'[r])
                 /\ \A k \in 1 .. Len(job'.delete[r]) :
                      job'.delete[r][k] = ipList'[r][Len(ipList'[r]) - Len(job'.delete[r]) + k]
      <4>1. CASE r = r0
        <5>1. job'.delete[r] = Tail(D) /\ ipList'[r] = L
          BY <1>7, <3>2, <3>6, <4>1
        <5> QED
          BY <3>4, <3>5, <5>1
      <4>2. CASE r # r0
        <5>1. job'.delete[r] = job.delete[r] /\ ipList'[r] = ipList[r]
          BY <1>2, <3>6, <4>2
        <5>2. /\ Len(job.delete[r]) <= Len(ipList[r])
              /\ \A k \in 1 .. Len(job.delete[r]) :
                   job.delete[r][k] = ipList[r][Len(ipList[r]) - Len(job.delete[r]) + k]
          BY <3>1 DEF DeleteIsTail
        <5> QED
          BY <5>1, <5>2
      <4> QED
        BY <4>1, <4>2
    <3> QED
      BY <3>7, <3>8, Zenon DEF DeleteIsTail
  <2>3. OneMasterStays'
    BY <1>2 DEF ManagedInv, JobInv, OneMasterStays
  <2> QED
    BY <2>1, <2>2, <2>3 DEF JobInv
<1>10. Mine' = Mine /\ AnyMaster' = AnyMaster /\ FirstHost' = FirstHost
  BY <1>2 DEF Mine, Listed, AnyMaster, FirstHost
<1>11. FirstInv'
  <2>1. FirstHostRuns' /\ FirstHostOnce'
    BY <1>2, <1>3, <1>4, <1>10 DEF ManagedInv, FirstInv, FirstHostRuns, FirstHostOnce
  <2>2. \A a : At(a)' \subseteq At(a)
    BY <1>4 DEF At
  <2>3. LabelInv'
    BY <1>10, <2>2 DEF ManagedInv, FirstInv, LabelInv
  <2> QED
    BY <2>1, <2>3 DEF FirstInv
<1>12. \A r \in HostRoles : r # r0 => Gone(r) = {} /\ Gone(r)' = {}
  BY <1>1, <1>2 DEF Gone
<1>13. Gone(r0)' = Gone(r0) \cup {n}
  <2>1. PICK L \in Seq(Addresses) : L = ipList[r0] /\ L = ipList'[r0]
    BY JobFields
  <2>2. Gone(r0) = {k \in DOMAIN L : k > Len(L) - job.trim /\ k <= Len(L) - Len(D)}
    BY <1>1, <1>7, <2>1 DEF Gone
  <2>3. Gone(r0)' = {k \in DOMAIN L : k > Len(L) - job.trim /\ k <= Len(L) - Len(Tail(D))}
    BY <1>1, <1>2, <1>7, <2>1 DEF Gone
  <2>4. n \in DOMAIN L /\ n = Len(L) - Len(D) + 1 /\ n > Len(L) - job.trim /\ job.trim \in Nat
    BY <1>3, <1>7, <2>1, JobFields
  <2>5. \A k \in DOMAIN L : k <= Len(L) - Len(Tail(D)) <=> k <= Len(L) - Len(D) \/ k = n
    <3>1. Len(L) \in Nat /\ Len(D) \in Nat /\ Len(Tail(D)) = Len(D) - 1 /\ DOMAIN L \subseteq Nat
      BY <1>7, <1>8
    <3>2. ASSUME NEW k \in Nat, NEW l \in Nat, NEW d \in Nat
          PROVE  k <= l - (d - 1) <=> k <= l - d \/ k = l - d + 1
      OBVIOUS
    <3> QED
      BY <2>4, <3>1, <3>2
  <2> QED
    BY <2>2, <2>3, <2>4, <2>5
<1>14. HostsDistinct'
  BY <1>2 DEF ManagedInv, HostsDistinct, NoFailedRemoval
<1>15. HostsRun'
  <2> SUFFICES ASSUME NoFailedRemoval
               PROVE  /\ \A r \in HostRoles : \A k \in DOMAIN ipList[r] :
                           ipList[r][k] \in DOMAIN recorded' <=> k \notin Gone(r)'
    BY <1>2 DEF HostsRun, NoFailedRemoval
  <2>1. \A r \in HostRoles : \A k \in DOMAIN ipList[r] :
          ipList[r][k] \in DOMAIN recorded <=> k \notin Gone(r)
    BY DEF ManagedInv, HostsRun
  <2>2. \A r \in HostRoles : \A k \in DOMAIN ipList[r] : ipList[r][k] = ip <=> r = r0 /\ k = n
    <3>1. /\ \A r \in HostRoles : \A k, l \in DOMAIN ipList[r] : ipList[r][k] = ipList[r][l] => k = l
          /\ \A k \in DOMAIN ipList["master"] : \A l \in DOMAIN ipList["node"] :
               ipList["master"][k] # ipList["node"][l]
      BY DEF ManagedInv, HostsDistinct
    <3>2. \A k \in DOMAIN ipList[r0] : ipList[r0][k] = ip <=> k = n
      BY <1>3, <3>1
    <3>3. \A r \in HostRoles : r # r0 => \A k \in DOMAIN ipList[r] : ipList[r][k] # ip
      <4>1. CASE r0 = "master"
        BY <1>3, <3>1, <4>1 DEF HostRoles
      <4>2. CASE r0 = "node"
        BY <1>3, <3>1, <4>2 DEF HostRoles
      <4> QED
        BY <4>1, <4>2 DEF HostRoles
    <3> QED
      BY <3>2, <3>3
  <2> QED
    BY <1>4, <1>12, <1>13, <2>1, <2>2
<1>16. AllMine'
  BY <1>4, <1>5, <1>10 DEF ManagedInv, AllMine
<1> QED
  BY <1>5, <1>6, <1>9, <1>11, <1>14, <1>15, <1>16 DEF ManagedInv

LEMMA ApplyToDeleteStep ==
  ASSUME ContainerTypeOK, ManagedInv, ApplyToDelete
  PROVE  ContainerTypeOK' /\ ManagedInv'
<1>1. /\ job.pc \in HostRoles /\ job.join[job.pc] = 0 /\ job.joined = <<>>
      /\ job.delete[job.pc] # <<>> /\ UNCHANGED <<dockerd, ipList, lastId, conApplies>>
  BY DEF ApplyToDelete, Role
<1>2. CASE DockerFails("rm") /\ job' = NoWork("failed") /\ UNCHANGED <<containers, recorded>>
  <2>1. /\ conFaults' \in Seq(DockerFaults) /\ conFaults' # <<>> /\ "rm" \in Range(conFaults')
        /\ Range(conFaults) \subseteq Range(conFaults')
    BY <1>2, FaultRecorded DEF DockerFaults
  <2>2. DockerInv'
    BY <1>1, <1>2 DEF ManagedInv, DockerInv, IdsUnique, AddressesUnique, AnnotationsTrue
  <2>3. ManagedInv'
    BY <1>1, <1>2, <2>1, <2>2, JobEnds
  <2>4. ContainerTypeOK'
    BY <1>1, <1>2, <2>1, NoWorkFields DEF ContainerTypeOK, JobStates
  <2> QED
    BY <2>3, <2>4
<1>3. CASE /\ job' = [job EXCEPT !.delete[Role] = Tail(@)] /\ UNCHANGED conFaults
           /\ \/ /\ Head(job.delete[job.pc]) \notin DOMAIN recorded
                 /\ UNCHANGED <<containers, recorded>>
              \/ /\ Head(job.delete[job.pc]) \in DOMAIN recorded
                 /\ containers' = Removed(recorded[Head(job.delete[job.pc])])
                 /\ recorded' = Without(recorded, Head(job.delete[job.pc]))
  <2>1. PICK ip \in Addresses : ip = Head(job.delete[job.pc])
    <3>1. Head(job.delete[job.pc]) \in Addresses
      BY <1>1, JobFields
    <3> QED
      BY <3>1
  <2> QED
    BY <1>1, <1>3, <2>1, HostDeleted
<1> QED
  BY <1>2, <1>3 DEF ApplyToDelete, Role

\* The list without its tail.
LEMMA Trimmed ==
  ASSUME NEW S, NEW L \in Seq(S), NEW t \in Nat, t <= Len(L)
  PROVE  \E u \in Seq(S) :
           /\ u = SubSeq(L, 1, Len(L) - t) /\ Len(u) = Len(L) - t
           /\ DOMAIN u = {k \in DOMAIN L : k <= Len(L) - t}
           /\ \A k \in DOMAIN u : u[k] = L[k]
           /\ t < Len(L) => u # <<>> /\ Head(u) = Head(L)
<1>1. SubSeq(L, 1, Len(L) - t) \in Seq(S)
  OBVIOUS
<1>2. PICK u \in Seq(S) : u = SubSeq(L, 1, Len(L) - t)
  BY <1>1
<1>3. Len(u) = Len(L) - t
  BY <1>2
<1>4. DOMAIN u = {k \in DOMAIN L : k <= Len(L) - t}
  <2>1. DOMAIN u = 1 .. Len(L) - t /\ DOMAIN L = 1 .. Len(L)
    BY <1>3
  <2> QED
    BY <2>1
<1>5. \A k \in DOMAIN u : u[k] = L[k]
  BY <1>2, <1>3
<1>6. t < Len(L) => u # <<>> /\ Head(u) = Head(L)
  <2> SUFFICES ASSUME t < Len(L)
               PROVE  u # <<>> /\ Head(u) = Head(L)
    OBVIOUS
  <2>1. 1 \in DOMAIN u /\ u # <<>> /\ L # <<>>
    BY <1>3
  <2> QED
    BY <1>5, <2>1
<1> QED
  BY <1>2, <1>3, <1>4, <1>5, <1>6

LEMMA TrimStep ==
  ASSUME ContainerTypeOK, ManagedInv, TrimAndGoOn
  PROVE  ContainerTypeOK' /\ ManagedInv'
<1>1. PICK r0 \in HostRoles : r0 = job.pc
  BY DEF TrimAndGoOn, Role
<1>2. /\ job.join[r0] = 0 /\ job.joined = <<>> /\ job.delete[r0] = <<>>
      /\ ipList' = [ipList EXCEPT ![r0] = SubSeq(ipList[r0], 1, Len(ipList[r0]) - job.trim)]
      /\ job' = IF r0 = "master" THEN [job EXCEPT !.pc = "node", !.trim = Len(job.delete["node"])]
                                 ELSE NoWork("ok")
      /\ UNCHANGED <<containers, dockerd, recorded, lastId, conApplies, conFaults>>
  BY <1>1 DEF TrimAndGoOn, Role
<1>3. PICK L \in Seq(Addresses), t \in Nat : L = ipList[r0] /\ t = job.trim
  BY JobFields
<1>4. t <= Len(L)
  BY <1>1, <1>3 DEF ManagedInv, JobInv, DeleteIsTail
<1>5. PICK u \in Seq(Addresses) :
        /\ u = SubSeq(L, 1, Len(L) - t) /\ Len(u) = Len(L) - t
        /\ DOMAIN u = {k \in DOMAIN L : k <= Len(L) - t}
        /\ \A k \in DOMAIN u : u[k] = L[k]
        /\ t < Len(L) => u # <<>> /\ Head(u) = Head(L)
  BY <1>4, Trimmed
<1>6. ipList'[r0] = u /\ \A r \in HostRoles : r # r0 => ipList'[r] = ipList[r]
  BY <1>2, <1>3, <1>5, JobFields
<1>7. r0 = "master" => /\ t < Len(L) /\ ipList["master"] # <<>> /\ ipList'["master"] # <<>>
                       /\ Head(ipList'["master"]) = Head(ipList["master"])
  <2> SUFFICES ASSUME r0 = "master"
               PROVE  t < Len(L) /\ L # <<>> /\ u # <<>> /\ Head(u) = Head(L)
    BY <1>3, <1>6
  <2>1. Len(ipList["master"]) + Len(job.joined) + job.join["master"] > job.trim
    BY <1>1 DEF ManagedInv, JobInv, OneMasterStays
  <2>2. Len(job.joined) = 0 /\ job.join["master"] = 0 /\ Len(L) = Len(ipList["master"]) /\ Len(L) \in Nat
    BY <1>2, <1>3
  <2>3. Len(L) > t
    BY <1>3, <2>1, <2>2
  <2> QED
    BY <1>5, <2>3
<1>8. r0 \in {"master", "node"} /\ \A r \in HostRoles : r = "master" \/ r = "node"
  BY DEF HostRoles
<1>9. r0 = "node" => ipList["master"] # <<>> /\ ipList'["master"] = ipList["master"]
  BY <1>1, <1>6 DEF ManagedInv, JobInv, OneMasterStays, HostRoles
<1>10. /\ ipList["master"] # <<>> /\ ipList'["master"] # <<>>
       /\ Head(ipList'["master"]) = Head(ipList["master"])
  BY <1>7, <1>8, <1>9
<1>11. \A r \in HostRoles : \A k \in DOMAIN ipList'[r] : k \in DOMAIN ipList[r] /\ ipList'[r][k] = ipList[r][k]
  BY <1>3, <1>5, <1>6
<1>12. /\ job' \in Job /\ job'.joined = <<>>
       /\ r0 = "master" => /\ job'.pc = "node" /\ job'.join = job.join /\ job'.delete = job.delete
                           /\ job'.trim = Len(job.delete["node"])
       /\ r0 = "node" => job' = NoWork("ok")
  <2>1. CASE r0 = "master"
    <3>1. job' = [job EXCEPT !.pc = "node", !.trim = Len(job.delete["node"])]
      BY <1>2, <2>1
    <3>2. job \in Job /\ Len(job.delete["node"]) \in Nat /\ "node" \in JobStates
      BY JobFields DEF ContainerTypeOK, HostRoles, JobStates
    <3>3. job' \in Job
      BY <3>1, <3>2 DEF Job
    <3>4. /\ job'.pc = "node" /\ job'.join = job.join /\ job'.delete = job.delete
          /\ job'.trim = Len(job.delete["node"]) /\ job'.joined = job.joined
      BY <3>1, <3>2 DEF Job
    <3> QED
      BY <1>2, <2>1, <3>3, <3>4
  <2>2. CASE r0 = "node"
    BY <1>2, <2>2, NoWorkFields DEF JobStates
  <2> QED
    BY <1>8, <2>1, <2>2
<1>13. ContainerTypeOK'
  <2>1. ipList' \in [HostRoles -> Seq(Addresses)]
    BY <1>2, <1>3, <1>5, JobFields
  <2> QED
    BY <1>2, <1>12, <2>1 DEF ContainerTypeOK
<1>14. DockerInv'
  BY <1>2 DEF ManagedInv, DockerInv, IdsUnique, AddressesUnique, AnnotationsTrue
<1>15. JobInv'
  <2>1. CASE r0 = "master"
    <3>1. /\ job'.pc = "node" /\ job'.join = job.join /\ job'.delete = job.delete
          /\ job'.trim = Len(job.delete["node"]) /\ job'.joined = <<>>
      BY <1>12, <2>1
    <3>2. "node" \in HostRoles /\ "node" # "master" /\ Len(job.delete["node"]) \in Nat
      BY JobFields DEF HostRoles
    <3>3. AddOrRemove'
      <4>1. job.join["node"] > 0 => job.delete["node"] = <<>>
        BY <3>2 DEF ManagedInv, JobInv, AddOrRemove
      <4>2. \A r \in HostRoles : job'.join[r] > 0 => job'.delete[r] = <<>>
        BY <3>1 DEF ManagedInv, JobInv, AddOrRemove
      <4>3. job.delete["node"] = <<>> => job'.trim = 0
        BY <3>1
      <4> QED
        BY <3>1, <4>1, <4>2, <4>3 DEF AddOrRemove
    <3>4. DeleteIsTail'
      <4>1. DeleteIsTail
        BY DEF ManagedInv, JobInv
      <4>2. ipList'["node"] = ipList["node"]
        BY <1>6, <2>1, <3>2
      <4>3. ASSUME NEW r \in HostRoles
            PROVE  /\ Len(job'.delete[r]) <= Len(ipList'[r])
                   /\ \A k \in 1 .. Len(job'.delete[r]) :
                        job'.delete[r][k] = ipList'[r][Len(ipList'[r]) - Len(job'.delete[r]) + k]
        <5>1. CASE r = "master"
          <6>1. Len(job'.delete[r]) = 0 /\ Len(ipList'[r]) \in Nat
            <7>1. job'.delete[r] = <<>> /\ ipList'[r] = u
              BY <1>2, <1>6, <2>1, <3>1, <5>1
            <7> QED
              BY <7>1
          <6> QED
            BY <6>1
        <5>2. CASE r = "node"
          BY <3>1, <4>1, <4>2, <5>2 DEF DeleteIsTail
        <5> QED
          BY <1>8, <5>1, <5>2
      <4>4. Len(job'.delete[job'.pc]) <= job'.trim /\ job'.trim <= Len(ipList'[job'.pc])
        <5>1. Len(job.delete["node"]) <= Len(ipList["node"])
          BY <3>2, <4>1 DEF DeleteIsTail
        <5> QED
          BY <3>1, <3>2, <4>2, <5>1
      <4> QED
        BY <4>3, <4>4, Zenon DEF DeleteIsTail
    <3>5. OneMasterStays'
      BY <1>10, <3>1, <3>2 DEF OneMasterStays
    <3> QED
      BY <3>3, <3>4, <3>5 DEF JobInv
  <2>2. CASE r0 = "node"
    <3>1. /\ job' = NoWork("ok") /\ job'.pc = "ok" /\ job'.pc \notin HostRoles /\ job'.trim = 0
          /\ \A r \in HostRoles : job'.join[r] = 0 /\ job'.delete[r] = <<>>
      BY <1>12, <2>2, NoWorkFields DEF JobStates, HostRoles
    <3>2. AddOrRemove'
      BY <3>1 DEF AddOrRemove
    <3>3. DeleteIsTail'
      <4>1. \A r \in HostRoles : Len(job'.delete[r]) = 0 /\ Len(ipList'[r]) \in Nat
        BY <1>13, <3>1 DEF ContainerTypeOK
      <4>2. \A r \in HostRoles : Len(job'.delete[r]) <= Len(ipList'[r])
        BY <4>1
      <4>3. \A r \in HostRoles : \A k \in 1 .. Len(job'.delete[r]) :
              job'.delete[r][k] = ipList'[r][Len(ipList'[r]) - Len(job'.delete[r]) + k]
        BY <4>1
      <4>4. ~(job'.pc \in HostRoles)
        BY <3>1
      <4> QED
        BY <4>2, <4>3, <4>4, Zenon DEF DeleteIsTail
    <3>4. OneMasterStays'
      BY <1>10, <3>1 DEF OneMasterStays, Quiet, HostRoles
    <3> QED
      BY <3>2, <3>3, <3>4 DEF JobInv
  <2> QED
    BY <1>8, <2>1, <2>2
<1>16. Mine' \subseteq Mine /\ AnyMaster /\ AnyMaster' /\ FirstHost' = FirstHost
  <2>1. Mine' \subseteq Mine
    BY <1>11, <1>12 DEF Mine, Listed, Range, HostRoles
  <2> QED
    BY <1>10, <2>1 DEF AnyMaster, FirstHost
<1>17. FirstInv'
  <2>1. FirstHostRuns' /\ FirstHostOnce'
    <3>1. FirstHostRuns'
      BY <1>2, <1>16 DEF ManagedInv, FirstInv, FirstHostRuns
    <3>2. \A r \in {"master", "node"} : \A k \in DOMAIN ipList'[r] :
            k \in DOMAIN ipList[r] /\ ipList'[r][k] = ipList[r][k]
      BY <1>11 DEF HostRoles
    <3>3. FirstHostOnce'
      BY <1>12, <1>16, <3>2 DEF ManagedInv, FirstInv, FirstHostOnce
    <3> QED
      BY <3>1, <3>3
  <2>2. \A a : At(a)' = At(a)
    BY <1>2 DEF At
  <2>3. LabelInv'
    BY <1>16, <2>2 DEF ManagedInv, FirstInv, LabelInv
  <2> QED
    BY <2>1, <2>3 DEF FirstInv
<1>18. \A r \in HostRoles : Gone(r)' = {}
  <2>1. ASSUME NEW r \in HostRoles, NEW k \in Gone(r)'
        PROVE  FALSE
    <3>1. /\ r = job'.pc /\ k \in DOMAIN ipList'[r] /\ k > Len(ipList'[r]) - job'.trim
          /\ k <= Len(ipList'[r]) - Len(job'.delete[r])
      BY <2>1 DEF Gone
    <3>2. r0 = "master" /\ r = "node"
      <4>1. NoWork("ok").pc = "ok" /\ "ok" \notin HostRoles
        BY NoWorkFields DEF JobStates, HostRoles
      <4> QED
        BY <1>8, <1>12, <2>1, <3>1, <4>1
    <3>3. job'.trim = Len(job'.delete[r]) /\ Len(ipList'[r]) \in Nat /\ Len(job'.delete[r]) \in Nat
      <4>1. job'.trim = Len(job'.delete[r])
        BY <1>12, <3>2
      <4>2. ipList'[r] \in Seq(Addresses) /\ job'.delete[r] \in Seq(Addresses)
        BY <1>12, <1>13, <2>1 DEF ContainerTypeOK, Job
      <4> QED
        BY <4>1, <4>2
    <3>4. k \in Nat
      BY <1>13, <3>1 DEF ContainerTypeOK
    <3>5. ASSUME NEW l \in Nat, NEW d \in Nat, k > l - d, k <= l - d
          PROVE  FALSE
      BY <3>4, <3>5
    <3> QED
      BY <3>1, <3>3, <3>5
  <2> QED
    BY <2>1
<1>19. \A r \in HostRoles : Gone(r) = {k \in DOMAIN ipList[r] : k \notin DOMAIN ipList'[r]}
  <2>1. \A r \in HostRoles : r # r0 => Gone(r) = {} /\ ipList'[r] = ipList[r]
    BY <1>1, <1>6 DEF Gone
  <2>2. Gone(r0) = {k \in DOMAIN L : k > Len(L) - t /\ k <= Len(L) - 0}
    BY <1>1, <1>2, <1>3 DEF Gone
  <2>3. \A k \in DOMAIN L : (k > Len(L) - t /\ k <= Len(L) - 0) <=> k \notin DOMAIN u
    BY <1>4, <1>5
  <2>4. Gone(r0) = {k \in DOMAIN L : k \notin DOMAIN u}
    BY <2>2, <2>3
  <2> QED
    BY <1>3, <1>6, <2>1, <2>4
<1>20. HostsRun'
  <2> SUFFICES ASSUME NoFailedRemoval
               PROVE  \A r \in HostRoles : \A k \in DOMAIN ipList'[r] :
                        ipList'[r][k] \in DOMAIN recorded <=> k \notin Gone(r)'
    <3>1. DOMAIN job'.joined = {} /\ recorded' = recorded /\ conFaults' = conFaults
      BY <1>2, <1>12
    <3> QED
      BY <3>1 DEF HostsRun, NoFailedRemoval
  <2>1. \A r \in HostRoles : \A k \in DOMAIN ipList[r] :
          ipList[r][k] \in DOMAIN recorded <=> k \notin Gone(r)
    BY DEF ManagedInv, HostsRun
  <2> QED
    BY <1>11, <1>18, <1>19, <2>1
<1>21. HostsDistinct'
  <2> SUFFICES ASSUME NoFailedRemoval
               PROVE  HostsDistinct'
    BY <1>2 DEF HostsDistinct, NoFailedRemoval
  <2>1. /\ \A r \in HostRoles : \A k, l \in DOMAIN ipList[r] : ipList[r][k] = ipList[r][l] => k = l
        /\ \A k \in DOMAIN ipList["master"] : \A l \in DOMAIN ipList["node"] :
             ipList["master"][k] # ipList["node"][l]
    BY DEF ManagedInv, HostsDistinct
  <2>2. \A r \in HostRoles : \A k, l \in DOMAIN ipList'[r] : ipList'[r][k] = ipList'[r][l] => k = l
    BY <1>11, <2>1
  <2>3. \A k \in DOMAIN ipList'["master"] : \A l \in DOMAIN ipList'["node"] :
          ipList'["master"][k] # ipList'["node"][l]
    BY <1>11, <2>1 DEF HostRoles
  <2>4. DOMAIN job'.joined = {}
    BY <1>12
  <2> QED
    BY <2>2, <2>3, <2>4 DEF HostsDistinct
<1>22. AllMine'
  <2> SUFFICES ASSUME conFaults = <<>>, NEW c \in containers
               PROVE  c.ip \in DOMAIN recorded /\ c.ip \in Mine'
    BY <1>2 DEF AllMine
  <2>1. c.ip \in DOMAIN recorded /\ c.ip \in Mine
    BY DEF ManagedInv, AllMine
  <2>5. PICK r \in HostRoles : \E k \in DOMAIN ipList[r] : c.ip = ipList[r][k]
    BY <1>2, <2>1 DEF Mine, Listed, Range, HostRoles
  <2>2. PICK k \in DOMAIN ipList[r] : c.ip = ipList[r][k]
    BY <2>5
  <2>3. k \notin Gone(r)
    BY <2>1, <2>2 DEF ManagedInv, HostsRun, NoFailedRemoval, Range
  <2>4. k \in DOMAIN ipList'[r] /\ ipList'[r][k] = c.ip
    BY <1>11, <1>19, <2>2, <2>3
  <2> QED
    BY <1>8, <2>1, <2>4 DEF Mine, Listed, Range
<1> QED
  BY <1>13, <1>14, <1>15, <1>17, <1>20, <1>21, <1>22 DEF ManagedInv

-------------------------------------------------------------------------------
(* The properties *)

\* The image of an interval under an injective function.
LEMMA CountedOnce ==
  ASSUME NEW n \in Nat, NEW T, NEW f \in [1 .. n -> T],
         \A x, y \in 1 .. n : f[x] = f[y] => x = y,
         \A t \in T : \E x \in 1 .. n : f[x] = t
  PROVE  Cardinality(T) = n
<1>1. f \in Bijection(1 .. n, T)
  BY DEF Bijection, Injection, Surjection, IsInjective
<1>2. IsFiniteSet(1 .. n) /\ Cardinality(1 .. n) = n
  BY FS_Interval
<1> QED
  BY <1>1, <1>2, FS_Bijection DEF ExistsBijection

\* Two lists without a repeated element hold as many elements as they are long.
LEMMA DistinctLists ==
  ASSUME NEW S, NEW s \in Seq(S), NEW t \in Seq(S),
         \A k, l \in DOMAIN s : s[k] = s[l] => k = l,
         \A k, l \in DOMAIN t : t[k] = t[l] => k = l,
         \A k \in DOMAIN s : \A l \in DOMAIN t : s[k] # t[l]
  PROVE  Cardinality(Range(s) \cup Range(t)) = Len(s) + Len(t)
<1> DEFINE n == Len(s) + Len(t)
<1>1. n \in Nat /\ Len(s) \in Nat /\ DOMAIN s = 1 .. Len(s) /\ DOMAIN t = 1 .. Len(t)
  OBVIOUS
<1>2. Joins(s \o t, s, t) /\ DOMAIN (s \o t) = 1 .. n
  BY Concatenated
<1>3. PICK u \in Seq(S) : u = s \o t
  BY Concatenated
<1>4. /\ \A k \in DOMAIN s : k \in DOMAIN u /\ u[k] = s[k]
      /\ \A k \in DOMAIN t : Len(s) + k \in DOMAIN u /\ u[Len(s) + k] = t[k]
      /\ \A k \in DOMAIN u : k \in DOMAIN s \/ \E l \in DOMAIN t : k = Len(s) + l
      /\ Range(u) = Range(s) \cup Range(t)
  BY <1>2, <1>3, Zenon DEF Joins
<1>5. DOMAIN u = 1 .. n /\ u \in [1 .. n -> Range(u)]
  <2>1. DOMAIN u = 1 .. n /\ u = [k \in DOMAIN u |-> u[k]]
    <3>1. DOMAIN u = 1 .. n
      BY <1>2, <1>3
    <3>2. u = [k \in 1 .. Len(u) |-> u[k]] /\ DOMAIN u = 1 .. Len(u)
      OBVIOUS
    <3> HIDE DEF n
    <3> QED
      BY <3>1, <3>2, Zenon
  <2>2. \A k \in DOMAIN u : u[k] \in Range(u)
    BY DEF Range
  <2> HIDE DEF n
  <2> QED
    BY <2>1, <2>2
<1>6. \A x, y \in 1 .. n : u[x] = u[y] => x = y
  <2> SUFFICES ASSUME NEW x \in DOMAIN u, NEW y \in DOMAIN u, u[x] = u[y]
               PROVE  x = y
    BY <1>5
  <2>1. CASE x \in DOMAIN s /\ y \in DOMAIN s
    BY <1>4, <2>1
  <2>2. CASE x \in DOMAIN s /\ y \notin DOMAIN s
    BY <1>4, <2>2
  <2>3. CASE x \notin DOMAIN s /\ y \in DOMAIN s
    BY <1>4, <2>3
  <2>4. CASE x \notin DOMAIN s /\ y \notin DOMAIN s
    <3>1. PICK a \in DOMAIN t : x = Len(s) + a
      BY <1>4, <2>4
    <3>2. PICK b \in DOMAIN t : y = Len(s) + b
      BY <1>4, <2>4
    <3>3. t[a] = t[b]
      BY <1>4, <3>1, <3>2
    <3> QED
      BY <3>1, <3>2, <3>3
  <2> QED
    BY <2>1, <2>2, <2>3, <2>4
<1>7. \A e \in Range(u) : \E x \in 1 .. n : u[x] = e
  BY <1>5 DEF Range
<1> HIDE DEF n
<1>8. Cardinality(Range(u)) = n
  BY <1>1, <1>5, <1>6, <1>7, CountedOnce
<1> QED
  BY <1>4, <1>8 DEF n

LEMMA PropertiesOfManaged ==
  ASSUME ContainerTypeOK, ManagedInv
  PROVE  FirstMasterLabelled /\ ListedHostsRun /\ CleanUpRemovesAll
<1>1. job.pc # "clean"
  BY DEF ManagedInv, JobInv, OneMasterStays, Quiet, HostRoles
<1>2. FirstMasterLabelled
  <2>1. CASE ipList["master"] = <<>>
    BY <2>1 DEF FirstMasterLabelled, Listed, Range, ManagedInv, JobInv, OneMasterStays
  <2>2. CASE ipList["master"] # <<>>
    BY <2>2 DEF FirstMasterLabelled, Mine, ManagedInv, FirstInv, LabelInv, FirstHost
  <2> QED
    BY <2>1, <2>2
<1>3. ListedHostsRun
  <2> SUFFICES ASSUME Quiet, NoFailedRemoval
               PROVE  /\ \A ip \in Listed : At(ip) # {}
                      /\ Cardinality(Listed) = Len(ipList["master"]) + Len(ipList["node"])
    BY DEF ListedHostsRun, NoFailedRemoval
  <2>1. \A r \in HostRoles : Gone(r) = {}
    BY NothingGone DEF ManagedInv, Quiet, HostRoles
  <2>2. Listed \subseteq DOMAIN recorded
    BY <2>1 DEF ManagedInv, HostsRun, Listed, Range, HostRoles
  <2>3. \A ip \in Listed : At(ip) # {}
    BY <2>2, RecordedIsTaken DEF ManagedInv
  <2>4. ipList["master"] \in Seq(Addresses) /\ ipList["node"] \in Seq(Addresses)
    BY JobFields DEF HostRoles
  <2>5. /\ \A k, l \in DOMAIN ipList["master"] : ipList["master"][k] = ipList["master"][l] => k = l
        /\ \A k, l \in DOMAIN ipList["node"] : ipList["node"][k] = ipList["node"][l] => k = l
        /\ \A k \in DOMAIN ipList["master"] : \A l \in DOMAIN ipList["node"] :
             ipList["master"][k] # ipList["node"][l]
    BY DEF ManagedInv, HostsDistinct, HostRoles
  <2>6. PICK s \in Seq(Addresses), t \in Seq(Addresses) : s = ipList["master"] /\ t = ipList["node"]
    BY <2>4
  <2>7. Cardinality(Range(s) \cup Range(t)) = Len(s) + Len(t)
    BY <2>5, <2>6, DistinctLists
  <2> QED
    BY <2>3, <2>6, <2>7 DEF Listed
<1> QED
  BY <1>1, <1>2, <1>3 DEF CleanUpRemovesAll

\* CleanUp: with every host in its place, no container is left.
LEMMA CleanUpStep ==
  ASSUME ContainerTypeOK, ManagedInv, CleanUp
  PROVE  ContainerTypeOK' /\ ~Managed' /\ FirstMasterLabelled' /\ ListedHostsRun' /\ CleanUpRemovesAll'
<1> DEFINE ids(list) == {recorded[list[k]] : k \in {j \in DOMAIN list : list[j] \in DOMAIN recorded}}
           all == ipList["master"] \o ipList["node"]
<1>1. /\ Quiet /\ conApplies' = MaxContainerApply
      /\ UNCHANGED <<dockerd, recorded, ipList, lastId>>
  BY DEF CleanUp
<1>2. containers' \subseteq containers
  BY DEF CleanUp
<1>3. \/ job' = NoWork("clean") /\ UNCHANGED conFaults /\ containers' = {c \in containers : c.id \notin ids(all)}
      \/ job' = NoWork("failed") /\ DockerFails("rm")
  BY DEF CleanUp
<1> HIDE DEF ids, all
<1>4. FirstMasterLabelled
  BY PropertiesOfManaged
<1>5. FirstMasterLabelled'
  <2>1. Listed' = Listed /\ \A ip : At(ip)' \subseteq At(ip)
    BY <1>1, <1>2 DEF Listed, At
  <2> QED
    BY <1>1, <1>4, <2>1 DEF FirstMasterLabelled
<1>6. CASE job' = NoWork("clean") /\ UNCHANGED conFaults /\ containers' = {c \in containers : c.id \notin ids(all)}
  <2>1. job'.pc = "clean" /\ job' \in Job
    BY <1>6, NoWorkFields DEF JobStates
  <2>2. ContainerTypeOK' /\ ~Managed' /\ ListedHostsRun'
    BY <1>1, <1>2, <1>6, <2>1, ContainerAssumption
       DEF ContainerTypeOK, Managed, ListedHostsRun, Quiet, HostRoles
  <2>3. CleanUpRemovesAll'
    <3> SUFFICES ASSUME conFaults = <<>>, NEW c \in containers
                 PROVE  c.id \in ids(all)
      BY <1>6 DEF CleanUpRemovesAll
    <3>1. c.ip \in DOMAIN recorded /\ c.ip \in Mine
      BY DEF ManagedInv, AllMine
    <3>2. recorded[c.ip] = c.id
      <4>1. PICK d \in containers : d.id = recorded[c.ip] /\ d.ip = c.ip
        BY <3>1 DEF ManagedInv, DockerInv, AnnotationsTrue
      <4>2. c.ip # NoIP
        BY <3>1, ContainerAssumption DEF ContainerTypeOK
      <4> QED
        BY <4>1, <4>2 DEF ManagedInv, DockerInv, AddressesUnique
    <3>3. job.joined = <<>>
      <4>1. job.pc \notin HostRoles /\ job.pc \in JobStates
        BY <1>1, JobFields DEF Quiet, HostRoles
      <4>2. job = NoWork(job.pc)
        BY <4>1 DEF ManagedInv, JobInv, OneMasterStays
      <4> QED
        BY <4>1, <4>2, NoWorkFields
    <3>4. c.ip \in Range(ipList["master"]) \cup Range(ipList["node"])
      BY <3>1, <3>3 DEF Mine, Listed, Range
    <3>5. Joins(all, ipList["master"], ipList["node"])
      BY Concatenated, JobFields DEF all, HostRoles
    <3>6. c.ip \in Range(all)
      BY <3>4, <3>5 DEF Joins
    <3>7. PICK k \in DOMAIN all : all[k] = c.ip
      BY <3>6 DEF Range
    <3> QED
      BY <3>1, <3>2, <3>7 DEF ids
  <2> QED
    BY <1>5, <2>2, <2>3
<1>7. CASE job' = NoWork("failed") /\ DockerFails("rm")
  <2>1. job'.pc = "failed" /\ job' \in Job
    BY <1>7, NoWorkFields DEF JobStates
  <2>2. conFaults' \in Seq(DockerFaults) /\ "rm" \in Range(conFaults')
    BY <1>7, FaultRecorded DEF DockerFaults
  <2> QED
    BY <1>1, <1>2, <1>5, <2>1, <2>2, ContainerAssumption
       DEF ContainerTypeOK, Managed, ListedHostsRun, CleanUpRemovesAll, HostRoles
<1> QED
  BY <1>3, <1>6, <1>7

LEMMA ContainerInit_Inv == InfraInit => ContainerInv
<1> SUFFICES ASSUME InfraInit
             PROVE  ContainerInv
  OBVIOUS
<1>1. /\ containers = {} /\ DOMAIN recorded = {} /\ recorded = [a \in {} |-> 0]
      /\ ipList = [r \in HostRoles |-> <<>>]
      /\ job = NoWork("idle") /\ lastId = 0 /\ conApplies = 0 /\ conFaults = <<>>
  BY DEF InfraInit, ContainerInit
<1>2. /\ job \in Job /\ job.pc = "idle" /\ job.joined = <<>> /\ job.trim = 0 /\ job.pc \notin HostRoles
      /\ \A r \in HostRoles : job.join[r] = 0 /\ job.delete[r] = <<>>
  BY <1>1, NoWorkFields DEF JobStates, HostRoles
<1>3. /\ \A r \in HostRoles : ipList[r] = <<>> /\ DOMAIN ipList[r] = {}
      /\ ipList["master"] = <<>> /\ ipList["node"] = <<>>
  BY <1>1 DEF HostRoles
<1>4. ContainerTypeOK
  <2>1. recorded \in [DOMAIN recorded -> Nat] /\ ipList \in [HostRoles -> Seq(Addresses)]
    BY <1>1
  <2>2. conFaults \in Seq(DockerFaults)
    BY <1>1
  <2> QED
    BY <1>1, <1>2, <2>1, <2>2 DEF ContainerTypeOK
<1>5. DockerInv
  BY <1>1 DEF DockerInv, IdsUnique, AddressesUnique, AnnotationsTrue
<1>6. JobInv
  <2>1. AddOrRemove /\ OneMasterStays
    BY <1>1, <1>2, <1>3 DEF AddOrRemove, OneMasterStays, Quiet, HostRoles
  <2>2. \A r \in HostRoles : Len(job.delete[r]) = 0 /\ Len(ipList[r]) = 0
    BY <1>2, <1>3
  <2>3. DeleteIsTail
    <3>1. ASSUME NEW r \in HostRoles, NEW k \in 1 .. Len(job.delete[r])
          PROVE  job.delete[r][k] = ipList[r][Len(ipList[r]) - Len(job.delete[r]) + k]
      BY <2>2, <3>1
    <3>2. \A r \in HostRoles : Len(job.delete[r]) <= Len(ipList[r])
      BY <2>2
    <3> QED
      BY <1>2, <3>1, <3>2, Zenon DEF DeleteIsTail
  <2> QED
    BY <2>1, <2>3 DEF JobInv
<1>7. Mine = {} /\ ~AnyMaster /\ DOMAIN job.joined = {}
  BY <1>2, <1>3 DEF Mine, Listed, AnyMaster, Range
<1>8. FirstInv
  <2>1. DOMAIN ipList["master"] = {} /\ DOMAIN ipList["node"] = {}
    BY <1>3
  <2> QED
    BY <1>7, <2>1 DEF FirstInv, FirstHostRuns, FirstHostOnce, LabelInv
<1>9. HostsRun /\ HostsDistinct /\ AllMine
  <2>1. DOMAIN ipList["master"] = {} /\ DOMAIN ipList["node"] = {}
    BY <1>3
  <2> QED
    BY <1>1, <1>3, <1>7, <2>1 DEF HostsRun, HostsDistinct, AllMine
<1>10. ManagedInv
  BY <1>5, <1>6, <1>8, <1>9 DEF ManagedInv
<1> QED
  BY <1>4, <1>10, PropertiesOfManaged DEF ContainerInv

LEMMA ContainerStep ==
  ASSUME ContainerInv, ContainerNext
  PROVE  ContainerInv'
<1>1. Managed
  BY DEF ContainerNext, ContainerApply, ApplyToJoin, AppendJoined, ApplyToDelete, TrimAndGoOn, CleanUp,
         Role, Managed
<1>2. ContainerTypeOK /\ ManagedInv
  BY <1>1 DEF ContainerInv
<1>3. CASE CleanUp
  BY <1>2, <1>3, CleanUpStep DEF ContainerInv
<1>4. CASE ContainerTypeOK' /\ ManagedInv'
  <2>1. (FirstMasterLabelled /\ ListedHostsRun /\ CleanUpRemovesAll)'
    BY <1>4, PropertiesOfManaged, PTL
  <2> QED
    BY <1>4, <2>1 DEF ContainerInv
<1>5. ASSUME NEW counts \in [HostRoles -> Counts], ContainerApply(counts)
      PROVE  ContainerTypeOK' /\ ManagedInv'
  BY <1>2, <1>5, ApplyStep
<1>6. CASE ApplyToJoin
  BY <1>2, <1>4, <1>6, ApplyToJoinStep
<1>7. CASE AppendJoined
  BY <1>2, <1>4, <1>7, AppendJoinedStep
<1>8. CASE ApplyToDelete
  BY <1>2, <1>4, <1>8, ApplyToDeleteStep
<1>9. CASE TrimAndGoOn
  BY <1>2, <1>4, <1>9, TrimStep
<1> QED
  BY <1>3, <1>4, <1>5, <1>6, <1>7, <1>8, <1>9 DEF ContainerNext

LEMMA ContainerUnchanged ==
  ASSUME ContainerInv, UNCHANGED conVars
  PROVE  ContainerInv'
<1>1. /\ containers' = containers /\ recorded' = recorded /\ ipList' = ipList /\ job' = job
      /\ lastId' = lastId /\ conApplies' = conApplies /\ conFaults' = conFaults
  BY DEF conVars
<1>2. ContainerTypeOK'
  BY <1>1 DEF ContainerInv, ContainerTypeOK
<1>3. Managed' = Managed /\ DockerInv' = DockerInv
  BY <1>1 DEF Managed, DockerInv, IdsUnique, AddressesUnique, AnnotationsTrue
<1>4. JobInv' = JobInv
  BY <1>1 DEF JobInv, AddOrRemove, DeleteIsTail, OneMasterStays, Quiet
<1>5. /\ Mine' = Mine /\ AnyMaster' = AnyMaster /\ FirstHost' = FirstHost /\ Listed' = Listed
      /\ \A a : At(a)' = At(a)
      /\ \A r : Gone(r)' = Gone(r)
  BY <1>1 DEF Mine, Listed, AnyMaster, FirstHost, At, Gone
<1>6. FirstInv' = FirstInv /\ HostsRun' = HostsRun /\ HostsDistinct' = HostsDistinct /\ AllMine' = AllMine
  BY <1>1, <1>5 DEF FirstInv, FirstHostRuns, FirstHostOnce, LabelInv, HostsRun, HostsDistinct, AllMine,
                    NoFailedRemoval
<1>7. (FirstMasterLabelled /\ ListedHostsRun /\ CleanUpRemovesAll)'
  BY <1>1, <1>5 DEF ContainerInv, FirstMasterLabelled, ListedHostsRun, CleanUpRemovesAll, Quiet
<1> QED
  BY <1>2, <1>3, <1>4, <1>6, <1>7 DEF ContainerInv, ManagedInv

LEMMA ContainerInvariant == InfraSpec => []ContainerInv
<1>1. ContainerInv /\ [NewDefaultProvider]_<<aliVars, conVars, provider>> => ContainerInv'
  <2> SUFFICES ASSUME ContainerInv, [NewDefaultProvider]_<<aliVars, conVars, provider>>
               PROVE  ContainerInv'
    OBVIOUS
  <2>1. CASE ContainerNext
    BY <2>1, ContainerStep
  <2>2. CASE UNCHANGED conVars
    BY <2>2, ContainerUnchanged
  <2> QED
    BY <2>1, <2>2 DEF NewDefaultProvider
<1> QED
  BY <1>1, ContainerInit_Inv, PTL DEF InfraSpec

\* Of the hosts listed, the first master and no other is the container applyToJoin
\* gave the master label, for any counts and whatever request of Docker failed.
THEOREM FirstMasterIsLabelled == InfraSpec => []FirstMasterLabelled
<1>1. ContainerInv => FirstMasterLabelled
  BY DEF ContainerInv
<1> QED
  BY <1>1, ContainerInvariant, PTL

\* Between two Apply calls every listed host is a running container of its own that
\* the annotations name, as long as no removal of a container failed.
THEOREM ListedHostsAlwaysRun == InfraSpec => []ListedHostsRun
<1>1. ContainerInv => ListedHostsRun
  BY DEF ContainerInv
<1> QED
  BY <1>1, ContainerInvariant, PTL

\* CleanUp after any faultless history of Apply calls leaves no container.
THEOREM CleanUpLeavesNoContainer == InfraSpec => []CleanUpRemovesAll
<1>1. ContainerInv => CleanUpRemovesAll
  BY DEF ContainerInv
<1> QED
  BY <1>1, ContainerInvariant, PTL
===============================================================================
