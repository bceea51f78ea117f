------------------------- MODULE AliProvider_proofs --------------------------
(* What the Alibaba Cloud provider keeps true through faults, lost answers, *)
(* crashes and any number of Apply calls.                                   *)
EXTENDS Infra, TLAPS, FiniteSetTheorems

Created == {"VpcID", "VSwitchID", "SecurityGroupID", "EipID"}

Cluster == [ann : [Keys -> Nat], ids : SUBSET Roles, ips : [Roles -> SUBSET Nat]]

Sizes == {w.size[r] : w \in Wants, r \in Roles}

Instance == [id : Nat \ {0}, role : Roles, size : Sizes, on : BOOLEAN, vsw : Nat, sg : Nat]

ReconcileSteps == DOMAIN After
ClearSteps == {"ReleaseEIP", "ClearInstances", "DeleteVSwitch", "DeleteSecurityGroup",
               "DeleteVPC", "clearing", "cleared"}
AliSteps == {"idle", "done", "failed"} \cup ClearSteps \cup
            {"VpcID", "ZoneID", "VSwitchID", "SecurityGroupID", "Master", "MasterType",
             "Node", "NodeType", "EipID"}

\* Numbers are given out in order, so no two instances share one.
AliTypeOK ==
  /\ cloud \subseteq [kind : Keys, id : Nat \ {0}]
  /\ inst \subseteq Instance /\ IsFiniteSet(inst)
  /\ \A i, j \in inst : i.id = j.id => i = j
  /\ \A i \in inst : i.id < next
  /\ mem \in Cluster /\ disk \in Cluster
  /\ want \in Wants
  /\ pc \in AliSteps
  /\ snap \subseteq Instance
  /\ next \in Nat \ {0}
  /\ faults \in Seq(Faults)

------------------------------------------------------------------------------
(* Operators.                                                              *)

LEMMA AfterSteps ==
  /\ After["VpcID"] = "ZoneID" /\ After["ZoneID"] = "VSwitchID"
  /\ After["VSwitchID"] = "SecurityGroupID" /\ After["SecurityGroupID"] = "Master"
  /\ After["Master"] = "MasterType" /\ After["MasterType"] = "Node"
  /\ After["Node"] = "NodeType" /\ After["NodeType"] = "EipID" /\ After["EipID"] = "done"
  BY DEF After

\* A cluster with one annotation set.
LEMMA Annotated ==
  ASSUME NEW m \in Cluster, NEW k \in Keys, NEW v \in Nat
  PROVE  /\ [m EXCEPT !.ann[k] = v] \in Cluster
         /\ [m EXCEPT !.ann[k] = v].ann[k] = v
         /\ \A x \in Keys : x # k => [m EXCEPT !.ann[k] = v].ann[x] = m.ann[x]
         /\ [m EXCEPT !.ann[k] = v].ids = m.ids
         /\ [m EXCEPT !.ann[k] = v].ips = m.ips
  BY DEF Cluster

\* A cluster with a role created and its addresses replaced.
LEMMA Addressed ==
  ASSUME NEW m \in Cluster, NEW r \in Roles, NEW S \in SUBSET Roles, NEW A \in SUBSET Nat
  PROVE  /\ [m EXCEPT !.ids = S] \in Cluster
         /\ [m EXCEPT !.ids = S].ann = m.ann
         /\ [m EXCEPT !.ids = S, !.ips[r] = A] \in Cluster
         /\ [m EXCEPT !.ids = S, !.ips[r] = A].ann = m.ann
         /\ [m EXCEPT !.ips[r] = A] \in Cluster
         /\ [m EXCEPT !.ips[r] = A].ann = m.ann
  BY DEF Cluster

\* A recorded fault.
LEMMA FaultType ==
  ASSUME faults \in Seq(Faults), NEW k \in Faults, Fault(k)
  PROVE  faults' \in Seq(Faults) /\ faults' # <<>>
  BY DEF Fault

\* The size an instance of the role should have.
LEMMA WantedSize ==
  ASSUME AliTypeOK, NEW r \in Roles
  PROVE  want.size[r] \in Sizes /\ want.count[r] \in Int
  BY WantsAssumption DEF AliTypeOK, Sizes

\* The image of a finite set under an injective function.
LEMMA ImageOfInjection ==
  ASSUME NEW S, IsFiniteSet(S), NEW T, NEW f \in [S -> T], \A x, y \in S : f[x] = f[y] => x = y,
         \A t \in T : \E x \in S : f[x] = t
  PROVE  IsFiniteSet(T) /\ Cardinality(T) = Cardinality(S)
<1>1. f \in Bijection(S, T)
  BY DEF Bijection, Injection, Surjection, IsInjective
<1> QED
  BY <1>1, FS_Bijection DEF ExistsBijection
------------------------------------------------------------------------------
(* Type correctness.                                                       *)

LEMMA SaveType ==
  ASSUME AliTypeOK, NEW m \in Cluster, NEW s \in AliSteps, SaveToDisk(m, s)
  PROVE  /\ mem' = m /\ disk' \in {m, disk} /\ pc' \in {s, "failed"} /\ snap' = {}
         /\ mem' \in Cluster /\ disk' \in Cluster /\ pc' \in AliSteps /\ faults' \in Seq(Faults)
<1>1. CASE disk' = m /\ Goto(s) /\ UNCHANGED faults
  BY <1>1 DEF SaveToDisk, Goto, AliTypeOK
<1>2. CASE Fault("save") /\ Goto("failed") /\ UNCHANGED disk
  <2>1. faults' \in Seq(Faults)
    BY <1>2, FaultType DEF AliTypeOK, Faults
  <2> QED
    BY <1>2, <2>1 DEF SaveToDisk, Goto, AliTypeOK, AliSteps
<1> QED
  BY <1>1, <1>2 DEF SaveToDisk

\* A step leaves the instances alone.
LEMMA SameInstances ==
  ASSUME AliTypeOK, inst' = inst, next' \in Nat, next' >= next,
         cloud' \subseteq [kind : Keys, id : Nat \ {0}], mem' \in Cluster, disk' \in Cluster,
         want' \in Wants, pc' \in AliSteps, snap' \subseteq Instance, faults' \in Seq(Faults)
  PROVE  AliTypeOK'
<1>1. \A i \in inst : i.id \in Nat /\ i.id < next
  BY DEF AliTypeOK, Instance
<1>2. next \in Nat /\ next > 0
  BY DEF AliTypeOK
<1>3. next' \in Nat \ {0} /\ \A i \in inst' : i.id < next'
  BY <1>1, <1>2
<1> QED
  BY <1>3 DEF AliTypeOK

LEMMA RequestFailsType ==
  ASSUME AliTypeOK, NEW key \in Keys, RequestFails({[kind |-> key, id |-> next]}), UNCHANGED want
  PROVE  AliTypeOK'
<1>1. faults' \in Seq(Faults)
  BY FaultType DEF RequestFails, AliTypeOK, Faults
<1>2. cloud' \subseteq [kind : Keys, id : Nat \ {0}]
  BY DEF RequestFails, AliTypeOK
<1>3. next' \in Nat /\ next' >= next /\ inst' = inst
  BY DEF RequestFails, AliTypeOK
<1>4. mem' \in Cluster /\ disk' \in Cluster /\ pc' \in AliSteps /\ snap' \subseteq Instance /\ want' \in Wants
  BY DEF RequestFails, AliTypeOK, Goto, AliSteps
<1> QED
  BY <1>1, <1>2, <1>3, <1>4, SameInstances

LEMMA CreateType ==
  ASSUME AliTypeOK, NEW key \in {"VpcID", "VSwitchID", "SecurityGroupID"}, CreateResource(key)
  PROVE  AliTypeOK'
<1>0. key \in Keys /\ After[key] \in AliSteps
  BY AfterSteps DEF Keys, AliSteps
<1>1. CASE mem.ann[key] # None
  <2>1. Goto(After[key]) /\ UNCHANGED <<cloudVars, mem, disk, faults, want>>
    BY <1>1 DEF CreateResource
  <2> QED
    BY <1>0, <2>1, SameInstances DEF Goto, cloudVars, AliTypeOK
<1>2. CASE RequestFails({[kind |-> key, id |-> next]})
  BY <1>0, <1>2, RequestFailsType DEF CreateResource
<1>3. CASE /\ cloud' = cloud \cup {[kind |-> key, id |-> next]} /\ next' = next + 1
           /\ SaveToDisk([mem EXCEPT !.ann[key] = next], After[key])
           /\ UNCHANGED <<inst, bound>>
  <2>1. [mem EXCEPT !.ann[key] = next] \in Cluster
    BY <1>0, Annotated DEF AliTypeOK
  <2>2. mem' \in Cluster /\ disk' \in Cluster /\ pc' \in AliSteps /\ faults' \in Seq(Faults) /\ snap' = {}
    BY <1>0, <1>3, <2>1, SaveType
  <2>3. cloud' \subseteq [kind : Keys, id : Nat \ {0}] /\ next' \in Nat /\ next' >= next
    BY <1>0, <1>3 DEF AliTypeOK
  <2>4. want' \in Wants /\ snap' \subseteq Instance
    BY <2>2 DEF CreateResource, AliTypeOK
  <2> QED
    BY <1>3, <2>2, <2>3, <2>4, SameInstances
<1>4. CASE /\ Fault("lost")
           /\ cloud' = cloud \cup {[kind |-> key, id |-> next], [kind |-> key, id |-> next + 1]}
           /\ next' = next + 2
           /\ mem' = [mem EXCEPT !.ann[key] = next + 1] /\ disk' = mem'
           /\ Goto(After[key])
           /\ UNCHANGED <<inst, bound>>
  <2>1. mem' \in Cluster
    BY <1>0, <1>4, Annotated DEF AliTypeOK
  <2>2. faults' \in Seq(Faults)
    BY <1>4, FaultType DEF AliTypeOK, Faults
  <2>3. cloud' \subseteq [kind : Keys, id : Nat \ {0}] /\ next' \in Nat /\ next' >= next
    BY <1>0, <1>4 DEF AliTypeOK
  <2>4. want' \in Wants /\ snap' \subseteq Instance /\ pc' \in AliSteps /\ disk' \in Cluster
    BY <1>0, <1>4, <2>1 DEF CreateResource, AliTypeOK, Goto
  <2> QED
    BY <1>4, <2>1, <2>2, <2>3, <2>4, SameInstances
<1> QED
  BY <1>1, <1>2, <1>3, <1>4 DEF CreateResource

LEMMA ZoneType ==
  ASSUME AliTypeOK, GetZoneID
  PROVE  AliTypeOK'
<1>1. mem' \in Cluster /\ disk' \in Cluster /\ pc' \in AliSteps /\ faults' \in Seq(Faults) /\ snap' = {}
  <2>1. CASE Goto(After["ZoneID"]) /\ UNCHANGED <<mem, disk, faults>>
    BY <2>1, AfterSteps DEF Goto, AliTypeOK, AliSteps
  <2>2. CASE SaveToDisk([mem EXCEPT !.ann["ZoneID"] = 1], After["ZoneID"])
    <3>1. [mem EXCEPT !.ann["ZoneID"] = 1] \in Cluster
      BY Annotated DEF AliTypeOK, Keys
    <3>2. After["ZoneID"] \in AliSteps
      BY AfterSteps DEF AliSteps
    <3> QED
      BY <2>2, <3>1, <3>2, SaveType
  <2>3. CASE Fault("error") /\ Goto("failed") /\ UNCHANGED <<mem, disk>>
    BY <2>3, FaultType DEF AliTypeOK, Faults, Goto, AliSteps
  <2> QED
    BY <2>1, <2>2, <2>3 DEF GetZoneID
<1>2. inst' = inst /\ next' = next /\ cloud' = cloud /\ want' = want
  BY DEF GetZoneID, cloudVars
<1> QED
  BY <1>1, <1>2, SameInstances DEF AliTypeOK
\* The instances of one RunInstances.
Batch(role, n) == {NewInstance(role, next + j) : j \in 0 .. n - 1}

LEMMA NewInstanceType ==
  ASSUME AliTypeOK, NEW role \in Roles, NEW k \in Nat \ {0}
  PROVE  /\ NewInstance(role, k) \in Instance
         /\ NewInstance(role, k).id = k /\ NewInstance(role, k).role = role
         /\ NewInstance(role, k).size = want.size[role] /\ NewInstance(role, k).on
         /\ NewInstance(role, k).vsw = mem.ann["VSwitchID"]
         /\ NewInstance(role, k).sg = mem.ann["SecurityGroupID"]
<1>1. mem.ann["VSwitchID"] \in Nat /\ mem.ann["SecurityGroupID"] \in Nat
  BY DEF AliTypeOK, Cluster, Keys
<1> QED
  BY <1>1, WantedSize DEF NewInstance, Instance

LEMMA BatchType ==
  ASSUME AliTypeOK, NEW role \in Roles, NEW n \in Nat
  PROVE  /\ Batch(role, n) \subseteq Instance
         /\ IsFiniteSet(Batch(role, n)) /\ Cardinality(Batch(role, n)) = n
         /\ \A i \in Batch(role, n) : i.id >= next /\ i.id < next + n
         /\ \A i, j \in Batch(role, n) : i.id = j.id => i = j
<1> DEFINE f == [j \in 0 .. n - 1 |-> NewInstance(role, next + j)]
<1>0. next \in Nat /\ next > 0
  BY DEF AliTypeOK
<1>1. \A j \in 0 .. n - 1 : next + j \in Nat \ {0} /\ NewInstance(role, next + j) \in Instance
                            /\ NewInstance(role, next + j).id = next + j
  BY <1>0, NewInstanceType
<1>2. Batch(role, n) \subseteq Instance
  BY <1>1 DEF Batch
<1>3. \A i \in Batch(role, n) : i.id >= next /\ i.id < next + n
  BY <1>0, <1>1 DEF Batch
<1>4. \A i, j \in Batch(role, n) : i.id = j.id => i = j
  <2> SUFFICES ASSUME NEW i \in Batch(role, n), NEW j \in Batch(role, n), i.id = j.id
               PROVE  i = j
    OBVIOUS
  <2>1. PICK a \in 0 .. n - 1 : i = NewInstance(role, next + a)
    BY DEF Batch
  <2>2. PICK b \in 0 .. n - 1 : j = NewInstance(role, next + b)
    BY DEF Batch
  <2>3. a = b
    BY <1>0, <1>1, <2>1, <2>2
  <2> QED
    BY <2>1, <2>2, <2>3
<1>5. f \in [0 .. n - 1 -> Batch(role, n)]
  BY DEF Batch
<1>6. \A x, y \in 0 .. n - 1 : f[x] = f[y] => x = y
  BY <1>0, <1>1
<1>7. \A t \in Batch(role, n) : \E x \in 0 .. n - 1 : f[x] = t
  BY DEF Batch
<1>8. IsFiniteSet(0 .. n - 1) /\ Cardinality(0 .. n - 1) = n
  BY FS_Interval
<1>9. IsFiniteSet(Batch(role, n)) /\ Cardinality(Batch(role, n)) = n
  <2> HIDE DEF f
  <2> QED
    BY <1>5, <1>6, <1>7, <1>8, ImageOfInjection
<1> QED
  BY <1>2, <1>3, <1>4, <1>9

\* What a step does to the instances that keeps their type: it adds a batch, it
\* removes some, or it changes some without changing who they are.
SameButFor(i, j) == i.id = j.id /\ i.role = j.role /\ i.vsw = j.vsw /\ i.sg = j.sg

LEMMA BatchAdded ==
  ASSUME AliTypeOK, NEW role \in Roles, NEW n \in Nat, inst' = inst \cup Batch(role, n), next' = next + n
  PROVE  /\ inst' \subseteq Instance /\ IsFiniteSet(inst')
         /\ \A i, j \in inst' : i.id = j.id => i = j
         /\ \A i \in inst' : i.id < next'
         /\ next' \in Nat \ {0}
<1>0. next \in Nat /\ next > 0 /\ next' \in Nat \ {0}
  BY DEF AliTypeOK
<1>1. \A i \in inst : i \in Instance /\ i.id \in Nat /\ i.id < next
  BY DEF AliTypeOK, Instance
<1>2. \A i \in Batch(role, n) : i \in Instance /\ i.id \in Nat /\ i.id >= next /\ i.id < next + n
  BY BatchType DEF Instance
<1>3. IsFiniteSet(inst')
  BY BatchType, FS_Union DEF AliTypeOK
<1>4. \A i, j \in inst' : i.id = j.id => i = j
  <2> SUFFICES ASSUME NEW i \in inst', NEW j \in inst', i.id = j.id
               PROVE  i = j
    OBVIOUS
  <2>1. CASE i \in inst /\ j \in inst
    BY <2>1 DEF AliTypeOK
  <2>2. CASE i \in Batch(role, n) /\ j \in Batch(role, n)
    BY <2>2, BatchType
  <2>3. CASE i \in inst /\ j \in Batch(role, n)
    BY <1>0, <1>1, <1>2, <2>3
  <2>4. CASE j \in inst /\ i \in Batch(role, n)
    BY <1>0, <1>1, <1>2, <2>4
  <2> QED
    BY <2>1, <2>2, <2>3, <2>4
<1>5. \A i \in inst' : i.id < next'
  BY <1>0, <1>1, <1>2
<1> QED
  BY <1>0, <1>1, <1>2, <1>3, <1>4, <1>5

LEMMA SomeChanged ==
  ASSUME AliTypeOK, NEW some \in SUBSET inst, NEW f \in [some -> Instance],
         \A i \in some : SameButFor(f[i], i),
         inst' = (inst \ some) \cup {f[i] : i \in some}, next' = next
  PROVE  /\ inst' \subseteq Instance /\ IsFiniteSet(inst')
         /\ \A i, j \in inst' : i.id = j.id => i = j
         /\ \A i \in inst' : i.id < next'
<1>0. \A i \in inst : i \in Instance /\ i.id < next
  BY DEF AliTypeOK
<1>1. inst' \subseteq Instance
  BY <1>0
<1>2. \A i \in inst' : i.id < next'
  BY <1>0 DEF SameButFor
<1>3. \A i, j \in inst' : i.id = j.id => i = j
  <2> SUFFICES ASSUME NEW i \in inst', NEW j \in inst', i.id = j.id
               PROVE  i = j
    OBVIOUS
  <2>0. \A a, b \in inst : a.id = b.id => a = b
    BY DEF AliTypeOK
  <2>1. CASE i \in inst \ some /\ j \in inst \ some
    BY <2>0, <2>1
  <2>2. CASE i \in {f[x] : x \in some} /\ j \in {f[x] : x \in some}
    <3>1. PICK a \in some : i = f[a]
      BY <2>2
    <3>2. PICK b \in some : j = f[b]
      BY <2>2
    <3>3. a.id = b.id
      BY <3>1, <3>2 DEF SameButFor
    <3> QED
      BY <2>0, <3>1, <3>2, <3>3
  <2>3. CASE i \in inst \ some /\ j \in {f[x] : x \in some}
    <3>1. PICK b \in some : j = f[b]
      BY <2>3
    <3> QED
      BY <2>0, <2>3, <3>1 DEF SameButFor
  <2>4. CASE j \in inst \ some /\ i \in {f[x] : x \in some}
    <3>1. PICK b \in some : i = f[b]
      BY <2>4
    <3> QED
      BY <2>0, <2>4, <3>1 DEF SameButFor
  <2> QED
    BY <2>1, <2>2, <2>3, <2>4
<1>4. IsFiniteSet(inst')
  <2>1. IsFiniteSet(some) /\ IsFiniteSet(inst \ some)
    BY FS_Subset DEF AliTypeOK
  <2>2. f \in Surjection(some, {f[i] : i \in some})
    BY DEF Surjection
  <2>3. IsFiniteSet({f[i] : i \in some})
    BY <2>1, <2>2, FS_Surjection
  <2> QED
    BY <2>1, <2>3, FS_Union
<1> QED
  BY <1>1, <1>2, <1>3, <1>4
\* Some instances change their size or are switched on or off.
Changed == \E some \in SUBSET inst : \E f \in [some -> Instance] :
             /\ \A i \in some : SameButFor(f[i], i)
             /\ inst' = (inst \ some) \cup {f[i] : i \in some}

LEMMA ResizedSome ==
  ASSUME AliTypeOK, NEW role \in Roles, NEW on \in BOOLEAN, NEW some \in SUBSET inst,
         inst' = (inst \ some) \cup {Resized(i, role, on) : i \in some}
  PROVE  Changed
<1> DEFINE f == [i \in some |-> Resized(i, role, on)]
<1>1. \A i \in some : Resized(i, role, on) \in Instance /\ SameButFor(Resized(i, role, on), i)
  <2> TAKE i \in some
  <2>1. i \in Instance
    BY DEF AliTypeOK
  <2> QED
    BY <2>1, WantedSize DEF Resized, Instance, SameButFor
<1>2. f \in [some -> Instance] /\ \A i \in some : SameButFor(f[i], i)
  BY <1>1
<1>3. {f[i] : i \in some} = {Resized(i, role, on) : i \in some}
  OBVIOUS
<1> HIDE DEF f
<1> QED
  BY <1>2, <1>3 DEF Changed

LEMMA SwitchedSome ==
  ASSUME AliTypeOK, NEW on \in BOOLEAN, NEW some \in SUBSET inst,
         inst' = (inst \ some) \cup {[i EXCEPT !.on = on] : i \in some}
  PROVE  Changed
<1> DEFINE f == [i \in some |-> [i EXCEPT !.on = on]]
<1>1. \A i \in some : [i EXCEPT !.on = on] \in Instance /\ SameButFor([i EXCEPT !.on = on], i)
  <2> TAKE i \in some
  <2>1. i \in Instance
    BY DEF AliTypeOK
  <2> QED
    BY <2>1 DEF Instance, SameButFor
<1>2. f \in [some -> Instance] /\ \A i \in some : SameButFor(f[i], i)
  BY <1>1
<1>3. {f[i] : i \in some} = {[i EXCEPT !.on = on] : i \in some}
  OBVIOUS
<1> HIDE DEF f
<1> QED
  BY <1>2, <1>3 DEF Changed

\* ChangeInstanceType neither makes nor removes an instance.
LEMMA ChangeMoves ==
  ASSUME AliTypeOK, NEW role \in Roles, ChangeInstanceType(role)
  PROVE  Changed /\ pc' \in AliSteps /\ snap' = {} /\ faults' \in Seq(Faults)
<1> DEFINE todo == {i \in snap : i.size # want.size[role]}
           set(some, on) == (inst \ some) \cup {Resized(i, role, on) : i \in some}
<1>0. After[pc] \in AliSteps /\ "failed" \in AliSteps
  BY AfterSteps DEF ChangeInstanceType, AliSteps, Roles
<1>1. CASE /\ todo \subseteq inst /\ inst' = set(todo, TRUE)
           /\ Goto(After[pc]) /\ UNCHANGED faults
  BY <1>0, <1>1, ResizedSome DEF Goto, AliTypeOK
<1>2. CASE /\ todo \subseteq inst /\ inst' = (inst \ todo) \cup {[i EXCEPT !.on = TRUE] : i \in todo}
           /\ Fault("stock") /\ Goto(After[pc])
  <2>1. Changed
    <3> HIDE DEF todo
    <3> QED
      BY <1>2, SwitchedSome
  <2> QED
    BY <1>0, <1>2, <2>1, FaultType DEF Goto, AliTypeOK, Faults
<1>3. CASE \E some \in SUBSET (todo \cap inst) :
             /\ todo \notin SUBSET inst
             /\ inst' = set(some, TRUE)
             /\ Goto("failed") /\ UNCHANGED faults
  <2>1. PICK some \in SUBSET (todo \cap inst) : inst' = set(some, TRUE)
    BY <1>3
  <2>2. Changed
    BY <2>1, ResizedSome
  <2> QED
    BY <1>0, <1>3, <2>2 DEF Goto, AliTypeOK
<1>4. CASE \E i \in todo \cap inst, on \in BOOLEAN :
             /\ inst' = (inst \ {i}) \cup {IF on THEN [i EXCEPT !.on = FALSE]
                                                 ELSE Resized(i, role, FALSE)}
             /\ Fault("error") /\ Goto("failed")
  <2>1. PICK i \in todo \cap inst, on \in BOOLEAN :
          /\ inst' = (inst \ {i}) \cup {IF on THEN [i EXCEPT !.on = FALSE]
                                              ELSE Resized(i, role, FALSE)}
          /\ Fault("error") /\ Goto("failed")
    BY <1>4
  <2>2. CASE on
    <3>1. inst' = (inst \ {i}) \cup {[x EXCEPT !.on = FALSE] : x \in {i}}
      BY <2>1, <2>2
    <3>2. {i} \in SUBSET inst
      OBVIOUS
    <3>3. Changed
      BY <3>1, <3>2, SwitchedSome
    <3> QED
      BY <1>0, <2>1, <3>3, FaultType DEF Goto, AliTypeOK, Faults
  <2>3. CASE ~on
    <3>1. inst' = (inst \ {i}) \cup {Resized(x, role, FALSE) : x \in {i}}
      BY <2>1, <2>3
    <3>2. {i} \in SUBSET inst
      OBVIOUS
    <3>3. Changed
      BY <3>1, <3>2, ResizedSome
    <3> QED
      BY <1>0, <2>1, <3>3, FaultType DEF Goto, AliTypeOK, Faults
  <2> QED
    BY <2>2, <2>3
<1> QED
  BY <1>1, <1>2, <1>3, <1>4 DEF ChangeInstanceType

\* The instances of a role the provider knows of.
LEMMA KnownType ==
  ASSUME AliTypeOK, NEW role \in Roles
  PROVE  /\ Known(role) \subseteq inst /\ Known(role) \subseteq Instance
         /\ IsFiniteSet(Known(role)) /\ Cardinality(Known(role)) \in Nat
         /\ want.count[role] - Cardinality(Known(role)) \in Int
<1>1. Known(role) \subseteq inst
  BY DEF Known, Found
<1>2. IsFiniteSet(Known(role)) /\ Cardinality(Known(role)) \in Nat
  BY <1>1, FS_Subset, FS_CardinalityType DEF AliTypeOK
<1> QED
  BY <1>1, <1>2, WantedSize DEF AliTypeOK

LEMMA IdsType ==
  ASSUME NEW S \in SUBSET Instance
  PROVE  Ids(S) \in SUBSET Nat
  BY DEF Ids, Instance

\* A number of instances of the role is added; the annotations stay.
LEMMA ScaleUpMoves ==
  ASSUME AliTypeOK, NEW role \in Roles, ScaleUpInstances(role)
  PROVE  /\ \E n \in Nat : inst' = inst \cup Batch(role, n) /\ next' = next + n
         /\ mem' \in Cluster /\ mem'.ann = mem.ann
         /\ pc' \in AliSteps /\ snap' \subseteq Instance /\ faults' \in Seq(Faults)
<1> DEFINE n == want.count[role] - Cardinality(Known(role))
           made(k) == {NewInstance(role, next + j) : j \in 0 .. k * n - 1}
           run(k) == /\ inst' = inst \cup made(k) /\ next' = next + k * n
                     /\ LET all == Matching(inst', role) IN
                        IF InputIPlist(role, all)
                        THEN /\ mem' = [mem EXCEPT !.ids = @ \cup {role},
                                                   !.ips[role] = @ \cup Ids(all)]
                             /\ pc' = After[role] /\ snap' = Known(role)
                        ELSE mem' = [mem EXCEPT !.ids = @ \cup {role}] /\ Goto("failed")
<1>0. n \in Nat /\ n > 0 /\ next \in Nat
  BY KnownType DEF ScaleUpInstances, AliTypeOK
<1>1. ASSUME NEW k \in {1, 2}, run(k)
      PROVE  /\ \E b \in Nat : inst' = inst \cup Batch(role, b) /\ next' = next + b
             /\ mem' \in Cluster /\ mem'.ann = mem.ann /\ pc' \in AliSteps /\ snap' \subseteq Instance
  <2>1. k * n \in Nat /\ made(k) = Batch(role, k * n)
    BY <1>0 DEF Batch
  <2>2. \E b \in Nat : inst' = inst \cup Batch(role, b) /\ next' = next + b
    BY <1>1, <2>1
  <2>3. Ids(Matching(inst', role)) \in SUBSET Nat
    <3>1. inst' \subseteq Instance
      BY <1>1, <2>1, BatchAdded
    <3> QED
      BY <3>1, IdsType DEF Matching
  <2>4. mem.ids \cup {role} \in SUBSET Roles /\ mem.ips[role] \cup Ids(Matching(inst', role)) \in SUBSET Nat
    BY <2>3 DEF AliTypeOK, Cluster
  <2>5. mem' \in Cluster /\ mem'.ann = mem.ann
    <3>1. mem \in Cluster
      BY DEF AliTypeOK
    <3>2. \/ mem' = [mem EXCEPT !.ids = mem.ids \cup {role},
                               !.ips[role] = mem.ips[role] \cup Ids(Matching(inst', role))]
          \/ mem' = [mem EXCEPT !.ids = mem.ids \cup {role}]
      BY <1>1, <3>1 DEF Cluster
    <3> DEFINE S == mem.ids \cup {role}
               A == mem.ips[role] \cup Ids(Matching(inst', role))
    <3>3. S \in SUBSET Roles /\ A \in SUBSET Nat
      BY <2>4
    <3>4. mem' = [mem EXCEPT !.ids = S, !.ips[role] = A] \/ mem' = [mem EXCEPT !.ids = S]
      BY <3>2
    <3> HIDE DEF S, A
    <3>5. CASE mem' = [mem EXCEPT !.ids = S, !.ips[role] = A]
      <4>1. mem'.ann = mem.ann /\ mem'.ids = S /\ mem'.ips = [mem.ips EXCEPT ![role] = A]
        BY <3>1, <3>5 DEF Cluster
      <4>2. mem' \in Cluster
        BY <3>1, <3>3, <3>5 DEF Cluster
      <4> QED
        BY <4>1, <4>2
    <3>6. CASE mem' = [mem EXCEPT !.ids = S]
      BY <3>1, <3>3, <3>6 DEF Cluster
    <3> QED
      BY <3>4, <3>5, <3>6
  <2>6. pc' \in AliSteps /\ snap' \subseteq Instance
    BY <1>1, AfterSteps, KnownType DEF Goto, AliSteps, Roles
  <2> QED
    BY <2>2, <2>5, <2>6
<1>2. CASE run(1) /\ UNCHANGED faults
  BY <1>1, <1>2 DEF AliTypeOK
<1>3. CASE run(2) /\ Fault("lost")
  <2>1. faults' \in Seq(Faults)
    BY <1>3, FaultType DEF AliTypeOK, Faults
  <2> QED
    BY <1>1, <1>3, <2>1
<1>4. CASE /\ Fault("error") /\ Goto("failed")
           /\ inst' = inst \cup made(1) /\ next' = next + n
           /\ mem' \in {mem, [mem EXCEPT !.ids = @ \cup {role}]}
  <2>1. made(1) = Batch(role, n)
    BY <1>0 DEF Batch
  <2>2. mem' \in Cluster /\ mem'.ann = mem.ann
    <3>1. mem \in Cluster /\ mem.ids \cup {role} \in SUBSET Roles
      BY DEF AliTypeOK, Cluster
    <3> QED
      BY <1>4, <3>1, Addressed
  <2>3. faults' \in Seq(Faults)
    BY <1>4, FaultType DEF AliTypeOK, Faults
  <2>4. pc' \in AliSteps /\ snap' \subseteq Instance
    BY <1>4 DEF Goto, AliSteps
  <2> HIDE DEF n
  <2> QED
    BY <1>0, <1>4, <2>1, <2>2, <2>3, <2>4
<1>5. CASE Fault("stock") /\ Goto("failed") /\ UNCHANGED <<inst, next, mem>>
  <2>1. Batch(role, 0) = {}
    BY DEF Batch
  <2>2. inst' = inst \cup Batch(role, 0) /\ next' = next + 0
    BY <1>0, <1>5, <2>1
  <2>3. faults' \in Seq(Faults)
    BY <1>5, FaultType DEF AliTypeOK, Faults
  <2> QED
    BY <1>5, <2>2, <2>3 DEF Goto, AliSteps, AliTypeOK
<1> QED
  BY <1>2, <1>3, <1>4, <1>5 DEF ScaleUpInstances
\* Instances of the role are removed, never master0; the annotations stay.
LEMMA ScaleDownMoves ==
  ASSUME AliTypeOK, NEW role \in Roles, ScaleDownInstances(role)
  PROVE  /\ inst' \subseteq inst /\ next' = next
         /\ \A i \in inst : i.id = mem.ann["Master0ID"] \/ i.role # role => i \in inst'
         /\ mem' \in Cluster /\ mem'.ann = mem.ann
         /\ pc' \in AliSteps /\ snap' \subseteq Instance /\ faults' \in Seq(Faults)
<1>1. PICK gone \in SUBSET DeleteCandidates(role) :
        /\ inst' \in {inst, inst \ gone}
        /\ \/ /\ inst' = inst \ gone /\ UNCHANGED faults
              /\ LET all == Matching(inst', role) IN
                 IF InputIPlist(role, all)
                 THEN /\ mem' = [mem EXCEPT !.ips[role] = @ \cap Ids(all)]
                      /\ pc' = After[role] /\ snap' = Known(role)
                 ELSE Goto("failed") /\ UNCHANGED mem
           \/ Fault("error") /\ Goto("failed") /\ UNCHANGED mem
  BY DEF ScaleDownInstances
<1>2. inst' \subseteq inst /\ next' = next
  BY <1>1 DEF ScaleDownInstances
<1>3. \A i \in inst : i.id = mem.ann["Master0ID"] \/ i.role # role => i \in inst'
  <2>1. \A i \in gone : i.id # mem.ann["Master0ID"] /\ i.role = role
    BY DEF DeleteCandidates, Known, Found
  <2> QED
    BY <1>1, <2>1
<1>4. mem' \in Cluster /\ mem'.ann = mem.ann
  <2> DEFINE A == mem.ips[role] \cap Ids(Matching(inst', role))
  <2>1. mem \in Cluster
    BY DEF AliTypeOK
  <2>2. A \in SUBSET Nat
    BY <2>1 DEF Cluster
  <2>3. mem' = [mem EXCEPT !.ips[role] = A] \/ mem' = mem
    BY <1>1, <2>1 DEF Cluster
  <2> HIDE DEF A
  <2>4. CASE mem' = [mem EXCEPT !.ips[role] = A]
    <3>1. mem'.ann = mem.ann
      BY <2>1, <2>4 DEF Cluster
    <3>2. mem' \in Cluster
      BY <2>1, <2>2, <2>4 DEF Cluster
    <3> QED
      BY <3>1, <3>2
  <2> QED
    BY <2>1, <2>3, <2>4
<1>5. faults' \in Seq(Faults)
  BY <1>1, FaultType DEF AliTypeOK, Faults
<1>6. pc' \in AliSteps /\ snap' \subseteq Instance
  BY <1>1, AfterSteps, KnownType DEF Goto, AliSteps, Roles
<1> QED
  BY <1>2, <1>3, <1>4, <1>5, <1>6

\* ReconcileInstances as a whole.
LEMMA ReconcileMoves ==
  ASSUME AliTypeOK, NEW role \in Roles, ReconcileInstances(role)
  PROVE  /\ AliTypeOK' /\ mem'.ann = mem.ann
         /\ \A i \in inst : i.id = mem.ann["Master0ID"] \/ i.role # role => i \in inst'
<1>0. cloud' = cloud /\ disk' = disk /\ want' = want
  BY DEF ReconcileInstances
<1>1. CASE ScaleUpInstances(role)
  <2>1. PICK n \in Nat : inst' = inst \cup Batch(role, n) /\ next' = next + n
    BY <1>1, ScaleUpMoves
  <2> QED
    BY <1>0, <1>1, <2>1, ScaleUpMoves, BatchAdded DEF AliTypeOK
<1>2. CASE ScaleDownInstances(role)
  <2>1. inst' \subseteq inst /\ next' = next
    BY <1>2, ScaleDownMoves
  <2>2. IsFiniteSet(inst')
    BY <2>1, FS_Subset DEF AliTypeOK
  <2>3. inst' \subseteq Instance /\ \A i, j \in inst' : i.id = j.id => i = j
    BY <2>1 DEF AliTypeOK
  <2>4. \A i \in inst' : i.id < next'
    BY <2>1 DEF AliTypeOK
  <2> QED
    BY <1>0, <1>2, <2>1, <2>2, <2>3, <2>4, ScaleDownMoves DEF AliTypeOK
<1>3. CASE /\ pc' = After[role] /\ snap' = Known(role)
           /\ UNCHANGED <<inst, next, mem, faults>>
  <2>1. pc' \in AliSteps /\ snap' \subseteq Instance
    BY <1>3, AfterSteps, KnownType DEF AliSteps, Roles
  <2> QED
    BY <1>0, <1>3, <2>1 DEF AliTypeOK
<1>4. CASE Fault("error") /\ Goto("failed") /\ UNCHANGED <<inst, next, mem>>
  <2>1. faults' \in Seq(Faults)
    BY <1>4, FaultType DEF AliTypeOK, Faults
  <2> QED
    BY <1>0, <1>4, <2>1 DEF AliTypeOK, Goto, AliSteps
<1> QED
  BY <1>1, <1>2, <1>3, <1>4 DEF ReconcileInstances

LEMMA ChangeType ==
  ASSUME AliTypeOK, NEW role \in Roles, ChangeInstanceType(role)
  PROVE  AliTypeOK'
<1>1. Changed /\ pc' \in AliSteps /\ snap' = {} /\ faults' \in Seq(Faults)
  BY ChangeMoves
<1>2. UNCHANGED <<cloud, bound, next, mem, disk, want, applies>>
  BY DEF ChangeInstanceType
<1>3. /\ inst' \subseteq Instance /\ IsFiniteSet(inst')
      /\ \A i, j \in inst' : i.id = j.id => i = j
      /\ \A i \in inst' : i.id < next'
  BY <1>1, <1>2, SomeChanged DEF Changed
<1> QED
  BY <1>1, <1>2, <1>3 DEF AliTypeOK

\* The elastic IP is recorded together with the master it is associated with.
LEMMA Bound ==
  ASSUME NEW m \in Cluster, NEW v \in Nat, NEW w \in Nat,
         NEW c, c = [m EXCEPT !.ann["EipID"] = v, !.ann["Master0ID"] = w]
  PROVE  /\ c \in Cluster /\ c.ids = m.ids /\ c.ips = m.ips
         /\ c.ann["EipID"] = v /\ c.ann["Master0ID"] = w
         /\ \A x \in Keys : x \notin {"EipID", "Master0ID"} => c.ann[x] = m.ann[x]
<1>1. c.ids = m.ids /\ c.ips = m.ips /\ c.ann = [m.ann EXCEPT !["EipID"] = v, !["Master0ID"] = w]
  BY DEF Cluster
<1>2. c = [ann |-> c.ann, ids |-> c.ids, ips |-> c.ips]
  BY DEF Cluster
<1>3. m.ann \in [Keys -> Nat] /\ m.ids \in SUBSET Roles /\ m.ips \in [Roles -> SUBSET Nat]
  BY DEF Cluster
<1>4. c.ann \in [Keys -> Nat]
  BY <1>1, <1>3
<1>5. /\ c.ann["EipID"] = v /\ c.ann["Master0ID"] = w
      /\ \A x \in Keys : x \notin {"EipID", "Master0ID"} => c.ann[x] = m.ann[x]
  BY <1>1, <1>3 DEF Keys
<1>6. c \in Cluster
  BY <1>1, <1>2, <1>3, <1>4 DEF Cluster
<1> QED
  BY <1>1, <1>5, <1>6

LEMMA BindType ==
  ASSUME AliTypeOK, BindEIP
  PROVE  AliTypeOK'
<1>0. want' = want /\ "EipID" \in Keys /\ "done" \in AliSteps /\ "failed" \in AliSteps
      /\ After["EipID"] = "done"
  BY AfterSteps DEF BindEIP, Keys, AliSteps
<1>1. CASE Goto(After["EipID"]) /\ UNCHANGED <<cloudVars, mem, disk, faults>>
  BY <1>0, <1>1, SameInstances DEF Goto, cloudVars, AliTypeOK
<1>2. CASE Goto("failed") /\ UNCHANGED <<cloudVars, mem, disk, faults>>
  BY <1>0, <1>2, SameInstances DEF Goto, cloudVars, AliTypeOK
<1>3. CASE RequestFails({[kind |-> "EipID", id |-> next]})
  BY <1>0, <1>3, RequestFailsType
<1>4. CASE /\ \E m \in Found(mem, "Master") :
                /\ cloud' = cloud \cup {[kind |-> "EipID", id |-> next]} /\ next' = next + 1
                /\ SaveToDisk([mem EXCEPT !.ann["EipID"] = next, !.ann["Master0ID"] = m.id],
                              After["EipID"])
           /\ UNCHANGED inst
  <2>1. PICK m \in Found(mem, "Master") :
                /\ cloud' = cloud \cup {[kind |-> "EipID", id |-> next]} /\ next' = next + 1
                /\ SaveToDisk([mem EXCEPT !.ann["EipID"] = next, !.ann["Master0ID"] = m.id],
                              After["EipID"])
    BY <1>4
  <2> DEFINE c == [mem EXCEPT !.ann["EipID"] = next, !.ann["Master0ID"] = m.id]
  <2>2. m.id \in Nat /\ next \in Nat /\ next > 0 /\ mem \in Cluster
    BY DEF AliTypeOK, Instance, Found
  <2>3. c \in Cluster
    BY <2>2, Bound
  <2> HIDE DEF c
  <2>4. SaveToDisk(c, "done")
    BY <1>0, <2>1 DEF c
  <2>5. mem' \in Cluster /\ disk' \in Cluster /\ pc' \in AliSteps /\ faults' \in Seq(Faults) /\ snap' = {}
    BY <1>0, <2>3, <2>4, SaveType
  <2>6. cloud' \subseteq [kind : Keys, id : Nat \ {0}] /\ next' \in Nat /\ next' >= next
    BY <1>0, <2>1, <2>2 DEF AliTypeOK
  <2> QED
    BY <1>0, <1>4, <2>5, <2>6, SameInstances DEF AliTypeOK
<1> QED
  BY <1>1, <1>2, <1>3, <1>4 DEF BindEIP
LEMMA DeleteStepType ==
  ASSUME AliTypeOK, NEW s, NEW t \in AliSteps, NEW res, DeleteStep(s, t, res)
  PROVE  AliTypeOK'
<1>1. faults' \in Seq(Faults)
  BY FaultType DEF DeleteStep, AliTypeOK, Faults
<1>2. cloud' \subseteq cloud /\ UNCHANGED <<inst, mem, disk, want, next>> /\ pc' = t /\ snap' = {}
  BY DEF DeleteStep, Goto
<1> QED
  BY <1>1, <1>2, SameInstances DEF AliTypeOK

LEMMA ClearInstancesType ==
  ASSUME AliTypeOK, ClearInstances
  PROVE  AliTypeOK' /\ inst' \subseteq inst
<1>1. faults' \in Seq(Faults)
  BY FaultType DEF ClearInstances, AliTypeOK, Faults
<1>2. /\ inst' \subseteq inst /\ UNCHANGED <<cloud, mem, disk, want, next>>
      /\ pc' = "DeleteVSwitch" /\ snap' = {}
  BY DEF ClearInstances, Goto
<1>3. IsFiniteSet(inst')
  BY <1>2, FS_Subset DEF AliTypeOK
<1>4. inst' \subseteq Instance /\ (\A i, j \in inst' : i.id = j.id => i = j) /\ \A i \in inst' : i.id < next'
  BY <1>2 DEF AliTypeOK
<1> QED
  BY <1>1, <1>2, <1>3, <1>4 DEF AliTypeOK, AliSteps, ClearSteps

LEMMA AliTypeStep ==
  ASSUME AliTypeOK, AliNext
  PROVE  AliTypeOK'
<1>1. ASSUME NEW w \in Wants, Apply(w)
      PROVE  AliTypeOK'
  BY <1>1, SameInstances DEF Apply, Goto, cloudVars, AliTypeOK, AliSteps
<1>2. CASE CreateVPC \/ CreateVSwitch \/ CreateSecurityGroup
  BY <1>2, CreateType DEF CreateVPC, CreateVSwitch, CreateSecurityGroup
<1>3. CASE GetZoneID
  BY <1>3, ZoneType
<1>4. ASSUME NEW r \in Roles, ReconcileInstances(r) \/ ChangeInstanceType(r)
      PROVE  AliTypeOK'
  BY <1>4, ReconcileMoves, ChangeType
<1>5. CASE BindEIP
  BY <1>5, BindType
<1>6. CASE Crash
  <2>1. faults' \in Seq(Faults)
    BY <1>6, FaultType DEF Crash, AliTypeOK, Faults
  <2>2. pc' \in AliSteps /\ snap' = {}
    BY <1>6 DEF Crash, Goto, AliSteps, ClearSteps
  <2>3. mem' = disk /\ UNCHANGED <<cloud, inst, next, disk, want>>
    BY <1>6 DEF Crash, cloudVars
  <2> QED
    BY <2>1, <2>2, <2>3, SameInstances DEF AliTypeOK
<1>7. CASE ClearCluster
  BY <1>7, SameInstances DEF ClearCluster, Goto, cloudVars, AliTypeOK, AliSteps, ClearSteps
<1>8. CASE ReleaseEIP \/ DeleteVSwitch \/ DeleteSecurityGroup \/ DeleteVPC
  <2>1. \E s, res : \E t \in AliSteps : DeleteStep(s, t, res)
    BY <1>8 DEF ReleaseEIP, DeleteVSwitch, DeleteSecurityGroup, DeleteVPC, AliSteps, ClearSteps
  <2> QED
    BY <2>1, DeleteStepType
<1>9. CASE ClearInstances
  BY <1>9, ClearInstancesType
<1> QED
  BY <1>1, <1>2, <1>3, <1>4, <1>5, <1>6, <1>7, <1>8, <1>9 DEF AliNext

LEMMA AliTypeInit ==
  ASSUME AliInit
  PROVE  AliTypeOK
<1>1. want \in Wants
  BY WantsAssumption DEF AliInit
<1>2. NewCluster \in Cluster
  BY DEF NewCluster, Cluster, None
<1> QED
  BY <1>1, <1>2, FS_EmptySet DEF AliInit, AliTypeOK, AliSteps

------------------------------------------------------------------------------
(* What is recorded is there.                                              *)

\* What the cluster c records exists: the resources in cl, and behind its elastic
\* IP, by b, the instance of is that it takes for master0.
Real(c, cl, b, is) ==
  /\ \A key \in Created : c.ann[key] # None => [kind |-> key, id |-> c.ann[key]] \in cl
  /\ c.ann["EipID"] # None => b[c.ann["EipID"]] = c.ann["Master0ID"]
  /\ c.ann["EipID"] # None <=> c.ann["Master0ID"] # None
  /\ c.ann["Master0ID"] # None => \E i \in is : i.role = "Master" /\ i.id = c.ann["Master0ID"]

\* Every annotation of the Clusterfile is one of the object in memory: the object
\* is ahead of the file when it could not be written, never the other way.
FileBehindObject == \A k \in Keys : disk.ann[k] # None => mem.ann[k] = disk.ann[k]

RecordedInv ==
  ~Clearing => /\ Real(mem, cloud, bound, inst)
               /\ Real(disk, cloud, bound, inst)
               /\ FileBehindObject

AliInv == AliTypeOK /\ RecordedInv

\* As long as everything that exists stays, so does what is recorded.
LEMMA RealStays ==
  ASSUME NEW c, Real(c, cloud, bound, inst), cloud \subseteq cloud', bound' = bound,
         \A i \in inst : i.id = c.ann["Master0ID"] => \E j \in inst' : j.id = i.id /\ j.role = i.role
  PROVE  Real(c, cloud', bound', inst')
  BY DEF Real

\* CreateVPC, CreateVSwitch and CreateSecurityGroup.
LEMMA CreateRecords ==
  ASSUME AliInv, ~Clearing, NEW key \in {"VpcID", "VSwitchID", "SecurityGroupID"}, CreateResource(key)
  PROVE  RecordedInv'
<1>0. key \in Keys /\ key \in Created /\ key # "EipID" /\ key # "Master0ID" /\ mem \in Cluster /\ next \in Nat
      /\ Created \subseteq Keys /\ "Master0ID" \in Keys
  BY DEF Keys, Created, AliInv, AliTypeOK
<1>1. Real(mem, cloud, bound, inst) /\ Real(disk, cloud, bound, inst) /\ FileBehindObject
  BY DEF AliInv, RecordedInv
<1>2. cloud \subseteq cloud' /\ bound' = bound /\ inst' = inst
  BY DEF CreateResource, RequestFails, cloudVars
<1>3. Real(mem, cloud', bound', inst') /\ Real(disk, cloud', bound', inst')
  BY <1>1, <1>2, RealStays
<1>4. CASE UNCHANGED <<mem, disk>>
  BY <1>1, <1>3, <1>4 DEF RecordedInv, FileBehindObject
<1>5. CASE ~ UNCHANGED <<mem, disk>>
  <2>1. PICK v \in Nat : /\ mem.ann[key] = None /\ mem' = [mem EXCEPT !.ann[key] = v] /\ disk' \in {mem', disk}
                         /\ [kind |-> key, id |-> v] \in cloud'
    BY <1>0, <1>5 DEF CreateResource, SaveToDisk, RequestFails
  <2>2. mem'.ann[key] = v /\ \A x \in Keys : x # key => mem'.ann[x] = mem.ann[x]
    BY <1>0, <2>1, Annotated
  <2>3. Real(mem', cloud', bound', inst')
    <3>1. \A x \in Created : mem'.ann[x] # None => [kind |-> x, id |-> mem'.ann[x]] \in cloud'
      BY <1>0, <1>3, <2>1, <2>2 DEF Real
    <3>2. mem'.ann["EipID"] = mem.ann["EipID"] /\ mem'.ann["Master0ID"] = mem.ann["Master0ID"]
      BY <1>0, <2>2 DEF Keys
    <3> QED
      BY <1>3, <3>1, <3>2 DEF Real
  <2>4. FileBehindObject'
    <3>1. CASE disk' = mem'
      BY <3>1 DEF FileBehindObject
    <3>2. CASE disk' = disk
      BY <1>0, <1>1, <2>1, <2>2, <3>2 DEF FileBehindObject
    <3> QED
      BY <2>1, <3>1, <3>2
  <2>5. Real(disk', cloud', bound', inst')
    BY <1>3, <2>1, <2>3
  <2> QED
    BY <2>3, <2>4, <2>5 DEF RecordedInv
<1> QED
  BY <1>4, <1>5

LEMMA ZoneRecords ==
  ASSUME AliInv, ~Clearing, GetZoneID
  PROVE  RecordedInv'
<1>0. /\ "ZoneID" \in Keys /\ "ZoneID" \notin Created /\ mem \in Cluster
      /\ Created \subseteq Keys /\ "Master0ID" \in Keys
  BY DEF Keys, Created, AliInv, AliTypeOK
<1>1. Real(mem, cloud, bound, inst) /\ Real(disk, cloud, bound, inst) /\ FileBehindObject
  BY DEF AliInv, RecordedInv
<1>2. cloud' = cloud /\ bound' = bound /\ inst' = inst
  BY DEF GetZoneID, cloudVars
<1>3. CASE UNCHANGED <<mem, disk>>
  BY <1>1, <1>2, <1>3 DEF RecordedInv, FileBehindObject
<1>4. CASE ~ UNCHANGED <<mem, disk>>
  <2>1. mem.ann["ZoneID"] = None /\ mem' = [mem EXCEPT !.ann["ZoneID"] = 1] /\ disk' \in {mem', disk}
    BY <1>4 DEF GetZoneID, SaveToDisk
  <2>2. \A x \in Keys : x # "ZoneID" => mem'.ann[x] = mem.ann[x]
    BY <1>0, <2>1, Annotated
  <2>3. Real(mem', cloud', bound', inst')
    <3>1. \A x \in Created : mem'.ann[x] = mem.ann[x]
      BY <1>0, <2>2
    <3>2. mem'.ann["EipID"] = mem.ann["EipID"] /\ mem'.ann["Master0ID"] = mem.ann["Master0ID"]
      BY <1>0, <2>2 DEF Keys
    <3> QED
      BY <1>1, <1>2, <3>1, <3>2 DEF Real
  <2>4. FileBehindObject'
    <3>1. CASE disk' = mem'
      BY <3>1 DEF FileBehindObject
    <3>2. CASE disk' = disk
      BY <1>0, <1>1, <2>1, <2>2, <3>2 DEF FileBehindObject
    <3> QED
      BY <2>1, <3>1, <3>2
  <2>5. Real(disk', cloud', bound', inst')
    BY <1>1, <1>2, <2>1, <2>3
  <2> QED
    BY <2>3, <2>4, <2>5 DEF RecordedInv
<1> QED
  BY <1>3, <1>4

\* Reconciling the instances keeps the one recorded as master0, in memory or in
\* the file.
LEMMA InstancesRecord ==
  ASSUME AliInv, ~Clearing, NEW role \in Roles, ReconcileInstances(role) \/ ChangeInstanceType(role)
  PROVE  RecordedInv'
<1>1. Real(mem, cloud, bound, inst) /\ Real(disk, cloud, bound, inst) /\ FileBehindObject
  BY DEF AliInv, RecordedInv
<1>2. cloud' = cloud /\ bound' = bound /\ disk' = disk
  BY DEF ReconcileInstances, ChangeInstanceType
<1>3. mem'.ann = mem.ann
  BY ReconcileMoves DEF ChangeInstanceType, AliInv
<1>4. \A i \in inst : i.id = mem.ann["Master0ID"] => \E j \in inst' : j.id = i.id /\ j.role = i.role
  <2>1. CASE ReconcileInstances(role)
    BY <2>1, ReconcileMoves DEF AliInv
  <2>2. CASE ChangeInstanceType(role)
    <3>1. Changed
      BY <2>2, ChangeMoves DEF AliInv
    <3> QED
      BY <3>1 DEF Changed, SameButFor
  <2> QED
    BY <2>1, <2>2
<1>5. disk.ann["Master0ID"] # None => disk.ann["Master0ID"] = mem.ann["Master0ID"]
  BY <1>1 DEF FileBehindObject, Keys
<1>6. Real(mem, cloud', bound', inst')
  BY <1>1, <1>2, <1>4, RealStays
<1>7. Real(mem', cloud', bound', inst')
  BY <1>3, <1>6 DEF Real
<1>8. Real(disk', cloud', bound', inst')
  BY <1>1, <1>2, <1>4, <1>5 DEF Real
<1>9. FileBehindObject'
  BY <1>1, <1>2, <1>3 DEF FileBehindObject
<1> QED
  BY <1>7, <1>8, <1>9 DEF RecordedInv

LEMMA BindRecords ==
  ASSUME AliInv, ~Clearing, BindEIP
  PROVE  RecordedInv'
<1>0. /\ "EipID" \in Keys /\ "Master0ID" \in Keys /\ mem \in Cluster /\ next \in Nat /\ next # None
      /\ Created \subseteq Keys /\ "Master0ID" \notin Created
  BY DEF Keys, Created, AliInv, AliTypeOK, None
<1>1. Real(mem, cloud, bound, inst) /\ Real(disk, cloud, bound, inst) /\ FileBehindObject
  BY DEF AliInv, RecordedInv
<1>2. cloud \subseteq cloud' /\ inst' = inst
  BY DEF BindEIP, RequestFails, cloudVars
<1>3. CASE UNCHANGED <<mem, disk, bound>>
  <2>1. Real(mem, cloud', bound', inst') /\ Real(disk, cloud', bound', inst')
    BY <1>1, <1>2, <1>3, RealStays
  <2> QED
    BY <1>1, <1>3, <2>1 DEF RecordedInv, FileBehindObject
<1>4. CASE ~ UNCHANGED <<mem, disk, bound>>
  <2>1. PICK m \in Found(mem, "Master") :
          /\ mem.ann["EipID"] = None
          /\ cloud' = cloud \cup {[kind |-> "EipID", id |-> next]}
          /\ bound' = [e \in DOMAIN bound \cup {next} |-> IF e = next THEN m.id ELSE bound[e]]
          /\ SaveToDisk([mem EXCEPT !.ann["EipID"] = next, !.ann["Master0ID"] = m.id], After["EipID"])
    BY <1>4 DEF BindEIP, RequestFails, cloudVars
  <2>2. m \in inst /\ m.role = "Master" /\ m.id \in Nat /\ m.id # None
    BY DEF Found, AliInv, AliTypeOK, Instance, None
  <2>3. mem' = [mem EXCEPT !.ann["EipID"] = next, !.ann["Master0ID"] = m.id] /\ disk' \in {mem', disk}
    BY <2>1 DEF SaveToDisk
  <2>4. /\ mem'.ann["EipID"] = next /\ mem'.ann["Master0ID"] = m.id
        /\ \A x \in Keys : x \notin {"EipID", "Master0ID"} => mem'.ann[x] = mem.ann[x]
    <3> DEFINE c == [mem EXCEPT !.ann["EipID"] = next, !.ann["Master0ID"] = m.id]
    <3>1. c = [mem EXCEPT !.ann["EipID"] = next, !.ann["Master0ID"] = m.id] /\ mem' = c
      BY <2>3
    <3> HIDE DEF c
    <3>2. /\ c.ann["EipID"] = next /\ c.ann["Master0ID"] = m.id
          /\ \A x \in Keys : x \notin {"EipID", "Master0ID"} => c.ann[x] = mem.ann[x]
      <4>1. mem \in Cluster /\ next \in Nat /\ m.id \in Nat
        BY <1>0, <2>2
      <4>2. c.ann = [mem.ann EXCEPT !["EipID"] = next, !["Master0ID"] = m.id]
        BY <3>1, <4>1 DEF Cluster
      <4>3. mem.ann \in [Keys -> Nat]
        BY <4>1 DEF Cluster
      <4> QED
        BY <4>2, <4>3 DEF Keys
    <3> QED
      BY <3>1, <3>2
  <2>5. Real(mem', cloud', bound', inst')
    <3>1. \A x \in Created : mem'.ann[x] # None => [kind |-> x, id |-> mem'.ann[x]] \in cloud'
      BY <1>0, <1>1, <2>1, <2>4 DEF Real
    <3>2. bound'[next] = m.id
      BY <2>1
    <3> QED
      BY <1>0, <1>2, <2>2, <2>4, <3>1, <3>2 DEF Real
  <2>6. mem.ann["Master0ID"] = None /\ disk.ann["EipID"] = None /\ disk.ann["Master0ID"] = None
    BY <1>0, <1>1, <2>1 DEF Real, FileBehindObject
  <2>7. Real(disk, cloud', bound', inst')
    BY <1>1, <1>2, <2>6 DEF Real
  <2>8. FileBehindObject'
    <3>1. CASE disk' = mem'
      BY <3>1 DEF FileBehindObject
    <3>2. CASE disk' = disk
      BY <1>0, <1>1, <2>4, <2>6, <3>2 DEF FileBehindObject
    <3> QED
      BY <2>3, <3>1, <3>2
  <2>9. Real(disk', cloud', bound', inst')
    BY <2>3, <2>5, <2>7
  <2> QED
    BY <2>5, <2>8, <2>9 DEF RecordedInv
<1> QED
  BY <1>3, <1>4

LEMMA RecordedStep ==
  ASSUME AliInv, AliNext
  PROVE  RecordedInv'
<1>1. CASE \E w \in Wants : Apply(w)
  <2>1. ~Clearing /\ UNCHANGED <<cloud, inst, bound, mem, disk>>
    BY <1>1 DEF Apply, Clearing, cloudVars
  <2> QED
    BY <2>1 DEF AliInv, RecordedInv, FileBehindObject
<1>2. CASE CreateVPC \/ CreateVSwitch \/ CreateSecurityGroup
  <2>1. ~Clearing
    BY <1>2 DEF CreateVPC, CreateVSwitch, CreateSecurityGroup, Clearing
  <2> QED
    BY <1>2, <2>1, CreateRecords DEF CreateVPC, CreateVSwitch, CreateSecurityGroup
<1>3. CASE GetZoneID
  BY <1>3, ZoneRecords DEF GetZoneID, Clearing
<1>4. CASE \E r \in Roles : ReconcileInstances(r) \/ ChangeInstanceType(r)
  <2>1. ~Clearing
    BY <1>4 DEF ReconcileInstances, ChangeInstanceType, Clearing, Roles
  <2> QED
    BY <1>4, <2>1, InstancesRecord
<1>5. CASE BindEIP
  BY <1>5, BindRecords DEF BindEIP, Clearing
<1>6. CASE Crash
  <2>1. /\ mem' = disk /\ UNCHANGED <<cloud, inst, bound, disk>>
        /\ pc' = IF Clearing THEN "clearing" ELSE "failed"
    BY <1>6 DEF Crash, Goto, cloudVars
  <2>2. ~Clearing' => ~Clearing
    BY <2>1 DEF Clearing
  <2> QED
    BY <2>1, <2>2 DEF AliInv, RecordedInv, FileBehindObject
<1>7. CASE ClearCluster \/ ReleaseEIP \/ ClearInstances \/ DeleteVSwitch \/ DeleteSecurityGroup \/ DeleteVPC
  <2>1. Clearing'
    BY <1>7 DEF ClearCluster, ReleaseEIP, ClearInstances, DeleteVSwitch, DeleteSecurityGroup, DeleteVPC,
                DeleteStep, Goto, Clearing
  <2> QED
    BY <2>1 DEF RecordedInv
<1> QED
  BY <1>1, <1>2, <1>3, <1>4, <1>5, <1>6, <1>7 DEF AliNext

LEMMA AliInvariant == InfraSpec => []AliInv
<1>1. InfraInit => AliInv
  <2>1. AliInit => Real(NewCluster, cloud, bound, inst)
    BY DEF AliInit, Real, NewCluster, Created, Keys
  <2>2. AliInit => RecordedInv
    BY <2>1 DEF AliInit, RecordedInv, FileBehindObject
  <2> QED
    BY <2>2, AliTypeInit DEF InfraInit, AliInv
<1>2. AliInv /\ [NewDefaultProvider]_<<aliVars, conVars, provider>> => AliInv'
  <2> SUFFICES ASSUME AliInv, [NewDefaultProvider]_<<aliVars, conVars, provider>>
               PROVE  AliInv'
    OBVIOUS
  <2>1. CASE AliNext
    BY <2>1, AliTypeStep, RecordedStep DEF AliInv
  <2>2. CASE UNCHANGED aliVars
    BY <2>2 DEF aliVars, AliInv, AliTypeOK, RecordedInv, FileBehindObject, Clearing
  <2> QED
    BY <2>1, <2>2 DEF NewDefaultProvider
<1> QED
  BY <1>1, <1>2, PTL DEF InfraSpec

\* Until the cluster is cleared, a resource the Clusterfile names exists, for any
\* requests and any number of Apply calls, faults, lost answers and crashes.
THEOREM SavedResourcesExist == InfraSpec => []SavedIsReal
<1>1. AliInv => SavedIsReal
  BY DEF AliInv, RecordedInv, Real, SavedIsReal, Created
<1> QED
  BY <1>1, AliInvariant, PTL

\* Until the cluster is cleared, the elastic IP the Clusterfile names is associated
\* with an existing instance, the one it records as master0: scaling down from an
\* older file, or after a crash, never takes that instance away.
THEOREM ElasticIPServes == InfraSpec => []ClusterEIPServes
<1>1. AliInv => ClusterEIPServes
  BY DEF AliInv, RecordedInv, Real, ClusterEIPServes, Ids
<1> QED
  BY <1>1, AliInvariant, PTL
------------------------------------------------------------------------------
(* Reconciling, when no request fails.                                     *)

OnlySaveFailed == \A k \in DOMAIN faults : faults[k] = "save"

Mine(r) == {i \in inst : i.role = r}

\* As long as nothing but writing the Clusterfile failed, every instance runs in
\* the recorded switch and group.
InPlace ==
  /\ \A i \in inst : i.vsw = mem.ann["VSwitchID"] /\ i.sg = mem.ann["SecurityGroupID"] /\ i.on
  /\ inst # {} => mem.ann["VSwitchID"] # None /\ mem.ann["SecurityGroupID"] # None
  /\ pc \in {"SecurityGroupID", "Master", "MasterType", "Node", "NodeType", "EipID", "done"} =>
       mem.ann["VSwitchID"] # None
  /\ pc \in {"Master", "MasterType", "Node", "NodeType", "EipID", "done"} =>
       mem.ann["SecurityGroupID"] # None

InPlaceInv == OnlySaveFailed => InPlace

\* A user asks for at least one master.
RealRequests == \A w \in Wants : w.count["Master"] > 0 /\ w.count["Node"] >= 0

\* The provider then also knows its instances and their addresses.
AllListed ==
  /\ \A r \in Roles : r \notin mem.ids => Mine(r) = {}
  /\ \A r \in Roles : mem.ips[r] = Ids(Mine(r))

AsMany(r) == Cardinality(Mine(r)) = want.count[r]
Sized(r) == \A i \in Mine(r) : i.size = want.size[r]
Resizing(r) == (\A i \in snap : i.role = r) /\ \A i \in Mine(r) : i \in snap \/ i.size = want.size[r]

\* How far the current Apply has come.
Reconciled ==
  /\ pc \in {"MasterType", "Node", "NodeType", "EipID", "done"} => AsMany("Master")
  /\ pc = "MasterType" => Resizing("Master")
  /\ pc \in {"Node", "NodeType", "EipID", "done"} => Sized("Master")
  /\ pc \in {"NodeType", "EipID", "done"} => AsMany("Node")
  /\ pc = "NodeType" => Resizing("Node")
  /\ pc \in {"EipID", "done"} => Sized("Node")

ReconciledInv == OnlySaveFailed /\ ~Clearing => AllListed /\ Reconciled

\* Without any fault the cloud holds what is recorded, and clearing removes it
\* in the order the cloud accepts.
OnlyRecorded == \A x \in cloud : x.kind \in Created /\ x.id = mem.ann[x.kind]

Gone(kinds) == \A x \in cloud : x.kind \notin kinds

ClearedInv ==
  Faultless =>
    /\ OnlyRecorded
    /\ pc \in {"ClearInstances", "DeleteVSwitch", "DeleteSecurityGroup", "DeleteVPC", "cleared"} => Gone({"EipID"})
    /\ pc \in {"DeleteVSwitch", "DeleteSecurityGroup", "DeleteVPC", "cleared"} => inst = {}
    /\ pc \in {"DeleteSecurityGroup", "DeleteVPC", "cleared"} => Gone({"VSwitchID"})
    /\ pc \in {"DeleteVPC", "cleared"} => Gone({"SecurityGroupID"})
    /\ pc = "cleared" => Gone({"VpcID"})
LEMMA FaultShows ==
  ASSUME faults \in Seq(Faults), NEW k \in Faults, Fault(k)
  PROVE  ~Faultless' /\ (OnlySaveFailed' => k = "save" /\ OnlySaveFailed)
<1>1. faults' = Append(faults, k)
  BY DEF Fault
<1>2. Len(faults') = Len(faults) + 1 /\ faults'[Len(faults) + 1] = k /\ DOMAIN faults' = 1 .. Len(faults) + 1
  BY <1>1
<1>3. \A x \in DOMAIN faults : x \in DOMAIN faults' /\ faults'[x] = faults[x]
  BY <1>1
<1>4. Len(faults) + 1 \in DOMAIN faults'
  BY <1>2
<1> QED
  BY <1>2, <1>3, <1>4 DEF Faultless, OnlySaveFailed

\* A step without fault.
LEMMA NoFaultHere ==
  ASSUME faults' = faults
  PROVE  (OnlySaveFailed' <=> OnlySaveFailed) /\ (Faultless' <=> Faultless)
  BY DEF OnlySaveFailed, Faultless

\* The steps that create one resource, when nothing but a save fails.
ResourceStep(key) ==
  /\ pc = key
  /\ \/ key \in {"VpcID", "VSwitchID", "SecurityGroupID"} /\ CreateResource(key)
     \/ key = "ZoneID" /\ GetZoneID
     \/ key = "EipID" /\ BindEIP

LEMMA ResourceMoves ==
  ASSUME AliTypeOK, NEW key, ResourceStep(key), OnlySaveFailed'
  PROVE  /\ OnlySaveFailed /\ inst' = inst /\ want' = want
         /\ mem'.ids = mem.ids /\ mem'.ips = mem.ips
         /\ \A x \in {"VSwitchID", "SecurityGroupID"} : x # key \/ mem.ann[x] # None => mem'.ann[x] = mem.ann[x]
         /\ pc' \in {After[key], "failed"}
         /\ pc' = After[key] /\ key # "EipID" => mem'.ann[key] # None
<1>0. /\ faults \in Seq(Faults) /\ mem \in Cluster /\ next \in Nat /\ next # None
      /\ {"error", "lost", "save"} \subseteq Faults
      /\ {"VpcID", "ZoneID", "VSwitchID", "SecurityGroupID", "EipID"} \subseteq Keys
  BY DEF AliTypeOK, Faults, Keys, None
<1>1. ~Fault("error") /\ ~Fault("lost")
  BY <1>0, FaultShows
<1>2. ASSUME NEW m, NEW s, SaveToDisk(m, s)
      PROVE  OnlySaveFailed /\ mem' = m /\ pc' \in {s, "failed"}
  BY <1>0, <1>2, FaultShows, NoFaultHere DEF SaveToDisk, Goto
<1>3. CASE Goto(After[key]) /\ UNCHANGED <<cloudVars, mem, disk, faults>> /\ (key # "EipID" => mem.ann[key] # None)
  <2>1. OnlySaveFailed /\ inst' = inst /\ mem' = mem
    BY <1>3, NoFaultHere DEF cloudVars
  <2>2. want' = want
    BY DEF ResourceStep, CreateResource, GetZoneID, BindEIP
  <2> QED
    BY <1>3, <2>1, <2>2 DEF Goto
<1>4. CASE key \in {"VpcID", "VSwitchID", "SecurityGroupID"} /\ mem.ann[key] = None
  <2>1. SaveToDisk([mem EXCEPT !.ann[key] = next], After[key]) /\ inst' = inst /\ want' = want
    BY <1>1, <1>4 DEF ResourceStep, CreateResource, RequestFails
  <2>2. OnlySaveFailed /\ mem' = [mem EXCEPT !.ann[key] = next] /\ pc' \in {After[key], "failed"}
    BY <1>2, <2>1
  <2>3. /\ mem'.ids = mem.ids /\ mem'.ips = mem.ips /\ mem'.ann[key] = next
        /\ \A x \in Keys : x # key => mem'.ann[x] = mem.ann[x]
    BY <1>0, <1>4, <2>2, Annotated
  <2> QED
    BY <1>0, <1>4, <2>1, <2>2, <2>3
<1>5. CASE key = "ZoneID" /\ mem.ann[key] = None
  <2>1. SaveToDisk([mem EXCEPT !.ann["ZoneID"] = 1], After["ZoneID"]) /\ inst' = inst /\ want' = want
    BY <1>1, <1>5 DEF ResourceStep, GetZoneID, cloudVars
  <2>2. OnlySaveFailed /\ mem' = [mem EXCEPT !.ann["ZoneID"] = 1] /\ pc' \in {After[key], "failed"}
    BY <1>2, <1>5, <2>1
  <2>3. mem'.ids = mem.ids /\ mem'.ips = mem.ips /\ mem'.ann = [mem.ann EXCEPT !["ZoneID"] = 1]
    BY <1>0, <2>2 DEF Cluster
  <2>4. mem'.ann["ZoneID"] = 1 /\ \A x \in Keys : x # "ZoneID" => mem'.ann[x] = mem.ann[x]
    BY <1>0, <2>3 DEF Cluster
  <2> QED
    BY <1>0, <1>5, <2>1, <2>2, <2>3, <2>4 DEF None
<1>6. CASE key = "EipID" /\ mem.ann[key] = None
  <2>1. inst' = inst /\ want' = want
    BY <1>6 DEF ResourceStep, BindEIP, RequestFails, cloudVars
  <2>2. CASE Goto("failed") /\ UNCHANGED <<cloudVars, mem, disk, faults>>
    BY <1>6, <2>1, <2>2, NoFaultHere DEF Goto
  <2>3. CASE \E m \in Found(mem, "Master") :
               SaveToDisk([mem EXCEPT !.ann["EipID"] = next, !.ann["Master0ID"] = m.id], After["EipID"])
    <3>1. PICK m \in Found(mem, "Master") :
               SaveToDisk([mem EXCEPT !.ann["EipID"] = next, !.ann["Master0ID"] = m.id], After["EipID"])
      BY <2>3
    <3>2. OnlySaveFailed /\ pc' \in {After[key], "failed"}
          /\ mem' = [mem EXCEPT !.ann["EipID"] = next, !.ann["Master0ID"] = m.id]
      BY <1>2, <1>6, <3>1
    <3>3. /\ mem'.ids = mem.ids /\ mem'.ips = mem.ips
          /\ mem'.ann = [mem.ann EXCEPT !["EipID"] = next, !["Master0ID"] = m.id]
      BY <1>0, <3>2 DEF Cluster
    <3>4. \A x \in {"VSwitchID", "SecurityGroupID"} : mem'.ann[x] = mem.ann[x]
      BY <1>0, <3>3 DEF Cluster
    <3> QED
      BY <1>6, <2>1, <3>2, <3>3, <3>4
  <2> QED
    BY <1>1, <1>6, <2>2, <2>3 DEF ResourceStep, BindEIP, RequestFails
<1> QED
  BY <1>1, <1>3, <1>4, <1>5, <1>6 DEF ResourceStep, CreateResource, GetZoneID, BindEIP, RequestFails
\* Where every instance is in place, the provider finds all of a role.
LEMMA FindsAll ==
  ASSUME AliTypeOK, InPlace, NEW role \in Roles
  PROVE  /\ Found(mem, role) = Mine(role)
         /\ (role \notin mem.ids => Mine(role) = {}) => Known(role) = Mine(role)
<1>1. Found(mem, role) = Mine(role)
  BY DEF Found, Mine, InPlace
<1> QED
  BY <1>1 DEF Known

LEMMA MineFinite ==
  ASSUME AliTypeOK, NEW r
  PROVE  IsFiniteSet(Mine(r)) /\ Cardinality(Mine(r)) \in Nat /\ Mine(r) \subseteq inst /\ Mine(r) \subseteq Instance
<1>1. Mine(r) \subseteq inst
  BY DEF Mine
<1>2. IsFiniteSet(Mine(r))
  BY <1>1, FS_Subset DEF AliTypeOK
<1> QED
  BY <1>1, <1>2, FS_CardinalityType DEF AliTypeOK

\* The instances outside the role a step works on stay, the others are all.
LEMMA OtherRole ==
  ASSUME NEW role \in Roles, NEW r \in Roles, r # role,
         \A i \in inst : i.role # role => i \in inst',
         \A i \in inst' : i \in inst \/ i.role = role
  PROVE  Mine(r)' = Mine(r)
  BY DEF Mine

\* Cardinality of a difference.
LEMMA CardinalityOfRest ==
  ASSUME NEW S, IsFiniteSet(S), NEW T \in SUBSET S
  PROVE  /\ IsFiniteSet(S \ T) /\ IsFiniteSet(T)
         /\ Cardinality(S) \in Nat /\ Cardinality(T) \in Nat /\ Cardinality(S \ T) \in Nat
         /\ Cardinality(S \ T) = Cardinality(S) - Cardinality(T)
<1>1. IsFiniteSet(T) /\ IsFiniteSet(S \ T)
  BY FS_Subset
<1>2. Cardinality(S) \in Nat /\ Cardinality(T) \in Nat /\ Cardinality(S \ T) \in Nat
  BY <1>1, FS_CardinalityType
<1>3. (S \ T) \cup T = S /\ (S \ T) \cap T = {}
  OBVIOUS
<1>4. Cardinality(S) = Cardinality(S \ T) + Cardinality(T) - Cardinality({})
  BY <1>1, <1>3, FS_Union
<1> QED
  BY <1>1, <1>2, <1>4, FS_EmptySet

\* The moves of ReconcileInstances when nothing but a save fails.
CleanReconcile(role) ==
  \/ \E n \in Nat : /\ n > 0 /\ n = want.count[role] - Cardinality(Known(role))
                    /\ inst' = inst \cup Batch(role, n) /\ next' = next + n
                    /\ LET all == Matching(inst', role) IN
                       IF InputIPlist(role, all)
                       THEN /\ mem' = [mem EXCEPT !.ids = @ \cup {role}, !.ips[role] = @ \cup Ids(all)]
                            /\ pc' = After[role] /\ snap' = Known(role)
                       ELSE mem' = [mem EXCEPT !.ids = @ \cup {role}] /\ Goto("failed")
  \/ \E n \in Nat : \E gone \in SUBSET DeleteCandidates(role) :
       /\ n > 0 /\ n = Cardinality(Known(role)) - want.count[role]
       /\ Cardinality(gone) = IF n < Cardinality(DeleteCandidates(role)) THEN n
                              ELSE Cardinality(DeleteCandidates(role))
       /\ inst' = inst \ gone /\ next' = next
       /\ LET all == Matching(inst', role) IN
          IF InputIPlist(role, all)
          THEN /\ mem' = [mem EXCEPT !.ips[role] = @ \cap Ids(all)]
               /\ pc' = After[role] /\ snap' = Known(role)
          ELSE Goto("failed") /\ UNCHANGED mem
  \/ /\ Cardinality(Known(role)) = want.count[role]
     /\ pc' = After[role] /\ snap' = Known(role)
     /\ UNCHANGED <<inst, next, mem>>

LEMMA CleanReconcileMoves ==
  ASSUME AliTypeOK, NEW role \in Roles, ReconcileInstances(role), OnlySaveFailed'
  PROVE  OnlySaveFailed /\ CleanReconcile(role) /\ want' = want
<1>0. /\ faults \in Seq(Faults) /\ {"error", "lost", "save", "stock"} \subseteq Faults
      /\ next \in Nat
  BY DEF AliTypeOK, Faults
<1>1. ~Fault("error") /\ ~Fault("lost") /\ ~Fault("stock")
  BY <1>0, FaultShows
<1>2. want.count[role] \in Int /\ Cardinality(Known(role)) \in Nat
  BY WantedSize, KnownType
<1>3. CASE ScaleUpInstances(role)
  <2> DEFINE n == want.count[role] - Cardinality(Known(role))
  <2>1. n \in Nat /\ n > 0
    BY <1>2, <1>3 DEF ScaleUpInstances
  <2>2. /\ inst' = inst \cup {NewInstance(role, next + j) : j \in 0 .. 1 * n - 1} /\ next' = next + 1 * n
        /\ LET all == Matching(inst', role) IN
           IF InputIPlist(role, all)
           THEN /\ mem' = [mem EXCEPT !.ids = @ \cup {role}, !.ips[role] = @ \cup Ids(all)]
                /\ pc' = After[role] /\ snap' = Known(role)
           ELSE mem' = [mem EXCEPT !.ids = @ \cup {role}] /\ Goto("failed")
        /\ UNCHANGED faults
    BY <1>1, <1>3 DEF ScaleUpInstances
  <2>3. {NewInstance(role, next + j) : j \in 0 .. 1 * n - 1} = Batch(role, n) /\ 1 * n = n
    BY <2>1 DEF Batch
  <2>4. n = want.count[role] - Cardinality(Known(role))
    OBVIOUS
  <2> HIDE DEF n
  <2>5. CleanReconcile(role)
    BY <2>1, <2>2, <2>3, <2>4 DEF CleanReconcile
  <2> QED
    BY <2>2, <2>5, NoFaultHere DEF ReconcileInstances
<1>4. CASE ScaleDownInstances(role)
  <2> DEFINE n == Cardinality(Known(role)) - want.count[role]
  <2>1. n \in Nat /\ n > 0
    BY <1>2, <1>4 DEF ScaleDownInstances
  <2>2. PICK gone \in SUBSET DeleteCandidates(role) :
           /\ Cardinality(gone) = IF n < Cardinality(DeleteCandidates(role)) THEN n
                                  ELSE Cardinality(DeleteCandidates(role))
           /\ inst' = inst \ gone /\ UNCHANGED faults
           /\ LET all == Matching(inst', role) IN
              IF InputIPlist(role, all)
              THEN /\ mem' = [mem EXCEPT !.ips[role] = @ \cap Ids(all)]
                   /\ pc' = After[role] /\ snap' = Known(role)
              ELSE Goto("failed") /\ UNCHANGED mem
    BY <1>1, <1>4 DEF ScaleDownInstances
  <2>3. next' = next
    BY <1>4 DEF ScaleDownInstances
  <2>4. n = Cardinality(Known(role)) - want.count[role]
    OBVIOUS
  <2> HIDE DEF n
  <2>5. CleanReconcile(role)
    BY <2>1, <2>2, <2>3, <2>4 DEF CleanReconcile
  <2> QED
    BY <2>2, <2>5, NoFaultHere DEF ReconcileInstances
<1>5. CASE /\ Cardinality(Known(role)) = want.count[role]
           /\ pc' = After[role] /\ snap' = Known(role)
           /\ UNCHANGED <<inst, next, mem, faults>>
  BY <1>5, NoFaultHere DEF CleanReconcile, ReconcileInstances
<1> QED
  BY <1>1, <1>3, <1>4, <1>5 DEF ReconcileInstances
LEMMA CleanChangeMoves ==
  ASSUME AliTypeOK, NEW role \in Roles, ChangeInstanceType(role), OnlySaveFailed'
  PROVE  /\ OnlySaveFailed /\ UNCHANGED <<mem, want, next>>
         /\ \E some \in SUBSET {i \in snap : i.size # want.size[role]} :
              /\ some \subseteq inst
              /\ inst' = (inst \ some) \cup {Resized(i, role, TRUE) : i \in some}
              /\ \/ pc' = "failed"
                 \/ some = {i \in snap : i.size # want.size[role]} /\ pc' = After[pc]
<1>0. /\ faults \in Seq(Faults) /\ {"error", "stock"} \subseteq Faults
  BY DEF AliTypeOK, Faults
<1>1. ~Fault("error") /\ ~Fault("stock")
  BY <1>0, FaultShows
<1>2. UNCHANGED <<mem, want, next>>
  BY DEF ChangeInstanceType
<1> DEFINE todo == {i \in snap : i.size # want.size[role]}
           set(some) == (inst \ some) \cup {Resized(i, role, TRUE) : i \in some}
<1>3. CASE /\ todo \subseteq inst /\ inst' = set(todo)
           /\ Goto(After[pc]) /\ UNCHANGED faults
  BY <1>2, <1>3, NoFaultHere DEF Goto
<1>4. CASE \E some \in SUBSET (todo \cap inst) :
             inst' = set(some) /\ Goto("failed") /\ UNCHANGED faults
  BY <1>2, <1>4, NoFaultHere DEF Goto
<1> QED
  BY <1>1, <1>3, <1>4 DEF ChangeInstanceType

\* The resource steps of AliNext.
LEMMA ResourceSteps ==
  ASSUME CreateVPC \/ GetZoneID \/ CreateVSwitch \/ CreateSecurityGroup \/ BindEIP
  PROVE  \E key \in {"VpcID", "ZoneID", "VSwitchID", "SecurityGroupID", "EipID"} : ResourceStep(key)
<1>1. CASE CreateVPC
  BY <1>1 DEF CreateVPC, ResourceStep
<1>2. CASE GetZoneID
  BY <1>2 DEF GetZoneID, ResourceStep
<1>3. CASE CreateVSwitch
  BY <1>3 DEF CreateVSwitch, ResourceStep
<1>4. CASE CreateSecurityGroup
  BY <1>4 DEF CreateSecurityGroup, ResourceStep
<1>5. CASE BindEIP
  BY <1>5 DEF BindEIP, ResourceStep
<1> QED
  BY <1>1, <1>2, <1>3, <1>4, <1>5

\* The steps of clearing, and the record of faults.
LEMMA ClearMoves ==
  ASSUME AliTypeOK,
         ClearCluster \/ ReleaseEIP \/ ClearInstances \/ DeleteVSwitch \/ DeleteSecurityGroup \/ DeleteVPC
  PROVE  /\ Clearing' /\ inst' \subseteq inst /\ mem' = mem /\ pc' \in ClearSteps
         /\ OnlySaveFailed' => OnlySaveFailed
         /\ Faultless' => Faultless /\ faults' = faults
<1>1. CASE ClearCluster
  <2>1. pc' = "ReleaseEIP" /\ UNCHANGED <<inst, mem, faults>>
    BY <1>1 DEF ClearCluster, Goto, cloudVars
  <2> QED
    BY <2>1, NoFaultHere DEF Clearing, ClearSteps
<1>2. CASE ReleaseEIP \/ DeleteVSwitch \/ DeleteSecurityGroup \/ DeleteVPC
  <2>1. /\ pc' \in {"ClearInstances", "DeleteSecurityGroup", "DeleteVPC", "cleared"} /\ UNCHANGED <<inst, mem>>
        /\ faults' = faults \/ Fault("error")
    BY <1>2 DEF ReleaseEIP, DeleteVSwitch, DeleteSecurityGroup, DeleteVPC, DeleteStep, Goto
  <2> QED
    BY <2>1, NoFaultHere, FaultShows DEF Clearing, ClearSteps, AliTypeOK, Faults
<1>3. CASE ClearInstances
  <2>1. /\ pc' = "DeleteVSwitch" /\ mem' = mem /\ inst' \subseteq inst
        /\ faults' = faults \/ Fault("error")
    BY <1>3 DEF ClearInstances, Goto
  <2> QED
    BY <2>1, NoFaultHere, FaultShows DEF Clearing, ClearSteps, AliTypeOK, Faults
<1> QED
  BY <1>1, <1>2, <1>3

\* A crash is a fault other than a failed save.
LEMMA CrashShows ==
  ASSUME AliTypeOK, Crash
  PROVE  ~OnlySaveFailed' /\ ~Faultless'
  BY FaultShows DEF Crash, AliTypeOK, Faults

LEMMA InPlaceStep ==
  ASSUME AliTypeOK, InPlaceInv, AliNext
  PROVE  InPlaceInv'
<1> SUFFICES ASSUME OnlySaveFailed'
             PROVE  InPlace'
  BY DEF InPlaceInv
<1>1. CASE \E w \in Wants : Apply(w)
  <2>1. pc' = "VpcID" /\ UNCHANGED <<inst, mem, faults>>
    BY <1>1 DEF Apply, Goto, cloudVars
  <2> QED
    BY <2>1, NoFaultHere DEF InPlaceInv, InPlace
<1>2. CASE CreateVPC \/ GetZoneID \/ CreateVSwitch \/ CreateSecurityGroup \/ BindEIP
  <2>1. PICK key \in {"VpcID", "ZoneID", "VSwitchID", "SecurityGroupID", "EipID"} : ResourceStep(key)
    BY <1>2, ResourceSteps
  <2>2. /\ OnlySaveFailed /\ inst' = inst
        /\ \A x \in {"VSwitchID", "SecurityGroupID"} : x # key \/ mem.ann[x] # None => mem'.ann[x] = mem.ann[x]
        /\ pc' \in {After[key], "failed"}
        /\ pc' = After[key] /\ key # "EipID" => mem'.ann[key] # None
    BY <2>1, ResourceMoves
  <2>3. InPlace /\ pc = key
    BY <2>1, <2>2 DEF InPlaceInv, ResourceStep
  <2>4. inst # {} => /\ mem'.ann["VSwitchID"] = mem.ann["VSwitchID"]
                     /\ mem'.ann["SecurityGroupID"] = mem.ann["SecurityGroupID"]
    BY <2>2, <2>3 DEF InPlace
  <2>5. /\ pc' \in {"SecurityGroupID", "Master", "MasterType", "Node", "NodeType", "EipID", "done"} =>
             mem'.ann["VSwitchID"] # None
        /\ pc' \in {"Master", "MasterType", "Node", "NodeType", "EipID", "done"} =>
             mem'.ann["SecurityGroupID"] # None
    BY <2>2, <2>3, AfterSteps DEF InPlace
  <2> QED
    BY <2>2, <2>3, <2>4, <2>5 DEF InPlace
<1>3. ASSUME NEW role \in Roles, ReconcileInstances(role)
      PROVE  InPlace'
  <2>1. OnlySaveFailed /\ CleanReconcile(role)
    BY <1>3, CleanReconcileMoves
  <2>2. mem'.ann = mem.ann /\ InPlace /\ pc = role
    BY <1>3, <2>1, ReconcileMoves DEF InPlaceInv, ReconcileInstances
  <2>3. \A i \in inst' : i.vsw = mem.ann["VSwitchID"] /\ i.sg = mem.ann["SecurityGroupID"] /\ i.on
    <3>1. \A n \in Nat : \A i \in Batch(role, n) :
            i.vsw = mem.ann["VSwitchID"] /\ i.sg = mem.ann["SecurityGroupID"] /\ i.on
      BY DEF Batch, NewInstance
    <3> QED
      BY <2>1, <2>2, <3>1 DEF CleanReconcile, InPlace
  <2>4. mem.ann["VSwitchID"] # None /\ mem.ann["SecurityGroupID"] # None
    BY <2>2 DEF InPlace, Roles
  <2> QED
    BY <2>2, <2>3, <2>4 DEF InPlace
<1>4. ASSUME NEW role \in Roles, ChangeInstanceType(role)
      PROVE  InPlace'
  <2>1. OnlySaveFailed /\ mem' = mem /\ InPlace /\ pc \in {"MasterType", "NodeType"}
    BY <1>4, CleanChangeMoves DEF InPlaceInv, ChangeInstanceType
  <2>2. PICK some \in SUBSET inst : inst' = (inst \ some) \cup {Resized(i, role, TRUE) : i \in some}
    BY <1>4, CleanChangeMoves
  <2>3. \A i \in some : /\ Resized(i, role, TRUE).vsw = i.vsw /\ Resized(i, role, TRUE).sg = i.sg
                        /\ Resized(i, role, TRUE).on
    <3> TAKE i \in some
    <3>1. i \in Instance
      BY DEF AliTypeOK
    <3> QED
      BY <3>1 DEF Resized, Instance
  <2>4. \A i \in inst' : i.vsw = mem.ann["VSwitchID"] /\ i.sg = mem.ann["SecurityGroupID"] /\ i.on
    BY <2>1, <2>2, <2>3 DEF InPlace
  <2>5. mem.ann["VSwitchID"] # None /\ mem.ann["SecurityGroupID"] # None
    BY <2>1 DEF InPlace
  <2> QED
    BY <2>1, <2>4, <2>5 DEF InPlace
<1>5. CASE Crash
  BY <1>5, CrashShows
<1>6. CASE ClearCluster \/ ReleaseEIP \/ ClearInstances \/ DeleteVSwitch \/ DeleteSecurityGroup \/ DeleteVPC
  <2>1. inst' \subseteq inst /\ mem' = mem /\ pc' \in ClearSteps /\ InPlace
    BY <1>6, ClearMoves DEF InPlaceInv
  <2> QED
    BY <2>1 DEF InPlace, ClearSteps
<1> QED
  BY <1>1, <1>2, <1>3, <1>4, <1>5, <1>6 DEF AliNext
\* Adding what is missing.
LEMMA ScaleUpFits ==
  ASSUME AliTypeOK, InPlace, InPlace', mem'.ann = mem.ann, NEW role \in Roles, Known(role) = Mine(role),
         NEW n \in Nat, n = want.count[role] - Cardinality(Known(role)), inst' = inst \cup Batch(role, n)
  PROVE  /\ Matching(inst', role) = Mine(role)' /\ Mine(role)' = Mine(role) \cup Batch(role, n)
         /\ InputIPlist(role, Matching(inst', role))
         /\ Cardinality(Mine(role)') = want.count[role]
         /\ \A i \in Batch(role, n) : i.size = want.size[role]
<1>1. \A i \in Batch(role, n) : i.role = role /\ i.size = want.size[role]
  BY DEF Batch, NewInstance
<1>2. Mine(role)' = Mine(role) \cup Batch(role, n)
  BY <1>1 DEF Mine
<1>3. Matching(inst', role) = Mine(role)'
  BY DEF Matching, Mine, InPlace
<1>4. Mine(role) \cap Batch(role, n) = {}
  <2>1. \A i \in Mine(role) : i.id \in Nat /\ i.id < next
    BY DEF Mine, AliTypeOK, Instance
  <2>2. \A i \in Batch(role, n) : i.id \in Nat /\ i.id >= next
    BY BatchType DEF Instance
  <2>3. next \in Nat
    BY DEF AliTypeOK
  <2> QED
    BY <2>1, <2>2, <2>3
<1>5. IsFiniteSet(Mine(role)) /\ Cardinality(Mine(role)) \in Nat
  BY MineFinite
<1>6. IsFiniteSet(Batch(role, n)) /\ Cardinality(Batch(role, n)) = n
  BY BatchType
<1>7. Cardinality(Mine(role) \cup Batch(role, n)) = Cardinality(Mine(role)) + n - 0
  BY <1>4, <1>5, <1>6, FS_Union, FS_EmptySet
<1>8. Cardinality(Mine(role)') = want.count[role]
  BY <1>2, <1>5, <1>7, WantedSize
<1> QED
  BY <1>1, <1>2, <1>3, <1>8 DEF InputIPlist

\* There are always enough instances to remove.
LEMMA EnoughCandidates ==
  ASSUME RealRequests, AliTypeOK, Real(mem, cloud, bound, inst), NEW role \in Roles, Known(role) = Mine(role),
         NEW n \in Nat, n = Cardinality(Known(role)) - want.count[role]
  PROVE  IsFiniteSet(DeleteCandidates(role)) /\ n <= Cardinality(DeleteCandidates(role))
<1>0. /\ want.count[role] \in Int /\ (role = "Master" => want.count[role] > 0) /\ (role = "Node" => want.count[role] >= 0)
      /\ role \in {"Master", "Node"}
  BY WantedSize DEF RealRequests, AliTypeOK, Roles
<1>1. IsFiniteSet(Mine(role)) /\ Cardinality(Mine(role)) \in Nat /\ Mine(role) \subseteq inst
  BY MineFinite
<1> DEFINE spared == {i \in Mine(role) : i.id = mem.ann["Master0ID"]}
<1>2. DeleteCandidates(role) = Mine(role) \ spared
  BY DEF DeleteCandidates
<1>3. /\ IsFiniteSet(Mine(role) \ spared) /\ IsFiniteSet(spared) /\ Cardinality(spared) \in Nat
      /\ Cardinality(Mine(role) \ spared) = Cardinality(Mine(role)) - Cardinality(spared)
  BY <1>1, CardinalityOfRest
<1>4. Cardinality(spared) <= (IF role = "Master" THEN 1 ELSE 0)
  <2>1. CASE spared = {}
    <3>1. Cardinality({}) = 0
      BY FS_EmptySet
    <3> HIDE DEF spared
    <3> QED
      BY <2>1, <3>1
  <2>2. CASE spared # {}
    <3>1. PICK m \in spared : TRUE
      BY <2>2
    <3>2. \A i \in spared : i = m
      BY <1>1, <3>1 DEF AliTypeOK
    <3>3. spared = {m}
      BY <3>1, <3>2
    <3>4. mem.ann["Master0ID"] # None
      BY <1>1, <3>1 DEF AliTypeOK, Instance, None
    <3>5. PICK j \in inst : j.role = "Master" /\ j.id = mem.ann["Master0ID"]
      BY <3>4 DEF Real
    <3>6. j = m
      BY <1>1, <3>1, <3>5 DEF AliTypeOK
    <3>7. role = "Master"
      BY <3>1, <3>5, <3>6 DEF Mine
    <3>8. Cardinality(spared) = 1
      BY <3>3, FS_Singleton
    <3> QED
      BY <3>7, <3>8
  <2> QED
    BY <2>1, <2>2
<1> HIDE DEF spared
<1> QED
  BY <1>0, <1>1, <1>2, <1>3, <1>4

\* Removing what is too much.
LEMMA ScaleDownFits ==
  ASSUME RealRequests, AliTypeOK, Real(mem, cloud, bound, inst), InPlace, InPlace', mem'.ann = mem.ann,
         NEW role \in Roles, Known(role) = Mine(role),
         NEW n \in Nat, n = Cardinality(Known(role)) - want.count[role],
         NEW gone \in SUBSET DeleteCandidates(role),
         Cardinality(gone) = IF n < Cardinality(DeleteCandidates(role)) THEN n
                             ELSE Cardinality(DeleteCandidates(role)),
         inst' = inst \ gone
  PROVE  /\ Matching(inst', role) = Mine(role)' /\ Mine(role)' = Mine(role) \ gone
         /\ InputIPlist(role, Matching(inst', role))
         /\ Cardinality(Mine(role)') = want.count[role]
         /\ \A i \in gone : i.role = role
<1>1. gone \subseteq Mine(role) /\ \A i \in gone : i.role = role
  BY DEF DeleteCandidates, Mine
<1>2. Mine(role)' = Mine(role) \ gone
  BY DEF Mine
<1>3. Matching(inst', role) = Mine(role)'
  BY DEF Matching, Mine, InPlace
<1>4. IsFiniteSet(DeleteCandidates(role)) /\ n <= Cardinality(DeleteCandidates(role))
  BY EnoughCandidates
<1>5. Cardinality(DeleteCandidates(role)) \in Nat
  BY <1>4, FS_CardinalityType
<1>6. Cardinality(gone) = n
  BY <1>4, <1>5
<1>7. IsFiniteSet(Mine(role)) /\ Cardinality(Mine(role)) \in Nat
  BY MineFinite
<1>8. Cardinality(Mine(role) \ gone) = Cardinality(Mine(role)) - n
  BY <1>1, <1>6, <1>7, CardinalityOfRest
<1>9. Cardinality(Mine(role)') = want.count[role]
  BY <1>2, <1>7, <1>8, WantedSize
<1> QED
  BY <1>1, <1>2, <1>3, <1>9 DEF InputIPlist
\* Reconciling a role leaves as many instances as asked for, all of them listed.
LEMMA ReconcileFits ==
  ASSUME RealRequests, AliInv, InPlace, InPlace', AllListed, ~Clearing, OnlySaveFailed',
         NEW role \in Roles, ReconcileInstances(role)
  PROVE  /\ pc' = After[role] /\ want' = want /\ snap' = Mine(role)
         /\ Cardinality(Mine(role)') = want.count[role]
         /\ \A i \in Mine(role)' : i \in Mine(role) \/ i.size = want.size[role]
         /\ \A r \in Roles : r # role => Mine(r)' = Mine(r)
         /\ AllListed'
<1>0. AliTypeOK /\ Real(mem, cloud, bound, inst) /\ mem \in Cluster
  BY DEF AliInv, RecordedInv, AliTypeOK
<1>1. OnlySaveFailed /\ CleanReconcile(role) /\ want' = want
  BY <1>0, CleanReconcileMoves
<1>2. mem'.ann = mem.ann /\ mem' \in Cluster
  BY <1>0, ReconcileMoves DEF AliTypeOK
<1>3. Known(role) = Mine(role)
  BY <1>0, FindsAll DEF AllListed
<1>4. CASE \E n \in Nat :
             /\ n > 0 /\ n = want.count[role] - Cardinality(Known(role))
             /\ inst' = inst \cup Batch(role, n) /\ next' = next + n
             /\ LET all == Matching(inst', role) IN
                IF InputIPlist(role, all)
                THEN /\ mem' = [mem EXCEPT !.ids = @ \cup {role}, !.ips[role] = @ \cup Ids(all)]
                     /\ pc' = After[role] /\ snap' = Known(role)
                ELSE mem' = [mem EXCEPT !.ids = @ \cup {role}] /\ Goto("failed")
  <2>1. PICK n \in Nat :
             /\ n > 0 /\ n = want.count[role] - Cardinality(Known(role))
             /\ inst' = inst \cup Batch(role, n) /\ next' = next + n
             /\ LET all == Matching(inst', role) IN
                IF InputIPlist(role, all)
                THEN /\ mem' = [mem EXCEPT !.ids = @ \cup {role}, !.ips[role] = @ \cup Ids(all)]
                     /\ pc' = After[role] /\ snap' = Known(role)
                ELSE mem' = [mem EXCEPT !.ids = @ \cup {role}] /\ Goto("failed")
    BY <1>4
  <2>2. /\ Matching(inst', role) = Mine(role)' /\ Mine(role)' = Mine(role) \cup Batch(role, n)
        /\ InputIPlist(role, Matching(inst', role))
        /\ Cardinality(Mine(role)') = want.count[role]
        /\ \A i \in Batch(role, n) : i.size = want.size[role]
    BY <1>0, <1>2, <1>3, <2>1, ScaleUpFits
  <2>3. /\ mem' = [mem EXCEPT !.ids = @ \cup {role}, !.ips[role] = @ \cup Ids(Mine(role)')]
        /\ pc' = After[role] /\ snap' = Known(role)
    BY <2>1, <2>2
  <2>4. /\ mem'.ids = mem.ids \cup {role}
        /\ mem'.ips = [mem.ips EXCEPT ![role] = @ \cup Ids(Mine(role)')]
    BY <1>0, <2>3 DEF Cluster
  <2>5. \A i \in Batch(role, n) : i.role = role
    BY DEF Batch, NewInstance
  <2>6. \A r \in Roles : r # role => Mine(r)' = Mine(r)
    BY <2>1, <2>5 DEF Mine
  <2>7. Ids(Mine(role)') = Ids(Mine(role)) \cup Ids(Mine(role)')
    BY <2>2 DEF Ids
  <2>8. AllListed'
    <3>1. \A r \in Roles : r \notin mem'.ids => Mine(r)' = {}
      BY <2>4, <2>6 DEF AllListed
    <3>2. \A r \in Roles : mem'.ips[r] = Ids(Mine(r)')
      <4>1. mem.ips \in [Roles -> SUBSET Nat] /\ \A r \in Roles : mem.ips[r] = Ids(Mine(r))
        BY <1>0 DEF Cluster, AllListed
      <4>2. mem'.ips[role] = mem.ips[role] \cup Ids(Mine(role)')
        BY <2>4, <4>1
      <4>3. \A r \in Roles : r # role => mem'.ips[r] = mem.ips[r]
        BY <2>4, <4>1
      <4> QED
        BY <2>6, <2>7, <4>1, <4>2, <4>3
    <3> QED
      BY <3>1, <3>2 DEF AllListed, Ids
  <2> QED
    BY <1>1, <1>3, <2>2, <2>3, <2>6, <2>8
<1>5. CASE \E n \in Nat : \E gone \in SUBSET DeleteCandidates(role) :
             /\ n > 0 /\ n = Cardinality(Known(role)) - want.count[role]
             /\ Cardinality(gone) = IF n < Cardinality(DeleteCandidates(role)) THEN n
                                    ELSE Cardinality(DeleteCandidates(role))
             /\ inst' = inst \ gone /\ next' = next
             /\ LET all == Matching(inst', role) IN
                IF InputIPlist(role, all)
                THEN /\ mem' = [mem EXCEPT !.ips[role] = @ \cap Ids(all)]
                     /\ pc' = After[role] /\ snap' = Known(role)
                ELSE Goto("failed") /\ UNCHANGED mem
  <2>1. PICK n \in Nat : \E gone \in SUBSET DeleteCandidates(role) :
             /\ n > 0 /\ n = Cardinality(Known(role)) - want.count[role]
             /\ Cardinality(gone) = IF n < Cardinality(DeleteCandidates(role)) THEN n
                                    ELSE Cardinality(DeleteCandidates(role))
             /\ inst' = inst \ gone /\ next' = next
             /\ LET all == Matching(inst', role) IN
                IF InputIPlist(role, all)
                THEN /\ mem' = [mem EXCEPT !.ips[role] = @ \cap Ids(all)]
                     /\ pc' = After[role] /\ snap' = Known(role)
                ELSE Goto("failed") /\ UNCHANGED mem
    BY <1>5
  <2>2. PICK gone \in SUBSET DeleteCandidates(role) :
             /\ n > 0 /\ n = Cardinality(Known(role)) - want.count[role]
             /\ Cardinality(gone) = IF n < Cardinality(DeleteCandidates(role)) THEN n
                                    ELSE Cardinality(DeleteCandidates(role))
             /\ inst' = inst \ gone /\ next' = next
             /\ LET all == Matching(inst', role) IN
                IF InputIPlist(role, all)
                THEN /\ mem' = [mem EXCEPT !.ips[role] = @ \cap Ids(all)]
                     /\ pc' = After[role] /\ snap' = Known(role)
                ELSE Goto("failed") /\ UNCHANGED mem
    BY <2>1
  <2>3. /\ Matching(inst', role) = Mine(role)' /\ Mine(role)' = Mine(role) \ gone
        /\ InputIPlist(role, Matching(inst', role))
        /\ Cardinality(Mine(role)') = want.count[role]
        /\ \A i \in gone : i.role = role
    BY <1>0, <1>2, <1>3, <2>2, ScaleDownFits
  <2>4. /\ mem' = [mem EXCEPT !.ips[role] = @ \cap Ids(Mine(role)')]
        /\ pc' = After[role] /\ snap' = Known(role)
    BY <2>2, <2>3
  <2>5. mem'.ids = mem.ids /\ mem'.ips = [mem.ips EXCEPT ![role] = @ \cap Ids(Mine(role)')]
    BY <1>0, <2>4 DEF Cluster
  <2>6. \A r \in Roles : r # role => Mine(r)' = Mine(r)
    BY <2>2, <2>3 DEF Mine
  <2>7. Ids(Mine(role)') = Ids(Mine(role)) \cap Ids(Mine(role)')
    BY <2>3 DEF Ids
  <2>8. AllListed'
    <3>1. \A r \in Roles : r \notin mem'.ids => Mine(r)' = {}
      BY <2>3, <2>5, <2>6 DEF AllListed
    <3>2. \A r \in Roles : mem'.ips[r] = Ids(Mine(r)')
      <4>1. mem.ips \in [Roles -> SUBSET Nat] /\ \A r \in Roles : mem.ips[r] = Ids(Mine(r))
        BY <1>0 DEF Cluster, AllListed
      <4>2. mem'.ips[role] = mem.ips[role] \cap Ids(Mine(role)')
        BY <2>5, <4>1
      <4>3. \A r \in Roles : r # role => mem'.ips[r] = mem.ips[r]
        BY <2>5, <4>1
      <4> QED
        BY <2>6, <2>7, <4>1, <4>2, <4>3
    <3> QED
      BY <3>1, <3>2 DEF AllListed, Ids
  <2> QED
    BY <1>1, <1>3, <2>3, <2>4, <2>6, <2>8
<1>6. CASE /\ Cardinality(Known(role)) = want.count[role]
           /\ pc' = After[role] /\ snap' = Known(role)
           /\ UNCHANGED <<inst, next, mem>>
  <2>1. \A r : Mine(r)' = Mine(r)
    BY <1>6 DEF Mine
  <2>2. AllListed'
    BY <1>6, <2>1 DEF AllListed, Ids
  <2> QED
    BY <1>1, <1>3, <1>6, <2>1, <2>2
<1> QED
  BY <1>1, <1>4, <1>5, <1>6 DEF CleanReconcile
\* Resizing keeps the instances of every role, and their numbers.
LEMMA ChangeKeeps ==
  ASSUME AliTypeOK, AliTypeOK', NEW role \in Roles, NEW some \in SUBSET inst,
         inst' = (inst \ some) \cup {Resized(i, role, TRUE) : i \in some}, NEW r \in Roles
  PROVE  /\ Ids(Mine(r)') = Ids(Mine(r))
         /\ Cardinality(Mine(r)') = Cardinality(Mine(r))
<1> DEFINE g == [i \in Mine(r) |-> IF i \in some THEN Resized(i, role, TRUE) ELSE i]
<1>1. \A i \in some : Resized(i, role, TRUE).id = i.id /\ Resized(i, role, TRUE).role = i.role
  <2> TAKE i \in some
  <2>1. i \in Instance
    BY DEF AliTypeOK
  <2> QED
    BY <2>1 DEF Resized, Instance
<1>2. Mine(r) \subseteq inst /\ IsFiniteSet(Mine(r))
  BY MineFinite
<1>3. \A i \in Mine(r) : g[i] \in Mine(r)' /\ g[i].id = i.id
  BY <1>1 DEF Mine
<1>4. \A t \in Mine(r)' : \E i \in Mine(r) : g[i] = t
  <2> TAKE t \in Mine(r)'
  <2>1. CASE t \in inst \ some
    <3>1. t \in Mine(r) /\ g[t] = t
      BY <2>1 DEF Mine
    <3> QED
      BY <3>1
  <2>2. CASE t \in {Resized(i, role, TRUE) : i \in some}
    <3>1. PICK i \in some : t = Resized(i, role, TRUE)
      BY <2>2
    <3>2. i \in Mine(r) /\ g[i] = t
      BY <1>1, <3>1 DEF Mine
    <3> QED
      BY <3>2
  <2> QED
    BY <2>1, <2>2 DEF Mine
<1>5. g \in [Mine(r) -> Mine(r)']
  BY <1>3
<1> HIDE DEF g
<1>6. \A x, y \in Mine(r) : g[x] = g[y] => x = y
  <2>1. \A a, b \in inst : a.id = b.id => a = b
    BY DEF AliTypeOK
  <2> QED
    BY <1>2, <1>3, <2>1
<1>7. Cardinality(Mine(r)') = Cardinality(Mine(r))
  BY <1>2, <1>4, <1>5, <1>6, ImageOfInjection
<1>8. Ids(Mine(r)') = Ids(Mine(r))
  <2>1. \A t \in Mine(r)' : t.id \in Ids(Mine(r))
    BY <1>3, <1>4 DEF Ids
  <2>2. \A i \in Mine(r) : i.id \in Ids(Mine(r)')
    BY <1>3 DEF Ids
  <2> QED
    BY <2>1, <2>2 DEF Ids
<1> QED
  BY <1>7, <1>8

\* After a successful ChangeInstanceType all instances of the role have the size
\* asked for; those of the other role are not touched.
LEMMA ChangeSizes ==
  ASSUME AliTypeOK, NEW role \in Roles, NEW some \in SUBSET inst,
         inst' = (inst \ some) \cup {Resized(i, role, TRUE) : i \in some}, want' = want,
         some = {i \in snap : i.size # want.size[role]}, Resizing(role)
  PROVE  /\ Sized(role)'
         /\ \A r \in Roles : r # role => Mine(r)' = Mine(r)
<1>1. \A i \in some : Resized(i, role, TRUE).size = want.size[role] /\ Resized(i, role, TRUE).role = role
                      /\ i.role = role
  <2> TAKE i \in some
  <2>1. i \in Instance /\ i.role = role
    BY DEF AliTypeOK, Resizing
  <2> QED
    BY <2>1 DEF Resized, Instance
<1>2. \A i \in Mine(role)' : i.size = want.size[role]
  BY <1>1 DEF Mine, Resizing
<1>3. \A r \in Roles : r # role => Mine(r)' = Mine(r)
  BY <1>1 DEF Mine
<1> QED
  BY <1>2, <1>3 DEF Sized

LEMMA ReconciledStep ==
  ASSUME RealRequests, AliInv, AliTypeOK', InPlaceInv, ReconciledInv, AliNext
  PROVE  ReconciledInv'
<1> SUFFICES ASSUME OnlySaveFailed', ~Clearing'
             PROVE  AllListed' /\ Reconciled'
  BY DEF ReconciledInv
<1>0. AliTypeOK
  BY DEF AliInv
<1>1. CASE \E w \in Wants : Apply(w)
  <2>1. pc' = "VpcID" /\ ~Clearing /\ UNCHANGED <<inst, mem, faults>>
    BY <1>1 DEF Apply, Goto, cloudVars, Clearing
  <2>2. AllListed
    BY <2>1, NoFaultHere DEF ReconciledInv
  <2> QED
    BY <2>1, <2>2 DEF AllListed, Reconciled, Mine, Ids
<1>2. CASE CreateVPC \/ GetZoneID \/ CreateVSwitch \/ CreateSecurityGroup \/ BindEIP
  <2>1. PICK key \in {"VpcID", "ZoneID", "VSwitchID", "SecurityGroupID", "EipID"} : ResourceStep(key)
    BY <1>2, ResourceSteps
  <2>2. /\ OnlySaveFailed /\ inst' = inst /\ want' = want /\ mem'.ids = mem.ids /\ mem'.ips = mem.ips
        /\ pc' \in {After[key], "failed"}
    BY <1>0, <2>1, ResourceMoves
  <2>3. pc = key /\ ~Clearing
    BY <2>1 DEF ResourceStep, Clearing
  <2>4. AllListed /\ Reconciled
    BY <2>2, <2>3 DEF ReconciledInv
  <2>5. \A r : Mine(r)' = Mine(r)
    BY <2>2 DEF Mine
  <2>6. AllListed'
    BY <2>2, <2>4, <2>5 DEF AllListed, Ids
  <2>7. pc' \in {"ZoneID", "VSwitchID", "SecurityGroupID", "Master", "failed"} \/ (pc' = "done" /\ key = "EipID")
    BY <2>2, AfterSteps
  <2>8. Reconciled'
    BY <2>2, <2>3, <2>4, <2>5, <2>7 DEF Reconciled, AsMany, Sized
  <2> QED
    BY <2>6, <2>8
<1>3. ASSUME NEW role \in Roles, ReconcileInstances(role)
      PROVE  AllListed' /\ Reconciled'
  <2>1. pc = role /\ ~Clearing
    BY <1>3 DEF ReconcileInstances, Clearing, Roles
  <2>2. OnlySaveFailed
    BY <1>0, <1>3, CleanReconcileMoves
  <2>3. AllListed /\ Reconciled /\ InPlace
    BY <2>1, <2>2 DEF ReconciledInv, InPlaceInv
  <2>4. InPlace'
    BY <1>0, <1>3, InPlaceStep DEF InPlaceInv, AliNext
  <2>5. /\ pc' = After[role] /\ want' = want /\ snap' = Mine(role)
        /\ Cardinality(Mine(role)') = want.count[role]
        /\ \A i \in Mine(role)' : i \in Mine(role) \/ i.size = want.size[role]
        /\ \A r \in Roles : r # role => Mine(r)' = Mine(r)
        /\ AllListed'
    BY <1>3, <2>1, <2>3, <2>4, ReconcileFits
  <2>6. AsMany(role)' /\ Resizing(role)'
    BY <2>5 DEF AsMany, Resizing, Mine
  <2>7. CASE role = "Master"
    BY <2>5, <2>6, <2>7, AfterSteps DEF Reconciled
  <2>8. CASE role = "Node"
    <3>1. Mine("Master")' = Mine("Master")
      BY <2>5, <2>8 DEF Roles
    <3>2. AsMany("Master")' /\ Sized("Master")'
      BY <2>1, <2>3, <2>5, <2>8, <3>1 DEF Reconciled, AsMany, Sized
    <3>3. pc' = "NodeType"
      BY <2>5, <2>8, AfterSteps
    <3> QED
      BY <2>5, <2>6, <2>8, <3>2, <3>3 DEF Reconciled
  <2> QED
    BY <2>7, <2>8 DEF Roles
<1>4. ASSUME NEW role \in Roles, ChangeInstanceType(role)
      PROVE  AllListed' /\ Reconciled'
  <2>1. pc = (IF role = "Master" THEN "MasterType" ELSE "NodeType") /\ ~Clearing
    BY <1>4 DEF ChangeInstanceType, Clearing
  <2>2. OnlySaveFailed /\ UNCHANGED <<mem, want, next>>
    BY <1>0, <1>4, CleanChangeMoves
  <2>3. AllListed /\ Reconciled
    BY <2>1, <2>2 DEF ReconciledInv
  <2>4. PICK some \in SUBSET {i \in snap : i.size # want.size[role]} :
              /\ some \subseteq inst
              /\ inst' = (inst \ some) \cup {Resized(i, role, TRUE) : i \in some}
              /\ \/ pc' = "failed"
                 \/ some = {i \in snap : i.size # want.size[role]} /\ pc' = After[pc]
    BY <1>0, <1>4, CleanChangeMoves
  <2>5. \A r \in Roles : Ids(Mine(r)') = Ids(Mine(r)) /\ Cardinality(Mine(r)') = Cardinality(Mine(r))
    BY <1>0, <2>4, ChangeKeeps
  <2>6. \A r \in Roles : Mine(r) = {} => Mine(r)' = {}
    <3> TAKE r \in Roles
    <3> HAVE Mine(r) = {}
    <3>1. Ids(Mine(r)') = {}
      BY <2>5 DEF Ids
    <3> QED
      BY <3>1 DEF Ids
  <2>7. AllListed'
    BY <2>2, <2>3, <2>5, <2>6 DEF AllListed, Ids
  <2>8. CASE pc' = "failed"
    BY <2>7, <2>8 DEF Reconciled
  <2>9. CASE some = {i \in snap : i.size # want.size[role]} /\ pc' = After[pc]
    <3>1. Resizing(role)
      BY <2>1, <2>3 DEF Reconciled, Roles
    <3>2. Sized(role)' /\ \A r \in Roles : r # role => Mine(r)' = Mine(r)
      BY <1>0, <2>2, <2>4, <2>9, <3>1, ChangeSizes
    <3>3. CASE role = "Master"
      <4>1. AsMany("Master")'
        BY <2>1, <2>2, <2>3, <2>5, <3>3 DEF Reconciled, AsMany
      <4>2. pc' = "Node"
        BY <2>1, <2>9, <3>3, AfterSteps
      <4> QED
        BY <2>7, <3>2, <3>3, <4>1, <4>2 DEF Reconciled
    <3>4. CASE role = "Node"
      <4>1. AsMany("Node")' /\ AsMany("Master")'
        BY <2>1, <2>2, <2>3, <2>5, <3>4 DEF Reconciled, AsMany, Roles
      <4>2. pc' = "EipID"
        BY <2>1, <2>9, <3>4, AfterSteps
      <4>3. Sized("Master")'
        BY <2>1, <2>2, <2>3, <3>2, <3>4 DEF Reconciled, Sized, Roles
      <4> QED
        BY <2>7, <3>2, <3>4, <4>1, <4>2, <4>3 DEF Reconciled
    <3> QED
      BY <3>3, <3>4 DEF Roles
  <2> QED
    BY <2>4, <2>8, <2>9
<1>5. CASE Crash
  BY <1>0, <1>5, CrashShows
<1>6. CASE ClearCluster \/ ReleaseEIP \/ ClearInstances \/ DeleteVSwitch \/ DeleteSecurityGroup \/ DeleteVPC
  BY <1>0, <1>6, ClearMoves
<1> QED
  BY <1>1, <1>2, <1>3, <1>4, <1>5, <1>6 DEF AliNext
\* When no request but the writing of the Clusterfile ever failed and the user asks
\* for at least one master each time, an Apply that reports success has made the
\* cloud what the Clusterfile asks for, after any number of earlier calls, up,
\* down and to other sizes, some of which stopped.
THEOREM ApplyConverges == RealRequests /\ InfraSpec => []Converged
<1> SUFFICES ASSUME RealRequests PROVE InfraSpec => []Converged
  OBVIOUS
<1>1. InfraInit => InPlaceInv /\ ReconciledInv
  <2> SUFFICES ASSUME AliInit
               PROVE  InPlaceInv /\ ReconciledInv
    BY DEF InfraInit
  <2>1. inst = {} /\ pc = "idle" /\ \A r \in Roles : mem.ips[r] = {}
    BY DEF AliInit, NewCluster
  <2>2. InPlace /\ Reconciled
    BY <2>1 DEF InPlace, Reconciled
  <2>3. AllListed
    BY <2>1 DEF AllListed, Mine, Ids
  <2> QED
    BY <2>2, <2>3 DEF InPlaceInv, ReconciledInv
<1>2. /\ AliInv /\ AliInv' /\ InPlaceInv /\ ReconciledInv
      /\ [NewDefaultProvider]_<<aliVars, conVars, provider>>
      => InPlaceInv' /\ ReconciledInv'
  <2> SUFFICES ASSUME AliInv, AliInv', InPlaceInv, ReconciledInv,
                      [NewDefaultProvider]_<<aliVars, conVars, provider>>
               PROVE  InPlaceInv' /\ ReconciledInv'
    OBVIOUS
  <2>1. CASE AliNext
    BY <2>1, InPlaceStep, ReconciledStep DEF AliInv
  <2>2. CASE UNCHANGED aliVars
    <3>1. InPlaceInv'
      BY <2>2 DEF aliVars, InPlaceInv, OnlySaveFailed, InPlace
    <3>2. ReconciledInv'
      BY <2>2 DEF aliVars, ReconciledInv, OnlySaveFailed, Clearing, AllListed, Reconciled, AsMany, Sized,
                  Resizing, Mine, Ids
    <3> QED
      BY <3>1, <3>2
  <2> QED
    BY <2>1, <2>2 DEF NewDefaultProvider
<1>3. AliInv /\ InPlaceInv /\ ReconciledInv => Converged
  <2> SUFFICES ASSUME AliInv, InPlaceInv, ReconciledInv, pc = "done", OnlySaveFailed, NEW r \in Roles
               PROVE  /\ Cardinality(Mine(r)) = want.count[r]
                      /\ \A i \in Mine(r) : i.on /\ i.size = want.size[r]
                      /\ mem.ips[r] = Ids(Mine(r))
    BY DEF Converged, OnlySaveFailed, Mine
  <2>1. InPlace /\ AllListed /\ Reconciled
    BY DEF InPlaceInv, ReconciledInv, Clearing
  <2>2. AsMany(r) /\ Sized(r)
    BY <2>1 DEF Reconciled, Roles
  <2> QED
    BY <2>1, <2>2 DEF InPlace, AllListed, AsMany, Sized, Mine
<1> QED
  BY <1>1, <1>2, <1>3, AliInvariant, PTL DEF InfraSpec

------------------------------------------------------------------------------
(* Clearing, when nothing fails.                                           *)

\* A step that creates one resource adds at most the one it records.
LEMMA ResourceRecorded ==
  ASSUME AliTypeOK, NEW key \in {"VpcID", "ZoneID", "VSwitchID", "SecurityGroupID", "EipID"},
         ResourceStep(key), Faultless', OnlyRecorded
  PROVE  Faultless /\ OnlyRecorded' /\ pc' \in {"ZoneID", "VSwitchID", "SecurityGroupID", "Master", "done", "failed"}
<1>0. /\ faults \in Seq(Faults) /\ mem \in Cluster /\ next \in Nat /\ Created \subseteq Keys
      /\ {"error", "lost", "save"} \subseteq Faults
      /\ {"VpcID", "ZoneID", "VSwitchID", "SecurityGroupID", "EipID"} \subseteq Keys
      /\ \A x \in cloud : x.id \in Nat /\ x.id # None
  BY DEF AliTypeOK, Faults, Keys, Created, None
<1>1. ~Fault("error") /\ ~Fault("lost") /\ ~Fault("save")
  BY <1>0, FaultShows
<1>2. faults' = faults /\ Faultless
  <2>1. faults' = faults
    BY <1>1 DEF ResourceStep, CreateResource, GetZoneID, BindEIP, RequestFails, SaveToDisk
  <2> QED
    BY <2>1, NoFaultHere
<1>3. pc' \in {After[key], "failed"}
  BY <1>1 DEF ResourceStep, CreateResource, GetZoneID, BindEIP, RequestFails, SaveToDisk, Goto
<1>4. pc' \in {"ZoneID", "VSwitchID", "SecurityGroupID", "Master", "done", "failed"}
  BY <1>3, AfterSteps
<1>5. CASE UNCHANGED <<cloud, mem>>
  BY <1>2, <1>4, <1>5 DEF OnlyRecorded
<1>6. CASE /\ mem.ann[key] = None /\ mem'.ann[key] = next
           /\ cloud' = cloud \cup {[kind |-> key, id |-> next]}
           /\ \A x \in Created : x # key => mem'.ann[x] = mem.ann[x]
           /\ key \in Created
  <2>1. \A x \in cloud : x.kind # key
    BY <1>0, <1>6 DEF OnlyRecorded
  <2>2. \A x \in cloud : x.kind \in Created /\ x.id = mem'.ann[x.kind]
    BY <1>6, <2>1 DEF OnlyRecorded
  <2>3. \A x \in {[kind |-> key, id |-> next]} : x.kind \in Created /\ x.id = mem'.ann[x.kind]
    BY <1>6
  <2>4. OnlyRecorded'
    BY <1>6, <2>2, <2>3 DEF OnlyRecorded
  <2> QED
    BY <1>2, <1>4, <2>4
<1>7. CASE key = "ZoneID" /\ mem' = [mem EXCEPT !.ann["ZoneID"] = 1] /\ cloud' = cloud
  <2>1. mem'.ann = [mem.ann EXCEPT !["ZoneID"] = 1]
    BY <1>0, <1>7 DEF Cluster
  <2>2. \A x \in Created : mem'.ann[x] = mem.ann[x]
    BY <1>0, <2>1 DEF Cluster, Created
  <2> QED
    BY <1>2, <1>4, <1>7, <2>2 DEF OnlyRecorded
<1>8. ASSUME key \in {"VpcID", "VSwitchID", "SecurityGroupID"}, mem.ann[key] = None
      PROVE  /\ mem.ann[key] = None /\ mem'.ann[key] = next
             /\ cloud' = cloud \cup {[kind |-> key, id |-> next]}
             /\ \A x \in Created : x # key => mem'.ann[x] = mem.ann[x]
             /\ key \in Created
  <2>1. cloud' = cloud \cup {[kind |-> key, id |-> next]} /\ mem' = [mem EXCEPT !.ann[key] = next]
    BY <1>1, <1>8 DEF ResourceStep, CreateResource, RequestFails, SaveToDisk
  <2>2. mem'.ann[key] = next /\ \A x \in Keys : x # key => mem'.ann[x] = mem.ann[x]
    BY <1>0, <2>1, Annotated
  <2> QED
    BY <1>0, <1>8, <2>1, <2>2 DEF Created
<1>9. ASSUME key = "EipID", ~ UNCHANGED <<cloud, mem>>
      PROVE  /\ mem.ann[key] = None /\ mem'.ann[key] = next
             /\ cloud' = cloud \cup {[kind |-> key, id |-> next]}
             /\ \A x \in Created : x # key => mem'.ann[x] = mem.ann[x]
             /\ key \in Created
  <2>1. PICK m \in Found(mem, "Master") :
          /\ mem.ann["EipID"] = None
          /\ cloud' = cloud \cup {[kind |-> "EipID", id |-> next]}
          /\ mem' = [mem EXCEPT !.ann["EipID"] = next, !.ann["Master0ID"] = m.id]
    BY <1>1, <1>9 DEF ResourceStep, BindEIP, RequestFails, SaveToDisk, cloudVars
  <2>2. mem'.ann = [mem.ann EXCEPT !["EipID"] = next, !["Master0ID"] = m.id] /\ mem.ann \in [Keys -> Nat]
    BY <1>0, <2>1 DEF Cluster
  <2>3. mem'.ann["EipID"] = next /\ \A x \in Created : x # "EipID" => mem'.ann[x] = mem.ann[x]
    BY <1>0, <2>2 DEF Created, Keys
  <2> QED
    BY <1>9, <2>1, <2>3 DEF Created
<1> QED
  BY <1>1, <1>5, <1>6, <1>7, <1>8, <1>9
     DEF ResourceStep, CreateResource, GetZoneID, BindEIP, RequestFails, SaveToDisk, cloudVars

LEMMA ClearedStep ==
  ASSUME AliTypeOK, InPlaceInv, ClearedInv, AliNext
  PROVE  ClearedInv'
<1> SUFFICES ASSUME Faultless'
             PROVE  ClearedInv'
  BY DEF ClearedInv
<1>1. CASE \E w \in Wants : Apply(w)
  <2>1. pc' = "VpcID" /\ UNCHANGED <<cloud, mem, faults>>
    BY <1>1 DEF Apply, Goto, cloudVars
  <2>2. OnlyRecorded
    BY <2>1, NoFaultHere DEF ClearedInv
  <2> QED
    BY <2>1, <2>2 DEF ClearedInv, OnlyRecorded
<1>2. CASE CreateVPC \/ GetZoneID \/ CreateVSwitch \/ CreateSecurityGroup \/ BindEIP
  <2>1. PICK key \in {"VpcID", "ZoneID", "VSwitchID", "SecurityGroupID", "EipID"} : ResourceStep(key)
    BY <1>2, ResourceSteps
  <2>2. Faultless
    <3>1. faults \in Seq(Faults) /\ {"error", "lost", "save"} \subseteq Faults
      BY DEF AliTypeOK, Faults
    <3>2. ~Fault("error") /\ ~Fault("lost") /\ ~Fault("save")
      BY <3>1, FaultShows
    <3>3. faults' = faults
      BY <2>1, <3>2 DEF ResourceStep, CreateResource, GetZoneID, BindEIP, RequestFails, SaveToDisk
    <3> QED
      BY <3>3, NoFaultHere
  <2>3. OnlyRecorded' /\ pc' \in {"ZoneID", "VSwitchID", "SecurityGroupID", "Master", "done", "failed"}
    BY <2>1, <2>2, ResourceRecorded DEF ClearedInv
  <2> QED
    BY <2>3 DEF ClearedInv
<1>3. CASE \E role \in Roles : ReconcileInstances(role) \/ ChangeInstanceType(role)
  <2>1. PICK role \in Roles : ReconcileInstances(role) \/ ChangeInstanceType(role)
    BY <1>3
  <2>2. OnlySaveFailed' /\ faults' = <<>>
    BY DEF OnlySaveFailed, Faultless
  <2>3. faults = <<>>
    <3>1. faults' = faults \/ Fault("error") \/ Fault("lost") \/ Fault("stock")
      BY <2>1 DEF ReconcileInstances, ScaleUpInstances, ScaleDownInstances, ChangeInstanceType
    <3> QED
      BY <2>2, <3>1, FaultShows DEF AliTypeOK, Faults, Faultless
  <2>4. cloud' = cloud /\ mem'.ann = mem.ann
    BY <2>1, ReconcileMoves DEF ReconcileInstances, ChangeInstanceType
  <2>5. pc' \in {"Master", "MasterType", "Node", "NodeType", "EipID", "failed"}
    BY <2>1, <2>2, CleanReconcileMoves, CleanChangeMoves, AfterSteps
       DEF CleanReconcile, Goto, Roles, ChangeInstanceType
  <2> QED
    BY <2>3, <2>4, <2>5 DEF ClearedInv, OnlyRecorded, Faultless
<1>4. CASE Crash
  BY <1>4, CrashShows
<1>5. CASE ClearCluster
  <2>1. pc' = "ReleaseEIP" /\ UNCHANGED <<cloud, mem, faults>>
    BY <1>5 DEF ClearCluster, Goto, cloudVars
  <2>2. OnlyRecorded
    BY <2>1, NoFaultHere DEF ClearedInv
  <2> QED
    BY <2>1, <2>2 DEF ClearedInv, OnlyRecorded
<1>6. ASSUME NEW s, NEW t, NEW res, DeleteStep(s, t, res), Faultless
      PROVE  pc = s /\ pc' = t /\ cloud' = cloud \ res /\ UNCHANGED <<inst, mem>>
  <2>1. ~Fault("error")
    BY FaultShows DEF AliTypeOK, Faults
  <2> QED
    BY <1>6, <2>1 DEF DeleteStep, Goto
<1>7. ASSUME ReleaseEIP \/ ClearInstances \/ DeleteVSwitch \/ DeleteSecurityGroup \/ DeleteVPC
      PROVE  Faultless /\ ClearedInv /\ OnlyRecorded
  BY <1>7, ClearMoves DEF ClearedInv
<1>8. CASE ReleaseEIP
  <2>1. pc' = "ClearInstances" /\ cloud' = cloud \ Recorded("EipID") /\ mem' = mem
    BY <1>6, <1>7, <1>8 DEF ReleaseEIP
  <2>2. \A x \in cloud : x.kind = "EipID" => x \in Recorded("EipID")
    BY <1>7, <1>8 DEF OnlyRecorded, Recorded
  <2>3. OnlyRecorded' /\ Gone({"EipID"})'
    BY <1>7, <1>8, <2>1, <2>2 DEF OnlyRecorded, Gone
  <2> QED
    BY <2>1, <2>3 DEF ClearedInv
<1>9. CASE ClearInstances
  <2>1. pc = "ClearInstances" /\ pc' = "DeleteVSwitch" /\ cloud' = cloud /\ mem' = mem
    BY <1>9 DEF ClearInstances, Goto
  <2>2. InPlace
    BY <1>7, <1>9 DEF InPlaceInv, OnlySaveFailed, Faultless
  <2>3. ~Fault("error")
    BY FaultShows DEF AliTypeOK, Faults
  <2>4. inst' = inst \ UNION {Found(mem, r) : r \in Roles}
    BY <1>9, <2>3 DEF ClearInstances
  <2>5. \A i \in inst : i.role \in Roles /\ i \in Found(mem, i.role)
    BY <2>2 DEF InPlace, Found, AliTypeOK, Instance
  <2>6. inst' = {}
    BY <2>4, <2>5
  <2>7. OnlyRecorded' /\ Gone({"EipID"})'
    BY <1>7, <1>9, <2>1 DEF ClearedInv, OnlyRecorded, Gone
  <2> QED
    BY <2>1, <2>6, <2>7 DEF ClearedInv
<1>10. CASE DeleteVSwitch
  <2>1. /\ pc = "DeleteVSwitch" /\ pc' = "DeleteSecurityGroup"
        /\ cloud' = cloud \ Deletable(Recorded("VSwitchID")) /\ UNCHANGED <<inst, mem>>
    BY <1>6, <1>7, <1>10 DEF DeleteVSwitch
  <2>2. inst = {} /\ Gone({"EipID"})
    BY <1>7, <1>10, <2>1 DEF ClearedInv
  <2>3. \A x \in cloud : x.kind = "VSwitchID" => x \in Deletable(Recorded("VSwitchID"))
    BY <1>7, <1>10, <2>2 DEF OnlyRecorded, Recorded, Deletable
  <2>4. OnlyRecorded' /\ Gone({"EipID"})' /\ Gone({"VSwitchID"})'
    BY <1>7, <1>10, <2>1, <2>2, <2>3 DEF OnlyRecorded, Gone
  <2> QED
    BY <2>1, <2>2, <2>4 DEF ClearedInv
<1>11. CASE DeleteSecurityGroup
  <2>1. /\ pc = "DeleteSecurityGroup" /\ pc' = "DeleteVPC"
        /\ cloud' = cloud \ Deletable(Recorded("SecurityGroupID")) /\ UNCHANGED <<inst, mem>>
    BY <1>6, <1>7, <1>11 DEF DeleteSecurityGroup
  <2>2. inst = {} /\ Gone({"EipID"}) /\ Gone({"VSwitchID"})
    BY <1>7, <1>11, <2>1 DEF ClearedInv
  <2>3. \A x \in cloud : x.kind = "SecurityGroupID" => x \in Deletable(Recorded("SecurityGroupID"))
    BY <1>7, <1>11, <2>2 DEF OnlyRecorded, Recorded, Deletable
  <2>4. OnlyRecorded' /\ Gone({"EipID"})' /\ Gone({"VSwitchID"})' /\ Gone({"SecurityGroupID"})'
    BY <1>7, <1>11, <2>1, <2>2, <2>3 DEF OnlyRecorded, Gone
  <2> QED
    BY <2>1, <2>2, <2>4 DEF ClearedInv
<1>12. CASE DeleteVPC
  <2>1. /\ pc = "DeleteVPC" /\ pc' = "cleared"
        /\ cloud' = cloud \ Deletable(Recorded("VpcID")) /\ UNCHANGED <<inst, mem>>
    BY <1>6, <1>7, <1>12 DEF DeleteVPC
  <2>2. inst = {} /\ Gone({"EipID"}) /\ Gone({"VSwitchID"}) /\ Gone({"SecurityGroupID"})
    BY <1>7, <1>12, <2>1 DEF ClearedInv
  <2>3. \A x \in cloud : x.kind = "VpcID" => x \in Deletable(Recorded("VpcID"))
    BY <1>7, <1>12, <2>2 DEF OnlyRecorded, Recorded, Deletable, Gone
  <2>4. /\ OnlyRecorded' /\ Gone({"EipID"})' /\ Gone({"VSwitchID"})' /\ Gone({"SecurityGroupID"})'
        /\ Gone({"VpcID"})'
    BY <1>7, <1>12, <2>1, <2>2, <2>3 DEF OnlyRecorded, Gone
  <2> QED
    BY <2>1, <2>2, <2>4 DEF ClearedInv
<1> QED
  BY <1>1, <1>2, <1>3, <1>4, <1>5, <1>8, <1>9, <1>10, <1>11, <1>12 DEF AliNext

\* Without faults, clearing leaves neither an instance nor a network resource in
\* the cloud, for any requests and any number of Apply calls before.
THEOREM ClearingLeavesNothing == InfraSpec => []ClearLeavesNothing
<1>1. InfraInit => InPlaceInv /\ ClearedInv
  BY DEF InfraInit, AliInit, InPlaceInv, InPlace, ClearedInv, OnlyRecorded
<1>2. /\ AliInv /\ InPlaceInv /\ ClearedInv
      /\ [NewDefaultProvider]_<<aliVars, conVars, provider>>
      => InPlaceInv' /\ ClearedInv'
  <2> SUFFICES ASSUME AliInv, InPlaceInv, ClearedInv,
                      [NewDefaultProvider]_<<aliVars, conVars, provider>>
               PROVE  InPlaceInv' /\ ClearedInv'
    OBVIOUS
  <2>1. CASE AliNext
    BY <2>1, InPlaceStep, ClearedStep DEF AliInv
  <2>2. CASE UNCHANGED aliVars
    <3>1. InPlaceInv'
      BY <2>2 DEF aliVars, InPlaceInv, OnlySaveFailed, InPlace
    <3>2. ClearedInv'
      BY <2>2 DEF aliVars, ClearedInv, Faultless, OnlyRecorded, Gone
    <3> QED
      BY <3>1, <3>2
  <2> QED
    BY <2>1, <2>2 DEF NewDefaultProvider
<1>3. ClearedInv => ClearLeavesNothing
  BY DEF ClearedInv, ClearLeavesNothing, OnlyRecorded, Gone, Created
<1> QED
  BY <1>1, <1>2, <1>3, AliInvariant, PTL DEF InfraSpec
==============================================================================
