------------------------ MODULE P2PDistribution_proofs ------------------------
(* What is proved of the peer-to-peer distributor, for every finite set of *)
(* hosts and any number of rounds and faults.                              *)
EXTENDS P2PDistribution, FiniteSetTheorems, TLAPS

\* The fields of a well-typed state.
LEMMA FieldTypes ==
  ASSUME TypeOK
  PROVE  /\ cur.round \in Nat /\ cur.round \in Round /\ cur.dest \in Dests /\ cur.dir \in MountDirs
         /\ Place(cur) \in Places /\ cur.hosts \in SUBSET Hosts
         /\ \A h \in Hosts : /\ recv[h].round \in Round /\ recv[h].round \in Nat
                             /\ recv[h].done \in 0 .. FileCount /\ recv[h].done \in Nat
                             /\ Place(recv[h]) \in Places
         /\ \A h \in Hosts, p \in Places : ok[h][p] \in Nat
         /\ \A h \in Hosts, p \in Places, f \in Files :
              files[h][p][f].round \in Nat /\ files[h][p][f].whole \in BOOLEAN
  BY P2PAssumption DEF TypeOK, Cur, Receiver, Round, Place, Places, File

\* A receiver that moves to another stage.
LEMMA StageType ==
  ASSUME TypeOK, NEW h \in Hosts, NEW s \in {"none"} \cup Live,
         recv' = [recv EXCEPT ![h].stage = s]
  PROVE  /\ recv' \in [Hosts -> Receiver]
         /\ recv'[h].stage = s /\ recv'[h].round = recv[h].round /\ Place(recv'[h]) = Place(recv[h])
         /\ recv'[h].done = recv[h].done
         /\ \A g \in Hosts : g # h => recv'[g] = recv[g]
<1>1. recv[h] \in Receiver
  BY DEF TypeOK
<1>2. [recv[h] EXCEPT !.stage = s] \in Receiver
  BY <1>1 DEF Receiver
<1>3. recv' = [recv EXCEPT ![h] = [recv[h] EXCEPT !.stage = s]]
  BY DEF TypeOK
<1> QED
  BY <1>1, <1>2, <1>3 DEF TypeOK, Receiver, Place

\* The file a receiver works on, and the others.
LEMMA UnpackedType ==
  ASSUME TypeOK, NEW h \in Hosts, recv[h].done < FileCount, NEW w \in BOOLEAN, Unpacked(h, w)
  PROVE  /\ files' \in [Hosts -> [Places -> [Files -> File]]]
         /\ recv[h].done + 1 \in Files
         /\ files'[h][Place(recv[h])][recv[h].done + 1] = [round |-> recv[h].round, whole |-> w]
         /\ \A g \in Hosts, p \in Places, f \in Files :
              g # h \/ p # Place(recv[h]) \/ f # recv[h].done + 1 => files'[g][p][f] = files[g][p][f]
<1> DEFINE p0 == Place(recv[h])
           f0 == recv[h].done + 1
           x == [round |-> recv[h].round, whole |-> w]
<1>1. p0 \in Places /\ f0 \in Files /\ x \in File
  BY FieldTypes, P2PAssumption DEF Files, File
<1>2. files' = [files EXCEPT ![h] = [files[h] EXCEPT ![p0] = [files[h][p0] EXCEPT ![f0] = x]]]
  BY DEF Unpacked, TypeOK
<1> HIDE DEF p0, f0, x
<1>3. files[h] \in [Places -> [Files -> File]] /\ files[h][p0] \in [Files -> File]
  BY <1>1 DEF TypeOK
<1>4. /\ files'[h] = [files[h] EXCEPT ![p0] = [files[h][p0] EXCEPT ![f0] = x]]
      /\ \A g \in Hosts : g # h => files'[g] = files[g]
      /\ files' \in [Hosts -> [Places -> [Files -> File]]]
  BY <1>1, <1>2, <1>3 DEF TypeOK
<1>5. /\ files'[h][p0] = [files[h][p0] EXCEPT ![f0] = x]
      /\ \A p \in Places : p # p0 => files'[h][p] = files[h][p]
  BY <1>1, <1>3, <1>4
<1>6. /\ files'[h][p0][f0] = x
      /\ \A f \in Files : f # f0 => files'[h][p0][f] = files[h][p0][f]
  BY <1>1, <1>3, <1>5
<1> QED
  BY <1>1, <1>4, <1>5, <1>6 DEF p0, f0, x

\* A receiver that goes on to the next file.
LEMMA WriteType ==
  ASSUME TypeOK, NEW h \in Hosts, WriteFile(h)
  PROVE  /\ files' \in [Hosts -> [Places -> [Files -> File]]]
         /\ recv' \in [Hosts -> Receiver]
         /\ recv'[h].stage = "fetch" /\ recv'[h].round = recv[h].round /\ Place(recv'[h]) = Place(recv[h])
         /\ recv'[h].done = recv[h].done + 1
         /\ \A g \in Hosts : g # h => recv'[g] = recv[g]
<1>1. recv[h] \in Receiver /\ recv[h].done < FileCount
  BY DEF TypeOK, WriteFile
<1> DEFINE r == [recv[h] EXCEPT !.stage = "fetch", !.done = @ + 1]
<1>0. recv[h].done + 1 \in 0 .. FileCount
  BY <1>1, FieldTypes, P2PAssumption
<1>2. /\ r \in Receiver /\ r.stage = "fetch" /\ r.round = recv[h].round /\ r.done = recv[h].done + 1
      /\ r.dest = recv[h].dest /\ r.dir = recv[h].dir
  BY <1>0, <1>1 DEF Receiver, Live
<1>3. recv' = [recv EXCEPT ![h] = r]
  BY DEF TypeOK, WriteFile
<1> HIDE DEF r
<1>4. recv' \in [Hosts -> Receiver] /\ recv'[h] = r /\ \A g \in Hosts : g # h => recv'[g] = recv[g]
  BY <1>2, <1>3 DEF TypeOK
<1> QED
  BY <1>1, <1>2, <1>4, UnpackedType DEF WriteFile, Place

\* Counting a fault stays within the bound.
LEMMA FaultType ==
  ASSUME TypeOK, Fault
  PROVE  faults' \in 0 .. MaxFaults
  BY P2PAssumption DEF TypeOK, Fault

\* Handing a /next request over keeps the number of requests natural.
LEMMA HandedType ==
  ASSUME TypeOK, NEW h \in Hosts, Handed(h)
  PROVE  req' \in [Hosts -> Nat] /\ faults' \in 0 .. MaxFaults
<1>1. CASE req' = [req EXCEPT ![h] = @ - 1] /\ UNCHANGED faults
  BY <1>1 DEF TypeOK, Handed
<1>2. CASE Fault /\ UNCHANGED req
  BY <1>2, FaultType DEF TypeOK
<1> QED
  BY <1>1, <1>2 DEF Handed

\* The end of a receiver changes only the SSH command of its own host.
LEMMA SshType ==
  ASSUME TypeOK, NEW h \in Hosts, NEW how \in {"ok", "err"}, SshEnds(h, how)
  PROVE  /\ ssh' \in [Hosts -> {"none", "start", "running", "ok", "err"}]
         /\ \A g \in Hosts : g # h => ssh'[g] = ssh[g]
         /\ ssh'[h] = IF ssh[h] = "running" /\ recv[h].round = cur.round THEN how ELSE ssh[h]
  BY DEF TypeOK, SshEnds

\* A new poll starts with consistent counts.
LEMMA PollType ==
  ASSUME NoPoll
  PROVE  (polled \subseteq Hosts /\ seen \subseteq polled /\ perr \in BOOLEAN)'
  BY DEF NoPoll

\* What survives of the requests under way is a number per host.
LEMMA SurvivingType ==
  ASSUME TypeOK
  PROVE  Surviving \subseteq [Hosts -> Nat]
<1>1. UNION {0 .. req[h] : h \in Hosts} \subseteq Nat
  BY DEF TypeOK
<1> QED
  BY <1>1 DEF Surviving

\* Every step keeps the types.
LEMMA NextType ==
  ASSUME TypeOK, Next
  PROVE  TypeOK'
<1> USE P2PAssumption, FieldTypes
<1>1. ASSUME NEW d \in Dests, NEW m \in MountDirs, NEW S \in SUBSET Hosts, StartRound(d, m, S) PROVE TypeOK'
  <2>1. cur' \in Cur
    BY <1>1 DEF StartRound, Cur, Round
  <2>2. ssh' \in [Hosts -> {"none", "start", "running", "ok", "err"}] /\ req' \in [Hosts -> Nat]
    BY <1>1, SurvivingType DEF StartRound, TypeOK
  <2> QED
    BY <1>1, <2>1, <2>2, PollType DEF StartRound, TypeOK
<1>2. ASSUME NEW h \in Hosts, Poll(h) PROVE TypeOK'
  BY <1>2, FaultType DEF Poll, TypeOK
<1>3. CASE PollPass
  <2>1. req' \in [Hosts -> Nat]
    BY <1>3 DEF PollPass, SendNext, TypeOK
  <2> QED
    BY <1>3, <2>1, PollType DEF PollPass, TypeOK
<1>4. CASE PollAgain
  BY <1>4, PollType DEF PollAgain, TypeOK
<1>5. CASE RoundOk
  <2>1. ok' \in [Hosts -> [Places -> Round]]
    BY <1>5 DEF RoundOk, TypeOK
  <2> QED
    BY <1>5, <2>1 DEF RoundOk, TypeOK, pollVars
<1>6. CASE RoundErr \/ Abandon
  <2>1. req' \in [Hosts -> Nat]
    BY <1>6, SurvivingType DEF RoundErr, Abandon, Exit
  <2> QED
    BY <1>6, <2>1, PollType, FaultType DEF RoundErr, Abandon, Exit, TypeOK
<1>7. ASSUME NEW h \in Hosts, StartReceiver(h) PROVE TypeOK'
  <2>1. [round |-> cur.round, dest |-> cur.dest, dir |-> cur.dir, stage |-> "0", done |-> 0] \in Receiver
    BY DEF Receiver, Live
  <2>2. recv' \in [Hosts -> Receiver]
    BY <1>7, <2>1 DEF StartReceiver, TypeOK
  <2>3. ssh' \in [Hosts -> {"none", "start", "running", "ok", "err"}]
    BY <1>7 DEF StartReceiver, TypeOK
  <2> QED
    BY <1>7, <2>2, <2>3 DEF StartReceiver, TypeOK, pollVars
<1>8. ASSUME NEW h \in Hosts, SshFails(h) PROVE TypeOK'
  BY <1>8, FaultType DEF SshFails, TypeOK, pollVars
<1>9. ASSUME NEW h \in Hosts, ReachStage1(h) PROVE TypeOK'
  BY <1>9, StageType DEF ReachStage1, TypeOK, pollVars, Live
<1>10. ASSUME NEW h \in Hosts, NextAtStage1(h) PROVE TypeOK'
  BY <1>10, StageType, HandedType DEF NextAtStage1, TypeOK, pollVars, Live
<1>11. ASSUME NEW h \in Hosts, CreateFile(h) PROVE TypeOK'
  <2>1. files' \in [Hosts -> [Places -> [Files -> File]]]
    BY <1>11, UnpackedType DEF CreateFile
  <2> QED
    BY <1>11, <2>1, StageType DEF CreateFile, TypeOK, pollVars, Live
<1>15. ASSUME NEW h \in Hosts, WriteFile(h) PROVE TypeOK'
  <2>1. files' \in [Hosts -> [Places -> [Files -> File]]] /\ recv' \in [Hosts -> Receiver]
    BY <1>15, WriteType
  <2> QED
    BY <1>15, <2>1 DEF WriteFile, TypeOK, pollVars
<1>16. ASSUME NEW h \in Hosts, Extracted(h) PROVE TypeOK'
  BY <1>16, StageType DEF Extracted, TypeOK, pollVars, Live
<1>12. ASSUME NEW h \in Hosts, NextAtStage2(h) PROVE TypeOK'
  BY <1>12, StageType, HandedType, SshType DEF NextAtStage2, TypeOK, pollVars
<1>13. ASSUME NEW h \in Hosts, Crash(h) PROVE TypeOK'
  BY <1>13, StageType, FaultType, SshType DEF Crash, TypeOK, pollVars
<1>14. ASSUME NEW h \in Hosts, LoseNext(h) PROVE TypeOK'
  <2>1. req' \in [Hosts -> Nat]
    BY <1>14 DEF LoseNext, TypeOK
  <2> QED
    BY <1>14, <2>1, FaultType DEF LoseNext, TypeOK, pollVars
<1> QED
  BY <1>1, <1>2, <1>3, <1>4, <1>5, <1>6, <1>7, <1>8, <1>9, <1>10, <1>11, <1>12, <1>13, <1>14,
     <1>15, <1>16 DEF Next, Sealer, Host

\* Through faults of every kind the state keeps its shape.
THEOREM P2PTypeCorrect == Spec => []TypeOK
<1>1. Init => TypeOK
  <2> SUFFICES ASSUME Init PROVE TypeOK
    OBVIOUS
  <2>1. cur \in Cur
    BY P2PAssumption DEF Init, Cur, Round
  <2>2. recv \in [Hosts -> Receiver]
    BY P2PAssumption DEF Init, Receiver, Round
  <2>3. files \in [Hosts -> [Places -> [Files -> File]]] /\ ok \in [Hosts -> [Places -> Round]]
    <3>1. [round |-> 0, whole |-> TRUE] \in File /\ 0 \in Round
      BY P2PAssumption DEF Round, File
    <3> QED
      BY <3>1 DEF Init
  <2>4. req \in [Hosts -> Nat] /\ faults \in 0 .. MaxFaults
    BY P2PAssumption DEF Init
  <2>5. /\ pc = "idle" /\ polled = {} /\ seen = {} /\ perr \in BOOLEAN
        /\ ssh \in [Hosts -> {"none", "start", "running", "ok", "err"}]
    BY DEF Init
  <2> QED
    BY <2>1, <2>2, <2>3, <2>4, <2>5 DEF TypeOK
<1>2. TypeOK /\ [Next]_vars => TypeOK'
  BY NextType DEF vars, pollVars, TypeOK
<1> QED
  BY <1>1, <1>2, PTL DEF Spec

------------------------------------------------------------------------------
(* The invariant.                                                          *)

\* What SshTellsTheReceiver asks of a step that does not change the round.
LEMMA SshKept ==
  ASSUME TypeOK, UNCHANGED cur,
         \A g \in Hosts :
           /\ ssh'[g] = "running" => /\ recv'[g].stage \in Live
                                     /\ recv'[g].round = cur.round /\ Place(recv'[g]) = Place(cur)
           /\ ssh'[g] = "ok" /\ pc' # "idle" =>
                /\ recv'[g].stage = "none" /\ Holds(g, Place(cur), cur.round)
                /\ \A p \in Places, f \in Files : files'[g][p][f] = files[g][p][f]
           /\ g \notin cur.hosts \/ pc' = "idle" => ssh'[g] \notin {"start", "running"}
  PROVE  SshTellsTheReceiver'
<1> USE FieldTypes
<1> SUFFICES ASSUME NEW g \in Hosts, ssh'[g] = "ok", pc' # "idle", NEW f \in Files
             PROVE  files'[g][Place(cur)][f] = [round |-> cur.round, whole |-> TRUE]
  BY DEF SshTellsTheReceiver, Holds
<1>1. files'[g][Place(cur)][f] = files[g][Place(cur)][f]
  OBVIOUS
<1> QED
  BY <1>1 DEF Holds

\* Every step preserves the invariant.
LEMMA NextKeepsInv ==
  ASSUME TypeOK, TypeOK', P2PInv, Next
  PROVE  P2PInv'
<1> USE FieldTypes DEF P2PInv
<1>1. ASSUME NEW d \in Dests, NEW m \in MountDirs, NEW S \in SUBSET Hosts, StartRound(d, m, S) PROVE P2PInv'
  <2>1. /\ cur'.round = cur.round + 1 /\ cur'.hosts = S /\ pc = "idle"
        /\ UNCHANGED <<recv, files, ok>>
        /\ \A h \in Hosts : ssh'[h] = IF h \in S THEN "start" ELSE "none"
    BY <1>1 DEF StartRound
  <2>2. pc' = "wait1"
    BY <1>1 DEF StartRound
  <2>3. LiveReceiversAreNew'
    BY <2>1 DEF LiveReceiversAreNew
  <2>4. SshTellsTheReceiver'
    BY <2>1, <2>2 DEF SshTellsTheReceiver
  <2>5. CurrentIsNew' /\ ReportedIsInPlace'
    BY <2>1, <2>2 DEF CurrentIsNew, ReportedIsInPlace
  <2> QED
    BY <2>3, <2>4, <2>5
<1>2. CASE UNCHANGED <<pc, cur, ssh, recv, files, ok>>
  <2>1. SshTellsTheReceiver'
    BY <1>2, SshKept DEF SshTellsTheReceiver
  <2> QED
    BY <1>2, <2>1 DEF LiveReceiversAreNew, CurrentIsNew, ReportedIsInPlace
<1>3. CASE PollPass
  <2>1. pc # "idle" /\ pc' # "idle" /\ UNCHANGED <<cur, ssh, recv, files, ok>>
    BY <1>3 DEF PollPass
  <2>2. SshTellsTheReceiver'
    BY <2>1, SshKept DEF SshTellsTheReceiver
  <2> QED
    BY <2>1, <2>2 DEF LiveReceiversAreNew, CurrentIsNew, ReportedIsInPlace
<1>4. CASE RoundOk
  <2>1. /\ pc # "idle" /\ pc' = "idle" /\ UNCHANGED <<cur, ssh, recv, files>>
        /\ \A h \in cur.hosts : ssh[h] = "ok"
    BY <1>4 DEF RoundOk
  <2>2. \A h \in Hosts, p \in Places :
          ok'[h][p] = IF h \in cur.hosts /\ p = Place(cur) THEN cur.round ELSE ok[h][p]
    BY <1>4 DEF RoundOk, TypeOK
  <2>3. \A h \in cur.hosts : recv[h].stage = "none" /\ Holds(h, Place(cur), cur.round)
    BY <2>1 DEF SshTellsTheReceiver
  <2>4. LiveReceiversAreNew'
    BY <2>1, <2>2, <2>3 DEF LiveReceiversAreNew, Live
  <2>5. SshTellsTheReceiver'
    BY <2>1 DEF SshTellsTheReceiver
  <2>6. CurrentIsNew'
    BY <2>1, <2>2 DEF CurrentIsNew
  <2>7. ReportedIsInPlace'
    BY <2>1, <2>2, <2>3 DEF ReportedIsInPlace, Holds
  <2> QED
    BY <2>4, <2>5, <2>6, <2>7
<1>5. CASE RoundErr \/ Abandon
  <2>1. /\ pc' = "idle" /\ UNCHANGED <<cur, recv, files, ok>>
        /\ \A h \in Hosts : ssh'[h] = "none"
    BY <1>5 DEF RoundErr, Abandon, Exit
  <2> QED
    BY <2>1 DEF LiveReceiversAreNew, SshTellsTheReceiver, CurrentIsNew, ReportedIsInPlace, Holds
<1>6. ASSUME NEW h \in Hosts, StartReceiver(h) PROVE P2PInv'
  <2>1. ssh[h] = "start" /\ h \in cur.hosts /\ pc # "idle" /\ UNCHANGED <<pc, cur, files, ok>>
    BY <1>6 DEF StartReceiver, SshTellsTheReceiver
  <2>2. /\ \A g \in Hosts : g # h => ssh'[g] = ssh[g] /\ recv'[g] = recv[g]
        /\ \/ /\ ssh'[h] = "running"
              /\ recv'[h] = [round |-> cur.round, dest |-> cur.dest, dir |-> cur.dir, stage |-> "0", done |-> 0]
           \/ ssh'[h] = "err" /\ recv'[h] = recv[h]
    BY <1>6 DEF StartReceiver, TypeOK
  <2>3. LiveReceiversAreNew'
    BY <2>1, <2>2 DEF LiveReceiversAreNew, CurrentIsNew, Place
  <2>4. SshTellsTheReceiver'
    BY <2>1, <2>2, SshKept DEF SshTellsTheReceiver, Live, Place
  <2>5. CurrentIsNew' /\ ReportedIsInPlace'
    BY <2>1 DEF CurrentIsNew, ReportedIsInPlace
  <2> QED
    BY <2>3, <2>4, <2>5
<1>7. ASSUME NEW h \in Hosts, SshFails(h) PROVE P2PInv'
  <2>1. /\ UNCHANGED <<pc, cur, recv, files, ok>> /\ ssh'[h] = "err"
        /\ \A g \in Hosts : g # h => ssh'[g] = ssh[g]
    BY <1>7 DEF SshFails, TypeOK
  <2>2. SshTellsTheReceiver'
    BY <2>1, SshKept DEF SshTellsTheReceiver
  <2> QED
    BY <2>1, <2>2 DEF LiveReceiversAreNew, CurrentIsNew, ReportedIsInPlace
<1>8. ASSUME NEW h \in Hosts, ReachStage1(h) \/ NextAtStage1(h) PROVE P2PInv'
  <2>1. PICK s \in {"1", "fetch"} : recv' = [recv EXCEPT ![h].stage = s]
    BY <1>8 DEF ReachStage1, NextAtStage1
  <2>2. recv[h].stage \in Live /\ UNCHANGED <<pc, cur, ssh, files, ok>>
    BY <1>8 DEF ReachStage1, NextAtStage1, Live
  <2>3. /\ recv'[h].stage = s /\ recv'[h].round = recv[h].round /\ Place(recv'[h]) = Place(recv[h])
        /\ recv'[h].done = recv[h].done
        /\ \A g \in Hosts : g # h => recv'[g] = recv[g]
    BY <2>1, StageType DEF Live
  <2>4. LiveReceiversAreNew'
    BY <2>1, <2>2, <2>3 DEF LiveReceiversAreNew
  <2>5. SshTellsTheReceiver'
    BY <2>1, <2>2, <2>3, SshKept DEF SshTellsTheReceiver, Live
  <2> QED
    BY <2>2, <2>4, <2>5 DEF CurrentIsNew, ReportedIsInPlace
<1>9. ASSUME NEW h \in Hosts, NEW w \in BOOLEAN, recv[h].stage \in {"fetch", "write"},
             recv[h].done < FileCount, Unpacked(h, w), UNCHANGED <<pc, cur, ssh, ok>>,
             recv'[h].stage \in {"fetch", "write"}, recv'[h].round = recv[h].round,
             Place(recv'[h]) = Place(recv[h]), recv'[h].done = recv[h].done + (IF w THEN 1 ELSE 0),
             \A g \in Hosts : g # h => recv'[g] = recv[g]
      PROVE  P2PInv'
  <2> DEFINE p0 == Place(recv[h])
             f0 == recv[h].done + 1
  <2>1. /\ p0 \in Places /\ f0 \in Files
        /\ files'[h][p0][f0] = [round |-> recv[h].round, whole |-> w]
        /\ \A g \in Hosts, p \in Places, f \in Files :
             g # h \/ p # p0 \/ f # f0 => files'[g][p][f] = files[g][p][f]
    BY <1>9, UnpackedType
  <2>2. recv[h].round > ok[h][p0] /\ recv[h].round <= cur.round
    BY <1>9 DEF LiveReceiversAreNew, Live
  <2>3. \A f \in 1 .. recv[h].done : f \in Files /\ f # f0
    BY <1>9, P2PAssumption DEF Files
  <2>4. \A f \in 1 .. recv'[h].done : files'[h][p0][f] = [round |-> recv[h].round, whole |-> TRUE]
    <3> SUFFICES ASSUME NEW f \in 1 .. recv'[h].done
                 PROVE  files'[h][p0][f] = [round |-> recv[h].round, whole |-> TRUE]
      OBVIOUS
    <3>1. CASE f = f0
      <4>1. w = TRUE
        BY <1>9, <3>1
      <4> QED
        BY <2>1, <3>1, <4>1
    <3>2. CASE f # f0
      <4>1. f \in 1 .. recv[h].done
        BY <1>9, <3>2
      <4> QED
        BY <1>9, <2>1, <2>3, <3>2, <4>1 DEF LiveReceiversAreNew, Live
    <3> QED
      BY <3>1, <3>2
  <2>5. \A g \in Hosts : g # h => /\ \A p \in Places, f \in Files : files'[g][p][f] = files[g][p][f]
                                  /\ recv'[g] = recv[g] /\ recv[g].done \in 0 .. FileCount
    BY <1>9, <2>1
  <2>6. LiveReceiversAreNew'
    <3> SUFFICES ASSUME NEW g \in Hosts
                 PROVE  /\ recv'[g].stage \in Live =>
                             recv'[g].round <= cur.round /\ recv'[g].round > ok[g][Place(recv'[g])]
                        /\ recv'[g].stage \in Live =>
                             \A f \in 1 .. recv'[g].done :
                               files'[g][Place(recv'[g])][f] = [round |-> recv'[g].round, whole |-> TRUE]
                        /\ recv'[g].stage = "2" => recv'[g].done = FileCount
      BY <1>9 DEF LiveReceiversAreNew
    <3>1. CASE g = h
      BY <1>9, <2>2, <2>4, <3>1
    <3>2. CASE g # h
      <4>1. \A f \in 1 .. recv[g].done : f \in Files
        BY <2>5, <3>2, P2PAssumption DEF Files
      <4> QED
        BY <2>5, <3>2, <4>1 DEF LiveReceiversAreNew
    <3> QED
      BY <3>1, <3>2
  <2>7. SshTellsTheReceiver'
    BY <1>9, <2>5, SshKept DEF SshTellsTheReceiver, Live
  <2>8. CurrentIsNew'
    BY <1>9 DEF CurrentIsNew
  <2>9. ReportedIsInPlace'
    <3> SUFFICES ASSUME NEW g \in Hosts, NEW p \in Places, NEW f \in Files
                 PROVE  /\ files'[g][p][f].round >= ok[g][p]
                        /\ files'[g][p][f].round = ok[g][p] => files'[g][p][f].whole
      BY <1>9 DEF ReportedIsInPlace
    <3>1. CASE g = h /\ p = p0 /\ f = f0
      BY <2>1, <2>2, <3>1
    <3>2. CASE ~(g = h /\ p = p0 /\ f = f0)
      BY <2>1, <3>2 DEF ReportedIsInPlace
    <3> QED
      BY <3>1, <3>2
  <2> QED
    BY <2>6, <2>7, <2>8, <2>9
<1>12. ASSUME NEW h \in Hosts, CreateFile(h) PROVE P2PInv'
  <2>1. /\ recv'[h].stage = "write" /\ recv'[h].round = recv[h].round /\ Place(recv'[h]) = Place(recv[h])
        /\ recv'[h].done = recv[h].done /\ \A g \in Hosts : g # h => recv'[g] = recv[g]
    BY <1>12, StageType DEF CreateFile, Live
  <2>2. recv'[h].done = recv[h].done + (IF FALSE THEN 1 ELSE 0)
    BY <2>1
  <2>3. /\ recv[h].stage \in {"fetch", "write"} /\ recv[h].done < FileCount /\ Unpacked(h, FALSE)
        /\ UNCHANGED <<pc, cur, ssh, ok>>
    BY <1>12 DEF CreateFile
  <2> QED
    BY <1>9, <2>1, <2>2, <2>3
<1>13. ASSUME NEW h \in Hosts, WriteFile(h) PROVE P2PInv'
  BY <1>9, <1>13, WriteType DEF WriteFile
<1>14. ASSUME NEW h \in Hosts, Extracted(h) PROVE P2PInv'
  <2>1. /\ recv'[h].stage = "2" /\ recv'[h].round = recv[h].round /\ Place(recv'[h]) = Place(recv[h])
        /\ recv'[h].done = recv[h].done /\ \A g \in Hosts : g # h => recv'[g] = recv[g]
    BY <1>14, StageType DEF Extracted, Live
  <2>2. recv[h].stage = "fetch" /\ recv[h].done = FileCount /\ UNCHANGED <<pc, cur, ssh, files, ok>>
    BY <1>14 DEF Extracted
  <2>3. LiveReceiversAreNew'
    BY <2>1, <2>2 DEF LiveReceiversAreNew, Live
  <2>4. SshTellsTheReceiver'
    BY <2>1, <2>2, SshKept DEF SshTellsTheReceiver, Live
  <2>5. CurrentIsNew' /\ ReportedIsInPlace'
    BY <2>2 DEF CurrentIsNew, ReportedIsInPlace
  <2> QED
    BY <2>3, <2>4, <2>5
<1>10. ASSUME NEW h \in Hosts, NextAtStage2(h) \/ Crash(h) PROVE P2PInv'
  <2>1. recv[h].stage \in Live /\ UNCHANGED <<pc, cur, files, ok>>
    BY <1>10 DEF NextAtStage2, Crash, Live
  <2>2. /\ recv'[h].stage = "none"
        /\ \A g \in Hosts : g # h => recv'[g] = recv[g]
    BY <1>10, StageType DEF NextAtStage2, Crash
  <2>3. \A g \in Hosts : g # h => ssh'[g] = ssh[g]
    BY <1>10, SshType DEF NextAtStage2, Crash
  <2>4. \/ ssh'[h] = "err"
        \/ ssh'[h] = ssh[h] /\ ~(ssh[h] = "running" /\ recv[h].round = cur.round)
        \/ ssh'[h] = "ok" /\ ssh[h] = "running" /\ recv[h].round = cur.round /\ recv[h].stage = "2"
    BY <1>10, SshType DEF NextAtStage2, Crash
  <2>5. LiveReceiversAreNew'
    BY <2>1, <2>2 DEF LiveReceiversAreNew, Live
  <2>8. recv[h].stage = "2" => Holds(h, Place(recv[h]), recv[h].round)
    BY DEF LiveReceiversAreNew, Holds, Files, Live
  <2>6. SshTellsTheReceiver'
    BY <2>1, <2>2, <2>3, <2>4, <2>8, SshKept DEF SshTellsTheReceiver
  <2>7. CurrentIsNew' /\ ReportedIsInPlace'
    BY <2>1 DEF CurrentIsNew, ReportedIsInPlace
  <2> QED
    BY <2>5, <2>6, <2>7
<1>11. CASE PollAgain \/ (\E h \in Hosts : Poll(h) \/ LoseNext(h))
  BY <1>2, <1>11 DEF PollAgain, Poll, LoseNext
<1> QED
  BY <1>1, <1>3, <1>4, <1>5, <1>6, <1>7, <1>8, <1>10, <1>11, <1>12, <1>13, <1>14 DEF Next, Sealer, Host

\* A live receiver, whoever started it, only ever brings something newer than
\* what was reported, and sealer reads the state of the receivers right.
THEOREM P2PInvariant == Spec => [](TypeOK /\ P2PInv)
<1>1. Init => P2PInv
  BY DEF Init, P2PInv, LiveReceiversAreNew, SshTellsTheReceiver, CurrentIsNew, ReportedIsInPlace, Live, Holds
<1>2. TypeOK /\ TypeOK' /\ P2PInv /\ [Next]_vars => P2PInv'
  <2> SUFFICES ASSUME TypeOK, TypeOK', P2PInv, [Next]_vars PROVE P2PInv'
    OBVIOUS
  <2>1. CASE UNCHANGED vars
    <3>1. SshTellsTheReceiver'
      BY <2>1, SshKept DEF vars, P2PInv, SshTellsTheReceiver
    <3> QED
      BY <2>1, <3>1 DEF vars, P2PInv, LiveReceiversAreNew, CurrentIsNew, ReportedIsInPlace
  <2> QED
    BY <2>1, NextKeepsInv
<1> QED
  BY <1>1, <1>2, P2PTypeCorrect, PTL DEF Spec

\* What distributeImpl reported is on every target host, each file whole, below
\* the destination at the path it was mounted at, until a newer round overwrites
\* it: receivers that were left behind or cut off in extractTarGz neither tear
\* it nor bring back something older.
THEOREM ReportedAlwaysInPlace == Spec => []ReportedIsInPlace
  BY P2PInvariant, PTL DEF P2PInv

\* distributeImpl and dist-receiver implement the abstract Distributor, file by
\* file, for any number of hosts, files, rounds and faults.
THEOREM P2PKeepsPromise == Spec => PromiseKept
<1>1. Init => Promise!Init
  BY DEF Init, Promise!Init
<1>2. TypeOK /\ P2PInv /\ [Next]_vars => [Promise!Next]_(Promise!dvars)
  <2> SUFFICES ASSUME TypeOK, P2PInv, [Next]_vars
               PROVE  Promise!Next \/ UNCHANGED <<files, ok>>
    BY DEF Promise!dvars
  <2>1. CASE RoundOk
    <3>1. Promise!Report(cur.hosts, Place(cur), cur.round)
      BY <2>1, FieldTypes DEF RoundOk, Promise!Report, P2PInv, SshTellsTheReceiver, Holds
    <3> QED
      BY <3>1, FieldTypes DEF Promise!Next
  <2>2. ASSUME NEW h \in Hosts, CreateFile(h) \/ WriteFile(h) PROVE Promise!Next
    <3>0. recv[h].stage \in Live /\ recv[h].done < FileCount
      BY <2>2 DEF CreateFile, WriteFile, Live
    <3>3. recv[h].done + 1 \in Files
      BY <3>0, FieldTypes, P2PAssumption DEF Files
    <3>1. recv[h].round > ok[h][Place(recv[h])] /\ recv[h].done + 1 \in Files
      BY <3>0, <3>3 DEF P2PInv, LiveReceiversAreNew
    <3>2. PICK w \in BOOLEAN : Promise!Deliver(h, Place(recv[h]), recv[h].done + 1, recv[h].round, w)
      BY <2>2, <3>1 DEF CreateFile, WriteFile, Unpacked, Promise!Deliver
    <3> QED
      BY <3>1, <3>2, FieldTypes DEF Promise!Next
  <2>3. CASE \/ (\E d \in Dests, m \in MountDirs, S \in SUBSET Hosts : StartRound(d, m, S))
             \/ PollPass \/ PollAgain \/ RoundErr \/ Abandon \/ (\E h \in Hosts : Poll(h))
    BY <2>3 DEF StartRound, PollPass, PollAgain, RoundErr, Abandon, Exit, Poll
  <2>4. ASSUME NEW h \in Hosts,
               \/ StartReceiver(h) \/ SshFails(h) \/ ReachStage1(h) \/ NextAtStage1(h)
               \/ Extracted(h) \/ NextAtStage2(h) \/ Crash(h) \/ LoseNext(h)
        PROVE  UNCHANGED <<files, ok>>
    BY <2>4 DEF StartReceiver, SshFails, ReachStage1, NextAtStage1, Extracted, NextAtStage2, Crash, LoseNext
  <2>5. CASE UNCHANGED vars
    BY <2>5 DEF vars
  <2> QED
    BY <2>1, <2>2, <2>3, <2>4, <2>5 DEF Next, Sealer, Host
<1> QED
  BY <1>1, <1>2, P2PInvariant, PTL DEF Spec, PromiseKept, Promise!Spec

------------------------------------------------------------------------------
(* The two barriers.  Without faults, sealer and the receiver of a target  *)
(* host go through the round in one order only.                            *)

\* The states of a target host in a round without faults: what sealer waits for,
\* the SSH command, the stage of the receiver and the /next requests under way.
Protocol(p, s, stage, n) ==
  \/ p = "wait1" /\ s = "start" /\ stage = "none" /\ n = 0
  \/ p = "wait1" /\ s = "running" /\ stage \in {"0", "1"} /\ n = 0
  \/ p = "wait2" /\ s = "running" /\ stage = "1" /\ n = 1
  \/ p = "wait2" /\ s = "running" /\ stage \in {"fetch", "write", "2"} /\ n = 0
  \/ p = "wait" /\ s = "running" /\ stage = "2" /\ n = 1
  \/ p = "wait" /\ s = "ok" /\ stage = "none" /\ n = 0

\* Target hosts follow the protocol; elsewhere, and between two rounds, nothing
\* runs and no request is left over.
ProtocolFollowed ==
  faults = 0 =>
    \A h \in Hosts :
      IF pc # "idle" /\ h \in cur.hosts
      THEN Protocol(pc, ssh[h], recv[h].stage, req[h])
      ELSE recv[h].stage = "none" /\ req[h] = 0

\* A host that was seen at the expected stage is still there: it cannot move on
\* before it is told to.
SeenStays ==
  faults = 0 /\ pc \in {"wait1", "wait2"} => \A h \in seen : recv[h].stage = Expected

BarrierInv == ProtocolFollowed /\ SeenStays

\* Once good has reached the number of hosts, every one of them was seen, however
\* many increments were lost.
LEMMA AllWereSeen ==
  ASSUME TypeOK, polled = cur.hosts, Cardinality(cur.hosts) \in Good
  PROVE  seen = cur.hosts
<1>1. IsFiniteSet(cur.hosts) /\ seen \subseteq cur.hosts /\ IsFiniteSet(seen)
  BY P2PAssumption, FieldTypes, FS_Subset DEF TypeOK
<1>2. Cardinality(cur.hosts) \in Nat /\ Cardinality(seen) \in Nat /\ Cardinality(seen) <= Cardinality(cur.hosts)
  BY <1>1, FS_CardinalityType, FS_Subset
<1>3. CASE seen = {}
  BY <1>1, <1>3, FS_EmptySet DEF Good
<1>4. CASE seen # {}
  <2>1. Cardinality(cur.hosts) = Cardinality(seen)
    BY <1>2, <1>4 DEF Good
  <2> QED
    BY <1>1, <2>1, FS_Subset
<1> QED
  BY <1>3, <1>4

\* A step of one host that goes from one state of the protocol to another, and
\* does not move a host that was seen.
LEMMA HostKeepsProtocol ==
  ASSUME TypeOK, TypeOK', P2PInv, BarrierInv, NEW h \in Hosts, UNCHANGED <<pc, cur, seen>>,
         \A g \in Hosts : g # h => ssh'[g] = ssh[g] /\ recv'[g] = recv[g] /\ req'[g] = req[g],
         faults' = 0 => faults = 0,
         faults' = 0 => /\ pc # "idle" /\ h \in cur.hosts
                        /\ Protocol(pc, ssh'[h], recv'[h].stage, req'[h])
                        /\ pc \in {"wait1", "wait2"} => recv[h].stage # Expected
  PROVE  BarrierInv'
<1>1. ProtocolFollowed'
  BY DEF BarrierInv, ProtocolFollowed
<1>2. SeenStays'
  BY DEF BarrierInv, SeenStays, Expected, TypeOK
<1> QED
  BY <1>1, <1>2 DEF BarrierInv

\* Every step follows the protocol, or is a fault.
LEMMA NextKeepsBarriers ==
  ASSUME TypeOK, TypeOK', P2PInv, BarrierInv, Next
  PROVE  BarrierInv'
<1> USE FieldTypes
<1>0. faults \in Nat /\ faults' \in Nat /\ (Fault => faults' # 0)
  BY P2PAssumption DEF TypeOK, Fault
<1>1. CASE faults' # 0
  BY <1>1 DEF BarrierInv, ProtocolFollowed, SeenStays
<1>2. CASE faults' = 0
  <2>0. faults = 0
    <3>1. faults' = faults \/ Fault
      BY DEF Next, Sealer, Host, StartRound, Poll, PollPass, PollAgain, RoundOk, RoundErr, Abandon, Exit,
             StartReceiver, SshFails, ReachStage1, NextAtStage1, CreateFile, WriteFile, Extracted, NextAtStage2, Crash, LoseNext, Handed
    <3> QED
      BY <1>0, <1>2, <3>1
  <2>1. ~Fault
    BY <1>0, <1>2
  <2>2. \A h \in Hosts : IF pc # "idle" /\ h \in cur.hosts
                         THEN Protocol(pc, ssh[h], recv[h].stage, req[h])
                         ELSE recv[h].stage = "none" /\ req[h] = 0
    BY <2>0 DEF BarrierInv, ProtocolFollowed
  <2>3. pc \in {"wait1", "wait2"} => \A h \in seen : recv[h].stage = Expected
    BY <2>0 DEF BarrierInv, SeenStays
  <2>4. ASSUME NEW d \in Dests, NEW m \in MountDirs, NEW S \in SUBSET Hosts, StartRound(d, m, S) PROVE BarrierInv'
    <3>1. /\ pc = "idle" /\ pc' = "wait1" /\ seen' = {} /\ recv' = recv /\ cur'.hosts = S
          /\ \A h \in Hosts : ssh'[h] = IF h \in S THEN "start" ELSE "none"
      BY <2>4 DEF StartRound, NoPoll
    <3>2. \A h \in Hosts : req'[h] = 0
      <4>1. \A h \in Hosts : req'[h] <= req[h] /\ req[h] = 0 /\ req'[h] \in Nat
        BY <2>2, <2>4, <3>1 DEF StartRound, Surviving, TypeOK
      <4> QED
        BY <4>1
    <3>3. \A h \in Hosts : recv'[h].stage = "none"
      BY <2>2, <3>1
    <3> QED
      BY <3>1, <3>2, <3>3 DEF BarrierInv, ProtocolFollowed, SeenStays, Protocol
  <2>5. ASSUME NEW h \in Hosts, Poll(h) PROVE BarrierInv'
    <3>1. UNCHANGED <<pc, cur, ssh, recv, req>> /\ pc \in {"wait1", "wait2"} /\ h \in cur.hosts
      BY <2>5 DEF Poll
    <3>2. ProtocolFollowed'
      BY <2>2, <3>1 DEF ProtocolFollowed
    <3>3. seen' = seen \/ (seen' = seen \cup {h} /\ StageNow(h) = Expected)
      BY <2>5 DEF Poll
    <3>4. StageNow(h) = Expected => recv[h].stage = Expected
      BY <2>2, <3>1 DEF StageNow, Expected, Protocol
    <3>5. SeenStays'
      BY <2>3, <3>1, <3>3, <3>4 DEF SeenStays, Expected
    <3> QED
      BY <3>2, <3>5 DEF BarrierInv
  <2>6. CASE PollPass
    <3>1. /\ UNCHANGED <<cur, ssh, recv>> /\ pc \in {"wait1", "wait2"} /\ seen' = {}
          /\ pc' = IF pc = "wait1" THEN "wait2" ELSE "wait"
          /\ \A h \in Hosts : req'[h] = IF h \in cur.hosts THEN req[h] + 1 ELSE req[h]
      BY <2>6 DEF PollPass, NoPoll, SendNext
    <3>2. \A h \in cur.hosts : recv[h].stage = Expected
      BY <2>3, <2>6, <3>1, AllWereSeen DEF PollPass
    <3>3. \A h \in cur.hosts : Protocol(pc, ssh[h], recv[h].stage, req[h]) /\ req[h] \in Nat
      BY <2>2, <3>1 DEF TypeOK
    <3>4. \A h \in cur.hosts : Protocol(pc', ssh[h], recv[h].stage, req[h] + 1)
      BY <3>1, <3>2, <3>3 DEF Protocol, Expected
    <3>5. ProtocolFollowed'
      BY <2>2, <3>1, <3>4 DEF ProtocolFollowed
    <3> QED
      BY <3>1, <3>5 DEF BarrierInv, SeenStays
  <2>7. CASE PollAgain
    <3>1. UNCHANGED <<pc, cur, ssh, recv, req>> /\ seen' = {}
      BY <2>7 DEF PollAgain, NoPoll
    <3> QED
      BY <2>2, <3>1 DEF BarrierInv, ProtocolFollowed, SeenStays
  <2>8. CASE RoundOk
    <3>1. /\ UNCHANGED <<cur, recv, req>> /\ pc = "wait" /\ pc' = "idle"
          /\ \A h \in cur.hosts : ssh[h] = "ok"
      BY <2>8 DEF RoundOk
    <3>2. \A h \in Hosts : recv[h].stage = "none" /\ req[h] = 0
      BY <2>2, <3>1 DEF Protocol
    <3> QED
      BY <3>1, <3>2 DEF BarrierInv, ProtocolFollowed, SeenStays
  <2>9. ~RoundErr /\ ~Abandon
    BY <2>1, <2>2 DEF RoundErr, Abandon, Protocol
  <2>10. ASSUME NEW h \in Hosts, Host(h) PROVE BarrierInv'
    <3>0. UNCHANGED <<pc, cur, seen>>
      BY <2>10 DEF Host, StartReceiver, SshFails, ReachStage1, NextAtStage1, CreateFile, WriteFile, Extracted, NextAtStage2, Crash,
                   LoseNext, pollVars
    <3>1. ~(SshFails(h) \/ Crash(h) \/ LoseNext(h))
      BY <2>1 DEF SshFails, Crash, LoseNext
    <3>2. CASE StartReceiver(h)
      <4>1. pc = "wait1" /\ h \in cur.hosts /\ recv[h].stage = "none" /\ req[h] = 0
        BY <2>2, <3>2 DEF StartReceiver, P2PInv, SshTellsTheReceiver, Protocol
      <4>2. /\ recv'[h].stage = "0" /\ ssh'[h] = "running" /\ req' = req
            /\ \A g \in Hosts : g # h => ssh'[g] = ssh[g] /\ recv'[g] = recv[g]
        BY <3>2, <4>1 DEF StartReceiver, TypeOK
      <4> QED
        BY <2>0, <3>0, <4>1, <4>2, HostKeepsProtocol DEF Protocol, Expected
    <3>3. CASE ReachStage1(h)
      <4>1. pc = "wait1" /\ h \in cur.hosts /\ ssh[h] = "running" /\ req[h] = 0 /\ recv[h].stage = "0"
        BY <2>2, <3>3 DEF ReachStage1, Protocol
      <4>2. /\ recv'[h].stage = "1" /\ ssh' = ssh /\ req' = req
            /\ \A g \in Hosts : g # h => recv'[g] = recv[g]
        BY <3>3, StageType DEF ReachStage1, Live
      <4> QED
        BY <2>0, <3>0, <4>1, <4>2, HostKeepsProtocol DEF Protocol, Expected
    <3>4. CASE NextAtStage1(h)
      <4>1. req[h] > 0 /\ req' = [req EXCEPT ![h] = @ - 1] /\ ssh' = ssh
        BY <2>1, <3>4 DEF NextAtStage1, Handed
      <4>2. pc = "wait2" /\ h \in cur.hosts /\ ssh[h] = "running" /\ req[h] = 1 /\ recv[h].stage = "1"
        BY <2>2, <3>4, <4>1 DEF NextAtStage1, Protocol
      <4>3. /\ recv'[h].stage = "fetch"
            /\ \A g \in Hosts : g # h => recv'[g] = recv[g]
        BY <3>4, StageType DEF NextAtStage1, Live
      <4>4. req'[h] = 0 /\ \A g \in Hosts : g # h => req'[g] = req[g]
        BY <4>1, <4>2 DEF TypeOK
      <4> QED
        BY <2>0, <3>0, <4>1, <4>2, <4>3, <4>4, HostKeepsProtocol DEF Protocol, Expected
    <3>5. CASE CreateFile(h) \/ WriteFile(h) \/ Extracted(h)
      <4>1. pc = "wait2" /\ h \in cur.hosts /\ ssh[h] = "running" /\ req[h] = 0 /\ recv[h].stage \in {"fetch", "write"}
        BY <2>2, <3>5 DEF CreateFile, WriteFile, Extracted, Protocol
      <4>2. /\ recv'[h].stage \in {"fetch", "write", "2"} /\ ssh' = ssh /\ req' = req
            /\ \A g \in Hosts : g # h => recv'[g] = recv[g]
        BY <3>5, StageType, WriteType DEF CreateFile, WriteFile, Extracted, Live
      <4> QED
        BY <2>0, <3>0, <4>1, <4>2, HostKeepsProtocol DEF Protocol, Expected
    <3>6. CASE NextAtStage2(h)
      <4>1. req[h] > 0 /\ req' = [req EXCEPT ![h] = @ - 1]
        BY <2>1, <3>6 DEF NextAtStage2, Handed
      <4>2. pc = "wait" /\ h \in cur.hosts /\ ssh[h] = "running" /\ req[h] = 1 /\ recv[h].stage = "2"
        BY <2>2, <3>6, <4>1 DEF NextAtStage2, Protocol
      <4>3. /\ recv'[h].stage = "none"
            /\ \A g \in Hosts : g # h => recv'[g] = recv[g]
        BY <3>6, StageType DEF NextAtStage2
      <4>4. ssh'[h] = "ok" /\ \A g \in Hosts : g # h => ssh'[g] = ssh[g]
        BY <3>6, <4>2, SshType DEF NextAtStage2, P2PInv, SshTellsTheReceiver
      <4>5. req'[h] = 0 /\ \A g \in Hosts : g # h => req'[g] = req[g]
        BY <4>1, <4>2 DEF TypeOK
      <4> QED
        BY <2>0, <3>0, <4>2, <4>3, <4>4, <4>5, HostKeepsProtocol DEF Protocol
    <3> QED
      BY <2>10, <3>1, <3>2, <3>3, <3>4, <3>5, <3>6 DEF Host
  <2> QED
    BY <2>4, <2>5, <2>6, <2>7, <2>8, <2>9, <2>10 DEF Next, Sealer
<1> QED
  BY <1>1, <1>2

\* Without faults every target host follows the protocol of the round.
THEOREM ProtocolHolds == Spec => []BarrierInv
<1>1. Init => BarrierInv
  BY DEF Init, BarrierInv, ProtocolFollowed, SeenStays
<1>2. TypeOK /\ TypeOK' /\ P2PInv /\ BarrierInv /\ [Next]_vars => BarrierInv'
  <2> SUFFICES ASSUME TypeOK, TypeOK', P2PInv, BarrierInv, [Next]_vars PROVE BarrierInv'
    OBVIOUS
  <2>1. CASE UNCHANGED vars
    BY <2>1 DEF vars, pollVars, BarrierInv, ProtocolFollowed, SeenStays, Expected
  <2> QED
    BY <2>1, NextKeepsBarriers
<1> QED
  BY <1>1, <1>2, P2PInvariant, PTL DEF Spec

\* The stage 1 barrier: as long as no fault has happened, no receiver fetches
\* before the receivers of all target hosts are up, although the /next requests
\* are not awaited and the count of hosts that are ready is kept in a data race
\* (waitForState and goNext of p2p_distributor.go).
THEOREM Stage1IsABarrier == Spec => []NoneFetchesEarly
<1>1. TypeOK /\ P2PInv /\ BarrierInv => NoneFetchesEarly
  <2> SUFFICES ASSUME TypeOK, P2PInv, BarrierInv, faults = 0, pc # "idle",
                      NEW g \in cur.hosts, NEW h \in cur.hosts, recv[h].stage \in {"fetch", "write", "2"}
               PROVE  ssh[g] # "start" /\ recv[g].stage # "0"
    BY DEF NoneFetchesEarly
  <2>1. Protocol(pc, ssh[g], recv[g].stage, req[g]) /\ Protocol(pc, ssh[h], recv[h].stage, req[h])
    BY FieldTypes DEF BarrierInv, ProtocolFollowed
  <2> QED
    BY <2>1 DEF Protocol
<1> QED
  BY <1>1, P2PInvariant, ProtocolHolds, PTL

\* The stage 2 barrier: as long as no fault has happened, no receiver stops
\* serving its peers before all target hosts have unpacked the image.
THEOREM Stage2IsABarrier == Spec => []NoneLeavesEarly
<1>1. TypeOK /\ P2PInv /\ BarrierInv => NoneLeavesEarly
  <2> SUFFICES ASSUME TypeOK, P2PInv, BarrierInv, faults = 0, pc # "idle",
                      NEW g \in cur.hosts, NEW h \in cur.hosts, ssh[h] = "ok"
               PROVE  Holds(g, Place(cur), cur.round)
    BY DEF NoneLeavesEarly
  <2>1. Protocol(pc, ssh[g], recv[g].stage, req[g]) /\ Protocol(pc, ssh[h], recv[h].stage, req[h])
    BY FieldTypes DEF BarrierInv, ProtocolFollowed
  <2>2. g \in Hosts /\ (ssh[g] = "ok" \/ (ssh[g] = "running" /\ recv[g].stage = "2"))
    BY <2>1, FieldTypes DEF Protocol
  <2>3. recv[g].stage = "2" => Holds(g, Place(recv[g]), recv[g].round)
    BY <2>2, FieldTypes DEF P2PInv, LiveReceiversAreNew, Holds, Files, Live
  <2> QED
    BY <2>2, <2>3 DEF P2PInv, SshTellsTheReceiver
<1> QED
  BY <1>1, P2PInvariant, ProtocolHolds, PTL
==============================================================================
