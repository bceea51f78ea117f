------------------------ MODULE ScpDistribution_proofs ------------------------
(* The cache flags of the SFTP distributor and its forced synchronisation,  *)
(* for every set of hosts, images, files and areas, and any number of       *)
(* commands and faults.                                                     *)
EXTENDS ScpDistribution, TLAPS

\* The goroutines belong to the command that started them, and the command
\* reports success only when each of them does.
GoroutinesOfCmd ==
  /\ \A h \in Hosts :
       /\ st[h] # "none" => h \in cmd.hosts
       /\ st[h] \in {"check", "copy"} => cmd.kind = "dist" /\ cmd.res = "running"
       /\ st[h] = "rm" => cmd.kind = "prune" /\ cmd.res = "running"
  /\ cmd.res = "ok" => \A h \in cmd.hosts : st[h] = "ok"

\* A host that looks for the flag has copied nothing yet.
NothingCopied ==
  \A h \in Hosts : st[h] = "check" => todo[h] = Files /\ h \notin lost

\* What a host no longer has to copy has arrived, or was lost on the way.
CopiedSoFar ==
  \A h \in Hosts \ lost : st[h] = "copy" =>
    \A f \in Files \ todo[h] : data[h][cmd.area][f] = cmd.img

\* A copy that lost a file has left its mark in the history of the area.
LossIsMarked ==
  \A h \in lost : st[h] = "copy" => Broken \in begun[h][cmd.area]

\* A host that is done with a forced copy is complete.
SyncedHost ==
  cmd.kind = "dist" /\ cmd.ignore =>
    \A h \in Hosts \ lost : st[h] = "ok" => Complete(h, cmd.area, cmd.img)

\* The inductive invariant.
ScpInv ==
  /\ TypeOK
  /\ GoroutinesOfCmd
  /\ NothingCopied
  /\ CopiedSoFar
  /\ LossIsMarked
  /\ SyncedHost
  /\ FlagIsHonest

\* The flags stay honest where nothing changes, where there are none, and where
\* the history records damage.
LEMMA HonestKept ==
  ASSUME ScpInv, TypeOK',
         \A k \in Hosts, a \in Areas :
           \/ flag'[k][a] = {}
           \/ Broken \in begun'[k][a]
           \/ data'[k][a] = data[k][a] /\ flag'[k][a] = flag[k][a] /\ begun'[k][a] = begun[k][a]
  PROVE  FlagIsHonest'
<1> SUFFICES ASSUME NEW k \in Hosts, NEW a \in Areas, NEW i \in flag'[k][a], begun'[k][a] \subseteq {i}
             PROVE  Complete(k, a, i)'
  BY DEF FlagIsHonest
<1>1. i \in Images /\ i # Broken
  BY ScpAssumption DEF TypeOK
<1>2. data'[k][a] = data[k][a] /\ flag'[k][a] = flag[k][a] /\ begun'[k][a] = begun[k][a]
  BY <1>1
<1>3. Complete(k, a, i)
  BY <1>2 DEF ScpInv, FlagIsHonest
<1> QED
  BY <1>2, <1>3 DEF Complete

------------------------------------------------------------------------------
(* Starting a command.                                                     *)

LEMMA InitInv == Init => ScpInv
<1> SUFFICES ASSUME Init PROVE ScpInv
  OBVIOUS
<1> PICK a0 \in Areas, i0 \in Images :
       cmd = [kind |-> "none", res |-> "ok", area |-> a0, img |-> i0, hosts |-> {}, ignore |-> FALSE]
  BY DEF Init
<1>1. TypeOK
  BY ScpAssumption DEF Init, TypeOK, Cmd, Empty
<1>2. \A h \in Hosts : st[h] = "none"
  BY DEF Init
<1>3. GoroutinesOfCmd /\ NothingCopied /\ CopiedSoFar /\ LossIsMarked /\ SyncedHost
  BY <1>2 DEF Init, GoroutinesOfCmd, NothingCopied, CopiedSoFar, LossIsMarked, SyncedHost
<1>4. FlagIsHonest
  BY DEF Init, FlagIsHonest
<1> QED
  BY <1>1, <1>3, <1>4 DEF ScpInv

\* A new command finds the goroutines of the last one gone.
LEMMA StartKeeps ==
  ASSUME ScpInv, NEW c \in Cmd, NEW first \in {"check", "rm"}, Start(c, first),
         c.res = "running",
         first = "check" => c.kind = "dist",
         first = "rm" => c.kind = "prune"
  PROVE  ScpInv'
<1>1. TypeOK'
  BY ScpAssumption DEF ScpInv, TypeOK, Start, hostVars
<1>2. \A h \in Hosts : st'[h] = IF h \in c.hosts THEN first ELSE "none"
  BY DEF Start
<1>3. cmd' = c /\ lost' = {} /\ \A h \in Hosts : todo'[h] = Files
  BY DEF Start
<1>4. GoroutinesOfCmd' /\ NothingCopied' /\ CopiedSoFar' /\ LossIsMarked' /\ SyncedHost'
  BY <1>2, <1>3 DEF GoroutinesOfCmd, NothingCopied, CopiedSoFar, LossIsMarked, SyncedHost
<1>5. FlagIsHonest'
  BY <1>1, HonestKept DEF Start, hostVars
<1> QED
  BY <1>1, <1>4, <1>5 DEF ScpInv

LEMMA StartDistributeKeeps ==
  ASSUME ScpInv, NEW a \in Areas, NEW i \in Images, NEW S \in SUBSET Hosts,
         NEW ign \in IgnoreCache, StartDistribute(a, i, S, ign)
  PROVE  ScpInv'
<1> DEFINE c == [kind |-> "dist", res |-> "running", area |-> a, img |-> i, hosts |-> S, ignore |-> ign]
<1>1. c \in Cmd /\ c.res = "running" /\ c.kind = "dist"
  BY ScpAssumption DEF Cmd
<1>2. Start(c, "check")
  BY DEF StartDistribute
<1> QED
  BY <1>1, <1>2, StartKeeps

LEMMA StartPruneKeeps ==
  ASSUME ScpInv, NEW S \in SUBSET Hosts, StartPrune(S)
  PROVE  ScpInv'
<1> DEFINE c == [cmd EXCEPT !.kind = "prune", !.res = "running", !.hosts = S]
<1>1. c \in Cmd /\ c.res = "running" /\ c.kind = "prune"
  BY DEF ScpInv, TypeOK, Cmd
<1>2. Start(c, "rm")
  BY DEF StartPrune
<1> QED
  BY <1>1, <1>2, StartKeeps

------------------------------------------------------------------------------
(* The goroutine of a host.                                                *)

\* A goroutine that ends and has touched nothing.  Only the success of a forced
\* copy says anything of the host.
LEMMA EndKeeps ==
  ASSUME ScpInv, NEW h \in Hosts, NEW r \in {"ok", "err"}, Done(h, r),
         st[h] \in {"check", "copy", "rm"},
         UNCHANGED <<data, begun, lost, cmd, todo>>,
         r = "ok" /\ cmd.kind = "dist" /\ cmd.ignore /\ h \notin lost => Complete(h, cmd.area, cmd.img)
  PROVE  /\ GoroutinesOfCmd' /\ NothingCopied' /\ CopiedSoFar' /\ LossIsMarked' /\ SyncedHost'
         /\ st' \in [Hosts -> {"none", "check", "copy", "rm", "ok", "err"}]
<1> USE DEF ScpInv
<1>1. /\ st' \in [Hosts -> {"none", "check", "copy", "rm", "ok", "err"}]
      /\ st'[h] = r
      /\ \A k \in Hosts \ {h} : st'[k] = st[k]
  BY DEF Done, TypeOK
<1>2. cmd.res = "running"
  BY DEF GoroutinesOfCmd
<1>3. GoroutinesOfCmd' /\ NothingCopied' /\ CopiedSoFar'
  BY <1>1, <1>2 DEF GoroutinesOfCmd, NothingCopied, CopiedSoFar
<1>4. LossIsMarked'
  BY <1>1 DEF LossIsMarked, TypeOK
<1>5. SyncedHost'
  <2>1. \A k, a, i : Complete(k, a, i)' <=> Complete(k, a, i)
    BY DEF Complete
  <2> QED
    BY <1>1, <2>1 DEF SyncedHost
<1> QED
  BY <1>1, <1>3, <1>4, <1>5

LEMMA CheckCacheKeeps ==
  ASSUME ScpInv, NEW h \in Hosts, CheckCache(h)
  PROVE  ScpInv'
<1> USE DEF ScpInv
<1>0. /\ UNCHANGED <<data, flag, begun, lost, cmd, todo, cmds, faults>>
      /\ st[h] = "check" /\ cmd.kind = "dist"
  BY DEF CheckCache, hostVars, GoroutinesOfCmd
<1>1. TypeOK' => FlagIsHonest'
  BY <1>0, HonestKept
<1>2. CASE ~cmd.ignore /\ cmd.img \in flag[h][cmd.area]
  <2>1. Done(h, "ok")
    BY <1>2 DEF CheckCache
  <2>2. /\ GoroutinesOfCmd' /\ NothingCopied' /\ CopiedSoFar' /\ LossIsMarked' /\ SyncedHost'
        /\ st' \in [Hosts -> {"none", "check", "copy", "rm", "ok", "err"}]
    BY <1>0, <1>2, <2>1, EndKeeps
  <2>3. TypeOK'
    BY <1>0, <2>2 DEF TypeOK
  <2> QED
    BY <1>1, <2>2, <2>3
<1>3. CASE ~(~cmd.ignore /\ cmd.img \in flag[h][cmd.area])
  <2>1. st' = [st EXCEPT ![h] = "copy"]
    BY <1>3 DEF CheckCache, Done
  <2>2. TypeOK'
    BY <1>0, <2>1 DEF TypeOK
  <2>3. st'[h] = "copy" /\ \A k \in Hosts \ {h} : st'[k] = st[k]
    BY <2>1 DEF TypeOK
  <2>4. GoroutinesOfCmd' /\ NothingCopied' /\ SyncedHost'
    BY <1>0, <2>3 DEF GoroutinesOfCmd, NothingCopied, SyncedHost, Complete
  <2>5. CopiedSoFar'
    BY <1>0, <2>3 DEF CopiedSoFar, NothingCopied
  <2>6. LossIsMarked'
    BY <1>0, <2>3 DEF LossIsMarked, NothingCopied, TypeOK
  <2> QED
    BY <1>1, <2>2, <2>4, <2>5, <2>6
<1> QED
  BY <1>2, <1>3

\* A file that arrives makes a complete copy of another image incomplete, which
\* the history records.
LEMMA CopyFileKeeps ==
  ASSUME ScpInv, NEW h \in Hosts, CopyFile(h)
  PROVE  ScpInv'
<1> USE DEF ScpInv
<1> DEFINE A == cmd.area
<1>0. /\ st[h] = "copy" /\ cmd.kind = "dist" /\ A \in Areas /\ cmd.img \in Images
      /\ UNCHANGED <<flag, lost, cmd, st, cmds, faults>>
      /\ begun' = [begun EXCEPT ![h][A] = @ \cup {cmd.img}]
  BY DEF CopyFile, GoroutinesOfCmd, TypeOK, Cmd
<1>1. PICK f \in todo[h] : /\ todo' = [todo EXCEPT ![h] = @ \ {f}]
                           /\ data' = [data EXCEPT ![h][A][f] = cmd.img]
  BY DEF CopyFile
<1>2. TypeOK'
  BY <1>0, <1>1 DEF TypeOK
<1>3. /\ f \in Files
      /\ data'[h][A][f] = cmd.img
      /\ \A g \in Files \ {f} : data'[h][A][g] = data[h][A][g]
      /\ \A a \in Areas \ {A} : data'[h][a] = data[h][a]
      /\ \A k \in Hosts \ {h} : data'[k] = data[k] /\ todo'[k] = todo[k] /\ begun'[k] = begun[k]
      /\ todo'[h] = todo[h] \ {f}
      /\ begun'[h][A] = begun[h][A] \cup {cmd.img}
      /\ \A a \in Areas \ {A} : begun'[h][a] = begun[h][a]
  BY <1>0, <1>1 DEF TypeOK
<1>4. GoroutinesOfCmd' /\ NothingCopied' /\ SyncedHost'
  BY <1>0, <1>3 DEF GoroutinesOfCmd, NothingCopied, SyncedHost, Complete
<1>5. CopiedSoFar'
  BY <1>0, <1>3 DEF CopiedSoFar
<1>6. LossIsMarked'
  BY <1>0, <1>3 DEF LossIsMarked, TypeOK
<1>7. FlagIsHonest'
  <2> SUFFICES ASSUME NEW k \in Hosts, NEW a \in Areas, NEW i \in flag'[k][a], begun'[k][a] \subseteq {i}
               PROVE  Complete(k, a, i)'
    BY DEF FlagIsHonest
  <2>0. begun[k][a] \subseteq {i} => Complete(k, a, i)
    BY <1>0 DEF FlagIsHonest
  <2>1. CASE k = h /\ a = A
    <3>1. i = cmd.img /\ begun[h][A] \subseteq {i}
      BY <1>3, <2>1
    <3>2. data[h][A] = [g \in Files |-> i]
      BY <2>0, <2>1, <3>1 DEF Complete
    <3>3. \A g \in Files : data'[h][A][g] = i
      BY <1>3, <3>1, <3>2
    <3>4. data'[h][A] \in [Files -> Images \cup {None, Broken}]
      BY <1>2, <1>0 DEF TypeOK
    <3> QED
      BY <2>1, <3>3, <3>4 DEF Complete
  <2>2. CASE ~(k = h /\ a = A)
    <3>1. data'[k][a] = data[k][a] /\ begun'[k][a] = begun[k][a]
      BY <1>3, <2>2
    <3> QED
      BY <2>0, <3>1 DEF Complete
  <2> QED
    BY <2>1, <2>2
<1> QED
  BY <1>2, <1>4, <1>5, <1>6, <1>7

\* A file that is lost leaves its mark on the host and in the history.
LEMMA LoseFileKeeps ==
  ASSUME ScpInv, NEW h \in Hosts, LoseFile(h)
  PROVE  ScpInv'
<1> USE DEF ScpInv
<1> DEFINE A == cmd.area
<1>0. /\ st[h] = "copy" /\ cmd.kind = "dist" /\ A \in Areas
      /\ UNCHANGED <<flag, cmd, st, cmds>>
      /\ begun' = [begun EXCEPT ![h][A] = @ \cup {Broken}]
      /\ lost' = lost \cup {h}
      /\ faults < MaxFaults /\ faults' = faults + 1
  BY DEF LoseFile, Fault, GoroutinesOfCmd, TypeOK, Cmd
<1>1. PICK f \in todo[h], rest \in SUBSET todo[h] :
        /\ todo' = [todo EXCEPT ![h] = (@ \ rest) \ {f}]
        /\ data' \in {data, [data EXCEPT ![h][A][f] = Broken]}
  BY DEF LoseFile
<1>2. TypeOK'
  <2>1. data' \in [Hosts -> [Areas -> [Files -> Images \cup {None, Broken}]]]
    <3>1. CASE data' = data
      BY <3>1 DEF TypeOK
    <3>2. CASE data' = [data EXCEPT ![h][A][f] = Broken]
      BY <1>0, <3>2 DEF TypeOK
    <3> QED
      BY <1>1, <3>1, <3>2
  <2>2. todo' \in [Hosts -> SUBSET Files]
    BY <1>1 DEF TypeOK
  <2>3. begun' \in [Hosts -> [Areas -> SUBSET (Images \cup {Broken})]]
    BY <1>0 DEF TypeOK
  <2>4. faults' \in 0 .. MaxFaults
    BY <1>0, ScpAssumption DEF TypeOK
  <2> QED
    BY <1>0, <2>1, <2>2, <2>3, <2>4 DEF TypeOK
<1>3. /\ \A k \in Hosts \ {h} : data'[k] = data[k] /\ todo'[k] = todo[k] /\ begun'[k] = begun[k]
      /\ \A a \in Areas \ {A} : data'[h][a] = data[h][a] /\ begun'[h][a] = begun[h][a]
      /\ begun'[h][A] = begun[h][A] \cup {Broken}
  BY <1>0, <1>1 DEF TypeOK
<1>4. GoroutinesOfCmd' /\ NothingCopied' /\ CopiedSoFar' /\ SyncedHost'
  BY <1>0, <1>3 DEF GoroutinesOfCmd, NothingCopied, CopiedSoFar, SyncedHost, Complete
<1>5. LossIsMarked'
  BY <1>0, <1>3 DEF LossIsMarked, TypeOK
<1>6. FlagIsHonest'
  BY <1>0, <1>2, <1>3, HonestKept
<1> QED
  BY <1>2, <1>4, <1>5, <1>6

\* The flag is written when every file has arrived or damage is on record.
LEMMA WriteCacheFlagKeeps ==
  ASSUME ScpInv, NEW h \in Hosts, WriteCacheFlag(h)
  PROVE  ScpInv'
<1> USE DEF ScpInv
<1> DEFINE A == cmd.area
<1>0. /\ st[h] = "copy" /\ todo[h] = {} /\ A \in Areas /\ cmd.img \in Images
      /\ UNCHANGED <<data, begun, lost, cmd, todo, cmds>>
      /\ Done(h, "ok")
  BY DEF WriteCacheFlag, TypeOK, Cmd
<1>1. h \notin lost => Complete(h, A, cmd.img)
  <2> SUFFICES ASSUME h \notin lost PROVE Complete(h, A, cmd.img)
    OBVIOUS
  <2>1. \A f \in Files : data[h][A][f] = cmd.img
    BY <1>0 DEF CopiedSoFar
  <2>2. data[h][A] \in [Files -> Images \cup {None, Broken}]
    BY <1>0 DEF TypeOK
  <2> QED
    BY <2>1, <2>2 DEF Complete
<1>2. /\ GoroutinesOfCmd' /\ NothingCopied' /\ CopiedSoFar' /\ LossIsMarked' /\ SyncedHost'
      /\ st' \in [Hosts -> {"none", "check", "copy", "rm", "ok", "err"}]
  BY <1>0, <1>1, EndKeeps
<1>3. /\ flag' = [flag EXCEPT ![h][A] = @ \cup {cmd.img}] \/ flag' = flag
      /\ faults' \in 0 .. MaxFaults
  BY ScpAssumption DEF WriteCacheFlag, Fault, TypeOK
<1>4. TypeOK'
  <2>1. flag' \in [Hosts -> [Areas -> SUBSET Images]]
    <3>1. CASE flag' = flag
      BY <3>1 DEF TypeOK
    <3>2. CASE flag' = [flag EXCEPT ![h][A] = @ \cup {cmd.img}]
      BY <1>0, <3>2 DEF TypeOK
    <3> QED
      BY <1>3, <3>1, <3>2
  <2> QED
    BY <1>0, <1>2, <1>3, <2>1 DEF TypeOK
<1>5. FlagIsHonest'
  <2>0. \A k, a, i : Complete(k, a, i)' <=> Complete(k, a, i)
    BY <1>0 DEF Complete
  <2> SUFFICES ASSUME NEW k \in Hosts, NEW a \in Areas, NEW i \in flag'[k][a], begun[k][a] \subseteq {i}
               PROVE  Complete(k, a, i)
    BY <1>0, <2>0 DEF FlagIsHonest
  <2>1. CASE i \in flag[k][a]
    BY <2>1 DEF FlagIsHonest
  <2>2. CASE i \notin flag[k][a]
    <3>1. k = h /\ a = A /\ i = cmd.img
      BY <1>0, <1>3, <2>2 DEF TypeOK
    <3>2. Broken \notin begun[h][A]
      BY <1>0, <3>1, ScpAssumption
    <3> QED
      BY <1>0, <1>1, <3>1, <3>2 DEF LossIsMarked
  <2> QED
    BY <2>1, <2>2
<1> QED
  BY <1>2, <1>4, <1>5

LEMMA ConnectionFailsKeeps ==
  ASSUME ScpInv, NEW h \in Hosts, ConnectionFails(h)
  PROVE  ScpInv'
<1> USE DEF ScpInv
<1>1. UNCHANGED <<data, flag, begun, lost, cmd, todo, cmds>> /\ Done(h, "err") /\ faults' \in 0 .. MaxFaults
  BY ScpAssumption DEF ConnectionFails, hostVars, Fault, TypeOK
<1>2. /\ GoroutinesOfCmd' /\ NothingCopied' /\ CopiedSoFar' /\ LossIsMarked' /\ SyncedHost'
      /\ st' \in [Hosts -> {"none", "check", "copy", "rm", "ok", "err"}]
  BY <1>1, EndKeeps DEF ConnectionFails
<1>3. TypeOK'
  BY <1>1, <1>2 DEF TypeOK
<1> QED
  BY <1>1, <1>2, <1>3, HonestKept

\* The steps of a pruning: no copy is under way.
LEMMA PruneKeeps ==
  ASSUME ScpInv, NEW h \in Hosts, st[h] = "rm", NEW r \in {"ok", "err"}, Done(h, r),
         UNCHANGED <<lost, cmd, todo>>
  PROVE  /\ GoroutinesOfCmd' /\ NothingCopied' /\ CopiedSoFar' /\ LossIsMarked' /\ SyncedHost'
         /\ st' \in [Hosts -> {"none", "check", "copy", "rm", "ok", "err"}]
<1> USE DEF ScpInv
<1>1. /\ st' \in [Hosts -> {"none", "check", "copy", "rm", "ok", "err"}]
      /\ st'[h] = r
      /\ \A k \in Hosts \ {h} : st'[k] = st[k]
  BY DEF Done, TypeOK
<1>2. cmd.kind = "prune" /\ cmd.res = "running"
  BY DEF GoroutinesOfCmd
<1>3. \A k \in Hosts : st'[k] \notin {"check", "copy"}
  BY <1>1, <1>2 DEF GoroutinesOfCmd
<1>4. GoroutinesOfCmd'
  BY <1>1, <1>2, <1>3 DEF GoroutinesOfCmd
<1>5. NothingCopied' /\ CopiedSoFar' /\ LossIsMarked' /\ SyncedHost'
  BY <1>2, <1>3 DEF NothingCopied, CopiedSoFar, LossIsMarked, SyncedHost, TypeOK
<1> QED
  BY <1>1, <1>4, <1>5

LEMMA RemoveRootfsKeeps ==
  ASSUME ScpInv, NEW h \in Hosts, RemoveRootfs(h)
  PROVE  ScpInv'
<1> USE DEF ScpInv
<1>0. /\ data' = [data EXCEPT ![h] = [a \in Areas |-> Empty]]
      /\ flag' = [flag EXCEPT ![h] = [a \in Areas |-> {}]]
      /\ begun' = [begun EXCEPT ![h] = [a \in Areas |-> {}]]
      /\ UNCHANGED <<lost, cmd, todo, cmds, faults>>
  BY DEF RemoveRootfs
<1>1. /\ GoroutinesOfCmd' /\ NothingCopied' /\ CopiedSoFar' /\ LossIsMarked' /\ SyncedHost'
      /\ st' \in [Hosts -> {"none", "check", "copy", "rm", "ok", "err"}]
  BY PruneKeeps DEF RemoveRootfs
<1>2. TypeOK'
  BY <1>0, <1>1 DEF TypeOK, Empty
<1>3. \A k \in Hosts, a \in Areas :
        \/ flag'[k][a] = {}
        \/ data'[k][a] = data[k][a] /\ flag'[k][a] = flag[k][a] /\ begun'[k][a] = begun[k][a]
  BY <1>0 DEF TypeOK
<1> QED
  BY <1>1, <1>2, <1>3, HonestKept

LEMMA RemovalCutShortKeeps ==
  ASSUME ScpInv, NEW h \in Hosts, RemovalCutShort(h)
  PROVE  ScpInv'
<1> USE DEF ScpInv
<1>0. PICK gone \in SUBSET Files :
        data' = [data EXCEPT ![h] =
                   [a \in Areas |-> [f \in Files |-> IF f \in gone THEN None ELSE @[a][f]]]]
  BY DEF RemovalCutShort
<1>1. /\ begun' = [begun EXCEPT ![h] = [a \in Areas |-> @[a] \cup {Broken}]]
      /\ UNCHANGED <<flag, lost, cmd, todo, cmds>>
      /\ faults' \in 0 .. MaxFaults
  BY ScpAssumption DEF RemovalCutShort, Fault, TypeOK
<1>2. /\ GoroutinesOfCmd' /\ NothingCopied' /\ CopiedSoFar' /\ LossIsMarked' /\ SyncedHost'
      /\ st' \in [Hosts -> {"none", "check", "copy", "rm", "ok", "err"}]
  BY PruneKeeps DEF RemovalCutShort
<1>3. TypeOK'
  <2>1. data' \in [Hosts -> [Areas -> [Files -> Images \cup {None, Broken}]]]
    BY <1>0 DEF TypeOK
  <2>2. begun' \in [Hosts -> [Areas -> SUBSET (Images \cup {Broken})]]
    BY <1>1 DEF TypeOK
  <2> QED
    BY <1>1, <1>2, <2>1, <2>2 DEF TypeOK
<1>4. \A k \in Hosts, a \in Areas :
        \/ Broken \in begun'[k][a]
        \/ data'[k][a] = data[k][a] /\ flag'[k][a] = flag[k][a] /\ begun'[k][a] = begun[k][a]
  BY <1>0, <1>1 DEF TypeOK
<1> QED
  BY <1>2, <1>3, <1>4, HonestKept

------------------------------------------------------------------------------
(* sealer, and the theorems.                                               *)

LEMMA ReturnKeeps ==
  ASSUME ScpInv, Return
  PROVE  ScpInv'
<1> USE DEF ScpInv
<1>0. /\ UNCHANGED <<data, flag, begun, lost, st, todo, cmds, faults>>
      /\ cmd' = [cmd EXCEPT !.res = IF \A h \in cmd.hosts : st[h] = "ok" THEN "ok" ELSE "err"]
      /\ cmd.res = "running"
      /\ \A h \in cmd.hosts : st[h] \in {"ok", "err"}
  BY DEF Return, hostVars
<1>1. TypeOK'
  BY <1>0 DEF TypeOK, Cmd
<1>2. /\ cmd'.kind = cmd.kind /\ cmd'.area = cmd.area /\ cmd'.img = cmd.img
      /\ cmd'.hosts = cmd.hosts /\ cmd'.ignore = cmd.ignore
      /\ cmd'.res = "ok" => \A h \in cmd.hosts : st[h] = "ok"
  BY <1>0 DEF TypeOK, Cmd
<1>3. GoroutinesOfCmd'
  BY <1>0, <1>2 DEF GoroutinesOfCmd
<1>4. NothingCopied' /\ CopiedSoFar' /\ LossIsMarked' /\ SyncedHost'
  BY <1>0, <1>2 DEF NothingCopied, CopiedSoFar, LossIsMarked, SyncedHost, Complete
<1> QED
  BY <1>0, <1>1, <1>3, <1>4, HonestKept

LEMMA KillKeeps ==
  ASSUME ScpInv, Kill
  PROVE  ScpInv'
<1> USE DEF ScpInv
<1>0. /\ UNCHANGED <<data, flag, begun, lost, todo, cmds>>
      /\ cmd' = [cmd EXCEPT !.res = "err"]
      /\ st' = [h \in Hosts |-> "none"]
      /\ faults' \in 0 .. MaxFaults
  BY ScpAssumption DEF Kill, hostVars, Fault, TypeOK
<1>1. TypeOK' /\ cmd'.res = "err"
  BY <1>0 DEF TypeOK, Cmd
<1>2. GoroutinesOfCmd' /\ NothingCopied' /\ CopiedSoFar' /\ LossIsMarked' /\ SyncedHost'
  BY <1>0, <1>1 DEF GoroutinesOfCmd, NothingCopied, CopiedSoFar, LossIsMarked, SyncedHost, TypeOK
<1> QED
  BY <1>0, <1>1, <1>2, HonestKept

\* Every step keeps the invariant.
LEMMA NextKeeps == ScpInv /\ [Next]_vars => ScpInv'
<1> SUFFICES ASSUME ScpInv, [Next]_vars PROVE ScpInv'
  OBVIOUS
<1>1. CASE \E a \in Areas, i \in Images, S \in SUBSET Hosts, ign \in IgnoreCache :
             StartDistribute(a, i, S, ign)
  BY <1>1, StartDistributeKeeps
<1>2. CASE \E S \in SUBSET Hosts : StartPrune(S)
  BY <1>2, StartPruneKeeps
<1>3. CASE \E h \in Hosts : CheckCache(h) \/ CopyFile(h) \/ LoseFile(h) \/ WriteCacheFlag(h)
  BY <1>3, CheckCacheKeeps, CopyFileKeeps, LoseFileKeeps, WriteCacheFlagKeeps
<1>4. CASE \E h \in Hosts : ConnectionFails(h) \/ RemoveRootfs(h) \/ RemovalCutShort(h)
  BY <1>4, ConnectionFailsKeeps, RemoveRootfsKeeps, RemovalCutShortKeeps
<1>5. CASE Return \/ Kill
  BY <1>5, ReturnKeeps, KillKeeps
<1>6. CASE UNCHANGED vars
  <2>1. UNCHANGED <<data, flag, begun, lost, cmd, st, todo, cmds, faults>>
    BY <1>6 DEF vars, hostVars
  <2>2. TypeOK'
    BY <2>1 DEF ScpInv, TypeOK
  <2>3. GoroutinesOfCmd' /\ NothingCopied' /\ CopiedSoFar' /\ LossIsMarked' /\ SyncedHost'
    BY <2>1 DEF ScpInv, GoroutinesOfCmd, NothingCopied, CopiedSoFar, LossIsMarked, SyncedHost, Complete
  <2> QED
    BY <2>1, <2>2, <2>3, HonestKept DEF ScpInv
<1> QED
  BY <1>1, <1>2, <1>3, <1>4, <1>5, <1>6 DEF Next

\* The state of the hosts and of the command has the shape the code keeps it in.
THEOREM ScpTypeCorrect == Spec => []TypeOK
<1>1. ScpInv => TypeOK
  BY DEF ScpInv
<1> QED
  BY <1>1, InitInv, NextKeeps, PTL DEF Spec

\* A cache flag vouches for its image, whatever copies were interrupted, repeated,
\* failed unnoticed or were removed: an area with the flag of an image has all its
\* files, unless another image was copied over it or it was damaged unnoticed
\* (distribute and writeCacheFlag of scp_distributor.go).
THEOREM CacheFlagsAreHonest == Spec => []FlagIsHonest
<1>1. ScpInv => FlagIsHonest
  BY DEF ScpInv
<1> QED
  BY <1>1, InitInv, NextKeeps, PTL DEF Spec

\* A distribution with --ignore-cache that reports success has left the image,
\* whole, on every host where it lost no file itself, whatever was there before.
THEOREM ForcedSyncAlwaysDelivers == Spec => []ForcedSyncDelivers
<1>1. ScpInv => ForcedSyncDelivers
  <2> SUFFICES ASSUME ScpInv, cmd.kind = "dist", cmd.res = "ok", cmd.ignore,
                      NEW h \in cmd.hosts \ lost
               PROVE  Complete(h, cmd.area, cmd.img)
    BY DEF ForcedSyncDelivers
  <2>1. h \in Hosts /\ st[h] = "ok"
    BY DEF ScpInv, TypeOK, Cmd, GoroutinesOfCmd
  <2> QED
    BY <2>1 DEF ScpInv, SyncedHost
<1> QED
  BY <1>1, InitInv, NextKeeps, PTL DEF Spec
==============================================================================
