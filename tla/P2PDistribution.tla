--------------------------- MODULE P2PDistribution ---------------------------
(***************************************************************************)
(* The peer-to-peer distributor: sealer (distributeImpl) and one           *)
(* dist-receiver process per target host, one round per mounted image and  *)
(* directory.  A receiver is started over SSH and reports its stage over   *)
(* HTTP; it waits for a /next request at stage 1, fetches and unpacks the  *)
(* image, waits for another /next at stage 2 and exits, which ends the SSH *)
(* command.                                                                *)
(*                                                                         *)
(* The /next requests are sent by goroutines nobody waits for: one may be  *)
(* delivered late, get lost, or be repeated by the HTTP transport when the *)
(* answer was lost.  Receivers panic, SSH fails, and sealer may be killed; *)
(* a receiver the hang-up does not reach is left behind and holds its port *)
(* (4002).                                                                 *)
(*                                                                         *)
(* The tarball of a round has every file of a mounted image under the full *)
(* path it was read from, so a receiver that unpacks it to dest puts the   *)
(* files below dest/<mount directory>: that is their place.  It unpacks    *)
(* them one by one, over whatever is there.                                *)
(*                                                                         *)
(* Abstractions: a file has the round that brought it, and every image the *)
(* same number of files.  /connect has no effect, because the trailing     *)
(* comma of its target list makes connectToPeers stop at a parse error; it *)
(* is left out.  A round that fails before the first receiver is started   *)
(* changes nothing and is left out.                                        *)
(***************************************************************************)
EXTENDS Naturals, FiniteSets

CONSTANTS
  Hosts,      \* machines an image is distributed to
  Dests,      \* directories receivers are told to unpack it to: the rootfs, the registry data
  MountDirs,  \* directories sealer mounts images at
  FileCount,  \* files of an image, which a tarball has in the order of their names
  MaxRounds,  \* bound: number of rounds
  MaxFaults   \* bound: number of faults of any kind

ASSUME P2PAssumption ==
  /\ IsFiniteSet(Hosts)
  /\ FileCount \in Nat
  /\ MaxRounds \in Nat
  /\ MaxFaults \in Nat

VARIABLES
  pc,      \* what distributeImpl waits for
  cur,     \* the current or last round: its number, directory and hosts
  polled,  \* hosts that have answered or failed in the current poll
  seen,    \* those that answered with the expected stage
  perr,    \* a request of the current poll failed
  ssh,     \* per host, the SSH command that runs its receiver
  recv,    \* per host, the receiver process that holds port 4002
  req,     \* per host, number of /next requests under way
  files,   \* per host, place and file, the round that wrote it and whether it is whole
  ok,      \* per host and place, the last round reported successful
  faults   \* number of faults so far

pollVars == <<polled, seen, perr>>
vars == <<pc, cur, pollVars, ssh, recv, req, files, ok, faults>>

Live == {"0", "1", "fetch", "write", "2"}
Round == 0 .. MaxRounds
Files == 1 .. FileCount

\* Where the files of a tarball get to: dest joined with the path of the mount
\* directory they were read from.
Place(x) == <<x.dest, x.dir>>
Places == Dests \X MountDirs

\* A file of a host: 0 stands for no file.
File == [round : Round, whole : BOOLEAN]

\* The round sealer is in.
Cur == [round : Round, dest : Dests, dir : MountDirs, hosts : SUBSET Hosts]

\* A receiver, the round it was started for, its stage and how many files it
\* has unpacked.
Receiver ==
  [round : Round, dest : Dests, dir : MountDirs, stage : {"none"} \cup Live, done : 0 .. FileCount]

\* Every field of the state has the shape the code keeps it in, through
\* faults of every kind.
TypeOK ==
  /\ pc \in {"idle", "wait1", "wait2", "wait"}
  /\ cur \in Cur
  /\ polled \subseteq Hosts /\ seen \subseteq polled /\ perr \in BOOLEAN
  /\ ssh \in [Hosts -> {"none", "start", "running", "ok", "err"}]
  /\ recv \in [Hosts -> Receiver]
  /\ req \in [Hosts -> Nat]
  /\ files \in [Hosts -> [Places -> [Files -> File]]]
  /\ ok \in [Hosts -> [Places -> Round]]
  /\ faults \in 0 .. MaxFaults

Init ==
  /\ pc = "idle"
  /\ \E d \in Dests, m \in MountDirs : cur = [round |-> 0, dest |-> d, dir |-> m, hosts |-> {}]
  /\ polled = {} /\ seen = {} /\ perr = FALSE
  /\ ssh = [h \in Hosts |-> "none"]
  /\ recv = [h \in Hosts |-> [round |-> 0, dest |-> cur.dest, dir |-> cur.dir, stage |-> "none", done |-> 0]]
  /\ req = [h \in Hosts |-> 0]
  /\ files = [h \in Hosts |-> [p \in Places |-> [f \in Files |-> [round |-> 0, whole |-> TRUE]]]]
  /\ ok = [h \in Hosts |-> [p \in Places |-> 0]]
  /\ faults = 0

Fault == faults < MaxFaults /\ faults' = faults + 1

\* Mutation: good is not reset between two polls.
PollKeepsCount == polled' = {} /\ UNCHANGED seen /\ perr' = FALSE

NoPoll == polled' = {} /\ seen' = {} /\ perr' = FALSE

------------------------------------------------------------------------------
(* sealer.                                                                 *)

\* The requests that survive when sealer ends: a handler of the receiver that
\* already waits to hand one over goes on waiting.
Surviving ==
  {r \in [Hosts -> UNION {0 .. req[h] : h \in Hosts}] : \A h \in Hosts : r[h] <= req[h]}

\* The next image, or the first one of a later command.
StartRound(d, m, S) ==
  /\ pc = "idle"
  /\ cur.round < MaxRounds
  /\ cur' = [round |-> cur.round + 1, dest |-> d, dir |-> m, hosts |-> S]
  /\ ssh' = [h \in Hosts |-> IF h \in S THEN "start" ELSE "none"]
  /\ pc' = "wait1"
  /\ NoPoll
  /\ req' \in Surviving
  /\ UNCHANGED <<recv, files, ok, faults>>

\* Mutation: stage 1 is waited for twice.
ExpectedStage1 == "1"

Expected == IF pc = "wait1" THEN "1" ELSE "2"

\* stageNow, as /stage reports it: it stays 1 until the image is unpacked.
StageNow(h) == IF recv[h].stage \in {"fetch", "write"} THEN "1" ELSE recv[h].stage

\* One request of waitForState.  It fails if nobody listens, or by a fault.
Poll(h) ==
  /\ pc \in {"wait1", "wait2"}
  /\ h \in cur.hosts \ polled
  /\ polled' = polled \cup {h}
  /\ \/ /\ recv[h].stage \in Live
        /\ seen' = IF StageNow(h) = Expected THEN seen \cup {h} ELSE seen
        /\ UNCHANGED <<perr, faults>>
     \/ /\ (recv[h].stage = "none" /\ UNCHANGED faults) \/ Fault
        /\ perr' = TRUE
        /\ UNCHANGED seen
  /\ UNCHANGED <<pc, cur, ssh, recv, req, files, ok>>

\* The values good can have after the requests of the poll incremented it
\* without synchronization: increments may be lost, not all of them.
Good == IF seen = {} THEN {0} ELSE 1 .. Cardinality(seen)

SendNext == req' = [h \in Hosts |-> IF h \in cur.hosts THEN req[h] + 1 ELSE req[h]]

\* Mutation: one host at the expected stage is enough.
PollPassOnFirst ==
  /\ pc \in {"wait1", "wait2"}
  /\ polled = cur.hosts /\ ~perr
  /\ seen # {} \/ cur.hosts = {}
  /\ pc' = IF pc = "wait1" THEN "wait2" ELSE "wait"
  /\ SendNext
  /\ NoPoll
  /\ UNCHANGED <<cur, ssh, recv, files, ok, faults>>

\* Mutation: the receivers are not told to exit.
PollPassWithoutGoNext ==
  /\ pc \in {"wait1", "wait2"}
  /\ polled = cur.hosts /\ ~perr
  /\ Cardinality(cur.hosts) \in Good
  /\ pc' = IF pc = "wait1" THEN "wait2" ELSE "wait"
  /\ IF pc = "wait1" THEN SendNext ELSE UNCHANGED req
  /\ NoPoll
  /\ UNCHANGED <<cur, ssh, recv, files, ok, faults>>

\* Everyone is at the expected stage: they are all told to go on.
PollPass ==
  /\ pc \in {"wait1", "wait2"}
  /\ polled = cur.hosts /\ ~perr
  /\ Cardinality(cur.hosts) \in Good
  /\ pc' = IF pc = "wait1" THEN "wait2" ELSE "wait"
  /\ SendNext
  /\ NoPoll
  /\ UNCHANGED <<cur, ssh, recv, files, ok, faults>>

PollAgain ==
  /\ pc \in {"wait1", "wait2"}
  /\ polled = cur.hosts
  /\ perr \/ \E good \in Good : good # Cardinality(cur.hosts)
  /\ NoPoll
  /\ UNCHANGED <<pc, cur, ssh, recv, req, files, ok, faults>>

\* Mutation: the errors of the SSH commands are dropped.
RoundOkUnchecked ==
  /\ pc = "wait"
  /\ \A h \in cur.hosts : ssh[h] \in {"ok", "err"}
  /\ ok' = [h \in Hosts |-> IF h \in cur.hosts THEN [ok[h] EXCEPT ![Place(cur)] = cur.round]
                                               ELSE ok[h]]
  /\ pc' = "idle"
  /\ UNCHANGED <<cur, pollVars, ssh, recv, req, files, faults>>

\* eg.Wait: every SSH command has ended, all of them well.
RoundOk ==
  /\ pc = "wait"
  /\ \A h \in cur.hosts : ssh[h] = "ok"
  /\ ok' = [h \in Hosts |-> IF h \in cur.hosts THEN [ok[h] EXCEPT ![Place(cur)] = cur.round]
                                               ELSE ok[h]]
  /\ pc' = "idle"
  /\ UNCHANGED <<cur, pollVars, ssh, recv, req, files, faults>>

\* sealer ends, and its SSH commands and requests with it.
Exit ==
  /\ pc' = "idle"
  /\ NoPoll
  /\ ssh' = [h \in Hosts |-> "none"]
  /\ req' \in Surviving
  /\ UNCHANGED <<cur, recv, files, ok>>

\* An SSH command has failed: so does the command.
RoundErr ==
  /\ pc = "wait"
  /\ \A h \in cur.hosts : ssh[h] \in {"ok", "err"}
  /\ \E h \in cur.hosts : ssh[h] = "err"
  /\ Exit
  /\ UNCHANGED faults

\* sealer is killed, or stops between two waits because the addresses of its
\* own peer cannot be read.
Abandon == pc # "idle" /\ Fault /\ Exit

------------------------------------------------------------------------------
(* SSH commands and receivers.                                             *)

\* The receiver starts, or panics at once because another one has the port.
StartReceiver(h) ==
  /\ ssh[h] = "start"
  /\ IF recv[h].stage = "none"
     THEN /\ recv' = [recv EXCEPT ![h] = [round |-> cur.round, dest |-> cur.dest, dir |-> cur.dir,
                                          stage |-> "0", done |-> 0]]
          /\ ssh' = [ssh EXCEPT ![h] = "running"]
     ELSE /\ ssh' = [ssh EXCEPT ![h] = "err"]
          /\ UNCHANGED recv
  /\ UNCHANGED <<pc, cur, pollVars, req, files, ok, faults>>

\* The connection fails; the receiver, if it runs, goes on.
SshFails(h) ==
  /\ ssh[h] \in {"start", "running"}
  /\ Fault
  /\ ssh' = [ssh EXCEPT ![h] = "err"]
  /\ UNCHANGED <<pc, cur, pollVars, recv, req, files, ok>>

\* The IPFS node runs and the bootstrap peer has been dialled.
ReachStage1(h) ==
  /\ recv[h].stage = "0"
  /\ recv' = [recv EXCEPT ![h].stage = "1"]
  /\ UNCHANGED <<pc, cur, pollVars, ssh, req, files, ok, faults>>

\* The process that answered the SSH command of this round has ended.
SshEnds(h, how) ==
  ssh' = IF ssh[h] = "running" /\ recv[h].round = cur.round
         THEN [ssh EXCEPT ![h] = how] ELSE ssh

\* A /next request is handed over to the receiver.  It is repeated if the
\* answer does not make it back.
Handed(h) ==
  /\ req[h] > 0
  /\ \/ req' = [req EXCEPT ![h] = @ - 1] /\ UNCHANGED faults
     \/ Fault /\ UNCHANGED req

NextAtStage1(h) ==
  /\ recv[h].stage = "1"
  /\ Handed(h)
  /\ recv' = [recv EXCEPT ![h].stage = "fetch"]
  /\ UNCHANGED <<pc, cur, pollVars, ssh, files, ok>>

\* The file being unpacked.
Unpacked(h, whole) ==
  files' = [files EXCEPT ![h][Place(recv[h])][recv[h].done + 1] =
                           [round |-> recv[h].round, whole |-> whole]]

\* os.Create empties the file that is there.
CreateFile(h) ==
  /\ recv[h].stage = "fetch" /\ recv[h].done < FileCount
  /\ recv' = [recv EXCEPT ![h].stage = "write"]
  /\ Unpacked(h, FALSE)
  /\ UNCHANGED <<pc, cur, pollVars, ssh, req, ok, faults>>

\* io.Copy
WriteFile(h) ==
  /\ recv[h].stage = "write" /\ recv[h].done < FileCount
  /\ recv' = [recv EXCEPT ![h].stage = "fetch", ![h].done = @ + 1]
  /\ Unpacked(h, TRUE)
  /\ UNCHANGED <<pc, cur, pollVars, ssh, req, ok, faults>>

\* Mutation: the image is announced before it is unpacked.
ExtractedEarly(h) ==
  /\ recv[h].stage = "fetch"
  /\ recv' = [recv EXCEPT ![h].stage = "2"]
  /\ UNCHANGED <<pc, cur, pollVars, ssh, req, files, ok, faults>>

\* extractTarGz comes to the end of the tarball.
Extracted(h) ==
  /\ recv[h].stage = "fetch" /\ recv[h].done = FileCount
  /\ recv' = [recv EXCEPT ![h].stage = "2"]
  /\ UNCHANGED <<pc, cur, pollVars, ssh, req, files, ok, faults>>

Extract(h) == CreateFile(h) \/ WriteFile(h) \/ Extracted(h)

NextAtStage2(h) ==
  /\ recv[h].stage = "2"
  /\ Handed(h)
  /\ recv' = [recv EXCEPT ![h].stage = "none"]
  /\ SshEnds(h, "ok")
  /\ UNCHANGED <<pc, cur, pollVars, files, ok>>

\* The receiver panics, or its machine restarts.
Crash(h) ==
  /\ recv[h].stage \in Live
  /\ Fault
  /\ recv' = [recv EXCEPT ![h].stage = "none"]
  /\ SshEnds(h, "err")
  /\ UNCHANGED <<pc, cur, pollVars, req, files, ok>>

LoseNext(h) ==
  /\ req[h] > 0
  /\ Fault
  /\ req' = [req EXCEPT ![h] = @ - 1]
  /\ UNCHANGED <<pc, cur, pollVars, ssh, recv, files, ok>>

------------------------------------------------------------------------------
Sealer ==
  \/ \E d \in Dests, m \in MountDirs, S \in SUBSET Hosts : StartRound(d, m, S)
  \/ \E h \in Hosts : Poll(h)
  \/ PollPass
  \/ PollAgain
  \/ RoundOk
  \/ RoundErr
  \/ Abandon

Host(h) ==
  \/ StartReceiver(h)
  \/ SshFails(h)
  \/ ReachStage1(h)
  \/ NextAtStage1(h)
  \/ CreateFile(h)
  \/ WriteFile(h)
  \/ Extracted(h)
  \/ NextAtStage2(h)
  \/ Crash(h)
  \/ LoseNext(h)

Next == Sealer \/ \E h \in Hosts : Host(h)

Spec == Init /\ [][Next]_vars

\* Goroutines, SSH commands and receivers are scheduled, requests that are not
\* lost arrive, and not every poll of a host set that is ready loses an
\* increment of good.
Fairness ==
  /\ \A h \in Hosts : /\ WF_vars(Poll(h))
                      /\ WF_vars(StartReceiver(h))
                      /\ WF_vars(ReachStage1(h))
                      /\ WF_vars(NextAtStage1(h))
                      /\ WF_vars(Extract(h))
                      /\ WF_vars(NextAtStage2(h))
  /\ SF_vars(PollPass)
  /\ WF_vars(PollAgain)
  /\ WF_vars(RoundOk)
  /\ WF_vars(RoundErr)

FairSpec == Spec /\ Fairness

------------------------------------------------------------------------------
(* Properties.                                                             *)

\* All files of round r are at place p of host h.
Holds(h, p, r) == \A f \in Files : files[h][p][f] = [round |-> r, whole |-> TRUE]

\* Once a round is reported successful, every target host has every file of its
\* image, whole, at the place its tarball names, until a newer round overwrites
\* it: nothing older gets there any more, and nothing is torn by a receiver a
\* killed sealer left behind, nor through late, lost or repeated requests.
ReportedIsInPlace ==
  \A h \in Hosts, p \in Places, f \in Files :
    /\ files[h][p][f].round >= ok[h][p]
    /\ files[h][p][f].round = ok[h][p] => files[h][p][f].whole

\* distributeImpl and its receivers deliver files as Distributor says.
Promise == INSTANCE Distributor WITH Rounds <- Round

PromiseKept == Promise!Spec

\* As long as no fault has happened, no receiver fetches before the receivers of
\* all hosts are up: the stage 1 barrier, whose requests are not awaited.
NoneFetchesEarly ==
  faults = 0 /\ pc # "idle" =>
    \A g, h \in cur.hosts :
      recv[h].round = cur.round /\ recv[h].stage \in {"fetch", "write", "2"} =>
        ssh[g] # "start" /\ ~(recv[g].round = cur.round /\ recv[g].stage = "0")

\* As long as no fault has happened, no receiver stops serving its peers before
\* all of them have unpacked the image: the stage 2 barrier.
NoneLeavesEarly ==
  faults = 0 /\ pc # "idle" =>
    \A g, h \in cur.hosts : ssh[h] = "ok" => Holds(g, Place(cur), cur.round)

\* Every round ends successfully unless a fault happens, although requests are
\* not awaited and good is incremented in a data race.
RoundsSucceed ==
  pc # "idle" ~>
    \/ faults > 0
    \/ pc = "idle" /\ \A h \in cur.hosts : ok[h][Place(cur)] = cur.round

------------------------------------------------------------------------------
(* The inductive invariant behind ReportedIsInPlace and PromiseKept: a     *)
(* receiver that is still alive, whoever started it, belongs to a round    *)
(* that was not reported on its host, nor was any later one.               *)

\* Live receivers only have newer images, and what they have done is in place.
LiveReceiversAreNew ==
  \A h \in Hosts :
    /\ recv[h].stage \in Live => recv[h].round <= cur.round /\ recv[h].round > ok[h][Place(recv[h])]
    /\ recv[h].stage \in Live =>
         \A f \in 1 .. recv[h].done :
           files[h][Place(recv[h])][f] = [round |-> recv[h].round, whole |-> TRUE]
    /\ recv[h].stage = "2" => recv[h].done = FileCount

\* What sealer concludes from the state of an SSH command.
SshTellsTheReceiver ==
  \A h \in Hosts :
    /\ ssh[h] = "running" => /\ recv[h].stage \in Live
                             /\ recv[h].round = cur.round /\ Place(recv[h]) = Place(cur)
    /\ ssh[h] = "ok" /\ pc # "idle" => recv[h].stage = "none" /\ Holds(h, Place(cur), cur.round)
    /\ h \notin cur.hosts \/ pc = "idle" => ssh[h] \notin {"start", "running"}

\* The current round has not been reported anywhere.
CurrentIsNew ==
  \A h \in Hosts, p \in Places :
    ok[h][p] <= cur.round /\ (pc # "idle" => ok[h][p] < cur.round)

P2PInv ==
  /\ LiveReceiversAreNew
  /\ SshTellsTheReceiver
  /\ CurrentIsNew
  /\ ReportedIsInPlace
==============================================================================
