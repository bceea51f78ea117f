--------------------------- MODULE ScpDistribution ---------------------------
(***************************************************************************)
(* The SFTP distributor and its cache.  Distribute copies the entries of   *)
(* the mounted image to the rootfs of every target host, DistributeRegistry *)
(* copies the registry data below it; both then leave an empty flag file   *)
(* named after the image ID under rootfs/cache, and skip a host that has   *)
(* the flag, unless --ignore-cache is given.  Restore with --prune removes *)
(* the rootfs, flags included.                                             *)
(*                                                                         *)
(* The hosts are served concurrently.  A connection may fail, which is     *)
(* reported; the transfer of a file over an open connection may fail,      *)
(* which Copy logs and does not report; sealer may be killed; rm -rf may   *)
(* be cut short.                                                           *)
(*                                                                         *)
(* Abstractions: a file is the image it comes from.  Dumping and rendering *)
(* the configuration happen before and on the mounted image: failing there *)
(* changes no host.                                                        *)
(***************************************************************************)
EXTENDS Naturals

CONSTANTS
  Hosts,      \* target hosts
  Images,     \* image IDs
  Files,      \* the entries of every image
  Areas,      \* "image": the rootfs; "registry": the registry data
  IgnoreCache,\* the values of --ignore-cache the operator uses
  Kinds,      \* the kinds of fault considered
  MaxCmds,    \* bound: number of distributions and prunings
  MaxFaults   \* bound: number of faults

None == "none"       \* no such file on the host
Broken == "broken"   \* a file whose transfer broke off

ASSUME ScpAssumption ==
  /\ None \notin Images /\ Broken \notin Images
  /\ IgnoreCache \subseteq BOOLEAN
  /\ Kinds \subseteq {"conn", "silent", "kill", "rm"}
  /\ MaxCmds \in Nat /\ MaxFaults \in Nat

VARIABLES
  data,    \* per host and area, where the contents of each file come from
  flag,    \* per host and area, the images with a cache flag
  cmd,     \* the running or last command
  st,      \* per host, what its goroutine is doing
  todo,    \* per host, the files it has yet to copy
  begun,   \* per host and area, what was copied there, maybe in part, since
           \* it was last empty; Broken if it was damaged unnoticed (history)
  lost,    \* hosts where the command lost a file unnoticed (history)
  cmds,    \* number of commands so far
  faults   \* number of faults so far

hostVars == <<data, flag, begun>>
vars == <<hostVars, lost, cmd, st, todo, cmds, faults>>

Empty == [f \in Files |-> None]

Cmd == [kind : {"none", "dist", "prune"}, res : {"running", "ok", "err"},
        area : Areas, img : Images, hosts : SUBSET Hosts, ignore : BOOLEAN]

\* Every field has the shape the code keeps it in.
TypeOK ==
  /\ data \in [Hosts -> [Areas -> [Files -> Images \cup {None, Broken}]]]
  /\ flag \in [Hosts -> [Areas -> SUBSET Images]]
  /\ begun \in [Hosts -> [Areas -> SUBSET (Images \cup {Broken})]]
  /\ lost \subseteq Hosts
  /\ cmd \in Cmd
  /\ st \in [Hosts -> {"none", "check", "copy", "rm", "ok", "err"}]
  /\ todo \in [Hosts -> SUBSET Files]
  /\ cmds \in 0 .. MaxCmds
  /\ faults \in 0 .. MaxFaults

Init ==
  /\ data = [h \in Hosts |-> [a \in Areas |-> Empty]]
  /\ flag = [h \in Hosts |-> [a \in Areas |-> {}]]
  /\ begun = [h \in Hosts |-> [a \in Areas |-> {}]]
  /\ \E a \in Areas, i \in Images :
       cmd = [kind |-> "none", res |-> "ok", area |-> a, img |-> i, hosts |-> {}, ignore |-> FALSE]
  /\ st = [h \in Hosts |-> "none"]
  /\ todo = [h \in Hosts |-> {}]
  /\ lost = {}
  /\ cmds = 0 /\ faults = 0

Fault(kind) == kind \in Kinds /\ faults < MaxFaults /\ faults' = faults + 1

Start(c, first) ==
  /\ cmd.res # "running"
  /\ cmds < MaxCmds
  /\ cmds' = cmds + 1
  /\ cmd' = c
  /\ st' = [h \in Hosts |-> IF h \in c.hosts THEN first ELSE "none"]
  /\ todo' = [h \in Hosts |-> Files]
  /\ lost' = {}
  /\ UNCHANGED <<hostVars, faults>>

StartDistribute(a, i, S, ign) ==
  Start([kind |-> "dist", res |-> "running", area |-> a, img |-> i, hosts |-> S, ignore |-> ign],
        "check")

\* Restore, which does nothing without --prune.
StartPrune(S) ==
  Start([cmd EXCEPT !.kind = "prune", !.res = "running", !.hosts = S], "rm")

------------------------------------------------------------------------------
(* One goroutine per host.                                                 *)

Done(h, result) == st' = [st EXCEPT ![h] = result]

\* Mutation: --ignore-cache is not looked at.
CheckCacheAlways(h) ==
  /\ st[h] = "check"
  /\ Done(h, IF cmd.img \in flag[h][cmd.area] THEN "ok" ELSE "copy")
  /\ UNCHANGED <<hostVars, lost, cmd, todo, cmds, faults>>

\* Whether the host has the flag of the image.
CheckCache(h) ==
  /\ st[h] = "check"
  /\ Done(h, IF ~cmd.ignore /\ cmd.img \in flag[h][cmd.area] THEN "ok" ELSE "copy")
  /\ UNCHANGED <<hostVars, lost, cmd, todo, cmds, faults>>

\* One more file is transferred.
CopyFile(h) ==
  /\ st[h] = "copy"
  /\ \E f \in todo[h] : /\ todo' = [todo EXCEPT ![h] = @ \ {f}]
                        /\ data' = [data EXCEPT ![h][cmd.area][f] = cmd.img]
  /\ begun' = [begun EXCEPT ![h][cmd.area] = @ \cup {cmd.img}]
  /\ UNCHANGED <<flag, lost, cmd, st, cmds, faults>>

\* The transfer of a file fails, which is not reported: nothing or a part of it
\* arrives, and the rest of its directory is left out.
LoseFile(h) ==
  /\ st[h] = "copy"
  /\ Fault("silent")
  /\ \E f \in todo[h], rest \in SUBSET todo[h] :
       /\ todo' = [todo EXCEPT ![h] = (@ \ rest) \ {f}]
       /\ data' \in {data, [data EXCEPT ![h][cmd.area][f] = Broken]}
  /\ begun' = [begun EXCEPT ![h][cmd.area] = @ \cup {Broken}]
  /\ lost' = lost \cup {h}
  /\ UNCHANGED <<flag, cmd, st, cmds>>

\* Mutation: the flag is written before the files are copied.
WriteCacheFlagFirst(h) ==
  /\ st[h] = "copy"
  /\ \/ flag' = [flag EXCEPT ![h][cmd.area] = @ \cup {cmd.img}] /\ UNCHANGED faults
     \/ Fault("silent") /\ UNCHANGED flag
  /\ IF todo[h] = {} THEN Done(h, "ok") ELSE UNCHANGED st
  /\ UNCHANGED <<data, begun, lost, cmd, todo, cmds>>

\* Mutation: the flag is named after an empty image ID.
WriteCacheFlagNoName(h) ==
  /\ st[h] = "copy" /\ todo[h] = {}
  /\ flag' = [flag EXCEPT ![h][cmd.area] = @ \cup {None}]
  /\ Done(h, "ok")
  /\ UNCHANGED <<data, begun, lost, cmd, todo, cmds, faults>>

\* The flag goes last; it may get lost like any other file.
WriteCacheFlag(h) ==
  /\ st[h] = "copy" /\ todo[h] = {}
  /\ \/ flag' = [flag EXCEPT ![h][cmd.area] = @ \cup {cmd.img}] /\ UNCHANGED faults
     \/ Fault("silent") /\ UNCHANGED flag
  /\ Done(h, "ok")
  /\ UNCHANGED <<data, begun, lost, cmd, todo, cmds>>

\* No connection: at the look-up of the flag, a copy or the removal.
ConnectionFails(h) ==
  /\ st[h] \in {"check", "copy", "rm"}
  /\ Fault("conn")
  /\ Done(h, "err")
  /\ UNCHANGED <<hostVars, lost, cmd, todo, cmds>>

\* rm -rf of the rootfs, with all areas and all flags.
RemoveRootfs(h) ==
  /\ st[h] = "rm"
  /\ data' = [data EXCEPT ![h] = [a \in Areas |-> Empty]]
  /\ flag' = [flag EXCEPT ![h] = [a \in Areas |-> {}]]
  /\ begun' = [begun EXCEPT ![h] = [a \in Areas |-> {}]]
  /\ Done(h, "ok")
  /\ UNCHANGED <<lost, cmd, todo, cmds, faults>>

\* rm -rf is cut short, having removed some files; the cache is still there.
RemovalCutShort(h) ==
  /\ st[h] = "rm"
  /\ Fault("rm")
  /\ \E gone \in SUBSET Files :
       data' = [data EXCEPT ![h] =
                  [a \in Areas |-> [f \in Files |-> IF f \in gone THEN None ELSE @[a][f]]]]
  /\ begun' = [begun EXCEPT ![h] = [a \in Areas |-> @[a] \cup {Broken}]]
  /\ Done(h, "err")
  /\ UNCHANGED <<flag, lost, cmd, todo, cmds>>

------------------------------------------------------------------------------
(* sealer.                                                                 *)

\* eg.Wait: an error if one of the hosts had one.
Return ==
  /\ cmd.res = "running"
  /\ \A h \in cmd.hosts : st[h] \in {"ok", "err"}
  /\ cmd' = [cmd EXCEPT !.res = IF \A h \in cmd.hosts : st[h] = "ok" THEN "ok" ELSE "err"]
  /\ UNCHANGED <<hostVars, lost, st, todo, cmds, faults>>

\* sealer is killed.
Kill ==
  /\ cmd.res = "running"
  /\ Fault("kill")
  /\ cmd' = [cmd EXCEPT !.res = "err"]
  /\ st' = [h \in Hosts |-> "none"]
  /\ UNCHANGED <<hostVars, lost, todo, cmds>>

Next ==
  \/ \E a \in Areas, i \in Images, S \in SUBSET Hosts, ign \in IgnoreCache :
       StartDistribute(a, i, S, ign)
  \/ \E S \in SUBSET Hosts : StartPrune(S)
  \/ \E h \in Hosts : \/ CheckCache(h)
                      \/ CopyFile(h)
                      \/ LoseFile(h)
                      \/ WriteCacheFlag(h)
                      \/ ConnectionFails(h)
                      \/ RemoveRootfs(h)
                      \/ RemovalCutShort(h)
  \/ Return
  \/ Kill

Spec == Init /\ [][Next]_vars

------------------------------------------------------------------------------
(* Properties.                                                             *)

Complete(h, a, i) == data[h][a] = [f \in Files |-> i]

\* A cache flag vouches for its image: unless another image was copied over it
\* or it was damaged unnoticed, the files are all there, although the copy that
\* brought them may have been interrupted and repeated any number of times, and
\* removed in between.
FlagIsHonest ==
  \A h \in Hosts, a \in Areas :
    \A i \in flag[h][a] : begun[h][a] \subseteq {i} => Complete(h, a, i)

\* A distribution with --ignore-cache that succeeds leaves the image, whole, on
\* every target host ("if not, will force sync sealer rootfs", options.go),
\* whatever images, flags and damage there were, if it lost no file itself.
ForcedSyncDelivers ==
  cmd.kind = "dist" /\ cmd.res = "ok" /\ cmd.ignore =>
    \A h \in cmd.hosts \ lost : Complete(h, cmd.area, cmd.img)

\* A distribution that succeeds has brought "each files under mounted cluster
\* image directory to target hosts" (interface.go), the cache used or not.
DistributeDelivers ==
  cmd.kind = "dist" /\ cmd.res = "ok" =>
    \A h \in cmd.hosts : Complete(h, cmd.area, cmd.img)
==============================================================================
