----------------------------- MODULE Clusterfile -----------------------------
(***************************************************************************)
(* The part of a sealer Clusterfile that decides which hosts a command     *)
(* touches: Spec.Hosts, reduced to the ordered list of masters and the set *)
(* of workers.  The code looks at the order of the masters only to take    *)
(* masters[0] and the first remaining master, so a file records for every  *)
(* host its position in the master list (0: not a master).  Removing a     *)
(* host keeps the order of the others, appending puts the new hosts last.  *)
(* SSH credentials, environment, image name and labels are left out.       *)
(***************************************************************************)
EXTENDS Naturals

CONSTANTS
  Hosts,   \* the machines an operator may name in a command
  MaxPos   \* bound: the highest position in a master list

ASSUME MaxPosAssumption == MaxPos \in Nat \ {0}

File == [pos : [Hosts -> 0 .. MaxPos], workers : SUBSET Hosts]

Masters(f) == {h \in Hosts : f.pos[h] > 0}

Members(f) == Masters(f) \cup f.workers

\* The absence of a file; a real one names at least one master.
NoFile == [pos |-> [h \in Hosts |-> 0], workers |-> {}]

\* The master of S that comes first in the master list of f.
First(f, S) == CHOOSE h \in S : \A g \in S : f.pos[h] <= f.pos[g]

GetMaster0IP(f) == First(f, Masters(f))

\* done is what a loop over targets, in list order, has handled when it stops.
InOrder(f, done, targets) ==
  \A a \in done, b \in targets \ done : f.pos[a] < f.pos[b]

------------------------------------------------------------------------------
\* The positions the masters mj can get when they are appended to the list of
\* f: after everyone, without gaps, in the order the operator named them.
AppendedPositions(f, mj) ==
  {p \in [mj -> 1 .. MaxPos] :
     /\ \A a \in mj, g \in Hosts : p[a] > f.pos[g]
     /\ \A a, b \in mj : a # b => p[a] # p[b]
     /\ \A a \in mj : p[a] - 1 \in {f.pos[g] : g \in Hosts} \cup {p[b] : b \in mj}}

\* Mutation: the appended masters are numbered one too high.
ScaleUpOffByOne(f, mj, nj) ==
  {[pos     |-> [h \in Hosts |-> IF h \in mj THEN p[h] + 1 ELSE f.pos[h]],
    workers |-> f.workers \cup nj] : p \in AppendedPositions(f, mj)}

ConstructClusterForScaleUp(f, mj, nj) ==
  {[pos     |-> [h \in Hosts |-> IF h \in mj THEN p[h] ELSE f.pos[h]],
    workers |-> f.workers \cup nj] : p \in AppendedPositions(f, mj)}

ConstructClusterForScaleDown(f, md, nd) ==
  [pos     |-> [h \in Hosts |-> IF h \in md THEN 0 ELSE f.pos[h]],
   workers |-> f.workers \ nd]
==============================================================================
