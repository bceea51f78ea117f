-------------------------- MODULE MCClusterLifecycle --------------------------
(* Small clusters for ClusterLifecycle.                                    *)
EXTENDS ClusterLifecycle

CONSTANTS hm0, hm1, hw1   \* hosts, by the role the Clusterfile may give them

\* One master and one worker; hm1 is a spare machine.
MCSingleMaster ==
  [pos |-> [h \in Hosts |-> IF h = hm0 THEN 1 ELSE 0], workers |-> {hw1}]

\* Two masters and one worker; any other host is a spare machine.
MCTwoMasters ==
  [pos     |-> [h \in Hosts |-> CASE h = hm0 -> 1 [] h = hm1 -> 2 [] OTHER -> 0],
   workers |-> {hw1}]
==============================================================================
