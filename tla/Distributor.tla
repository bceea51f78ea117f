----------------------------- MODULE Distributor -----------------------------
(***************************************************************************)
(* What a distributor of pkg/imagedistributor is relied on for: it          *)
(* "distribute[s] each files under mounted cluster image directory to       *)
(* target hosts" (interface.go) and may stop anywhere while it does, but a  *)
(* distribution is reported as successful only when every target host has  *)
(* every one of its files, and once reported nothing older is ever written *)
(* over it.  Distributions are numbered in the order they are started.     *)
(* Which place of a host the files of a distribution go to is up to the    *)
(* implementation.                                                         *)
(***************************************************************************)
EXTENDS Naturals

CONSTANTS Hosts, Places, Files,
          Rounds   \* the numbers, natural, of distributions

VARIABLES
  files,  \* per host, place and file, the distribution that wrote it and whether it is whole
  ok      \* per host and place, the last distribution reported successful

dvars == <<files, ok>>

Init ==
  /\ files = [h \in Hosts |-> [p \in Places |-> [f \in Files |-> [round |-> 0, whole |-> TRUE]]]]
  /\ ok    = [h \in Hosts |-> [p \in Places |-> 0]]

\* Distribution r begins to write a file at place p of host h, or ends it.
Deliver(h, p, f, r, whole) ==
  /\ r > ok[h][p]
  /\ files' = [files EXCEPT ![h][p][f] = [round |-> r, whole |-> whole]]
  /\ UNCHANGED ok

\* Distribution r to place p of the hosts of S is reported successful.
Report(S, p, r) ==
  /\ \A h \in S, f \in Files : files[h][p][f] = [round |-> r, whole |-> TRUE]
  /\ ok' = [h \in Hosts |-> IF h \in S THEN [ok[h] EXCEPT ![p] = r] ELSE ok[h]]
  /\ UNCHANGED files

Next ==
  \/ \E h \in Hosts, p \in Places, f \in Files, r \in Rounds, whole \in BOOLEAN :
       Deliver(h, p, f, r, whole)
  \/ \E S \in SUBSET Hosts, p \in Places, r \in Rounds : Report(S, p, r)

Spec == Init /\ [][Next]_dvars
==============================================================================
