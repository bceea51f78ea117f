----------------------------- MODULE K0sRuntime -----------------------------
(***************************************************************************)
(* pkg/runtime/k0s: a cluster of k0s services.  Every other host gets a    *)
(* join token by a copy nobody waits for, and a service that reads the     *)
(* token when it starts.  The service manager restarts a service that      *)
(* could not join, so a worker joins after the command that installed it   *)
(* is over, or never if its token did not arrive.  A joined host carries   *)
(* the number of the cluster it joined (0: none); cgroup drivers, the      *)
(* registry in k0s.yaml and the kubeconfig secret are left out.            *)
(***************************************************************************)
EXTENDS Naturals, FiniteSets

CONSTANTS
  Hosts,    \* the machines
  Master0   \* the first master, where the commands run

VARIABLES
  joined,   \* [Hosts -> Nat]: the cluster the host is a member of
  svc,      \* [Hosts -> {"none", "controller", "worker"}]: the installed service
  tok,      \* the token files on the hosts: pairs of a host and a role
  copying,  \* copies of CopyJoinToken still under way
  lost      \* copies that failed, or that the end of the command cut off

k0sVars == <<svc, tok, copying, lost>>

ControllerRole == "controller"
WorkerRole == "worker"
Roles == {ControllerRole, WorkerRole}

Up == joined[Master0] # 0

TypeOKK0s ==
  /\ svc \in [Hosts -> {"none"} \cup Roles]
  /\ tok \subseteq Hosts \X Roles
  /\ copying \subseteq Hosts \X Roles
  /\ lost \subseteq Hosts \X Roles

----------------------------------------------------------------------------
\* bootstrapMaster0: k0s install refuses a second service.
bootstrapMaster0(cluster) ==
  /\ svc[Master0] = "none"
  /\ svc' = [svc EXCEPT ![Master0] = ControllerRole]
  /\ joined' = [joined EXCEPT ![Master0] = cluster]

\* generateJoinToken: both files on the first master.
generateJoinToken == tok' = tok \cup ({Master0} \X Roles)

\* Mutation: the service of a worker looks for the controllers' token.
TokenFileOfController(role) == ControllerRole

\* The file CopyJoinToken copies for a role, and the one the service reads.
JoinCertPath(role) == role
TokenFile(role) == role

\* CopyJoinToken starts the copies and returns.
CopyJoinToken(role, hosts) ==
  /\ copying' = copying \cup (hosts \X {JoinCertPath(role)})
  /\ lost' = lost \ (hosts \X {JoinCertPath(role)})

\* The first master may have no token to copy: then the copy fails unseen.
CopyDone(h, role) ==
  /\ <<h, role>> \in copying
  /\ <<Master0, role>> \in tok
  /\ copying' = copying \ {<<h, role>>}
  /\ tok' = tok \cup {<<h, role>>}

CopyFails(h, role) ==
  /\ <<h, role>> \in copying
  /\ copying' = copying \ {<<h, role>>}
  /\ lost' = lost \cup {<<h, role>>}

\* The end of the sealer process ends the copies.
CopiesEnd ==
  /\ copying' = {}
  /\ lost' = lost \cup copying

----------------------------------------------------------------------------
CanJoin(h, role) == <<h, TokenFile(role)>> \in tok /\ Up

\* joinMasters, one master: the service is installed, and its kubeconfig is
\* there after the wait only if the token had arrived.
InstallController(h) ==
  /\ svc[h] = "none"
  /\ svc' = [svc EXCEPT ![h] = ControllerRole]
  /\ joined' = IF CanJoin(h, ControllerRole) THEN [joined EXCEPT ![h] = joined[Master0]] ELSE joined

\* Mutation: the service is named after the role of the host in the Clusterfile.
InstallWorkersByRole(hosts) ==
  /\ \A h \in hosts : svc[h] = "none"
  /\ svc' = [h \in Hosts |-> IF h \in hosts THEN "node" ELSE svc[h]]

\* joinNodes: installed and started on the hosts, whatever their tokens.
InstallWorkers(hosts) ==
  /\ \A h \in hosts : svc[h] = "none"
  /\ svc' = [h \in Hosts |-> IF h \in hosts THEN WorkerRole ELSE svc[h]]

\* The service manager starts the service again and it joins.
ServiceJoins(h) ==
  /\ svc[h] # "none" /\ joined[h] = 0
  /\ CanJoin(h, svc[h])
  /\ joined' = [joined EXCEPT ![h] = joined[Master0]]

\* k0s stop, k0s reset and the removal of /etc/k0s on some hosts
\* (deleteNode, deleteMaster, resetNodes, resetMasters).
ResetHosts(hosts) ==
  /\ svc' = [h \in Hosts |-> IF h \in hosts THEN "none" ELSE svc[h]]
  /\ tok' = {t \in tok : t[1] \notin hosts}
  /\ joined' = [h \in Hosts |-> IF h \in hosts THEN 0 ELSE joined[h]]
=============================================================================
