----------------------------- MODULE ClusterDocs -----------------------------
(***************************************************************************)
(* pkg/clusterfile and cmd/sealer/cmd/utils/cluster.go: what a Clusterfile *)
(* says and how it is decoded, completed and merged with flags and with    *)
(* the image.  A Clusterfile is one record: the fields of its Cluster that *)
(* a property tells apart, its Application and its plugins.  An            *)
(* environment is a list of pairs, as in Spec.Env, where a later pair      *)
(* overrides an earlier one in a map, and repeated ones make a list.  Its  *)
(* Config and kubeadm documents, passwords and labels are left out.  Two   *)
(* fields are carried along for the properties, whatever the code does to  *)
(* env: want, the pairs the user wrote, and forced, the variables given    *)
(* with -e since the document was decoded.                                 *)
(***************************************************************************)
EXTENDS Naturals, Sequences

CONSTANTS
  FirstIP,   \* the first address of a service CIDR: <<ip>>, or <<>> if it does not parse
  Extended   \* names that begin with that of a variable sealer computes, as RegistryPortRange does

None == <<>>
Some(x) == <<x>>

\* The elements of a list at some places, in their order.
Only(s, places) ==
  LET kept[i \in 0..Len(s)] ==
        IF i = 0 THEN <<>>
        ELSE IF i \in places THEN Append(kept[i - 1], s[i]) ELSE kept[i - 1]
  IN kept[Len(s)]

\* strings.ConvertStringSliceToMap: the last pair with a key gives its value.
ConvertStringSliceToMap(env) ==
  [k \in {env[i][1] : i \in 1..Len(env)} |->
     LET at == CHOOSE i \in 1..Len(env) :
                 /\ env[i][1] = k
                 /\ \A j \in (i + 1)..Len(env) : env[j][1] # k
     IN env[at][2]]

\* maps.Merge: keys of src that dst does not have.
Merge(dst, src) == [k \in DOMAIN dst \cup DOMAIN src |-> IF k \in DOMAIN dst THEN dst[k] ELSE src[k]]

----------------------------------------------------------------------------
\* The names that checkAndFillCluster drops: those of the variables sealer
\* computes itself (RegistryURL stands for the nine registry variables, KubeSvcIP
\* for the two addresses of the service CIDR), and every name they are a prefix of.
Reserved == {"RegistryURL", "KubeSvcIP", "ContainerRuntime"} \cup Extended

\* The registry of the file with its defaults: without any, a local one.
FilledRegistry(reg) ==
  [reg EXCEPT !.local = IF reg.local \in {None, Some("")} /\ (reg.local # None \/ reg.external = None)
                        THEN Some("sea.hub") ELSE @]

\* An external registry has the last word.
RegistryURL(reg) == IF reg.external # None THEN reg.external[1] ELSE reg.local[1]

\* The container runtime, if the file names its type.
RuntimeEnv(c) == IF c.runtime = "" THEN <<>> ELSE <<<<"ContainerRuntime", c.runtime>>>>

\* What the user or an image says of other variables.
OwnEnv(env) == Only(env, {i \in 1..Len(env) : env[i][1] \notin Reserved})

\* Mutation: a registry the user wrote into the environment stays last.
KeepsReserved(c) ==
  LET reg == FilledRegistry(c.registry)
  IN [ok |-> reg.external # Some(""),
      cf |-> [c EXCEPT !.registry = reg, !.env = <<<<"RegistryURL", RegistryURL(reg)>>>> \o @]]

\* checkAndFillCluster: [ok, cf].  What the user or an earlier command wrote
\* under a reserved name is dropped, and the computed variables are added.
checkAndFillCluster(c) ==
  LET reg == FilledRegistry(c.registry)
      own == OwnEnv(c.env)
      map == ConvertStringSliceToMap(own)
      svc == IF "SvcCIDR" \in DOMAIN map THEN FirstIP[map["SvcCIDR"]] ELSE None
      ip == IF svc = None THEN <<>> ELSE <<<<"KubeSvcIP", svc[1]>>>>
  IN [ok |-> reg.external # Some("") /\ ("SvcCIDR" \in DOMAIN map => svc # None),
      cf |-> [c EXCEPT !.registry = reg, !.forced = <<>>,
                       !.env = own \o ip \o <<<<"RegistryURL", RegistryURL(reg)>>>> \o RuntimeEnv(c)]]

\* The Application document: its configs must have names, and a launch
\* section must have commands.
ValidApplication(app) ==
  \A i \in 1..Len(app.configs) :
    app.configs[i].name # "" /\ app.configs[i].launch # Some(None)

\* decodeClusterFile: [ok, cf].  A document of an unknown kind is skipped.
decodeClusterFile(c) ==
  LET known == IF c.app # None /\ c.app[1].kind = "Application" THEN c.app ELSE None
      filled == checkAndFillCluster(c)
  IN [ok |-> filled.ok /\ (known # None => ValidApplication(known[1])),
      cf |-> [filled.cf EXCEPT !.app = known]]

----------------------------------------------------------------------------
\* Mutation: the image's environment goes last.
AppendsImageEnv(c, ext) == [c EXCEPT !.env = @ \o ext.env]

\* MergeClusterWithImageExtension: the image's environment goes first.
MergeClusterWithImageExtension(c, ext) == [c EXCEPT !.env = ext.env \o @]

\* MergeClusterWithFlags: [ok, cf]; flags are [env, cmds, names, M, W].
MergeClusterWithFlags(c, flags) ==
  [ok |-> flags.M \cap c.M = {} /\ flags.W \cap c.W = {},
   cf |-> [c EXCEPT !.env = @ \o flags.env,
                    !.cmds = IF flags.cmds # <<>> THEN flags.cmds ELSE @,
                    !.names = IF flags.names \notin {None, Some(<<>>)} THEN flags.names ELSE @,
                    !.M = @ \cup flags.M,
                    !.W = @ \cup flags.W,
                    !.want = @ \o OwnEnv(flags.env),
                    !.forced = Merge(ConvertStringSliceToMap(flags.env), @)]]

\* ConstructClusterForRun: the file `sealer run image` makes from its flags.
ConstructClusterForRun(image, flags) ==
  [image |-> image, M |-> flags.M, W |-> flags.W, env |-> flags.env, cmds |-> flags.cmds,
   names |-> flags.names, registry |-> [local |-> None, external |-> None],
   runtime |-> "", app |-> None, plugins |-> <<>>, want |-> OwnEnv(flags.env), forced |-> <<>>]

\* What `upgrade` and `rollback` make of the cluster's file: the Cluster
\* alone, with another image and other applications.
WithImage(c, image, names) ==
  [c EXCEPT !.image = image, !.names = names, !.app = None, !.plugins = <<>>]

\* ConstructClusterForScaleUp and ConstructClusterForScaleDown.
WithHosts(c, masters, workers) == [c EXCEPT !.M = @ \cup masters, !.W = @ \cup workers]
WithoutHosts(c, hosts) == [c EXCEPT !.M = @ \ hosts, !.W = @ \ hosts]

----------------------------------------------------------------------------
EndsWith(s, t) == Len(t) <= Len(s) /\ \A i \in 1..Len(t) : s[Len(s) - Len(t) + i] = t[i]

\* The variables sealer computes from the other fields of a file.
Computed(c) ==
  [k \in {"RegistryURL"} \cup (IF c.runtime = "" THEN {} ELSE {"ContainerRuntime"}) |->
     IF k = "RegistryURL" THEN RegistryURL(c.registry) ELSE c.runtime]

\* The pairs of the user are the last ones of their kind in the environment, all
\* of them and in their order, so that they override those of images and a
\* repeated variable is the same list; the computed variables have the values of
\* the file, or those that were given with -e since it was decoded.
SaysWhatWasAsked(c) ==
  LET map == ConvertStringSliceToMap(c.env)
      said == Merge(c.forced, Computed(c))
  IN /\ EndsWith(OwnEnv(c.env), c.want)
     /\ \A k \in DOMAIN Computed(c) : k \in DOMAIN map /\ map[k] = said[k]
=============================================================================
