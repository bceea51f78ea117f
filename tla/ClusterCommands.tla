--------------------------- MODULE ClusterCommands ---------------------------
(***************************************************************************)
(* sealer run, apply, scale-up, delete, upgrade, rollback and cert, typed  *)
(* one after the other on the first master, with all that a command        *)
(* carries from one to the next: the Clusterfile on the disk and in the    *)
(* cluster, the rootfs of every host, certificates, kubeconfigs, services  *)
(* and applications.  A command is a list of steps; a step succeeds, meets *)
(* an error, or fails half done, and an error ends the command.  How hosts *)
(* are reached in parallel, the container runtime, the registry and the    *)
(* virtual server are the subject of ClusterLifecycle and leave no trace   *)
(* here; how the SFTP distributor copies files is that of ScpDistribution, *)
(* and a host is copied to as a whole here.                                *)
(***************************************************************************)
EXTENDS K0sRuntime, ClusterCerts, Application, Hooks

CONSTANTS
  Ext,          \* the extension of every image
  Split,        \* the names in a value of the variable CertSANs that is not empty
  Plugins,      \* [image -> Seq(plugin)]: the plugins in the rootfs of an image
  Files,        \* the Clusterfiles users write
  FlagSets,     \* the flags of a run with a Clusterfile: [env, cmds, names, M, W]
  ArgSets,      \* the image and the flags of a run without one: <<image, flags>>
  ScaleSets,    \* the masters and workers users add or delete: [M, W]
  AltSets,      \* the alternative names users add to certificates
  MaxCommands,  \* bound: commands typed
  MaxFailures   \* bound: steps that fail

ASSUME CommandsAssumption == MaxCommands \in Nat /\ MaxFailures \in Nat /\ Master0 \in Hosts

\* A document names known hosts and an image.
DocFields ==
  {"image", "M", "W", "env", "cmds", "names", "registry", "runtime", "app", "plugins", "want", "forced"}
IsDoc(c) == DOMAIN c = DocFields /\ c.M \subseteq Hosts /\ c.W \subseteq Hosts /\ c.image \in DOMAIN Ext

IsList(s) == s \in Seq({s[i] : i \in 1..Len(s)})

IsApplication(a) ==
  /\ DOMAIN a = {"kind", "cmds", "names", "configs"} /\ IsList(a.configs)
  /\ \A i \in 1..Len(a.configs) : DOMAIN a.configs[i] = {"name", "launch", "env"} /\ IsList(a.configs[i].env)

\* The plugins of an image come from that image.
ASSUME ImagesAssumption ==
  \A image \in DOMAIN Ext :
    /\ IsList(Ext[image].env) /\ IsList(Plugins[image])
    /\ \A i \in 1..Len(Plugins[image]) : Plugins[image][i].src = image

\* A file gives a host one role, and names the first master.
ASSUME FilesAssumption ==
  \A f \in Files :
    /\ IsDoc(f) /\ f.M \cap f.W = {} /\ Master0 \in f.M
    /\ IsList(f.env) /\ IsList(f.plugins) /\ \A i \in 1..Len(f.plugins) : f.plugins[i].src = "file"
    /\ f.app # None => IsApplication(f.app[1])

\* The flags name known hosts and images too, and the first master as a master.
ASSUME FlagsAssumption ==
  /\ \A flags \in FlagSets \cup ScaleSets : flags.M \subseteq Hosts /\ flags.W \subseteq Hosts
  /\ \A args \in ArgSets : args[1] \in DOMAIN Ext /\ args[2].M \subseteq Hosts /\ args[2].W \subseteq Hosts
  /\ \A args \in ArgSets : IsList(args[2].env) /\ Master0 \notin args[2].W /\ (args[2].M # {} => Master0 \in args[2].M)
  /\ \A flags \in FlagSets : IsList(flags.env) /\ Master0 \notin flags.W

VARIABLES
  kind,        \* the runtime of the cluster images: "kubernetes" or "k0s"
  disk,        \* the Clusterfile under ~/.sealer: None or Some(file)
  cm,          \* the Clusterfile in the cluster's config map
  appfile,     \* whether the application file exists
  kubeconfig,  \* whether ~/.kube/config exists
  rootfs,      \* [Hosts -> image]: what is in the rootfs, "none" if nothing
  cached,      \* [Hosts -> set of images]: the cache flags in the rootfs
  pki, conf,   \* certificates and kubeconfigs in the work directory of the first master
  yaml,        \* the alternative names in rootfs/kubeadm.yaml: None or Some(set)
  etc,         \* [Hosts -> directory]: /etc/kubernetes/pki
  etcConf,     \* [Hosts -> directory]: /etc/kubernetes
  labelled,    \* nodes with the master label
  promised,    \* names the API server's certificate was asked to have, per master; {}: no master
  op,          \* the command under way
  n,           \* commands typed so far
  fails        \* steps that failed so far

docVars == <<disk, cm, appfile, kubeconfig>>
certVars == <<pki, conf, yaml, etc, etcConf, promised>>
hostVars == <<rootfs, cached, joined, labelled>>
vars == <<kind, docVars, certVars, hostVars, k0sVars, op, n, fails>>

Kube == kind = "kubernetes"
All(cf) == cf.M \cup cf.W
Idle == [cmd |-> "idle", todo |-> <<>>]
IsIdle == op.todo = <<>>

Init ==
  /\ kind \in {"kubernetes", "k0s"}
  /\ disk = None /\ cm = None /\ appfile = FALSE /\ kubeconfig = FALSE
  /\ rootfs = [h \in Hosts |-> "none"] /\ cached = [h \in Hosts |-> {}] /\ joined = [h \in Hosts |-> 0] /\ labelled = {}
  /\ pki = EmptyDir /\ conf = EmptyDir /\ yaml = None
  /\ etc = [h \in Hosts |-> EmptyDir] /\ etcConf = [h \in Hosts |-> EmptyDir]
  /\ promised = [h \in Hosts |-> {}]
  /\ svc = [h \in Hosts |-> "none"] /\ tok = {} /\ copying = {} /\ lost = {}
  /\ op = Idle /\ n = 0 /\ fails = 0

\* GetActualClusterFile: the cluster's, or else the one on the disk; [ok, cf].
GetActualClusterFile ==
  IF kubeconfig /\ Up /\ cm # None THEN decodeClusterFile(cm[1])
  ELSE IF disk # None THEN decodeClusterFile(disk[1])
  ELSE [ok |-> FALSE, cf |-> None]

\* GetCurrentCluster: the nodes the API server lists; k0s controllers are none.
Nodes == {h \in Hosts : joined[h] # 0 /\ joined[h] = joined[Master0] /\ (Kube \/ svc[h] # ControllerRole)}
CurrentMasters == Nodes \cap labelled
CurrentNodes == Nodes \ labelled

\* Some host carries another image.
Torn(image) == \E h \in Hosts : rootfs[h] \notin {"none", image}

----------------------------------------------------------------------------
(* The steps of each command.                                              *)

RuntimeInstall ==
  IF Kube THEN <<"config", "cert", "kubeConfig", "initMaster0", "joinMasters", "joinNodes">>
  ELSE <<"bootstrap", "joinToken", "copyM", "joinM", "copyW", "joinW">>
RuntimeScaleUp ==
  IF Kube THEN <<"joinMasters", "joinNodes">> ELSE <<"copyM", "joinM", "copyW", "joinW">>

AppSteps == <<"launch", "saveApp", "commit">>

InstallSteps ==
  <<"save", "distribute", "pre-install", "pre-init-host">> \o RuntimeInstall
    \o <<"post-init-host", "post-install", "roles">> \o AppSteps
ScaleUpSteps ==
  <<"save", "distribute", "pre-scaleup", "pre-init-host">> \o RuntimeScaleUp
    \o <<"post-init-host", "post-scaleup", "roles", "commit">>
ScaleDownSteps == <<"pre-clean-host", "remove", "post-clean-host", "restore", "commit">>
UnInstallSteps ==
  <<"pre-uninstall", "pre-clean-host", "reset", "post-clean-host", "post-uninstall",
    "restore", "rmDisk", "rmApp", "rmKubeconfig">>

\* Mutation: the hosts are upgraded before they have the new rootfs.
UpgradeHooksFirst == <<"save", "upgrade-host", "distribute", "upgrade">> \o AppSteps
UpgradeSteps == <<"save", "distribute", "upgrade-host", "upgrade">> \o AppSteps

\* Mutation: the new rootfs is there before the rollback hook.
RollbackAfterDistribute == <<"save", "distribute", "rollback">> \o AppSteps
RollbackSteps == <<"save", "rollback", "distribute">> \o AppSteps

Steps ==
  UNION {{s[i] : i \in 1..Len(s)} : s \in {InstallSteps, ScaleUpSteps, ScaleDownSteps, UnInstallSteps,
                                           UpgradeSteps, RollbackSteps, <<"update", "toApp">>}}

----------------------------------------------------------------------------
(* Commands: what each makes of its arguments before its first step.       *)

\* What the user asked of the applications.
Values(env) == ConvertStringSliceToMap(env)
Asked(cmds, app, want) == [cmds |-> cmds, configs |-> IF app = None THEN <<>> ELSE app[1].configs, want |-> want]

\* A command on a file; touched are the hosts it distributes to or cleans.  It
\* is torn if it takes hosts for granted that carry another image, which it also
\* is if the cache makes it do so.
Op(cmd, todo, cf, touched, plugins) ==
  [cmd |-> cmd, todo |-> todo, cf |-> cf, touched |-> touched, plugins |-> plugins,
   torn |-> cmd \in {"scale-up", "scale-down", "delete"} /\ Torn(cf.image),
   app |-> None, spec |-> None, asked |-> Asked(<<>>, None, <<>>), free |-> 0, alt |-> {}, left |-> {},
   rendered |-> None, launched |-> None, hooked |-> {}]

\* The same with an application; an unknown application is an error.
WithApp(o, spec, ext, asked, free, rendered) ==
  LET d == NewAppDriver(spec, ext)
  IN IF ~d.ok THEN Idle
     ELSE [o EXCEPT !.app = Some(d), !.spec = Some(spec), !.asked = asked, !.free = free,
                    !.rendered = IF rendered THEN Some(FileProcess(d)) ELSE None]

OrIdle(ok, o) == IF ok THEN o ELSE Idle

Starts(o) ==
  /\ IsIdle /\ n < MaxCommands
  /\ n' = n + 1
  /\ op' = o
  /\ UNCHANGED <<kind, docVars, certVars, hostVars, k0sVars, fails>>

\* The room Go may have left behind a list: it matters to two configs or more.
Rooms(app) == IF app # None /\ Len(app[1].configs) > 1 THEN {0, 1} ELSE {0}

\* KubeInstaller.Install up to its first SaveAll.  ConstructApplication works
\* on the document of the file itself.
KubeInstall(cf0, free) ==
  LET ext == Ext[cf0.image]
      cf == MergeClusterWithImageExtension(cf0, ext)
      spec == ConstructApplication(cf.app, cf.cmds, cf.names, cf.env, free)
      plugins == Plugins[cf.image] \o cf.plugins
      o == Op("install", InstallSteps, [cf EXCEPT !.app = IF @ = None THEN @ ELSE Some(spec)], All(cf), plugins)
  IN OrIdle(Transferable(plugins), WithApp(o, spec, ext, Asked(cf.cmds, cf.app, Values(cf.want)), free, TRUE))

IsApp(image) == Ext[image].type = "app"

\* NewApplicationInstaller and AppInstaller.Install up to Launch.
AppInstall(image, app, cmds, names, env, free, rendered) ==
  LET actual == GetActualClusterFile
      spec == ConstructApplication(app, cmds, names, env, free)
      o == Op(IF IsApp(image) THEN "app" ELSE "apply", AppSteps, [actual.cf EXCEPT !.app = Some(spec)], {}, <<>>)
  IN IF ~actual.ok THEN Idle
     ELSE WithApp(o, spec, Ext[image], Asked(cmds, app, Values(env)), free, rendered)

\* The user's file as typed: want is what it says.
Typed(f) == decodeClusterFile([f EXCEPT !.want = OwnEnv(f.env)])

runWithClusterfile ==
  IsIdle /\ \E f \in Files, flags \in FlagSets :
    LET file == Typed(f)
        merged == MergeClusterWithFlags(file.cf, flags)
        cf == merged.cf
    IN IF ~file.ok \/ ~merged.ok THEN Starts(Idle)
       ELSE \E free \in Rooms(cf.app) :
              Starts(IF IsApp(cf.image)
                     THEN AppInstall(cf.image, cf.app, cf.cmds, cf.names, flags.env, free, TRUE)
                     ELSE KubeInstall(cf, free))

runWithArgs ==
  \E args \in ArgSets :
    LET image == args[1]
        flags == args[2]
        file == decodeClusterFile(ConstructClusterForRun(image, flags))
    IN Starts(IF IsApp(image) THEN AppInstall(image, None, flags.cmds, flags.names, flags.env, 0, TRUE)
              ELSE OrIdle(file.ok /\ flags.M # {}, KubeInstall(file.cf, 0)))

\* KubeInstaller.ScaleUp up to its SaveAll.
KubeScaleUp(cf0, added) ==
  LET cf == MergeClusterWithImageExtension(MergeClusterWithImageExtension(cf0, Ext[cf0.image]), Ext[cf0.image])
      plugins == Plugins[cf.image] \o cf.plugins
  IN OrIdle(Transferable(plugins), Op("scale-up", ScaleUpSteps, cf, added, plugins))

\* apply on a new cluster merges the image's environment twice.  On one with a
\* kubeconfig it scales up if hosts were only added, then installs the
\* applications; toApp reads the cluster's file again.
Apply ==
  IsIdle /\ \E f \in {g \in Files : ~IsApp(g.image)} :
    LET file == Typed(f)
        cf == file.cf
        gone == (CurrentMasters \ cf.M) \cup (CurrentNodes \ cf.W)
        added == (cf.M \ CurrentMasters) \cup (cf.W \ CurrentNodes)
    IN IF ~file.ok \/ (kubeconfig /\ ~Up) THEN Starts(Idle)
       ELSE \E free \in Rooms(cf.app) :
              IF ~kubeconfig
              THEN Starts(KubeInstall(MergeClusterWithImageExtension(cf, Ext[cf.image]), free))
              ELSE LET o == IF gone # {} \/ added = {} THEN Op("apply", <<>>, cf, {}, <<>>) ELSE KubeScaleUp(cf, added)
                   IN Starts(IF o = Idle THEN Idle
                             ELSE [o EXCEPT !.todo = @ \o <<"toApp">> \o AppSteps, !.spec = Some(cf), !.free = free])

ScaleUp ==
  \E s \in ScaleSets :
    LET actual == GetActualClusterFile
        current == CurrentMasters \cup CurrentNodes
        mj == s.M \ current
        nj == s.W \ current
    IN Starts(IF ~actual.ok \/ ~kubeconfig \/ ~Up \/ mj \cup nj = {} \/ (mj \cup nj) \cap All(actual.cf) # {} THEN Idle
              ELSE KubeScaleUp(WithHosts(actual.cf, mj, nj), mj \cup nj))

\* The platforms asked for are those of the deleted masters, twice: without a
\* master nothing is mounted and the image has no plugins to run.
ScaleDown ==
  \E s \in ScaleSets :
    LET actual == GetActualClusterFile
        cf == MergeClusterWithImageExtension(actual.cf, Ext[actual.cf.image])
        md == s.M \cap cf.M
        nd == s.W \cap cf.W
        plugins == (IF md = {} THEN <<>> ELSE Plugins[cf.image]) \o cf.plugins
    IN Starts(IF ~actual.ok \/ Master0 \in md \/ md \cup nd = {} \/ ~Transferable(plugins) \/ ~Up THEN Idle
              ELSE Op("scale-down", ScaleDownSteps, cf, md \cup nd, plugins))

\* KubeInstaller.Delete up to UnInstall: the image is mounted for its plugins.
KubeDelete(cf) ==
  LET plugins == Plugins[cf.image] \o cf.plugins
  IN OrIdle(Transferable(plugins), Op("delete", UnInstallSteps, cf, All(cf), plugins))

Delete ==
  LET actual == GetActualClusterFile
  IN Starts(IF ~actual.ok THEN Idle
            ELSE KubeDelete(MergeClusterWithImageExtension(actual.cf, Ext[actual.cf.image])))

\* upgradeCluster and rollbackCluster up to their first SaveAll.
NewImage(cmd, todo, cf, plugins) ==
  OrIdle(~IsApp(cf.image) /\ Transferable(plugins),
         [Op(cmd, todo, cf, All(cf), plugins) EXCEPT !.asked = Asked(cf.cmds, cf.app, Values(cf.want))])

\* The file of the cluster with another image, decoded again.
Another(image) == decodeClusterFile(WithImage(GetActualClusterFile.cf, image, None))

upgradeWithArgs ==
  \E image \in DOMAIN Ext :
    Starts(IF ~GetActualClusterFile.ok THEN Idle
           ELSE NewImage("upgrade", UpgradeSteps, Another(image).cf, Plugins[image]))

upgradeWithClusterfile ==
  \E f \in Files :
    LET file == Typed(f)
    IN Starts(IF ~file.ok THEN Idle
              ELSE NewImage("upgrade", UpgradeSteps, file.cf, Plugins[file.cf.image] \o file.cf.plugins))

\* rollback takes the plugins from the rootfs of this machine.
LocalPlugins == IF rootfs[Master0] = "none" THEN <<>> ELSE Plugins[rootfs[Master0]]

Rollback ==
  \E image \in DOMAIN Ext :
    Starts(IF ~GetActualClusterFile.ok THEN Idle
           ELSE NewImage("rollback", RollbackSteps, Another(image).cf, LocalPlugins))

Cert ==
  \E alt \in AltSets :
    LET actual == GetActualClusterFile
    IN Starts(IF ~actual.ok THEN Idle
              ELSE [Op("cert", <<"update">>, actual.cf, actual.cf.M, <<>>) EXCEPT !.alt = alt])

----------------------------------------------------------------------------
(* Steps.  An error ends the command, and with it the copies under way.    *)

At(step) == ~IsIdle /\ Head(op.todo) = step

Ends == op' = Idle /\ CopiesEnd

GoesOn(o) ==
  IF Tail(o.todo) = <<>> THEN Ends
  ELSE op' = [o EXCEPT !.todo = Tail(@)] /\ UNCHANGED <<copying, lost>>

Fault == fails < MaxFailures /\ fails' = fails + 1 /\ Ends

\* The step is done, or it failed with only part of its work done.
DoneOrFault(complete) == (complete /\ GoesOn(op) /\ UNCHANGED fails) \/ (~complete /\ Fault)

\* A step fails before it changes anything.
StepFails ==
  /\ ~IsIdle
  /\ Fault
  /\ UNCHANGED <<kind, docVars, certVars, hostVars, svc, tok, n>>

Without(f, hosts, x) == [h \in Hosts |-> IF h \in hosts THEN x ELSE f[h]]

\* SaveAll without CommitToCluster.
Save ==
  /\ At("save")
  /\ disk' = Some(op.cf)
  /\ GoesOn(op)
  /\ UNCHANGED <<kind, cm, appfile, kubeconfig, certVars, hostVars, svc, tok, n, fails>>

\* Distribute of the SFTP distributor.  Without --ignore-cache a host that has the
\* flag of the image is skipped, whatever its rootfs holds: the command goes on
\* torn if that is another image.  A flag is written after the copy.
Distribute ==
  /\ At("distribute")
  /\ \E ignoreCache \in BOOLEAN :
       LET hits == {h \in op.touched : ~ignoreCache /\ op.cf.image \in cached[h]}
           stale == \E h \in hits : rootfs[h] # op.cf.image
       IN \E copied \in SUBSET (op.touched \ hits) : \E flagged \in SUBSET copied :
            /\ rootfs' = Without(rootfs, copied, op.cf.image)
            /\ cached' = [h \in Hosts |-> IF h \in flagged THEN cached[h] \cup {op.cf.image} ELSE cached[h]]
            /\ \/ flagged = op.touched \ hits /\ GoesOn([op EXCEPT !.torn = @ \/ stale]) /\ UNCHANGED fails
               \/ flagged # op.touched \ hits /\ Fault
  /\ UNCHANGED <<kind, docVars, certVars, joined, labelled, svc, tok, n>>

\* runHostHook and runClusterHook.
RunHook ==
  \E phase \in HostPhases \cup ClusterPhases :
    /\ At(phase)
    /\ LET r == RunHooks(op.plugins, phase, op.touched, op.cf, Master0, rootfs)
       IN IF r.ok THEN GoesOn([op EXCEPT !.hooked = r.ran]) ELSE Ends
    /\ UNCHANGED <<kind, docVars, certVars, hostVars, svc, tok, n, fails>>

\* setRoles labels the masters the API server lists.
SetRoles ==
  /\ At("roles")
  /\ labelled' = labelled \cup (op.cf.M \cap Nodes)
  /\ IF Up THEN GoesOn(op) ELSE Ends
  /\ UNCHANGED <<kind, docVars, certVars, rootfs, cached, joined, svc, tok, n, fails>>

----------------------------------------------------------------------------
(* The kubeadm runtime.                                                    *)

\* Key material of the command: on this machine, and on a joining host.
Fresh == 2 * n
FreshThere == 2 * n + 1

\* The names in the variable CertSANs; of a repeated one only the last counts.
ExtraSANs(env) ==
  LET map == Values(env)
  IN IF "CertSANs" \in DOMAIN map /\ map["CertSANs"] \in DOMAIN Split THEN Split[map["CertSANs"]] ELSE {}

\* initKubeadmConfig: kubeadm.yaml with the names every API server has ("base"),
\* those of the environment and the masters; names in the kubeadm documents of the
\* Clusterfile are overwritten.
InitKubeadmConfig ==
  /\ At("config")
  /\ yaml' = Some({"base"} \cup ExtraSANs(op.cf.env) \cup op.cf.M)
  /\ GoesOn(op)
  /\ UNCHANGED <<kind, docVars, pki, conf, etc, etcConf, promised, hostVars, svc, tok, n, fails>>

\* The files a step writes, of so many; all of them, or those before a failure.
Writes(number, ok, done) ==
  \/ done = number /\ (IF ok THEN GoesOn(op) ELSE Ends) /\ UNCHANGED fails
  \/ done < number /\ Fault

GenerateCert ==
  /\ At("cert")
  /\ LET r == GenerateAllKubernetesCerts(pki, Fresh, yaml[1])
     IN \E done \in 0..Len(r.plan) : pki' = Applied(pki, r.plan, done) /\ Writes(Len(r.plan), r.ok, done)
  /\ UNCHANGED <<kind, docVars, conf, yaml, etc, etcConf, promised, hostVars, svc, tok, n>>

CreateKubeConfig ==
  /\ At("kubeConfig")
  /\ LET r == createKubeConfigFiles(conf, pki, "apiserver")
     IN \E done \in 0..r.upTo : conf' = Completed(conf, done, r.config) /\ Writes(r.upTo, r.ok, done)
  /\ UNCHANGED <<kind, docVars, pki, yaml, etc, etcConf, promised, hostVars, svc, tok, n>>

\* sendClusterCert copies the directory over what is there.
Sent(h) == CopiedOver(pki, etc[h])
SentConf(h, files) == CopiedOver([f \in {files[i] : i \in 1..Len(files)} |-> conf[f]], etcConf[h])

\* kubeadm init refuses a host that is a member already, and needs every file.
KubeadmInit == joined[Master0] = 0 /\ AllFiles \subseteq DOMAIN Sent(Master0)

\* initMaster0: files first, then kubeadm init, then ~/.kube/config.
InitMaster0 ==
  /\ At("initMaster0")
  /\ etc' = [etc EXCEPT ![Master0] = Sent(Master0)]
  /\ etcConf' = [etcConf EXCEPT ![Master0] = SentConf(Master0, KubeConfigFiles)]
  /\ promised' = [promised EXCEPT ![Master0] = yaml[1]]
  /\ \/ /\ KubeadmInit
        /\ joined' = [joined EXCEPT ![Master0] = n]
        /\ kubeconfig' = TRUE /\ cm' = None
        /\ GoesOn(op) /\ UNCHANGED fails
     \/ /\ ~KubeadmInit /\ Ends
        /\ UNCHANGED <<joined, kubeconfig, cm, fails>>
     \/ /\ Fault
        /\ UNCHANGED <<joined, kubeconfig, cm>>
  /\ UNCHANGED <<kind, disk, appfile, pki, conf, yaml, rootfs, cached, labelled, svc, tok, n>>

\* The masters of the command that are to join.
NewMasters == (op.touched \cap op.cf.M) \ {Master0}
NewWorkers == op.touched \cap op.cf.W

\* RemoteCertCmd: what `seautil cert gen` adds on the joining host.
CertGen(h) == GenerateAllKubernetesCerts(Sent(h), FreshThere, yaml[1])
JoinedDir(h, done) == Applied(Sent(h), CertGen(h).plan, done)

\* joinMasters: kubeconfigs, certificates, the certificates of the host itself,
\* kubeadm join.  A scale-up reads kubeadm.yaml and a token first.
JoinMasters ==
  /\ At("joinMasters")
  /\ IF yaml = None \/ ~Up
     THEN Ends /\ UNCHANGED <<etc, etcConf, promised, joined, fails>>
     ELSE /\ etcConf' = [h \in Hosts |-> IF h \in NewMasters THEN SentConf(h, JoinKubeConfigFiles) ELSE etcConf[h]]
          /\ \/ /\ \A h \in NewMasters : joined[h] = 0 /\ CertGen(h).ok
                /\ etc' = [h \in Hosts |-> IF h \in NewMasters THEN JoinedDir(h, Len(CertGen(h).plan)) ELSE etc[h]]
                /\ joined' = Without(joined, NewMasters, joined[Master0])
                /\ promised' = Without(promised, NewMasters, yaml[1])
                /\ GoesOn(op) /\ UNCHANGED fails
             \/ /\ \E h \in NewMasters : joined[h] # 0 \/ ~CertGen(h).ok
                /\ etc' = [h \in Hosts |-> IF h \in NewMasters THEN JoinedDir(h, Len(CertGen(h).plan)) ELSE etc[h]]
                /\ Ends /\ UNCHANGED <<joined, promised, fails>>
             \/ /\ NewMasters # {}
                /\ \E done \in 0..20 :
                     /\ \A h \in NewMasters : done < Len(CertGen(h).plan)
                     /\ etc' = [h \in Hosts |-> IF h \in NewMasters THEN JoinedDir(h, done) ELSE etc[h]]
                /\ Fault /\ UNCHANGED <<joined, promised>>
  /\ UNCHANGED <<kind, docVars, pki, conf, yaml, rootfs, cached, labelled, svc, tok, n>>

JoinNodes ==
  /\ At("joinNodes")
  /\ IF Up /\ \A h \in NewWorkers : joined[h] = 0
     THEN joined' = Without(joined, NewWorkers, joined[Master0]) /\ GoesOn(op)
     ELSE Ends /\ UNCHANGED joined
  /\ UNCHANGED <<kind, docVars, certVars, rootfs, cached, labelled, svc, tok, n, fails>>

----------------------------------------------------------------------------
(* The k0s runtime.                                                        *)

\* The service of the first master, then ~/.kube/config.
Bootstrap ==
  /\ At("bootstrap")
  /\ \/ svc[Master0] # "none" /\ Ends /\ UNCHANGED <<svc, joined, cm, kubeconfig, fails>>
     \/ bootstrapMaster0(n) /\ cm' = None /\ kubeconfig' = TRUE /\ GoesOn(op) /\ UNCHANGED fails
     \/ bootstrapMaster0(n) /\ cm' = None /\ Fault /\ UNCHANGED kubeconfig
  /\ UNCHANGED <<kind, disk, appfile, certVars, rootfs, cached, labelled, tok, n>>

GenerateJoinToken ==
  /\ At("joinToken")
  /\ generateJoinToken
  /\ GoesOn(op)
  /\ UNCHANGED <<kind, docVars, certVars, hostVars, svc, n, fails>>

\* The command goes on with the copies under way.
StartCopies ==
  /\ \/ At("copyM") /\ CopyJoinToken(ControllerRole, NewMasters) /\ op' = [op EXCEPT !.todo = Tail(@), !.left = NewMasters]
     \/ At("copyW") /\ CopyJoinToken(WorkerRole, NewWorkers) /\ op' = [op EXCEPT !.todo = Tail(@)]
  /\ UNCHANGED <<kind, docVars, certVars, hostVars, svc, tok, n, fails>>

\* One master after the other; a master without its kubeconfig is an error.
JoinControllers ==
  /\ At("joinM")
  /\ IF op.left = {} THEN GoesOn(op) /\ UNCHANGED <<svc, joined>>
     ELSE LET m == CHOOSE h \in op.left : TRUE
          IN \/ svc[m] # "none" /\ Ends /\ UNCHANGED <<svc, joined>>
             \/ /\ InstallController(m)
                /\ IF joined'[m] = 0 THEN Ends
                   ELSE op' = [op EXCEPT !.left = @ \ {m}] /\ UNCHANGED <<copying, lost>>
  /\ UNCHANGED <<kind, docVars, certVars, rootfs, cached, labelled, tok, n, fails>>

\* All workers at once; one that has a service is an error.
JoinWorkers ==
  /\ At("joinW")
  /\ LET bare == {h \in NewWorkers : svc[h] = "none"}
     IN InstallWorkers(bare) /\ (IF bare = NewWorkers THEN GoesOn(op) ELSE Ends)
  /\ UNCHANGED <<kind, docVars, certVars, hostVars, tok, n, fails>>

\* A copy arrives, or fails and nobody hears of it.
CopyEnds ==
  /\ \E h \in Hosts, r \in Roles :
       \/ CopyDone(h, r) /\ UNCHANGED <<lost, fails>>
       \/ CopyFails(h, r) /\ <<Master0, r>> \notin tok /\ UNCHANGED <<tok, fails>>
       \/ CopyFails(h, r) /\ fails < MaxFailures /\ fails' = fails + 1 /\ UNCHANGED tok
  /\ UNCHANGED <<kind, docVars, certVars, hostVars, svc, op, n>>

WorkerJoins(h) ==
  /\ ServiceJoins(h)
  /\ UNCHANGED <<kind, docVars, certVars, rootfs, cached, labelled, k0sVars, op, n, fails>>

----------------------------------------------------------------------------
(* Applications and the Clusterfile.                                       *)

\* upgrade and rollback make the driver once the cluster has the image, from the
\* document of the file itself.  The environment of the image goes to the hooks
\* and the applications, not into the file.
WithLateApp(o) ==
  LET ext == Ext[o.cf.image]
      env == MergeClusterWithImageExtension(o.cf, ext).env
      spec == ConstructApplication(o.cf.app, o.cf.cmds, o.cf.names, env, 0)
  IN [o EXCEPT !.app = Some(NewAppDriver(spec, ext)),
               !.cf = [o.cf EXCEPT !.app = IF @ = None THEN @ ELSE Some(spec)]]

\* Launch runs its commands in the rootfs of the first master.
Launch ==
  /\ At("launch")
  /\ LET o == IF op.app = None THEN WithLateApp(op) ELSE op
         d == o.app[1]
     IN IF rootfs[Master0] = "none" \/ ~d.ok THEN Ends
        ELSE GoesOn([o EXCEPT !.launched = Some([cmds |-> GetImageLaunchCmds(d), apps |-> d.launchApps])])
  /\ UNCHANGED <<kind, docVars, certVars, hostVars, svc, tok, n, fails>>

SaveApp ==
  /\ At("saveApp")
  /\ appfile' = TRUE
  /\ GoesOn(op)
  /\ UNCHANGED <<kind, disk, cm, kubeconfig, certVars, hostVars, svc, tok, n, fails>>

\* The file a command ends with.
Committed == IF op.cmd = "scale-down" THEN WithoutHosts(op.cf, op.touched) ELSE op.cf

\* The cluster is reached with the kubeconfig of the runtime the image names;
\* the image of an application names none and gets kubeadm's.
Reachable == Up /\ (Kube \/ op.cmd # "app")

\* SaveAll with CommitToCluster: the disk, then the config map.
Commit ==
  /\ At("commit")
  /\ disk' = Some(Committed)
  /\ \/ Reachable /\ cm' = Some(Committed) /\ GoesOn(op) /\ UNCHANGED fails
     \/ ~Reachable /\ Ends /\ UNCHANGED <<cm, fails>>
     \/ Reachable /\ Fault /\ UNCHANGED cm
  /\ UNCHANGED <<kind, appfile, kubeconfig, certVars, hostVars, svc, tok, n>>

\* apply: after a scale-up the files of the applications are not rendered again.
ToApp ==
  /\ At("toApp")
  /\ LET f == op.spec[1]
         o == AppInstall(f.image, f.app, f.cmds, f.names, f.env, op.free, op.cmd = "apply")
     IN IF o = Idle THEN Ends
        ELSE op' = [o EXCEPT !.torn = op.torn] /\ UNCHANGED <<copying, lost>>
  /\ UNCHANGED <<kind, docVars, certVars, hostVars, svc, tok, n, fails>>

----------------------------------------------------------------------------
(* Removal.                                                                *)

\* The order the runtimes keep: on a scale-down, and in k0s always, no master
\* is touched before every worker is done.
WorkersFirst(done) ==
  (~Kube \/ op.cmd = "scale-down") => (done \cap op.cf.M # {} => op.touched \cap op.cf.W \subseteq done)

\* What kubeadm reset or k0s reset leaves of the hosts.
Cleaned(done) ==
  /\ ResetHosts(done)
  /\ etc' = Without(etc, done, EmptyDir)
  /\ etcConf' = Without(etcConf, done, EmptyDir)
  /\ promised' = Without(promised, done, {})

\* ScaleDown of the runtimes.  k0s fails on a worker the API server does not
\* list, and then leaves the masters alone.
RemoveHosts ==
  /\ At("remove")
  /\ LET unknown == IF Kube THEN {} ELSE (op.touched \cap op.cf.W) \ Nodes
     IN \/ /\ unknown = {}
           /\ \E done \in SUBSET op.touched :
                /\ WorkersFirst(done)
                /\ Cleaned(done) /\ labelled' = labelled \ done
                /\ DoneOrFault(done = op.touched)
        \/ /\ unknown # {}
           /\ LET done == (op.touched \cap op.cf.W) \ unknown
              IN Cleaned(done) /\ labelled' = labelled \ done
           /\ Ends /\ UNCHANGED fails
  /\ UNCHANGED <<kind, docVars, pki, conf, yaml, rootfs, cached, n>>

\* Reset of the runtimes: without its first master there is no cluster.
Reset ==
  /\ At("reset")
  /\ \E done \in SUBSET op.touched :
       /\ WorkersFirst(done)
       /\ Cleaned(done)
       /\ IF Master0 \in done THEN cm' = None /\ kubeconfig' = FALSE /\ labelled' = {}
          ELSE labelled' = labelled /\ UNCHANGED <<cm, kubeconfig>>
       /\ DoneOrFault(done = op.touched)
  /\ UNCHANGED <<kind, disk, appfile, pki, conf, yaml, rootfs, cached, n>>

\* Distributor.Restore: with --prune it removes the base directory with the
\* rootfs in it, and on the first master the certificates sealer works on.
Restore ==
  /\ At("restore")
  /\ \/ GoesOn(op) /\ UNCHANGED <<rootfs, cached, pki, conf, yaml, fails>>
     \/ \E done \in SUBSET op.touched :
          /\ rootfs' = Without(rootfs, done, "none") /\ cached' = Without(cached, done, {})
          /\ IF Master0 \in done THEN pki' = EmptyDir /\ conf' = EmptyDir /\ yaml' = None
             ELSE UNCHANGED <<pki, conf, yaml>>
          /\ DoneOrFault(done = op.touched)
  /\ UNCHANGED <<kind, docVars, etc, etcConf, promised, joined, labelled, svc, tok, n>>

\* The files of Delete, one after the other; a missing one is an error.
RemoveFiles ==
  /\ \/ /\ At("rmDisk") /\ disk' = None
        /\ IF disk = None THEN Ends ELSE GoesOn(op)
        /\ UNCHANGED <<appfile, kubeconfig>>
     \/ /\ At("rmApp") /\ appfile' = FALSE
        /\ IF appfile THEN GoesOn(op) ELSE Ends
        /\ UNCHANGED <<disk, kubeconfig>>
     \/ /\ At("rmKubeconfig") /\ kubeconfig' = FALSE
        /\ GoesOn(op)
        /\ UNCHANGED <<disk, appfile>>
  /\ UNCHANGED <<kind, cm, certVars, hostVars, svc, tok, n, fails>>

\* `sealer cert`: one master after the other, the first one first; the
\* certificate is written before its key.
UpdateCert ==
  /\ At("update")
  /\ LET h == IF Master0 \in op.touched THEN Master0 ELSE CHOOSE m \in op.touched : TRUE
         r == UpdateAPIServerCertSans(etc[h], Fresh, op.alt)
         left == op.touched \ {h}
     IN \/ /\ ~r.ok /\ Ends /\ UNCHANGED <<etc, promised, fails>>
        \/ /\ r.ok
           /\ etc' = [etc EXCEPT ![h] = Applied(@, r.plan, 2)]
           /\ promised' = [promised EXCEPT ![h] = IF @ = {} THEN @ ELSE @ \cup op.alt]
           /\ IF left = {} THEN Ends ELSE op' = [op EXCEPT !.touched = left] /\ UNCHANGED <<copying, lost>>
           /\ UNCHANGED fails
        \/ /\ r.ok /\ Fault
           /\ etc' = [etc EXCEPT ![h] = Applied(@, r.plan, 1)]
           /\ UNCHANGED promised
  /\ UNCHANGED <<kind, docVars, pki, conf, yaml, etcConf, hostVars, svc, tok, n>>

----------------------------------------------------------------------------
Command ==
  \/ runWithClusterfile \/ runWithArgs \/ Apply \/ ScaleUp \/ ScaleDown \/ Delete
  \/ upgradeWithArgs \/ upgradeWithClusterfile \/ Rollback \/ Cert

CommandStep ==
  \/ Save \/ Distribute \/ RunHook \/ SetRoles
  \/ InitKubeadmConfig \/ GenerateCert \/ CreateKubeConfig \/ InitMaster0 \/ JoinMasters \/ JoinNodes
  \/ Bootstrap \/ GenerateJoinToken \/ StartCopies \/ JoinControllers \/ JoinWorkers
  \/ Launch \/ SaveApp \/ Commit \/ ToApp
  \/ RemoveHosts \/ Reset \/ Restore \/ RemoveFiles \/ UpdateCert
  \/ StepFails

\* Every command was typed.
Rests == IsIdle /\ n = MaxCommands /\ UNCHANGED vars

Next == Command \/ CommandStep \/ CopyEnds \/ (\E h \in Hosts : WorkerJoins(h)) \/ Rests

\* The copies go on beside the command, and the service manager starts a
\* service that could not join again.
Spec ==
  /\ Init /\ [][Next]_vars
  /\ WF_vars(CopyEnds)
  /\ \A h \in Hosts : WF_vars(WorkerJoins(h))

----------------------------------------------------------------------------
(* Properties.                                                             *)

\* The variables have their types: documents name known hosts and images, a
\* service is one of k0s, and the steps left are steps of commands.
TypeOK ==
  /\ TypeOKK0s
  /\ kind \in {"kubernetes", "k0s"} /\ appfile \in BOOLEAN /\ kubeconfig \in BOOLEAN
  /\ disk # None => IsDoc(disk[1])
  /\ cm # None => IsDoc(cm[1])
  /\ rootfs \in [Hosts -> {"none"} \cup DOMAIN Ext] /\ cached \in [Hosts -> SUBSET DOMAIN Ext]
  /\ joined \in [Hosts -> 0..MaxCommands] /\ labelled \subseteq Hosts
  /\ promised \in [Hosts -> SUBSET ({"base"} \cup Hosts \cup (UNION AltSets) \cup UNION {Split[v] : v \in DOMAIN Split})]
  /\ n \in 0..MaxCommands /\ fails \in 0..MaxFailures
  /\ LET steps == Steps IN \A i \in 1..Len(op.todo) : op.todo[i] \in steps

\* A Clusterfile that sealer keeps, on the disk or in the cluster, still has
\* every variable the user wrote in the file or with -e, repeated ones as the same
\* list and behind whatever the images bring, and names the registry and the
\* container runtime that are configured, however often the file was decoded,
\* merged and saved.  Variables whose name begins with that of one sealer computes
\* are not meant: checkAndFillCluster drops them.
EnvKept ==
  /\ disk # None => SaysWhatWasAsked(disk[1])
  /\ cm # None => SaysWhatWasAsked(cm[1])

\* A hook of an image runs in the rootfs of that image: the rollback hook before
\* the old image replaces the new one, the upgrade hooks after the new image
\* replaced the old one, and on a scale-up, a scale-down or a delete unless a
\* failure or another file had left a host with another image.  A command without
\* --ignore-cache is meant as long as it skips no host that has the flag of the
\* image and holds another one: then the hooks do run in the wrong rootfs.
HookMatchesRootfs ==
  ~IsIdle /\ ~op.torn => \A p \in op.hooked : p[1] = "file" \/ p[1] = p[2]

\* Masters that are in the cluster.
Members == {h \in Hosts : Kube /\ Up /\ joined[h] = joined[Master0] /\ promised[h] # {}}

\* All masters of a cluster trust each other: each has every file, each
\* certificate is signed by the authority beside it, the three authorities and
\* the service account key are those of the first master, and kubeconfigs name
\* that authority - although certificates are made on every master, in several
\* commands, over what failed ones left.
MastersShareTrust ==
  \A h \in Members :
    /\ AllFiles \subseteq DOMAIN etc[h]
    /\ SignedByItsAuthority(etc[h])
    /\ \A i \in 1..3 : LET ca == PathForKey(Families[i].ca) IN etc[h][ca] = etc[Master0][ca]
    /\ etc[h][PathForKey("sa")] = etc[Master0][PathForKey("sa")]
    /\ \A f \in DOMAIN etcConf[h] : etcConf[h][f].ca = etc[Master0][PathForKey("ca")].key

\* The API server's certificate of a master has every name that was asked for:
\* by the file it joined with and by each `sealer cert` that ended well.
SansKept == \A h \in Members : promised[h] \subseteq etc[h][PathForCert("apiserver")].sans

\* What is launched is what the user asked for: the commands given with the
\* file or the flags alone if there are any, and every launched application with
\* configs is rendered with the values of the last of them, and for other
\* variables with the cluster's.  The lists of several configs may share memory
\* (op.free), and then only the commands are what was asked for.
AppAsAsked ==
  ~IsIdle /\ op.launched # None =>
    LET done == op.launched[1]
        configs == op.asked.configs
    IN /\ op.asked.cmds # <<>> => done.cmds = op.asked.cmds
       /\ (op.rendered # None /\ op.free = 0) =>
            \A i \in 1..Len(configs) :
              LET a == configs[i].name
                  env == op.rendered[1][a]
                  said == Merge(ConvertStringSliceToMap(configs[i].env), op.asked.want)
              IN /\ \A j \in (i + 1)..Len(configs) : configs[j].name # a
                 /\ IsInSlice(a, done.apps) /\ a \in DOMAIN op.rendered[1]
                 => \A k \in DOMAIN said : k \in DOMAIN env /\ env[k] = said[k]

\* A k0s worker whose service is installed joins, unless the copy of its token
\* failed or was cut off by the end of the command, or the worker or the
\* cluster is removed.
TokenedHostsJoin ==
  \A h \in Hosts :
    svc[h] = WorkerRole ~> \/ joined[h] # 0 \/ svc[h] = "none" \/ ~Up
                           \/ <<h, WorkerRole>> \in lost
=============================================================================
