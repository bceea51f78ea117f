# A TLA+ model of sealer

sealer packs a Kubernetes cluster and its applications into one image and
installs, scales and removes clusters from it. It is a command-line program: a
command runs on one machine of the cluster, connects to all others over SSH and
ends. There is no daemon and no coordinator; what a command leaves behind on the
hosts, in the `sealer-clusterfile` ConfigMap and in local files is all the state
the next command starts from. That is where the difficulty of the program lies:
every command is a long sequence of remote steps, each of which may stop half
way, and nothing is rolled back.

This directory holds the specifications, the TLC configurations and the proofs.

## 1. Inventory

| Component | State it keeps | Operations | Hard behaviour | What makes it correct |
|---|---|---|---|---|
| cluster commands (`cmd/sealer/cmd/cluster`) | the local Clusterfile | apply, scale-up, delete of nodes, delete --all, run, upgrade, rollback | work from a file that need not describe the cluster | protected hosts are never removed; what failed can be cleaned up |
| Clusterfile (`pkg/clusterfile`, `cmd/sealer/cmd/utils/cluster.go`) | ordered masters, workers; one copy on disk per machine, one in the cluster | SaveAll, GetActualClusterFile, ConstructClusterForScaleUp/Down | two copies that diverge after a failure | the first master stays the first |
| cluster installer (`pkg/cluster-runtime`) | none of its own; rootfs, aliases and container runtime on the hosts | Install, ScaleUp, ScaleDown (two passes), UnInstall, Upgrade, Rollback | a stop at every step; hosts that disconnect between check and use | no partial run cuts a worker off |
| kubeadm runtime (`pkg/runtime/kubernetes`) | kubelets, Node objects, the API server virtual server of every worker | Install, ScaleUp, ScaleDown, Reset | concurrent joins, unnoticed failures of clean-ups | every worker reaches a master |
| registry (`pkg/registry`) | registry containers, the registry virtual server of every worker | Reconcile, Clean, InstallOn, UninstallFrom | taken down before the rest of a scale-down | every worker reaches a registry |
| container runtime (`pkg/container-runtime`) | the runtime on every host | InstallOn, UnInstallFrom | the uninstall script is on the host itself | it can be uninstalled wherever it was installed |
| infrastructure driver (`pkg/infradriver`) | roles and environment per host | Cmd, Copy, Execute, aliases, platforms | reachability changes at any time | |
| peer-to-peer distributor (`p2p_distributor.go`, `cmd/dist-receiver`) | one process per host with a stage | distributeImpl, waitForState, goNext; /stage, /next, /connect | concurrent processes, requests nobody waits for, a data race, receivers left behind | a reported image is in place; barriers hold; rounds end |
| SFTP distributor (`scp_distributor.go`, `utils/ssh/scp.go`) | rootfs and cache flags on the hosts | Distribute, DistributeRegistry, Restore | interrupted and silently failing copies; stale flags | a flag vouches for its image |
| Clusterfile documents (`decoder.go`, `cmd/utils/cluster.go`) | environment, registry, applications and plugins of a file | decode, merge with flags, merge with the image | done again on every load and save | a file keeps what its user wrote |
| certificates (`pkg/clustercert`) | key, certificate and kubeconfig files on every master | generate, join, `sealer cert` | many writes, each kept by the next command | all masters share one trust, names are kept |
| hooks (`pkg/cluster-runtime/hook.go`) | none; plugins come from the image | host and cluster phases | scripts run in a rootfs that upgrades replace | a hook meets its own rootfs |
| k0s runtime (`pkg/runtime/k0s`) | services and token files | init, join, reset | copies nobody waits for | a worker with a token joins |
| application driver (`pkg/application`) | none | rendering, Launch, Save | lists that share memory | what is launched is what was asked for |
| image commands (`cmd/sealer/cmd/image`, `alpha`) | the local store, an archive | build, tag, rmi, save, load, push, pull, manifest, mount | many steps with deferred clean-ups; kills | no half-made image under a user's name, nothing left over |
| Kubefile parser (`build/kubefile`) | the build context | scanning, one handler per instruction | downloads that fail, continuation and directives | what is launched exists |
| image engine (`pkg/imageengine/buildah`) | images, lists, containers | one per command | names that move between images | |
| image save (`pkg/image/save`) | the registry directory of an image | SaveImages, SaveImagesWithAuth | two levels of goroutines, retries, a shared error variable | a reported image is complete |
| infrastructure providers (`pkg/infra`) | cloud resources, containers, annotations of the Clusterfile | Apply, CleanUp | lost answers, retried creations, crashes | what is recorded exists; what is asked for converges |
| rendering, checkers, debug and logging, exec, clients, other utilities | | | | see section 8 |

The components interact by plain calls: a command reads a Clusterfile, builds an
infrastructure driver and a distributor, and calls the cluster installer, which
calls distributor, container runtime, registry and Kubernetes runtime in turn.
Shared state is only what is on the hosts. `PROJECT.json` lists the components
with their status, and the hazards, each at its line.

## 2. Modules

| Module | Models | Extends or uses |
|---|---|---|
| `Clusterfile` | hosts of a Clusterfile and the operators that change them | |
| `ClusterLifecycle` | the commands, step by step, over the hosts | `Clusterfile` |
| `MCClusterLifecycle` | the small clusters TLC checks | `ClusterLifecycle` |
| `ClusterLifecycle_proofs` | type correctness, the guarantees around master0 and its control plane, virtual servers follow the masters | `ClusterLifecycle`, TLAPS |
| `Distributor` | abstract: what a distributor promises | |
| `P2PDistribution` | the peer-to-peer protocol | instantiates `Distributor` |
| `P2PDistribution_proofs` | type correctness, delivery, refinement, barriers | `P2PDistribution`, TLAPS |
| `ScpDistribution` | the SFTP distributor and its cache | |
| `ScpDistribution_proofs` | type correctness, honest flags, forced copies | `ScpDistribution`, TLAPS |
| `ClusterDocs` | what a Clusterfile says; decoding and merging | |
| `Application` | application documents, launch commands, environments | `ClusterDocs` |
| `Hooks` | plugins, phases, scopes | |
| `ClusterCerts` | certificate and kubeconfig files as plans of writes | |
| `K0sRuntime` | services, tokens and their copies | |
| `ClusterCommands` | every cluster command over documents, rootfs, certificates, services and applications | the five above |
| `MCClusterCommands` | the images, files and flags TLC checks | `ClusterCommands` |
| `ClusterCommands_proofs` | type correctness, one trust among the masters, certificate names | `ClusterCommands`, TLAPS |
| `CommandDocs_proofs` | documents, hooks and applications | `ClusterCommands_proofs` |
| `Kubefile` | scanning and handling of instructions | |
| `ImageStore` | the operations of the image engine as functions of a store | |
| `ImageSave` | the concurrent download of container images | |
| `BuildImage` | the image commands | the three above |
| `MCBuildImage` | the Kubefiles, options and stores TLC checks | `BuildImage` |
| `BuildImage_proofs` | complete manifest lists, launchable images, clean context, no intermediates, complete downloads, load | `BuildImage`, TLAPS |
| `AliProvider`, `ContainerProvider` | the two providers | |
| `Infra` | the choice of a provider | both providers |
| `MCInfra` | the requests TLC checks | `Infra` |
| `AliProvider_proofs`, `ContainerProvider_proofs` | what each provider keeps true | `Infra`, TLAPS |

Operators whose comment begins with "Mutation:" or "Mutant:" are variants of the definition
that follows them, as a plausible mistake in the code would make it. They are
not used by the specifications; each property is checked to fail when one of
them replaces the definition it is a variant of (`PROJECT.json`, "mutants").

### Clusterfile and ClusterLifecycle

A Clusterfile is reduced to `pos`, the position of each host in the master list
(0: not a master), and `workers`. The code uses the order of the masters only to
take the first one, or the first remaining one, and to append.

State: `up` (hosts that answer over SSH), `kube` (what kubeadm set up on a
host), `node` (Node objects), `lvs` and `rlvs` (the endpoints of the API server
and registry virtual servers of a host), `on` (aliases, rootfs, container
runtime), `reg` (registries), `disk` and `cm` (the Clusterfile on each machine,
and in the ConfigMap), `op` (the command and the step it is at).

Each step is an action named after the function it models; a step
takes a set of hosts, handles any subset of the reachable ones and reports
success only if it handled all (`Finish`), or goes to `failed`. Steps the code
performs in list order and whose order matters (registries, masters joining)
handle a prefix (`InOrder`). A killed sealer is a step that stops. The order of
the steps is the code's:

- apply: `alias`, `rootfs`, `cri`, `registry`, `regconf`, `init`, `joinMasters`,
  `lvsOld` (nothing to do), `lvsNew`, `joinNodes`, `commit`;
- scale-up: `checkUp`, then the same without `init`;
- scale-down: (`regClean` with an HA registry,) `checkDown`, then for the hosts
  that answered `delNodes`, `delMasters`, `lvsRemain`, `unregconf`, `uncri`,
  `unalias`, `restore`, then for the others `delNodes`, `delMasters`,
  `lvsRemain`, then `commit`;
- delete: `checkAll`, `reset`, `regClean`, `unregconf`, `uncri`, `unalias`,
  `restore`, `rmFiles`.

Assumptions about use: the operator gives a host one role; apply runs on the
first master of its file; scale commands run on a master; scale-down is not
given a Clusterfile with `-f`; the Clusterfile has host aliases. Hooks, roles,
labels, taints and application launch keep no state here: one of them failing is
the next step stopping before it did anything.

### P2PDistribution and Distributor

State: what `distributeImpl` waits for (`pc`), the current round (`cur`: one per
image and directory), the poll under way (`polled`, `seen`, `perr`), the SSH
command (`ssh`) and the receiver process (`recv`) of each host, the /next
requests under way (`req`), the files of each host and place (`files`: the round that
wrote them, and whether they are whole) and the round reported last there (`ok`).

A place is not the destination the receiver is given: `createTarGz` names the entries
of the tarball by the full path they are read from, and `extractTarGz` joins that to
the destination, so the files of an image mounted at `m` arrive below `dest/m`
(`Place`; finding 6). The receiver empties and writes the files one by one
(`CreateFile`, `WriteFile`) over what is there; a crash leaves what it has come to.

`good` in `waitForState` is incremented by goroutines without synchronization;
after a poll in which the hosts of `seen` answered as expected it may have any
value from 1 to their number (`Good`). /next requests are delivered when the
receiver waits for one, whatever round they were meant for. Faults (lost and
repeated requests, failing polls, SSH failures, crashes of receivers, death of
sealer) are counted and bounded by `MaxFaults`. A receiver whose sealer died
lives on unless it also crashes; a request its handler already holds survives.
/connect is left out: its target list always ends in a comma, the last element
does not parse, and `connectToPeers` returns before it connects to anyone.

`Distributor` says what the interface promises: a distribution is reported only
when every target holds every file of it, and nothing older is written over a reported
one. Where on the host the files are is left to the implementation, since the two
distributors of the code differ in it. `PromiseKept` is `Distributor!Spec` with `files`
and `ok` as they are.

### ScpDistribution

State: per host and area (rootfs, registry data) the origin of each file
(`data`) and the images with a cache flag (`flag`), the command, and one
goroutine per host (`st`, `todo`). Two history variables, `begun` and `lost`,
record what was copied to an area since it was empty and where the current
command lost a file without noticing. Kinds of fault: a connection that fails
(`conn`, reported), a transfer that fails (`silent`, logged only, the rest of
the directory is left out), a killed sealer (`kill`), an `rm -rf` cut short
(`rm`). Files of an older image that the newer one does not have are not
represented: every image has the same set of files.

### ClusterCommands and the modules it composes

`ClusterLifecycle` looks at one command as hosts see it: who is reached, in which
order, and what is left when a step stops on some of them. `ClusterCommands` looks
at what is *carried from one command to the next*: the Clusterfile on the disk
(`disk`) and in the cluster (`cm`), the image in the rootfs of every host
(`rootfs`) and the cache flags in it (`cached`), certificates and kubeconfigs in the
work directory (`pki`, `conf`) and
on the masters (`etc`, `etcConf`), the names in `kubeadm.yaml` (`yaml`), the nodes
and their labels (`joined`, `labelled`), k0s services and tokens (`svc`, `tok`,
`copying`, `lost`), the local files (`appfile`, `kubeconfig`) and the command under
way (`op`). `promised` is a history variable: the certificate names asked for.

A command of the user (`runWithClusterfile`, `runWithArgs`, `Apply`, `ScaleUp`,
`ScaleDown`, `Delete`, `upgradeWithArgs`, `upgradeWithClusterfile`, `Rollback`,
`Cert`) reads and merges its documents, refuses what the code refuses, and starts a
list of steps (`InstallSteps`, ..., in the order of the code). Each step is an
action; it succeeds, ends the command with an error, or fails half done: any prefix
of its writes, or any subset of hosts where the code works on them in parallel.

- `ClusterDocs`: an environment is a list of pairs, as in the code, so the order in
  which images, files and flags are put together matters. Two fields are carried along
  for `EnvKept`: `want`, the pairs the user wrote, and `forced`, the computed variables
  that were given with `-e` since the file was decoded (they hold until it is decoded
  again). Decoding drops by prefix: `Reserved` has the computed variables and the
  names that begin with one of them (`Extended`; finding 11).
- `Application`: `Appended` models Go's `append` to a list with free slots, in which
  the variables of several configs overwrite each other; `op.free` is the free room.
- `WithLateApp`: upgrade and rollback save the Clusterfile before they make the
  application driver, so the file on the disk lacks the application that the commit at
  the end has. `ExtraSANs`: the names of the `CertSANs` variable, of which only the last
  value counts (finding 12), added to those of `NewKubeadmConfig`.
- `ClusterCerts`: key material is a number drawn once per run of the generator, a
  certificate records the number of its key and of its signer. Generation is a plan
  of writes, of which a failing step makes a prefix.
- `K0sRuntime`: `CopyJoinToken` starts copies (`copying`) that end on their own
  (`CopyEnds`) or are cut off when the command ends; the service manager lets a
  worker join later (`WorkerJoins`).

Every distribution is made with or without `--ignore-cache` (without it by default):
without it a host whose rootfs has the flag of the image is skipped, whatever files it has.
`HookMatchesRootfs` exempts two kinds of command (`op.torn`). One that skips a host
which has the flag of the image and carries another one: install v1, upgrade to v2,
upgrade to v1 does run v1's hooks in v2's rootfs, which is finding 4 at the scale of
commands. And a scale-up, scale-down or delete that starts while some host carries
another image than the file names: a failed upgrade leaves such hosts, and so does
an `apply` of a file that names another image, which scales up and gives the new image
to the new hosts only.

Assumption about use: commands are typed on the first master. Parallel contact with
hosts and, for apply, scale-up, scale-down and delete, container runtime, registry and
virtual servers are those of `ClusterLifecycle`. The registry steps of upgrade and
rollback are in *no* module: `Upgrader.Upgrade` (upgrader.go:42-69) and `Rollback`
(rollback.go:33-60) ask the container runtime for its information, reconcile the local
registry and install the registry configuration on masters and workers, and
`ClusterLifecycle` has neither command. `UpgradeSteps` and `RollbackSteps` have the
other steps, and the component is listed as partly modelled.

### Kubefile, ImageStore, ImageSave and BuildImage

`Kubefile` scans lines into instructions (`Parse`: directives, comments,
continuations) and handles one instruction per step; text is abstracted to words, and
what a source contains (a directory, its kinds of files, the images they name) is the
constant `Src`. `ImageStore` has one function per engine operation, from a store to
the store after it; digests are numbers that are never used again, at most
`MaxImages` of them. FROM is pulled twice, as in the code: `ParseKubefile` pulls it for the
platform of this machine, or that of a flag on FROM (finding 13), and takes the
applications from it; when the engine builds, `PullBase` pulls it for the platform that is
built. The extension of an image may so name applications of another platform's base;
`LaunchableApps` is about the extension, not about the files below it. `ImageSave`
has a goroutine per repository and one per blob; the
shared error variable of save.go:464 is part of the state, so a goroutine's `Stat` and
its test are two steps. `BuildImage` runs the commands one at a time, each a sequence
of steps; any step that calls the engine may fail, and `Crash` kills the process,
leaving what it had made.

### AliProvider, ContainerProvider and Infra

A cluster is given to one provider. `AliProvider` follows Apply resource by resource:
a request may fail, or take effect and lose its answer, upon which `utils.Retry` sends
it again; saving the Clusterfile may fail, and the process may die between two steps
and start again from the file. `ContainerProvider` runs and removes containers one
at a time; Docker gives the address of a removed container out again.

## 3. Runs

| Run | Instance | Shows |
|---|---|---|
| `lifecycle_nonha` | 3 hosts (1 master, 1 worker, 1 spare), commands from two machines, 4 commands, 1 host down at a time | `RegistryServed`, `WorkerKeepsMaster0`, `Master0Kept`, `LvsFollowsMasters` with a single registry |
| `lifecycle_ha` | 3 hosts (2 masters, 1 worker), commands from one machine, 3 commands | `WorkerReachesRegistry`, `WorkerReachesAPI`, `ControlPlaneSurvives`, `LvsFollowsMasters` with a registry per master |
| `p2p` | 2 hosts, 1 place, images of 2 files, 3 rounds, 2 faults, with fairness | `ReportedIsInPlace`, `PromiseKept`, `NoneFetchesEarly`, `NoneLeavesEarly`, `RoundsSucceed` |
| `scp_cache` | 2 hosts, 2 images of 2 files, 3 commands, 2 faults of any kind | `FlagIsHonest`, `ForcedSyncDelivers` |
| `scaleup_orphan` | 3 commands | `NothingLeftBehind` is violated (section 6) |
| `scaledown_panic` | 2 commands | `UnreachableHostIsSkipped` is violated |
| `failed_apply_cleanup` | 2 commands | `CleanUpCanRun` is violated |
| `rollback_cache` | 1 host, 3 commands, no fault | `DistributeDelivers` is violated |
| `commands` | 2 masters, 1 worker, 2 cluster images and 1 application image, 4 Clusterfiles (2 of them refused), 3 commands, 1 step that fails, kubeadm and k0s | `EnvKept`, `HookMatchesRootfs`, `MastersShareTrust`, `SansKept`, `AppAsAsked`, `TokenedHostsJoin` |
| `image_build` | 2 commands, 9 kinds of build, 2 platforms, 2 container images of one repository, 1 failed download, 1 failed request, 1 kill, with fairness | `ManifestComplete`, `NoIntermediateLeft`, `LaunchableApps`, `AuthComplete`, `LoadRestores`, `ContextClean`, `CommandEnds` |
| `save_race` | 1 build on a base that holds one blob, no fault | `PlainComplete` is violated |
| `provision` | either provider, 3 calls of Apply, 2 faults; up to 2 masters and 1 worker in the cloud, up to 2 of each on 4 container addresses | `SavedIsReal`, `ClusterEIPServes`, `Converged`, `ClearLeavesNothing`, `ListedHostsRun`, `FirstMasterLabelled`, `CleanUpRemovesAll` |

Run one with `tlc -workers 2 -config p2p.cfg P2PDistribution`.

Bounds. `MaxOps`: the interesting cases need an install, a command that fails and
one that starts from what it left; the fourth command of `lifecycle_nonha` lets a
stale file on a second master come into play. `MaxDown` = 1 lets a host disappear
between a check and a use and come back. `MaxPos` = 2 is enough for two masters.
Two hosts are the least for a barrier and for a lost increment; three rounds with
two faults let a receiver of a killed round meet the next round and the one after
it. Two files make a copy, or the unpacking of a tarball, interruptible between them.

`MaxCommands` = 3 in `commands` with `MaxFailures` = 1 lets a command fail half done,
a second one build on what it left and a third meet the result; install, upgrade and
rollback fit as well. The worker comes with a scale-up. In `image_build` two commands with `MaxCrashes` = 1 let a
command meet a store that a killed one left; `Gor` = 2 slots for two images of up to
two blobs make the goroutines wait for each other, and `RetryTime` = 1 with
`MaxNetFaults` = 1 and `MaxDownloadFaults` = 1 lets a retry happen and succeed.
`MaxImages` = 16 is enough for two builds of two platforms; a build is not started
without room for its images. In `provision` three calls of Apply are an install, a
change and a clean-up or a repair; with two faults a repair can fail too (`MaxApply`,
`MaxFaults`, `MaxContainerApply`, `MaxDockerFaults`). Addresses are symmetric.

`p2p`, `scp_cache` and `provision` switch deadlock checking off: the number of rounds and
commands is bounded, after which sealer really is done (or, after a fault, waits
for ever in `waitForState`). The other passing runs check for deadlock.

`lifecycle_ha` has one operator machine on purpose: with commands issued from
two masters, a failed scale-down of the second master followed by a scale-down
of the first from the second removes the last registry, because `Reconcile`
takes every master of the file to run one. The code does send operators to another
master: scaling down the master one is on is refused with "you can login other master
to execute this deletation" (delete.go:195). That alone is one
command from elsewhere; what breaks the cluster is the failed scale-down before it,
of which the message says nothing. The run, and the theorems about an HA
registry, therefore claim nothing for operators that follow that advice. It is recorded as a
hazard, and not as a finding, since no text promises that the registry survives it.

## 4. Fairness

Three properties need fairness. `RoundsSucceed` (`FairSpec`): weak fairness of polls, starts
of receivers, their stages and deliveries: goroutines and processes are
scheduled, and a request that is not lost arrives. Strong fairness of `PollPass`:
`waitForState` polls again and again, and when all hosts stay ready not every
poll loses an increment of `good`. No fairness of faults and of `StartRound`. The
property is claimed only as long as no fault has happened: after one the code may
indeed wait for ever, since it has no time-out.

`CommandEnds` (`BuildImage`): weak fairness of `BuildStep`, the next step of a command
that was started, which the Go scheduler grants; none of starting a command or of
`Crash`. It is about goroutines that wait for a slot and about retries.

`TokenedHostsJoin` (`ClusterCommands`): weak fairness of `CopyEnds`, since goroutines
go on while sealer runs (copies it leaves behind are cut off by the end of the
command), and of `WorkerJoins`, since `k0s install` registers a service that the
service manager starts again until it joins. Commands and their steps are not fair.

## 5. Proofs

The theorems hold for every set of hosts, images, addresses and files, every
Clusterfile, Kubefile and request, and every bound, under the assumptions named in
the modules, which TLC evaluates on every run:

| Assumption | Says |
|---|---|
| `MaxPosAssumption`, `LifecycleAssumption` | the file given to apply is well-formed, lists its masters once and no host in both roles |
| `P2PAssumption` | finitely many hosts |
| `ScpAssumption` | the marks for no file and a broken file are not images |
| `WantsAssumption` | there is a request, and it gives a number of instances for each role |
| `ContainerAssumption` | the mark for no address is not an address; hosts are asked for in numbers |
| `BuildAssumption` | stores, archives and registries have the shape the engine keeps them in, no working container and no temporary name at the start; users do not use the names of temporary tags; archives and registries hold images and no lists; a build has a name and at least one platform |
| `CommandsAssumption` | the first master is a host; the bounds are numbers |
| `ImagesAssumption` | the environment and the plugins of an image are lists, and its plugins come from it |
| `FilesAssumption` | a Clusterfile has the fields of one, names known hosts and images, gives a host one role and names the first master as a master |
| `FlagsAssumption` | flags name known hosts and images and the first master as a master |

Two hypotheses are written in the theorems that need them. `Operators \subseteq
{M0}`: commands are typed on master0 (section 3 says what happens otherwise with an
HA registry). `RealRequests`: every request asks for a master; when none is asked
for, the provider spares master0 all the same and the IPList it saves is stale.

### The cluster

- `TypeCorrect` (`ClusterLifecycle_proofs`): `TypeOK`, one step per action, with
  lemmas on what the file operators return.
- `Master0Invariant`: `Master0Inv`. None of `RegistryServed`,
  `WorkerKeepsMaster0` and `Master0Kept` is inductive: a command that picks up a
  stale Clusterfile in which another host comes first could take master0 down.
  The invariant therefore says that *every* Clusterfile anywhere (committed, on any
  disk, in the running command) starts with the same master0 (`FilesStartWithM0`:
  appending puts hosts last, removing keeps the order, and master0 is protected),
  that commands run only their own steps (`StepOfCommand`), that only apply and
  delete work on master0 (`TargetsOfCommand`), and what the steps rely on
  (`StepsInOrder`: the registry is up before `init`, Kubernetes is gone before the
  registry is cleaned, virtual servers are written before workers join).
  `RegistryAlwaysServed`, `WorkersAlwaysKeepMaster0` and `Master0AlwaysKept` follow.
- The same invariant holds with an HA registry when commands are typed on master0.
  `WorkersAlwaysReachAPI`, `WorkersAlwaysReachRegistry` and the action property
  `ControlPlaneAlwaysSurvives` follow: master0 stays behind the virtual servers of
  every worker, whatever step of whatever command stops.
- `VirtualServersFollowMasters`, for operators on any
  machine: `ServersInv` adds to `LvsFollowsMasters` what the running command has
  already written when it comes to a step (`AddedSoFar`, `RemovedSoFar`). The
  second pass of a scale-down, over the disconnected hosts, writes the virtual
  servers again; the invariant has to tell the passes apart (`PassOfStep`).

### The distributors

- `P2PTypeCorrect`, `P2PInvariant` (`P2PDistribution_proofs`): `P2PInv` says that a
  live receiver, whoever started it, belongs to a round newer than any reported at
  its place and has written what it counts as written, that an SSH command that ended
  well means that all files are there and the process is gone, and that the current
  round is not reported yet. `ReportedAlwaysInPlace` and the refinement
  `P2PKeepsPromise` follow: `CreateFile` and `WriteFile` are a `Deliver` of one file,
  `RoundOk` is a `Report`, every other step a stutter.
- `Stage1IsABarrier`, `Stage2IsABarrier`, from `ProtocolHolds`: before any fault,
  `BarrierInv` says of each point `distributeImpl` has come to which stages the
  receivers may be in and how many requests are under way to each of them, and
  that a host that was seen in a stage has not left it during a poll. `good` may
  lose increments but never gains any, so passing a barrier means that every host
  was seen.
- `ScpTypeCorrect`, `CacheFlagsAreHonest`, `ForcedSyncAlwaysDelivers`
  (`ScpDistribution_proofs`): `ScpInv` adds what a goroutine under way knows: what
  it no longer has to copy is there or was lost (`CopiedSoFar`), and a loss is on
  record before the flag is written (`LossIsMarked`).

### The providers

- `SavedResourcesExist`, `ElasticIPServes` (`AliProvider_proofs`): neither is
  inductive for the file alone, since Apply works on the object in memory. `AliInv`
  says the same of both, and that the file is never ahead of the object
  (`FileBehindObject`): a failed save leaves an older file, not a wrong one.
- `ApplyConverges`: as long as nothing but saving failed, the instances are in the
  recorded switch and group, every role has been brought to its number and size
  up to the step Apply is at, and the lists hold the addresses (`InPlace`,
  `AllListed`, `Reconciled`). `ClearingLeavesNothing`: without faults the cloud has
  nothing that is not recorded, and what is already cleared is gone (`ClearedInv`).
- `FirstMasterIsLabelled`, `ListedHostsAlwaysRun`, `CleanUpLeavesNoContainer`
  (`ContainerProvider_proofs`): `ContainerInv` follows the loops of Apply host by
  host: what is to be removed is the end of the list, one master stays, ids and
  addresses belong to one container each although Docker gives addresses out again.

### The image commands (`BuildImage_proofs`)

The lemmas at the start say what each engine operation does to a store
(`Becomes(s, t, N)`: the store keeps its shape, IDs are not used again, no image has
a name it did not have except those of N, and no container is new). The invariant is
the conjunction of

- `CommandInv`: the record of the last command describes the one in progress;
- `StoreInv`: the shape of store, archive, registries and parse result, with every
  application that is launched known, whichever platform's base it was taken from; gives
  `ImagesCanLaunch`;
- `ContextInv`: the directories in the build context are those before the build plus
  the ones its parse result will remove; gives `SuccessfulBuildLeavesNoFiles`;
- `TempInv`: until a command is killed only the temporary image of the build in
  progress has a temporary name, and every working container is that image's, is
  being mounted or was left mounted; gives `NoBuildLeavesIntermediates`;
- `AuthInv`: every image of a goroutine that is done is complete *or its tag is moved
  by a goroutine that is not done*. Tags of the directory do not name the domain, so
  two goroutines do write the same tag, and without the second case the invariant
  is false; the one that finishes last looks at the shared tag again. Gives
  `AuthDownloadsAreComplete`;
- `LoadRestores`, inductive with the others; stated by `LoadRestoresSaved`.

`MultiPlatformBuildsAreComplete` needs three more conjuncts, for any base image and any
list of platforms:

- `TaskInv`: the build is the one on record, and the platforms that are left are the end
  of the list it was given;
- `PlaceInv`: the temporary image has the temporary name and the platform at hand, and
  was built with a key. A committed image has none, so the deferred removal of the
  temporary image never takes an instance of the list with it;
- `ListInv`: the list of the build has one name and no container, and one image for
  each platform that is done (`Good`). The exception is real: a `FROM` that names
  the image being built may pull it, the name moves from the list to that image
  (`Stolen`), every later addition fails, and so does the build. In the end the list is
  whole, or it is gone, since removing its only name deletes it.

TLC checks the properties on the instance of `image_build` as well.

### The cluster commands (`ClusterCommands_proofs`, `CommandDocs_proofs`)

Both hold for kubeadm and k0s images, and wherever a step fails: after any prefix of
its writes, or on any subset of its hosts.

- `MastersAlwaysShareTrust` and `SansAreAlwaysKept`, from `InvHolds`. Neither is
  inductive: a master that joins takes its authorities from the work directory, which
  an earlier command may have left half-written. `Inv` therefore says that
  - the work directory is coherent at every moment (`Coherent`: a certificate that is
    there is signed by the authority that is there, kubeconfigs name that authority), that
    nothing is on the first master that is not in it, and that it is emptied only
    after the first master left the cluster (`WorkInv`);
  - while the cluster is up the work directory is complete and every master has its
    keys (`TrustInv`), and no master is certified a second time (`SansInv`);
  - the number a command is about to give a cluster is new, so that hosts that a failed
    delete left behind are not taken for members (`NumberInv`), and only masters have
    promises (`PromiseInv`);
  - the steps that are left are in the order of the code (`OpInv`, `GoodSteps`), which is
    what makes "before", "after" and "not yet" above well-defined.

  The key lemmas say what a prefix of a plan of writes leaves of a coherent directory.
- `TypeCorrect`: `TypeOK`, with the names of certificates drawn from those the files and
  commands give.
- `EnvIsAlwaysKept`: every document sealer keeps or works with is `Fine`: the pairs of
  the user are the last ones of their kind in its environment, all of them and in their
  order (so a repeated variable is the same list), a computed variable has the
  value of the file or that of the last `-e`, the document's first master is a master,
  and its own plugins are those of the file. Variables whose names begin with that of a
  computed one are dropped by the code and no pairs of the user in this sense.
  What decoding, filtering and merging do to lists of any length is proved
  by induction through the least place where a claim fails (`Least`, from the
  well-foundedness of `<` on the numbers), not by an induction theorem.
- `HooksAlwaysMatch`: `HookMatchesRootfs` says nothing of hooks that are still to run.
  `HooksFit` says that the plugins of the command fit the hosts in one of four ways: the
  hosts carry the image of the file already; they will, because saving and distributing
  it come before the next phase; the command is a rollback that has not distributed yet
  and its plugins are those of the first master's rootfs; or no phase is left. A command
  that the cache flag, or what an earlier failure left, made torn is exempt.
- `AppsAreAsAsked`: the driver keeps what was asked until it launches; a later config of
  the same application overrides an earlier one, and the cluster's variables fill in the
  rest.

### Only model-checked

`RoundsSucceed`, `CommandEnds` and `TokenedHostsJoin`: liveness under fairness is out of
the prover's reach. Every other property of a passing run is a theorem.

## 6. Findings

1. `scaleup_orphan`: the Clusterfile saved "to clean the cluster node if ScaleUp
   failed" is not the one a later delete uses.
2. `scaledown_panic`: a host whose platform cannot be read is not skipped; the
   command ends in a nil dereference.
3. `failed_apply_cleanup`: the clean-up of a failed apply needs files the failed
   apply did not get to.
4. `rollback_cache`: a rollback is skipped by the cache because the flag of the old
   image outlives its files.

5. `save_race`: goroutines that save blobs share an error variable; a missing blob is
   taken for present and SaveImages reports success.

Met while modelling, followed by the models as the code does it, without a run of
their own:

6. The tarball of the peer-to-peer distributor carries the full path of the mounted
   image, so the files arrive below the destination and not in it.
7. `ConstructApplication` swaps kind and API version, so the application that `run`
   records is dropped when the file is read again.
8. The environments of several application configs may share memory.
9. Upgrade and rollback launch applications whose files were not rendered.
10. Certificate names written in a Clusterfile are dropped by `NewKubeadmConfig`.
11. `checkAndFillCluster` drops every variable whose name begins with that of a variable
    sealer computes, as a user's `RegistryPortRange`.
12. Of a repeated `CertSANs` variable only the last value is used.
13. FROM is pulled for the platform of this machine when the Kubefile is parsed, and the
    image records that base's applications.
14. `CopyJoinToken` of the k0s runtime does not wait for its copies.
15. `apply` on a running k0s cluster takes its controllers for new masters.
16. An application image on a k0s cluster is launched and then not committed.
17. `--apps` is ignored when the image has global commands.
18. `--distributor` is ignored for application images.
19. A failure between the two writes of `sa.key` and `sa.pub`, or of an authority's
    certificate and key, fails every later install until a delete with `--prune`.
20. A failed push of a manifest list is reported as a success.

Each is quoted with its lines in `PROJECT.json`.

## 7. Plan

Done: the lifecycle core, the two distributors, the commands with the documents,
certificates, hooks, runtimes and applications they carry along, the image commands,
the providers, and the proofs of section 5: every safety property of a passing run is
proved. Left:

1. An abstract specification of the lifecycle that `ClusterLifecycle` implements, as
   `Distributor` is for the peer-to-peer protocol.
2. The hazards without a property in `PROJECT.json`, each with the reason.

## 8. Not modelled, and why

- Contents of generated files (the kubeadm configuration but for certificate names,
  pod manifests, rendered templates, credentials, cgroup drivers, daemon
  configuration): no property tells them apart.
- Cryptography and expiry of certificates.
- buildah, IPFS, kubeadm, k0s, etcd, Docker, the cloud and SSH are external and appear
  by what the code does with their results.
- Checkers, debug, logging, remote exec, clients, `search`, `login` and `inspect` read,
  print or call through; `gen` and `merge` are not implemented in the code.
- The registry steps of upgrade and rollback (section 2): no property here is about the
  registry during them, and `ClusterLifecycle`, which has the registry, has neither
  command.
- Overwriting and merging of application files, and the search for image names in
  charts and manifests (`build/layerutils`): text processing. The names a source
  yields are a constant.
- The applyMode `loadImage` and the questions asked before a delete.
- What becomes of a cluster whose rootfs the peer-to-peer distributor put below
  `dest/<mount directory>` (finding 6): `ClusterCommands` and `ClusterLifecycle` have the
  rootfs where the SFTP distributor puts it.
- Platforms in the distributors: the peer-to-peer distributor sends the image of every
  platform to every host. `BuildImage` does tell platforms apart when images are built
  and mounted.
