----------------------------- MODULE BuildImage -----------------------------
(***************************************************************************)
(* The image commands of sealer over one local store: build, tag, rmi,     *)
(* save, load, push, pull, manifest, mount and umount, and the mounting of *)
(* a cluster image by the cluster commands.  A build composes the Kubefile *)
(* parser, the image engine and the download of container images.          *)
(* Commands run one at a time; any of them may be killed between two steps.*)
(***************************************************************************)
EXTENDS Kubefile, ImageStore, ImageSave

CONSTANTS BuildOptions,  \* the options a build may be given
          ImageNames,    \* names users give to images
          Stores0,       \* the local stores a behaviour may start with
          Tars0,         \* the archives there may be at the start
          Remote0,       \* the images remote registries hold, by name
          MaxCommands,   \* bound on the commands of a behaviour
          MaxCrashes     \* bound on the commands that are killed

VARIABLES
  st,       \* the local store
  remote,   \* what the remote registries hold under each name
  tar,      \* the archive last written by save
  b,        \* the command in progress
  cmds,     \* commands started so far
  crashes,  \* commands killed so far
  left,     \* working containers that were left mounted
  last      \* the command that ran last, and how it ended

storeVars == <<st, remote, tar>>
ctlVars == <<b, cmds, crashes, left, last>>
vars == <<parserVars, saveVars, storeVars, ctlVars>>

\* pc of the command; its options; the platforms it has still to work on; the
\* temporary image, the working container and the container images of the build.
NoCommand == [pc |-> "idle", o |-> <<>>, todo |-> <<>>, iid |-> 0, ctr |-> 0,
              list |-> {}, ok |-> TRUE, mounted |-> {}]

NoLast == [cmd |-> "none", ok |-> TRUE, over |-> TRUE, name |-> NoName, plats |-> <<>>,
           made |-> FALSE, auth |-> {}, dirs |-> 0]

Init ==
  /\ ParserInit /\ SaveInit(NoRegistry)
  /\ st \in Stores0 /\ remote = Remote0 /\ tar \in Tars0
  /\ b = NoCommand /\ cmds = 0 /\ crashes = 0 /\ left = {} /\ last = NoLast

Idle == b.pc = "idle"

----------------------------------------------------------------------------
(* Where a behaviour may start: stores, archives and registries of the shape *)
(* the engine keeps them in, with no build under way.                       *)

\* The names that TempTag makes up; users do not give them to an image.
IsTemp(n) == Len(n) = 3

\* What an extension launches is one of its applications, and has a type that
\* can be launched or commands of its own.
Launchable(ext) ==
  \A a \in ext.launch : a \in DOMAIN ext.apps /\ (ext.apps[a].type # "" \/ ext.apps[a].cmds)

AppsOK(apps) ==
  \A a \in DOMAIN apps : {"type", "files", "env", "cmds"} \subseteq DOMAIN apps[a] /\ apps[a].cmds \in BOOLEAN

RegistryOK(r) == {"tags", "mans", "links"} \subseteq DOMAIN r

ImageOK(r) ==
  /\ {"names", "kind", "plat", "inst", "key", "ext", "files", "listed", "saved"} \subseteq DOMAIN r
  /\ r.key.plat \in {"", r.plat}
  /\ AppsOK(r.ext.apps) /\ Launchable(r.ext) /\ RegistryOK(r.saved)

ContainerOK(c) ==
  /\ {"image", "plat", "ext", "files", "listed", "saved"} \subseteq DOMAIN c
  /\ AppsOK(c.ext.apps) /\ Launchable(c.ext) /\ RegistryOK(c.saved)

\* The images of f have IDs that no new image gets.
ImagesOK(f, next) == \A i \in DOMAIN f : i \in 1 .. next - 1 /\ ImageOK(f[i])

\* An ID that was given out, and not to a list.
Plain(s, i) == i \in 1 .. s.next - 1 /\ ~IsManifestList(s, i)

\* A name belongs to one image, and a list refers to images only.
StoreOK(s) ==
  /\ {"img", "ctr", "next"} \subseteq DOMAIN s
  /\ s.next \in Nat \ {0}
  /\ ImagesOK(s.img, s.next)
  /\ \A i, j \in DOMAIN s.img : s.img[i].names \cap s.img[j].names # {} => i = j
  /\ \A i \in DOMAIN s.img : s.img[i].kind = "list" => \A j \in s.img[i].inst : Plain(s, j)
  /\ \A c \in DOMAIN s.ctr : ContainerOK(s.ctr[c]) /\ s.ctr[c].image \in 1 .. s.next - 1

\* Archives and registries hold images, not lists.
HeldOK(s, f) ==
  ImagesOK(f, s.next) /\ \A i \in DOMAIN f : f[i].kind # "list" /\ Plain(s, i)

NoTemp(f) == \A i \in DOMAIN f : \A n \in f[i].names : ~IsTemp(n)

ASSUME BuildAssumption ==
  /\ \A s \in Stores0 : StoreOK(s) /\ s.ctr = <<>> /\ NoTemp(s.img)
  /\ \A s \in Stores0, t \in Tars0 : HeldOK(s, t.insts)
  /\ \A s \in Stores0 : \A n \in DOMAIN Remote0 : HeldOK(s, Remote0[n])
  /\ \A t \in Tars0 : NoTemp(t.insts) /\ ~IsTemp(t.name)
  /\ \A n \in ImageNames : ~IsTemp(n)
  /\ \A o \in BuildOptions : ~IsTemp(o.tag) /\ o.tag # NoName
  /\ \A o \in BuildOptions :
       o.plats \in Seq(STRING) /\ o.plats # <<>> /\ \A k \in DOMAIN o.plats : o.plats[k] # ""

\* A command of one step: the store after it and whether it succeeded.
Simple(cmd, r) ==
  /\ Idle /\ cmds < MaxCommands
  /\ cmds' = cmds + 1
  /\ st' = r.st
  /\ left' = left \cap DOMAIN r.st.ctr
  /\ last' = [NoLast EXCEPT !.cmd = cmd, !.ok = r.ok]
  /\ UNCHANGED <<parserVars, saveVars, b, crashes>>

Finish(ok) == b' = NoCommand /\ last' = [last EXCEPT !.ok = ok, !.over = TRUE]

----------------------------------------------------------------------------
(* sealer build.                                                            *)

Plat == Head(b.todo)

\* NewBuildCmd: one platform that is this machine's gives an image, anything
\* else a manifest list.
Multi(o) == ~(Len(o.plats) = 1 /\ o.plats[1] = HostPlatform)
Manifest(o) == IF Multi(o) THEN o.tag ELSE NoName

\* The temporary tag is random: no other build uses it.
TempTag == <<"tmp", cmds, Len(b.todo)>>

BuildCmd(o) ==
  LET m == CreateManifest(st, o.tag)
      begun == [NoCommand EXCEPT !.pc = "read", !.o = o, !.todo = o.plats]
      desc == [NoLast EXCEPT !.cmd = "build", !.over = FALSE, !.name = o.tag,
                             !.plats = o.plats, !.made = Multi(o), !.dirs = dirs]
  IN /\ Idle /\ cmds < MaxCommands /\ RoomFor(st, 2 * Len(o.plats) + 1)
     /\ cmds' = cmds + 1
     /\ IF ~Multi(o) THEN b' = begun /\ last' = desc /\ UNCHANGED st
        ELSE IF m.ok THEN b' = begun /\ last' = desc /\ st' = m.st
        ELSE /\ last' = [desc EXCEPT !.ok = FALSE, !.over = TRUE, !.made = FALSE]
             /\ UNCHANGED <<b, st>>
     /\ UNCHANGED <<parserVars, saveVars, remote, tar, crashes, left>>

\* The end of buildSingleSealerImage for a platform, without deferred calls.
Over(ok) == b' = [b EXCEPT !.pc = "over", !.ok = ok]

\* What the scanner makes of each Kubefile.
Scanned == [k \in DOMAIN Kubefiles |-> Parse(Kubefiles[k])]

\* getKubefileParseResult opens and scans the Kubefile.
ReadKubefile ==
  LET s == Scanned[b.o.kubefile]
  IN /\ b.pc = "read"
     /\ res' = NoResult
     /\ IF s.err THEN Over(FALSE) /\ ast' = <<>>
        ELSE b' = [b EXCEPT !.pc = "parse"] /\ ast' = s.nodes
     /\ UNCHANGED <<dirs, dlFaults, saveVars, storeVars, cmds, crashes, left, last>>

\* What the registries hold under a name, and the platform of a FROM.
Known(name) == IF name \in DOMAIN remote THEN remote[name] ELSE <<>>
PlatformOr(given, default) == IF given = "" THEN default ELSE given

\* One instruction.  FROM pulls the image for the platform of its flag, or else
\* for this machine's whatever platform is being built, and reads its extension;
\* without an answer of the registry the local one is used.
ParseKubefile ==
  LET n == Head(ast)
      pulls == n.cmd = "from" /\ n.args # <<>> /\ n.flag # "--flag" /\ n.args[1] # "scratch"
      name == <<n.args[1]>>
      known == Known(name)
      got(rem) == Pull(st, name, rem, PlatformOr(FlagPlatform(n.flag), HostPlatform))
      base(r) == [Inspect(r.st, r.id) EXCEPT !.ok = @ /\ r.ok]
      none == [ok |-> TRUE, id |-> 0, apps |-> <<>>]
  IN /\ b.pc = "parse" /\ ast # <<>>
     /\ IF ~pulls THEN GenerateResult(none) /\ UNCHANGED <<st, netFaults>>
        ELSE \/ st' = got(known).st /\ GenerateResult(base(got(known))) /\ UNCHANGED netFaults
             \/ known # <<>> /\ st' = st /\ GenerateResult(base(got(<<>>))) /\ Fault
     /\ UNCHANGED <<reg, sv, gr, remote, tar, ctlVars>>

\* The end of the parse: an error leaves buildSingleSealerImage at once.
ParsedKubefile ==
  LET r == IF res.ok THEN CheckResult ELSE res
  IN /\ b.pc = "parse" /\ ast = <<>>
     /\ res' = r
     /\ IF r.ok THEN b' = [b EXCEPT !.pc = "build"] ELSE Over(FALSE)
     /\ UNCHANGED <<ast, dirs, dlFaults, saveVars, storeVars, cmds, crashes, left, last>>

\* Mutant: nothing is deferred.
CleanNothing == UNCHANGED parserVars

\* Deferred: the downloaded files go.
CleanContext == dirs' = CleanLegacyContext(res.legacy) /\ UNCHANGED <<ast, res, dlFaults>>

\* The engine's build pulls the base again, for the platform being built unless
\* FROM names one.  A build that finds no base fails.
Based == res.from = <<>> \/ res.base # 0
PullBase ==
  LET name == <<res.from[1]>>
      got(rem) == Pull(st, name, rem, PlatformOr(res.from[2], Plat))
      Uses(r) == IF r.ok
                 THEN /\ res' = [res EXCEPT !.base = r.id]
                      /\ UNCHANGED <<b, ast, dirs, dlFaults>>
                 ELSE Over(FALSE) /\ CleanContext
  IN /\ b.pc = "build" /\ ~Based
     /\ \/ st' = got(Known(name)).st /\ Uses(got(Known(name))) /\ UNCHANGED netFaults
        \/ Known(name) # <<>> /\ st' = st /\ Uses(got(<<>>)) /\ Fault
     /\ UNCHANGED <<reg, sv, gr, remote, tar, cmds, crashes, left, last>>

Key == [docker |-> res.docker, base |-> res.base, plat |-> Plat]

\* The lite mode: the image is built and, for a list, added to it.
BuildLite ==
  LET m == Manifest(b.o)
      built == Build(st, Key, IF Multi(b.o) THEN NoName ELSE b.o.tag, Extension(res),
                     res.files, ~Multi(b.o) /\ b.o.cache)
      added(r) == IF Multi(b.o) THEN AddToManifest(r.st, m, r.id) ELSE r
  IN /\ b.pc = "build" /\ Based /\ b.o.lite
     /\ \/ \E r \in built : st' = added(r).st /\ Over(added(r).ok)
        \/ Over(FALSE) /\ UNCHANGED st
     /\ CleanContext
     /\ UNCHANGED <<saveVars, remote, tar, cmds, crashes, left, last>>

\* The all mode builds a temporary image first.
BuildTemp ==
  /\ b.pc = "build" /\ Based /\ ~b.o.lite
  /\ \/ /\ \E r \in Build(st, Key, TempTag, Extension(res), res.files, b.o.cache) :
             st' = r.st /\ b' = [b EXCEPT !.pc = "container", !.iid = r.id]
        /\ UNCHANGED parserVars
     \/ Over(FALSE) /\ CleanContext /\ UNCHANGED st
  /\ UNCHANGED <<saveVars, remote, tar, cmds, crashes, left, last>>

\* What happens from here on ends in the deferred removal of that image.
Deferred(ok) == b' = [b EXCEPT !.pc = "deferred", !.ok = ok]

CreateContainer ==
  /\ b.pc = "container"
  /\ \E r \in CreateWorkingContainer(st, b.iid) :
       /\ st' = r.st
       /\ b' = [b EXCEPT !.pc = IF r.ok THEN "list" ELSE "deferred", !.ctr = r.id, !.ok = r.ok]
  /\ UNCHANGED <<parserVars, saveVars, remote, tar, cmds, crashes, left, last>>

\* ParseContainerImageList: a goroutine per place appends what it finds to one
\* slice without a lock, so that any of the appends may be lost when several
\* goroutines find something.
ParseContainerImageList(files) ==
  LET all == {f[2] : f \in files}
  IN IF Cardinality({f[1] : f \in files}) <= 1 THEN {all} ELSE SUBSET all \ {{}}

\* applyRegistryToImage: the given list and the parsed one, without the ignored
\* images, are downloaded to the registry directory of the container.
DownloadList ==
  /\ b.pc = "list"
  /\ \/ \E found \in ParseContainerImageList(st.ctr[b.ctr].files) :
          LET list == (b.o.imageList \cup found) \ b.o.ignored
          IN /\ SaveImages(st.ctr[b.ctr].saved, list, Plat)
             /\ b' = [b EXCEPT !.pc = "saving", !.list = list]
     \/ Deferred(FALSE) /\ UNCHANGED saveVars
  /\ UNCHANGED <<parserVars, storeVars, cmds, crashes, left, last>>

Stored == [st EXCEPT !.ctr[b.ctr].saved = reg]
SaveOver(m) == sv.mode = m /\ SaveEnded /\ sv' = NoSave /\ gr' = <<>> /\ reg' = reg /\ UNCHANGED netFaults

DownloadedList ==
  /\ b.pc = "saving" /\ SaveOver("plain")
  /\ st' = Stored
  /\ IF SaveOk THEN b' = [b EXCEPT !.pc = "auth"] ELSE Deferred(FALSE)
  /\ UNCHANGED <<parserVars, remote, tar, cmds, crashes, left, last>>

\* PullWithImageSection: the images with credentials; the ignored list does
\* not apply to them.
DownloadWithAuth ==
  LET images == [s \in DOMAIN b.o.auth |-> b.o.auth[s].images]
      wanted == UNION Range(images)
  IN /\ b.pc = "auth"
     /\ IF wanted = {} THEN b' = [b EXCEPT !.pc = "config"] /\ UNCHANGED saveVars
        ELSE IF \E s \in Range(b.o.auth) : s.images # {} /\ ~s.login
        THEN Deferred(FALSE) /\ UNCHANGED saveVars
        ELSE /\ SaveImagesWithAuth(images, Plat)
             /\ b' = [b EXCEPT !.pc = "authsaving", !.list = @ \cup wanted]
     /\ UNCHANGED <<parserVars, storeVars, cmds, crashes, left, last>>

DownloadedWithAuth ==
  /\ b.pc = "authsaving" /\ SaveOver("auth")
  /\ st' = Stored
  /\ IF SaveOk THEN b' = [b EXCEPT !.pc = "config"] ELSE Deferred(FALSE)
  /\ last' = IF SaveOk THEN [last EXCEPT !.auth = sv.images] ELSE last
  /\ UNCHANGED <<parserVars, remote, tar, cmds, crashes, left>>

\* updateContainerImageListAnnotations
UpdateAnnotations ==
  /\ b.pc = "config"
  /\ \/ /\ st' = IF b.list = {} THEN st ELSE Config(st, b.ctr, b.list)
        /\ b' = [b EXCEPT !.pc = "commit"]
     \/ b.list # {} /\ Deferred(FALSE) /\ UNCHANGED st
  /\ UNCHANGED <<parserVars, saveVars, remote, tar, cmds, crashes, left, last>>

CommitContainer ==
  /\ b.pc = "commit"
  /\ \/ \E r \in Commit(st, b.ctr, b.o.tag, Manifest(b.o)) : st' = r.st /\ Deferred(r.ok)
     \/ Deferred(FALSE) /\ UNCHANGED st
  /\ UNCHANGED <<parserVars, saveVars, remote, tar, cmds, crashes, left, last>>

\* Mutant: removal without Force.
RemoveIntermediateGently(s, i, tag) == RemoveImage(RemoveImageById(s, i, FALSE).st, tag, FALSE).st

\* The deferred functions: the intermediate image is removed by ID and by tag,
\* with the containers made from it, and the build context is cleaned.
RemoveIntermediate(s, i, tag) == RemoveImage(RemoveImageById(s, i, TRUE).st, tag, TRUE).st

DeferredCleanup ==
  /\ b.pc = "deferred"
  /\ st' = RemoveIntermediate(st, b.iid, TempTag)
  /\ left' = left \cap DOMAIN st'.ctr
  /\ CleanContext
  /\ Over(b.ok)
  /\ UNCHANGED <<saveVars, remote, tar, cmds, crashes, last>>

\* buildMultiPlatformSealerImage: the next platform; an error deletes the list.
PlatformOver ==
  /\ b.pc = "over"
  /\ IF ~b.ok
     THEN st' = (IF Multi(b.o) THEN DeleteManifests(st, b.o.tag).st ELSE st) /\ Finish(FALSE)
     ELSE IF Len(b.todo) > 1
     THEN /\ b' = [NoCommand EXCEPT !.pc = "read", !.o = b.o, !.todo = Tail(b.todo)]
          /\ UNCHANGED <<st, last>>
     ELSE Finish(TRUE) /\ UNCHANGED st
  /\ ast' = <<>> /\ res' = NoResult /\ reg' = NoRegistry
  /\ UNCHANGED <<dirs, dlFaults, sv, gr, netFaults, remote, tar, cmds, crashes, left>>

DownloadStep ==
  /\ b.pc \in {"saving", "authsaving"}
  /\ SaveStep
  /\ UNCHANGED <<parserVars, storeVars, ctlVars>>

----------------------------------------------------------------------------
(* The other image commands.                                                *)

TagCmd(n, new) == Simple("tag", Tag(st, n, new)) /\ UNCHANGED <<remote, tar>>
RmiCmd(n, force) == Simple("rmi", RemoveImage(st, n, force)) /\ UNCHANGED <<remote, tar>>
RmiIdCmd(i, force) == Simple("rmi", RemoveImageById(st, i, force)) /\ UNCHANGED <<remote, tar>>

\* rmi --prune: the images that have no name and no child.  That a manifest
\* list refers to an image does not keep it.
Dangling(s, force) ==
  {i \in DOMAIN s.img : /\ s.img[i].names = {}
                        /\ \A j \in DOMAIN s.img : s.img[j].key.base # i
                        /\ force \/ ContainersOf(s, i) = {}}
PruneCmd(force) ==
  LET gone == Dangling(st, force)
      pruned == DropContainers([st EXCEPT !.img = Restrict(@, DOMAIN @ \ gone)],
                               UNION {ContainersOf(st, i) : i \in gone})
  IN /\ Simple("rmi", Ret(pruned, gone = Dangling(st, TRUE), 0))
     /\ UNCHANGED <<remote, tar>>

ManifestCreateCmd(n) == RoomFor(st, 1) /\ Simple("create", CreateManifest(st, n)) /\ UNCHANGED <<remote, tar>>
ManifestAddCmd(n, i) == RoomFor(st, 1) /\ Simple("add", AddToManifest(st, n, i)) /\ UNCHANGED <<remote, tar>>
ManifestRemoveCmd(n, i) == Simple("remove", RemoveFromManifest(st, n, i)) /\ UNCHANGED <<remote, tar>>
ManifestDeleteCmd(n) == Simple("delete", DeleteManifests(st, n)) /\ UNCHANGED <<remote, tar>>

SaveCmd(n) ==
  /\ Simple("save", Ret(st, Save(st, n, tar).ok, 0))
  /\ tar' = Save(st, n, tar).tar
  /\ UNCHANGED remote

\* Push: what the registry had under the name is replaced; PushManifest of a
\* list that lacks an instance fails.
PushCmd(n) ==
  LET p == Pushed(st, n)
  IN /\ Simple("push", Ret(st, p # <<>>, 0))
     /\ remote' = IF p = <<>> THEN remote ELSE Put(remote, n, p)
     /\ UNCHANGED tar

PullCmd(n, plat) ==
  /\ Simple("pull", Pull(st, n, Known(n), plat))
  /\ UNCHANGED <<remote, tar>>

----------------------------------------------------------------------------
(* sealer load.  A list of the same name is deleted first; then the         *)
(* instances are loaded one by one, and the list is made last.              *)

LoadCmd ==
  LET had == DeleteManifests(st, tar.name)
      replaces == tar.list /\ IsManifestList(st, Lookup(st, tar.name))
  IN /\ Idle /\ cmds < MaxCommands /\ RoomFor(st, 1) /\ tar # NoArchive
     /\ cmds' = cmds + 1
     /\ IF replaces /\ ~had.ok
        THEN b' = b /\ st' = st /\ last' = [NoLast EXCEPT !.cmd = "load", !.ok = FALSE]
        ELSE /\ st' = IF replaces THEN had.st ELSE st
             /\ b' = [NoCommand EXCEPT !.pc = "load", !.mounted = DOMAIN tar.insts]
             /\ last' = [NoLast EXCEPT !.cmd = "load", !.over = FALSE, !.name = tar.name]
     /\ UNCHANGED <<parserVars, saveVars, remote, tar, crashes, left>>

LoadInstance ==
  /\ b.pc = "load"
  /\ \E i \in b.mounted :
       \/ /\ st' = LoadOneImage(st, i, tar.insts[i])
          /\ b' = [b EXCEPT !.mounted = @ \ {i}]
          /\ UNCHANGED last
       \/ Finish(FALSE) /\ UNCHANGED st
  /\ UNCHANGED <<parserVars, saveVars, remote, tar, cmds, crashes, left>>

\* Mutant: one instance is added only.
AddOne(s, n, I) ==
  LET l == Lookup(s, n)  one == {CHOOSE i \in I : TRUE}
  IN IF I \subseteq DOMAIN s.img THEN Ret([s EXCEPT !.img[l].inst = @ \cup one], TRUE, l) ELSE Ret(s, FALSE, l)

\* AddToManifest with all instances at once.
AddAll(s, n, I) ==
  LET l == Lookup(s, n)
  IN IF I \subseteq DOMAIN s.img THEN Ret([s EXCEPT !.img[l].inst = @ \cup I], TRUE, l) ELSE Ret(s, FALSE, l)

LoadManifest ==
  LET c == CreateManifest(st, tar.name)
      a == AddAll(c.st, tar.name, DOMAIN tar.insts)
  IN /\ b.pc = "load" /\ b.mounted = {}
     /\ IF ~tar.list THEN st' = st /\ Finish(TRUE)
        ELSE IF ~c.ok THEN st' = st /\ Finish(FALSE)
        ELSE st' = a.st /\ Finish(a.ok)
     /\ UNCHANGED <<parserVars, saveVars, remote, tar, cmds, crashes, left>>

----------------------------------------------------------------------------
(* Mounting.                                                                *)

\* sealer alpha mount: an image that is mounted is not mounted again.
MountCmd(n) ==
  LET i == Resolved(st, n)
      mounted == ContainersOf(st, i) # {}
  IN /\ i # 0 /\ ~IsManifestList(st, i)
     /\ \E r \in IF mounted THEN {Ret(st, TRUE, 0)} ELSE CreateWorkingContainer(st, i) :
          /\ Idle /\ cmds < MaxCommands
          /\ cmds' = cmds + 1
          /\ st' = r.st
          /\ left' = left \cup DOMAIN r.st.ctr
          /\ last' = [NoLast EXCEPT !.cmd = "mount", !.ok = r.ok]
     /\ UNCHANGED <<parserVars, saveVars, remote, tar, b, crashes>>

\* sealer alpha umount of an image, or of everything.
UmountCmd(C) ==
  /\ Simple("umount", Ret(DropContainers(st, C), C # {}, 0))
  /\ UNCHANGED <<remote, tar>>

\* ImagerMounter.Mount for a cluster command: for each platform of the hosts
\* the image is pulled if it is missing and a working container made.  After
\* an error what was mounted before stays.
PullMissing(s, n, plat) ==
  LET i == Lookup(s, n)
      here == {j \in DOMAIN s.img \cap (Instances(s, i) \cup {i}) : s.img[j].plat = plat}
  IN IF i # 0 /\ here # {} THEN Ret(s, TRUE, CHOOSE j \in here : TRUE)
     ELSE Pull(s, n, Known(n), plat)

MountImageCmd(n, plats) ==
  /\ Idle /\ cmds < MaxCommands
  /\ cmds' = cmds + 1
  /\ b' = [NoCommand EXCEPT !.pc = "mount", !.o = n, !.todo = plats]
  /\ last' = [NoLast EXCEPT !.cmd = "run", !.over = FALSE]
  /\ UNCHANGED <<parserVars, saveVars, storeVars, crashes, left>>

MountPlatform ==
  LET p == PullMissing(st, b.o, Plat)
  IN /\ b.pc = "mount" /\ b.todo # <<>>
     /\ \E r \in IF p.ok THEN CreateWorkingContainer(p.st, p.id) ELSE {Ret(p.st, FALSE, 0)} :
          /\ st' = r.st
          /\ IF r.ok
             THEN /\ b' = [b EXCEPT !.todo = Tail(@), !.mounted = @ \cup {r.id}]
                  /\ UNCHANGED <<last, left>>
             ELSE Finish(FALSE) /\ left' = left \cup DOMAIN r.st.ctr
     /\ UNCHANGED <<parserVars, saveVars, remote, tar, cmds, crashes>>

\* The command does its work and its deferred function unmounts, whatever came
\* of the work; an error of one container ends the loop.
UmountImage ==
  /\ b.pc = "mount" /\ b.todo = <<>>
  /\ \E ok \in BOOLEAN : Finish(ok)
  /\ \E C \in {b.mounted} \cup {{}} :
       /\ st' = RemoveContainer(st, C)
       /\ left' = left \cup (b.mounted \ C)
  /\ UNCHANGED <<parserVars, saveVars, remote, tar, cmds, crashes>>

----------------------------------------------------------------------------
\* The process is killed; what it had written stays, deferred functions and
\* the handling of errors do not run.
Crash ==
  /\ ~Idle /\ crashes < MaxCrashes
  /\ crashes' = crashes + 1
  /\ b' = NoCommand
  /\ last' = [last EXCEPT !.cmd = "killed", !.ok = FALSE, !.over = TRUE]
  /\ sv' = NoSave /\ gr' = <<>>
  /\ left' = DOMAIN st.ctr
  /\ ast' = <<>> /\ res' = NoResult /\ reg' = NoRegistry
  /\ UNCHANGED <<dirs, dlFaults, netFaults, storeVars, cmds>>

BuildStep ==
  \/ ReadKubefile \/ ParseKubefile \/ ParsedKubefile \/ PullBase
  \/ BuildLite \/ BuildTemp \/ CreateContainer
  \/ DownloadList \/ DownloadStep \/ DownloadedList
  \/ DownloadWithAuth \/ DownloadedWithAuth
  \/ UpdateAnnotations \/ CommitContainer \/ DeferredCleanup \/ PlatformOver
  \/ LoadInstance \/ LoadManifest
  \/ MountPlatform \/ UmountImage

Commands ==
  \/ \E o \in BuildOptions : BuildCmd(o)
  \/ \E n \in ImageNames :
       \/ \E new \in ImageNames \ {n} : TagCmd(n, new)
       \/ \E force \in BOOLEAN : RmiCmd(n, force)
       \/ SaveCmd(n) \/ PushCmd(n)
       \/ \E p \in {HostPlatform, "arm64"} : PullCmd(n, p)
       \/ ManifestCreateCmd(n) \/ ManifestDeleteCmd(n)
       \/ \E i \in DOMAIN st.img : ManifestAddCmd(n, i) \/ ManifestRemoveCmd(n, i)
       \/ MountCmd(n)
       \/ \E plats \in {<<HostPlatform>>, <<HostPlatform, "arm64">>} : MountImageCmd(n, plats)
  \/ \E i \in DOMAIN st.img, force \in BOOLEAN : RmiIdCmd(i, force)
  \/ \E force \in BOOLEAN : PruneCmd(force)
  \/ LoadCmd
  \/ \E C \in {{c} : c \in DOMAIN st.ctr} \cup {DOMAIN st.ctr} : UmountCmd(C)

Terminated == Idle /\ cmds = MaxCommands /\ UNCHANGED vars

Next == BuildStep \/ Commands \/ Crash \/ Terminated

\* A command that was started goes on.
Spec == Init /\ [][Next]_vars /\ WF_vars(BuildStep)

----------------------------------------------------------------------------
\* buildMultiPlatformSealerImage: a build that succeeded leaves, under the name
\* it was given, a list with exactly one instance for every platform asked for,
\* all in the store; one that failed with an error leaves no list under that
\* name (an image, if the Kubefile pulled its base by the very same name).
ManifestComplete ==
  last.cmd = "build" /\ last.over /\ last.made =>
    LET l == Lookup(st, last.name)
    IN IF last.ok
       THEN /\ IsManifestList(st, l)
            /\ st.img[l].inst \subseteq DOMAIN st.img
            /\ Cardinality(st.img[l].inst) = Len(last.plats)
            /\ {st.img[i].plat : i \in st.img[l].inst} = Range(last.plats)
       ELSE ~IsManifestList(st, l)

\* The deferred calls of buildSingleSealerImage: unless a command was killed,
\* no temporary image and no working container of a build outlives it, whatever
\* step of the build failed.
NoIntermediateLeft ==
  Idle /\ crashes = 0 =>
    /\ DOMAIN st.ctr \subseteq left
    /\ \A i \in DOMAIN st.img : \A n \in st.img[i].names : ~IsTemp(n)

\* What an image says it launches it can launch: every launched application is
\* one of the image's, and has a type that can be launched or commands of its
\* own.  Applications come from the Kubefile and from the base image, which
\* ParseKubefile takes for the platform of this machine, or that of FROM's flag.
LaunchableApps == \A i \in DOMAIN st.img : Launchable(st.img[i].ext)

\* SaveImagesWithAuth looks at every image again after a download: when it
\* reports success the registry directory has the manifest and every blob.
AuthComplete ==
  b.pc \in {"config", "commit"} =>
    \A im \in last.auth : IsImageExist(st.ctr[b.ctr].saved, im, Plat)

\* Load after save: a list is loaded with exactly the instances it was saved
\* with, all of them in the store.
LoadRestores ==
  last.cmd = "load" /\ last.over /\ last.ok /\ tar.list =>
    LET l == Lookup(st, tar.name)
    IN /\ IsManifestList(st, l)
       /\ st.img[l].inst = DOMAIN tar.insts
       /\ st.img[l].inst \subseteq DOMAIN st.img

\* A build that succeeded leaves no downloaded files of its own in the build
\* context, whatever number of platforms it parsed the Kubefile for.
ContextClean ==
  last.cmd = "build" /\ last.over /\ last.ok => dirs = last.dirs

\* A command that was started ends: no download waits for another, and retries
\* are bounded.
CommandEnds == ~Idle ~> Idle

\* save.go:449 pulls and saves each blob: when SaveImages reports success every
\* blob of every image is in the registry directory.
PlainComplete ==
  b.pc = "auth" => \A im \in b.list : IsImageExist(st.ctr[b.ctr].saved, im, Plat)
=============================================================================
