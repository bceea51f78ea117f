----------------------------- MODULE ImageStore -----------------------------
(***************************************************************************)
(* pkg/imageengine/buildah: the operations of the image engine, each as a  *)
(* function from a store to what it returns and leaves.                    *)
(*                                                                         *)
(* A store is [img, ctr, next].  img gives for an ID its names, whether it is an *)
(* image or a manifest list, the platform, the instances of a list (IDs,   *)
(* present or not), the Dockerfile it was built from, the sealer extension *)
(* and container-image annotations, and the container images saved in its  *)
(* registry directory.  ctr gives for a working container the image it     *)
(* was made from and what it would commit.                                 *)
(***************************************************************************)
EXTENDS Naturals, FiniteSets, Sequences, Functions

CONSTANTS MaxImages,     \* bound on the images and lists ever made in a store
          HostPlatform   \* the platform of the machine sealer runs on

\* A name is a tuple of words, so that a temporary tag differs from every other.
NoName == <<>>
NoExtension == [apps |-> <<>>, launch |-> {}, raw |-> 0]
NoKey == [docker |-> <<>>, base |-> 0, plat |-> ""]

\* A registry directory: the digest a tag links to, the manifests, the blobs
\* linked in a repository.
NoRegistry == [tags |-> <<>>, mans |-> {}, links |-> {}]

\* The result of an operation: the store after it, whether it succeeded and
\* the ID it returned.
Ret(st, ok, id) == [st |-> st, ok |-> ok, id |-> id]

\* IDs are digests, never used again; k of them are left.
RoomFor(st, k) == st.next + k - 1 <= MaxImages

\* The image or list that has name n, 0 when there is none.
Lookup(st, n) ==
  IF \E i \in DOMAIN st.img : n \in st.img[i].names
  THEN CHOOSE i \in DOMAIN st.img : n \in st.img[i].names ELSE 0

IsManifestList(st, i) == i \in DOMAIN st.img /\ st.img[i].kind = "list"

\* Store i under the record r, taking r's names away from every other image.
PutImage(st, i, r) ==
  [st EXCEPT !.next = IF i >= @ THEN i + 1 ELSE @,
             !.img = [j \in DOMAIN st.img \cup {i} |->
                        IF j = i THEN r ELSE [st.img[j] EXCEPT !.names = @ \ r.names]]]

DropImage(st, i) == [st EXCEPT !.img = Restrict(@, DOMAIN @ \ {i})]
DropContainers(st, C) == [st EXCEPT !.ctr = Restrict(@, DOMAIN @ \ C)]

ContainersOf(st, i) == {c \in DOMAIN st.ctr : st.ctr[c].image = i}

----------------------------------------------------------------------------
(* Removal.  libimage removes what a name stands for: the whole image when  *)
(* it has that one name or was given by ID, the name alone otherwise.       *)

DeleteImage(st, i, force) ==
  IF ContainersOf(st, i) # {} /\ ~force THEN Ret(st, FALSE, i)
  ELSE Ret(DropImage(DropContainers(st, ContainersOf(st, i)), i), TRUE, i)

RemoveByName(st, i, n, force) ==
  IF Cardinality(st.img[i].names) = 1 THEN DeleteImage(st, i, force)
  ELSE IF n \notin st.img[i].names THEN Ret(st, FALSE, i)
  ELSE Ret([st EXCEPT !.img[i].names = @ \ {n}], TRUE, i)

\* Without LookupManifest a list's name stands for its instance for a platform,
\* this machine's unless one is given, and for the list only when there is none.
ResolvedFor(st, n, plat) ==
  LET i == Lookup(st, n)
      here == {j \in DOMAIN st.img : st.img[j].plat = plat}
  IN IF IsManifestList(st, i) /\ st.img[i].inst \cap here # {}
     THEN CHOOSE j \in st.img[i].inst \cap here : TRUE ELSE i
Resolved(st, n) == ResolvedFor(st, n, HostPlatform)

\* DeleteManifests: the list only, never the images it refers to.
DeleteManifests(st, n) ==
  LET i == Lookup(st, n)
  IN IF IsManifestList(st, i) THEN RemoveByName(st, i, n, FALSE) ELSE Ret(st, FALSE, 0)

\* RemoveImage by name: first as an image, then, if that failed, as a list.
RemoveImage(st, n, force) ==
  LET i == Resolved(st, n)
      first == IF i = 0 THEN Ret(st, FALSE, 0) ELSE RemoveByName(st, i, n, force)
  IN IF first.ok THEN first ELSE DeleteManifests(st, n)

\* RemoveImage by ID.
RemoveImageById(st, i, force) ==
  IF i \notin DOMAIN st.img \/ (Cardinality(st.img[i].names) > 1 /\ ~force)
  THEN Ret(st, FALSE, i) ELSE DeleteImage(st, i, force)

\* RemoveContainer of working containers.
RemoveContainer(st, C) == DropContainers(st, C)

----------------------------------------------------------------------------
(* Names and manifest lists.                                                *)

\* Tag: a name moves to the image.
Tag(st, n, new) ==
  LET i == Lookup(st, n)
  IN IF i = 0 THEN Ret(st, FALSE, 0)
     ELSE Ret(PutImage(st, i, [st.img[i] EXCEPT !.names = @ \cup {new}]), TRUE, i)

NewList(n) == [names |-> {n}, kind |-> "list", plat |-> "", inst |-> {}, key |-> NoKey,
               ext |-> NoExtension, files |-> {}, listed |-> {}, saved |-> NoRegistry]

\* CreateManifest: the name must be free.
CreateManifest(st, n) ==
  IF Lookup(st, n) # 0 THEN Ret(st, FALSE, 0)
  ELSE Ret(PutImage(st, st.next, NewList(n)), TRUE, st.next)

\* getImageIDList: the instances of a list, which must all be here, or the image.
Instances(st, i) == IF IsManifestList(st, i) THEN st.img[i].inst ELSE {i}

\* Mutant: the list is written anew instead of extended.
AddToListAnew(st, l, i) ==
  IF i \notin DOMAIN st.img \/ ~(Instances(st, i) \subseteq DOMAIN st.img) THEN Ret(st, FALSE, l)
  ELSE Ret([st EXCEPT !.img[l].inst = Instances(st, i)], TRUE, l)

\* addToManifestList: nothing is saved unless every image could be added.
AddToList(st, l, i) ==
  IF i \notin DOMAIN st.img \/ ~(Instances(st, i) \subseteq DOMAIN st.img) THEN Ret(st, FALSE, l)
  ELSE Ret([st EXCEPT !.img[l].inst = @ \cup Instances(st, i)], TRUE, l)

\* AddToManifest: a list that did not exist is created first, and deleted
\* again if the images cannot be added.
AddToManifest(st, n, i) ==
  LET l == Lookup(st, n)
      c == CreateManifest(st, n)
      a == AddToList(c.st, c.id, i)
  IN IF IsManifestList(st, l) THEN AddToList(st, l, i)
     ELSE IF l # 0 \/ ~c.ok THEN Ret(st, FALSE, 0)
     ELSE IF a.ok THEN a ELSE Ret(DeleteManifests(a.st, n).st, FALSE, 0)

\* RemoveFromManifest.
RemoveFromManifest(st, n, i) ==
  LET l == Lookup(st, n)
  IN IF ~IsManifestList(st, l) \/ i \notin st.img[l].inst THEN Ret(st, FALSE, 0)
     ELSE Ret([st EXCEPT !.img[l].inst = @ \ {i}], TRUE, l)

----------------------------------------------------------------------------
(* Building.                                                                *)

\* An image with the same Dockerfile, base and platform is taken from the
\* cache: buildah adds the name to it and leaves its annotations alone.
Cached(st, key) == {i \in DOMAIN st.img : st.img[i].key = key}

\* The registry directory an image gets from its base.
BaseRegistry(st, base) == IF base \in DOMAIN st.img THEN st.img[base].saved ELSE NoRegistry

BaseFiles(st, base) == IF base \in DOMAIN st.img THEN st.img[base].files ELSE {}

\* Build: the results an engine build can have.  NoName leaves the image
\* without a name.
Build(st, key, name, ext, files, useCache) ==
  LET names == IF name = NoName THEN {} ELSE {name}
      new == [names |-> names, kind |-> "image", plat |-> key.plat, inst |-> {}, key |-> key,
              ext |-> ext, files |-> files \cup BaseFiles(st, key.base), listed |-> {},
              saved |-> BaseRegistry(st, key.base)]
  IN IF useCache /\ Cached(st, key) # {}
     THEN {Ret(PutImage(st, i, [st.img[i] EXCEPT !.names = @ \cup names]), TRUE, i) :
             i \in Cached(st, key)}
     ELSE {Ret(PutImage(st, st.next, new), TRUE, st.next)}

\* CreateWorkingContainer: from the image, which is never pulled, mounted and
\* linked; the container outlives a failure of the last two.
CreateWorkingContainer(st, i) ==
  LET free == 1 .. Cardinality(DOMAIN st.ctr) + 1 \ DOMAIN st.ctr
      c == CHOOSE d \in free : \A e \in free : d <= e
      made == [st EXCEPT !.ctr = [d \in DOMAIN st.ctr \cup {c} |->
                 IF d = c THEN [image |-> i, plat |-> st.img[i].plat, ext |-> st.img[i].ext, files |-> st.img[i].files,
                                listed |-> st.img[i].listed, saved |-> st.img[i].saved]
                 ELSE st.ctr[d]]]
  IN IF i \notin DOMAIN st.img THEN {Ret(st, FALSE, 0)}
     ELSE {Ret(made, TRUE, c), Ret(made, FALSE, c)}

\* Config: the container-image annotation.
Config(st, c, images) == [st EXCEPT !.ctr[c].listed = images]

\* Commit with Rm: the image takes the name, or joins the list (created if it
\* is not there), before the container is deleted; that deletion may fail.
Commit(st, c, name, manifest) ==
  LET ctr == st.ctr[c]
      i == st.next
      names == IF manifest = NoName THEN {name} ELSE {}
      img == [names |-> names, kind |-> "image", plat |-> ctr.plat, inst |-> {},
              key |-> [NoKey EXCEPT !.base = st.img[ctr.image].key.base],
              ext |-> ctr.ext, files |-> ctr.files, listed |-> ctr.listed, saved |-> ctr.saved]
      committed == PutImage(st, i, img)
      done == IF manifest = NoName THEN Ret(committed, TRUE, i) ELSE AddToManifest(committed, manifest, i)
  IN IF ~done.ok THEN {Ret(committed, FALSE, i)}
     ELSE {Ret(DropContainers(done.st, {c}), TRUE, i), Ret(done.st, FALSE, i)}

\* Inspect: the extension of the image a name stands for, which must be a
\* sealer image.
Inspect(st, i) == [ok |-> i \in DOMAIN st.img, id |-> i,
                   apps |-> IF i \in DOMAIN st.img THEN st.img[i].ext.apps ELSE <<>>]

----------------------------------------------------------------------------
(* Moving images: archives and remote registries hold what an image is,     *)
(* with the IDs it had.                                                     *)

NoArchive == [name |-> NoName, list |-> FALSE, insts |-> <<>>]

\* saveOneImage: the archive of one image has one name at most.
OneName(r, names) == [r EXCEPT !.names = IF names = {} THEN {} ELSE {CHOOSE n \in names : TRUE}]

\* Save: a list with all its instances and its first name, or one image.  The
\* archive of a list is truncated before the instances are looked for.
Save(st, n, old) ==
  LET i == Lookup(st, n)
      insts == Instances(st, i)
      list == IsManifestList(st, i)
  IN IF i = 0 THEN [ok |-> FALSE, tar |-> old]
     ELSE IF ~(insts \subseteq DOMAIN st.img) THEN [ok |-> FALSE, tar |-> NoArchive]
     ELSE [ok |-> TRUE,
           tar |-> [name |-> IF list THEN CHOOSE m \in st.img[i].names : TRUE ELSE n,
                    list |-> list,
                    insts |-> [j \in insts |->
                                 OneName(st.img[j], IF list THEN st.img[j].names ELSE {n})]]]

\* loadOneImage: an image of the archive is in the store under the same ID,
\* and takes its names away from others.
LoadOneImage(st, i, r) ==
  PutImage(st, i, IF i \in DOMAIN st.img THEN [st.img[i] EXCEPT !.names = @ \cup r.names]
                  ELSE [r EXCEPT !.key = [NoKey EXCEPT !.base = r.key.base]])

\* PushManifest, Push: what the remote registry holds under the name; a list
\* goes with all its instances or not at all.
Pushed(st, n) ==
  LET i == Lookup(st, n)
  IN IF i = 0 \/ ~(Instances(st, i) \subseteq DOMAIN st.img) THEN <<>>
     ELSE Restrict(st.img, Instances(st, i))

\* Pull: the instance for the platform takes the name; with nothing to pull the
\* image here is used, whose platform is looked at only if another than this
\* machine's is asked for.
Pull(st, n, remote, plat) ==
  LET have == {i \in DOMAIN remote : remote[i].plat = plat}
      i == CHOOSE j \in have : TRUE
      local == ResolvedFor(st, n, plat)
      fits == local # 0 /\ ~IsManifestList(st, local) /\ (plat = HostPlatform \/ st.img[local].plat = plat)
  IN IF have = {} THEN Ret(st, fits, local)
     ELSE Ret(LoadOneImage(st, i, [remote[i] EXCEPT !.names = {n}]), TRUE, i)
=============================================================================
