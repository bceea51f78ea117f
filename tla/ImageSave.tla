------------------------------ MODULE ImageSave -----------------------------
(***************************************************************************)
(* pkg/image/save: container images are downloaded into a registry         *)
(* directory by one goroutine per repository, each of which saves blobs    *)
(* with goroutines of its own.  The directory is a pull-through cache of   *)
(* the remote registries (distributionpkg/proxy) over a file driver.       *)
(***************************************************************************)
EXTENDS Naturals, Sequences, FiniteSets, Functions

CONSTANTS Named,         \* for an image its domain, repository and tag
          Content,       \* for an image the blobs of each platform it exists for
          Gor,           \* maxPullGoroutineNum
          RetryTime,     \* maxRetryTime
          MaxNetFaults   \* bound on the requests that fail in a behaviour

ASSUME Gor \in Nat \ {0} /\ RetryTime \in Nat

VARIABLES
  reg,       \* the registry directory
  sv,        \* the call in progress: mode "none", "plain" or "auth"
  gr,        \* its goroutines, one per domain and repository
  netFaults  \* requests that failed so far

saveVars == <<reg, sv, gr, netFaults>>

\* ParseNormalizedNamed
Repo(im) == Named[im].repo
TagOf(im) == <<Named[im].repo, Named[im].tag>>
Group(im) == <<Named[im].domain, Named[im].repo>>

NoSave == [mode |-> "none", plat |-> "", images |-> {}, ok |-> TRUE]

SaveInit(r) == reg = r /\ sv = NoSave /\ gr = <<>> /\ netFaults = 0

\* The blobs getBlobList reads from the manifest for the platform; none when
\* the image has no manifest for it.
HasPlatform(im, plat) == plat \in DOMAIN Content[im]
GetBlobList(im, plat) == Content[im][plat]

\* The driver: a path is there or not, for Stat, Reader and GetContent.
StatBlob(r, b) == \E l \in r.links : l[2] = b
StatLink(r, repo, b) == <<repo, b>> \in r.links
GetContent(r, tag) == tag \in DOMAIN r.tags

\* isImageExist, getLocalDigest: the tag, the manifest it leads to and the
\* blobs of that manifest.
IsImageExist(r, im, plat) ==
  /\ GetContent(r, TagOf(im))
  /\ LET d == r.tags[TagOf(im)]
     IN /\ <<Repo(im), d>> \in r.mans
        /\ HasPlatform(d, plat)
        /\ \A b \in GetBlobList(d, plat) : StatBlob(r, b)

NewGroup(images, sec) ==
  [pc |-> "wait", images |-> images, sec |-> sec, todo |-> images, digests |-> {},
   blobs |-> <<>>, nilErr |-> FALSE, fail |-> FALSE, retry |-> RetryTime]

\* SaveImages: duplicates and images that are complete are left out.
SaveImages(r, images, plat) ==
  LET todo == {im \in images : ~IsImageExist(r, im, plat)}
      keys == {Group(im) : im \in todo}
  IN /\ sv.mode = "none"
     /\ sv' = [mode |-> "plain", plat |-> plat, images |-> images, ok |-> TRUE]
     /\ gr' = [g \in keys |-> NewGroup({im \in todo : Group(im) = g}, 1)]
     /\ reg' = r
     /\ UNCHANGED netFaults

\* SaveImagesWithAuth: section by section; what is there is not looked at.
SaveImagesWithAuth(sections, plat) ==
  LET all == UNION Range(sections)
      keys == {Group(im) : im \in all}
      secOf(g) == CHOOSE s \in DOMAIN sections : \E im \in sections[s] : Group(im) = g
  IN /\ sv.mode = "none"
     /\ sv' = [mode |-> "auth", plat |-> plat, images |-> all, ok |-> TRUE]
     /\ gr' = [g \in keys |-> NewGroup({im \in all : Group(im) = g}, secOf(g))]
     /\ UNCHANGED <<reg, netFaults>>

Running == {g \in DOMAIN gr : gr[g].pc \notin {"wait", "done", "failed"}}
Set(g, r) == gr' = [gr EXCEPT ![g] = r]

\* A request of the group that the network loses.
Fault == netFaults < MaxNetFaults /\ netFaults' = netFaults + 1

\* NewProxyRegistry, NewProxyRegistryWithAuth: the remote is asked over https,
\* then over http.
StartGroup(g) ==
  /\ gr[g].pc = "wait" /\ Cardinality(Running) < Gor
  /\ \A h \in DOMAIN gr : gr[h].sec < gr[g].sec => gr[h].pc = "done"
  /\ \/ Set(g, [gr[g] EXCEPT !.pc = "tags"]) /\ UNCHANGED netFaults
     \/ Set(g, [gr[g] EXCEPT !.pc = "failed"]) /\ Fault
  /\ UNCHANGED <<reg, sv>>

\* proxyTagService.Get: the remote's digest is linked here first; when the
\* remote does not answer the link here is used.
\* proxyManifestStore.Get: a manifest that is not here is fetched and stored.
SaveManifest(g, im) ==
  LET tagged == [reg EXCEPT !.tags = [t \in DOMAIN @ \cup {TagOf(im)} |->
                                        IF t = TagOf(im) THEN im ELSE @[t]]]
      stored(r, d) == [r EXCEPT !.mans = @ \cup {<<Repo(im), d>>}]
      got(r, d) ==
        IF HasPlatform(d, sv.plat)
        THEN reg' = stored(r, d) /\ Set(g, [gr[g] EXCEPT !.todo = @ \ {im}, !.digests = @ \cup {d}])
        ELSE reg' = stored(r, d) /\ Set(g, [gr[g] EXCEPT !.todo = @ \ {im}, !.fail = TRUE])
      lost(r) == reg' = r /\ Set(g, [gr[g] EXCEPT !.todo = @ \ {im}, !.fail = TRUE])
  IN /\ gr[g].pc = "tags" /\ im \in gr[g].todo
     /\ \/ got(tagged, im) /\ UNCHANGED netFaults
        \/ Fault /\ lost(tagged)
        \/ /\ Fault
           /\ IF GetContent(reg, TagOf(im)) THEN got(reg, reg.tags[TagOf(im)]) ELSE lost(reg)
     /\ UNCHANGED sv

\* saveManifestAndGetDigest ends, and saveBlobs reads the blobs to save.
ListBlobs(g) ==
  LET blobs == UNION {GetBlobList(d, sv.plat) : d \in gr[g].digests}
  IN /\ gr[g].pc = "tags" /\ gr[g].todo = {}
     /\ IF gr[g].fail THEN Set(g, [gr[g] EXCEPT !.pc = "failed"])
        ELSE Set(g, [gr[g] EXCEPT !.pc = "blobs", !.blobs = [b \in blobs |-> "new"]])
     /\ UNCHANGED <<reg, sv, netFaults>>

Active(g) == {b \in DOMAIN gr[g].blobs : gr[g].blobs[b] \in {"stat", "open"}}

\* A goroutine of saveBlobs looks for its blob.  The error goes to the variable
\* of the enclosing function, which all goroutines of the call share.
StatBlobStep(g, b) ==
  /\ gr[g].pc = "blobs" /\ gr[g].blobs[b] = "new" /\ Cardinality(Active(g)) < Gor
  /\ Set(g, [gr[g] EXCEPT !.blobs[b] = "stat", !.nilErr = StatLink(reg, g[2], b)])
  /\ UNCHANGED <<reg, sv, netFaults>>

\* It then reads that variable, whoever wrote it last.
CheckErr(g, b) ==
  /\ gr[g].pc = "blobs" /\ gr[g].blobs[b] = "stat"
  /\ Set(g, [gr[g] EXCEPT !.blobs[b] = IF gr[g].nilErr THEN "end" ELSE "open"])
  /\ UNCHANGED <<reg, sv, netFaults>>

\* Open, Create, WriteTo and Commit of the blob; the file appears under its
\* name only by the driver's Move.
SaveBlob(g, b) ==
  /\ gr[g].pc = "blobs" /\ gr[g].blobs[b] = "open"
  /\ \/ /\ reg' = [reg EXCEPT !.links = @ \cup {<<g[2], b>>}]
        /\ Set(g, [gr[g] EXCEPT !.blobs[b] = "end"])
        /\ UNCHANGED netFaults
     \/ /\ Fault
        /\ Set(g, [gr[g] EXCEPT !.blobs[b] = "end", !.fail = TRUE])
        /\ UNCHANGED reg
  /\ UNCHANGED sv

\* Mutant: the retries are not counted.
RestartedForever(r) == [NewGroup(r.images, r.sec) EXCEPT !.pc = "tags", !.retry = r.retry]

\* The next attempt of download.
Restarted(r) == [NewGroup(r.images, r.sec) EXCEPT !.pc = "tags", !.retry = r.retry - 1]

\* Mutant: download does not look at the images again.
EndGroupUnchecked(g) ==
  /\ gr[g].pc = "blobs" /\ \A b \in DOMAIN gr[g].blobs : gr[g].blobs[b] = "end"
  /\ Set(g, [gr[g] EXCEPT !.pc = IF gr[g].fail THEN "failed" ELSE "done"])
  /\ UNCHANGED <<reg, sv, netFaults>>

\* The end of save; download then checks every image again and retries.
EndGroup(g) ==
  LET r == gr[g]
      complete == \A im \in r.images : IsImageExist(reg, im, sv.plat)
  IN /\ r.pc = "blobs" /\ \A b \in DOMAIN r.blobs : r.blobs[b] = "end"
     /\ Set(g, IF r.fail THEN [r EXCEPT !.pc = "failed"]
               ELSE IF sv.mode = "plain" \/ complete THEN [r EXCEPT !.pc = "done"]
               ELSE IF r.retry = 0 THEN [r EXCEPT !.pc = "failed"]
               ELSE Restarted(r))
     /\ UNCHANGED <<reg, sv, netFaults>>

\* eg.Wait: every goroutine that was started is over.
SaveEnded ==
  /\ sv.mode # "none" /\ Running = {}
  /\ \/ \A g \in DOMAIN gr : gr[g].pc # "wait"
     \/ sv.mode = "auth" /\ \E g \in DOMAIN gr : gr[g].pc = "failed"
                         /\ \A h \in DOMAIN gr : gr[h].pc = "wait" => gr[h].sec > gr[g].sec
SaveOk == \A g \in DOMAIN gr : gr[g].pc = "done"

SaveStep ==
  \E g \in DOMAIN gr :
    \/ StartGroup(g)
    \/ \E im \in gr[g].todo : SaveManifest(g, im)
    \/ ListBlobs(g)
    \/ \E b \in DOMAIN gr[g].blobs : StatBlobStep(g, b) \/ CheckErr(g, b) \/ SaveBlob(g, b)
    \/ EndGroup(g)
=============================================================================
