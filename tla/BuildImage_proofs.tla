-------------------------- MODULE BuildImage_proofs --------------------------
(***************************************************************************)
(* Theorems about the image commands, for every store, Kubefile, option,   *)
(* archive and remote registry, and any number of commands, faults and     *)
(* crashes.                                                                *)
(***************************************************************************)
EXTENDS BuildImage, FiniteSetTheorems, TLAPS

------------------------------------------------------------------------------
(* What the operations of the engine do to a store.                        *)

\* The names of t are names of s or in N, each where it was.
NamesFrom(s, t, N) ==
  \A j \in DOMAIN t.img : \A n \in t.img[j].names :
    n \in N \/ (j \in DOMAIN s.img /\ n \in s.img[j].names)

\* The containers of t are containers of s.
ContainersFrom(s, t) ==
  DOMAIN t.ctr \subseteq DOMAIN s.ctr /\ \A c \in DOMAIN t.ctr : t.ctr[c] = s.ctr[c]

\* No ID that was given out to an image is one of a list.
PlainStays(s, t) == \A i : Plain(s, i) => Plain(t, i)

\* s may become t by operations that give out the names of N.
Becomes(s, t, N) ==
  StoreOK(t) /\ t.next >= s.next /\ NamesFrom(s, t, N) /\ ContainersFrom(s, t) /\ PlainStays(s, t)

LEMMA Stays ==
  ASSUME NEW s, StoreOK(s), NEW N
  PROVE  Becomes(s, s, N)
BY DEF Becomes, NamesFrom, ContainersFrom, StoreOK, PlainStays

LEMMA BecomesInTurn ==
  ASSUME NEW s, NEW t, NEW u, NEW N, StoreOK(s), Becomes(s, t, N), Becomes(t, u, N)
  PROVE  Becomes(s, u, N)
<1>1. u.next >= s.next
  BY DEF Becomes, StoreOK
<1>2. NamesFrom(s, u, N)
  BY DEF Becomes, NamesFrom
<1>3. ContainersFrom(s, u)
  BY DEF Becomes, ContainersFrom
<1>4. PlainStays(s, u)
  BY DEF Becomes, PlainStays
<1> QED
  BY <1>1, <1>2, <1>3, <1>4 DEF Becomes

LEMMA BecomesMore ==
  ASSUME NEW s, NEW t, NEW N, NEW M, N \subseteq M, Becomes(s, t, N)
  PROVE  Becomes(s, t, M)
BY DEF Becomes, NamesFrom

\* A record under another set of names is an image as before.
LEMMA RenamedOK ==
  ASSUME NEW r, ImageOK(r), NEW N
  PROVE  LET q == [r EXCEPT !.names = N]
         IN ImageOK(q) /\ q.names = N /\ q.kind = r.kind /\ q.inst = r.inst /\ q.plat = r.plat /\ q.key = r.key
BY DEF ImageOK

LEMMA PutImageBecomes ==
  ASSUME NEW s, StoreOK(s), NEW i \in Nat \ {0}, NEW r, ImageOK(r),
         r.kind = "list" => (i = s.next \/ IsManifestList(s, i)) /\ \A j \in r.inst : Plain(s, j),
         NEW N, \A n \in r.names : n \in N \/ (i \in DOMAIN s.img /\ n \in s.img[i].names)
  PROVE  LET t == PutImage(s, i, r)
         IN /\ Becomes(s, t, N)
            /\ DOMAIN t.img = DOMAIN s.img \cup {i}
            /\ t.img[i] = r
            /\ t.ctr = s.ctr
            /\ \A j \in DOMAIN s.img \ {i} : t.img[j] = [s.img[j] EXCEPT !.names = @ \ r.names]
            /\ i < t.next
<1> DEFINE t == PutImage(s, i, r)
           img == [j \in DOMAIN s.img \cup {i} |->
                     IF j = i THEN r ELSE [s.img[j] EXCEPT !.names = @ \ r.names]]
<1>1. /\ DOMAIN t = DOMAIN s /\ t.img = img /\ t.ctr = s.ctr
      /\ t.next = IF i >= s.next THEN i + 1 ELSE s.next
  BY DEF PutImage, StoreOK
<1>2. t.next \in Nat \ {0} /\ t.next >= s.next /\ i \in 1 .. t.next - 1
  BY <1>1 DEF StoreOK
<1>3. ASSUME NEW j \in DOMAIN s.img, j # i
      PROVE  /\ img[j] = [s.img[j] EXCEPT !.names = @ \ r.names]
             /\ ImageOK(img[j]) /\ img[j].names = s.img[j].names \ r.names
             /\ img[j].kind = s.img[j].kind /\ img[j].inst = s.img[j].inst
  <2>1. img[j] = [s.img[j] EXCEPT !.names = s.img[j].names \ r.names]
    BY <1>3
  <2>2. ImageOK(s.img[j])
    BY DEF StoreOK, ImagesOK
  <2> HIDE DEF img
  <2> QED
    BY <2>1, <2>2, RenamedOK
<1>4. img[i] = r /\ DOMAIN img = DOMAIN s.img \cup {i}
  OBVIOUS
<1> HIDE DEF img
<1>5. ImagesOK(t.img, t.next)
  <2> SUFFICES ASSUME NEW j \in DOMAIN img PROVE j \in 1 .. t.next - 1 /\ ImageOK(img[j])
    BY <1>1 DEF ImagesOK
  <2>1. CASE j = i
    BY <2>1, <1>2, <1>4
  <2>2. CASE j # i
    <3>1. j \in DOMAIN s.img /\ j \in 1 .. s.next - 1
      BY <2>2, <1>4 DEF StoreOK, ImagesOK
    <3>2. ASSUME NEW m \in Nat, NEW k \in Nat, m >= k, j \in 1 .. k - 1 PROVE j \in 1 .. m - 1
      BY <3>2
    <3>3. j \in 1 .. t.next - 1
      BY <3>1, <3>2, <1>2 DEF StoreOK
    <3> QED
      BY <3>1, <3>3, <2>2, <1>3
  <2> QED
    BY <2>1, <2>2
<1>6. \A j, k \in DOMAIN t.img : t.img[j].names \cap t.img[k].names # {} => j = k
  BY <1>1, <1>3, <1>4 DEF StoreOK
<1>11. ASSUME NEW j \in 1 .. s.next - 1 PROVE j \in 1 .. t.next - 1
  BY <1>2 DEF StoreOK
<1>12. PlainStays(s, t)
  <2> SUFFICES ASSUME NEW j, Plain(s, j) PROVE Plain(t, j)
    BY DEF PlainStays
  <2>1. j \in 1 .. t.next - 1 /\ j # s.next
    BY <1>11 DEF Plain, StoreOK
  <2> QED
    BY <2>1, <1>1, <1>3, <1>4 DEF Plain, IsManifestList
<1>13. ASSUME NEW j \in DOMAIN t.img, t.img[j].kind = "list", NEW k \in t.img[j].inst PROVE Plain(t, k)
  <2>1. Plain(s, k)
    BY <1>1, <1>3, <1>4, <1>13 DEF StoreOK
  <2> QED
    BY <2>1, <1>12 DEF PlainStays
<1>14. \A c \in DOMAIN t.ctr : ContainerOK(t.ctr[c]) /\ t.ctr[c].image \in 1 .. t.next - 1
  BY <1>1, <1>11 DEF StoreOK
<1>7. StoreOK(t)
  BY <1>1, <1>2, <1>5, <1>6, <1>13, <1>14 DEF StoreOK
<1>8. NamesFrom(s, t, N)
  BY <1>1, <1>3, <1>4 DEF NamesFrom
<1>9. ContainersFrom(s, t)
  BY <1>1 DEF ContainersFrom
<1>10. i < t.next
  BY <1>2
<1> QED
  BY <1>1, <1>2, <1>3, <1>4, <1>7, <1>8, <1>9, <1>10, <1>12 DEF Becomes

\* A store of which images or containers went, or names.
LEMMA SmallerStore ==
  ASSUME NEW s, StoreOK(s), NEW t, NEW N,
         DOMAIN t = DOMAIN s, t.next = s.next,
         DOMAIN t.img \subseteq DOMAIN s.img,
         \A j \in DOMAIN t.img : ImageOK(t.img[j]) /\ t.img[j].names \subseteq s.img[j].names,
         \A j \in DOMAIN t.img : t.img[j].kind = s.img[j].kind,
         \A j \in DOMAIN t.img : t.img[j].kind = "list" => \A k \in t.img[j].inst : Plain(s, k),
         ContainersFrom(s, t)
  PROVE  Becomes(s, t, N)
<1>1. ImagesOK(t.img, t.next)
  BY DEF ImagesOK, StoreOK
<1>2. \A j, k \in DOMAIN t.img : t.img[j].names \cap t.img[k].names # {} => j = k
  BY DEF StoreOK
<1>3. \A c \in DOMAIN t.ctr : ContainerOK(t.ctr[c]) /\ t.ctr[c].image \in 1 .. t.next - 1
  BY DEF ContainersFrom, StoreOK
<1>6. PlainStays(s, t)
  BY DEF PlainStays, Plain, IsManifestList
<1>4. StoreOK(t)
  BY <1>1, <1>2, <1>3, <1>6 DEF StoreOK, PlainStays
<1>5. t.next >= s.next
  BY DEF StoreOK
<1> QED
  BY <1>4, <1>5, <1>6 DEF Becomes, NamesFrom

LEMMA DropContainersBecomes ==
  ASSUME NEW s, StoreOK(s), NEW C, NEW N
  PROVE  /\ Becomes(s, DropContainers(s, C), N)
         /\ DropContainers(s, C).img = s.img
         /\ DOMAIN DropContainers(s, C).ctr = DOMAIN s.ctr \ C
<1> DEFINE t == DropContainers(s, C)
<1>1. /\ DOMAIN t = DOMAIN s /\ t.next = s.next /\ t.img = s.img
      /\ t.ctr = [c \in DOMAIN s.ctr \ C |-> s.ctr[c]]
  BY DEF DropContainers, Restrict, StoreOK
<1>2. ContainersFrom(s, t)
  BY <1>1 DEF ContainersFrom
<1>3. \A j \in DOMAIN t.img : ImageOK(t.img[j])
  BY <1>1 DEF StoreOK, ImagesOK
<1>5. \A j \in DOMAIN t.img : t.img[j].kind = "list" => \A k \in t.img[j].inst : Plain(s, k)
  BY <1>1 DEF StoreOK
<1> HIDE DEF t
<1>4. Becomes(s, t, N)
  BY <1>1, <1>2, <1>3, <1>5, SmallerStore
<1> QED
  BY <1>1, <1>4 DEF t

\* Images go: the names of what stays are what they were.
LEMMA DropImagesBecomes ==
  ASSUME NEW s, StoreOK(s), NEW I, NEW N
  PROVE  LET t == [s EXCEPT !.img = Restrict(@, DOMAIN @ \ I)]
         IN /\ Becomes(s, t, N)
            /\ DOMAIN t.img = DOMAIN s.img \ I
            /\ \A j \in DOMAIN t.img : t.img[j] = s.img[j]
            /\ t.ctr = s.ctr
<1> DEFINE t == [s EXCEPT !.img = Restrict(@, DOMAIN @ \ I)]
<1>1. /\ DOMAIN t = DOMAIN s /\ t.next = s.next /\ t.ctr = s.ctr
      /\ t.img = [j \in DOMAIN s.img \ I |-> s.img[j]]
  BY DEF Restrict, StoreOK
<1>2. ContainersFrom(s, t)
  BY <1>1 DEF ContainersFrom
<1>3. \A j \in DOMAIN t.img : j \in DOMAIN s.img /\ ImageOK(t.img[j]) /\ t.img[j] = s.img[j]
  BY <1>1 DEF StoreOK, ImagesOK
<1>5. \A j \in DOMAIN t.img : t.img[j].kind = "list" => \A k \in t.img[j].inst : Plain(s, k)
  BY <1>3 DEF StoreOK
<1> HIDE DEF t
<1>4. Becomes(s, t, N)
  BY <1>1, <1>2, <1>3, <1>5, SmallerStore
<1> QED
  BY <1>1, <1>3, <1>4 DEF t

LEMMA DropImageBecomes ==
  ASSUME NEW s, StoreOK(s), NEW i, NEW N
  PROVE  /\ Becomes(s, DropImage(s, i), N)
         /\ DOMAIN DropImage(s, i).img = DOMAIN s.img \ {i}
         /\ \A j \in DOMAIN DropImage(s, i).img : DropImage(s, i).img[j] = s.img[j]
         /\ DropImage(s, i).ctr = s.ctr
BY DropImagesBecomes DEF DropImage
\* Lookup finds the one image that has the name, or 0.
LEMMA LookupFinds ==
  ASSUME NEW s, StoreOK(s), NEW n
  PROVE  /\ Lookup(s, n) # 0 => Lookup(s, n) \in DOMAIN s.img /\ n \in s.img[Lookup(s, n)].names
         /\ \A i \in DOMAIN s.img : n \in s.img[i].names => Lookup(s, n) = i
         /\ 0 \notin DOMAIN s.img
<1>1. 0 \notin DOMAIN s.img
  BY DEF StoreOK, ImagesOK
<1>2. CASE \E i \in DOMAIN s.img : n \in s.img[i].names
  <2>1. Lookup(s, n) \in DOMAIN s.img /\ n \in s.img[Lookup(s, n)].names
    BY <1>2 DEF Lookup
  <2>2. \A i \in DOMAIN s.img : n \in s.img[i].names => Lookup(s, n) = i
    BY <2>1 DEF StoreOK
  <2> QED
    BY <1>1, <2>1, <2>2
<1>3. CASE ~ \E i \in DOMAIN s.img : n \in s.img[i].names
  BY <1>1, <1>3 DEF Lookup
<1> QED
  BY <1>2, <1>3

LEMMA IdsArePositive ==
  ASSUME NEW s, StoreOK(s), NEW i \in DOMAIN s.img
  PROVE  i \in Nat \ {0} /\ ImageOK(s.img[i])
BY DEF StoreOK, ImagesOK

LEMMA DeleteImageBecomes ==
  ASSUME NEW s, StoreOK(s), NEW i, NEW force \in BOOLEAN, NEW N
  PROVE  LET d == DeleteImage(s, i, force)
         IN /\ Becomes(s, d.st, N)
            /\ d.ok => DOMAIN d.st.img = DOMAIN s.img \ {i}
            /\ \A j \in DOMAIN d.st.img : d.st.img[j] = s.img[j]
            /\ force => d.ok /\ DOMAIN d.st.ctr = DOMAIN s.ctr \ ContainersOf(s, i)
            /\ d.ok \in BOOLEAN
<1> DEFINE t == DropContainers(s, ContainersOf(s, i))
           u == DropImage(t, i)
<1>1. Becomes(s, t, N) /\ t.img = s.img /\ DOMAIN t.ctr = DOMAIN s.ctr \ ContainersOf(s, i)
  BY DropContainersBecomes
<1>2. StoreOK(t)
  BY <1>1 DEF Becomes
<1> HIDE DEF t
<1>3. /\ Becomes(t, u, N) /\ DOMAIN u.img = DOMAIN t.img \ {i} /\ u.ctr = t.ctr
      /\ \A j \in DOMAIN u.img : u.img[j] = t.img[j]
  BY <1>2, DropImageBecomes
<1> HIDE DEF u
<1>4. Becomes(s, u, N)
  BY <1>1, <1>3, BecomesInTurn
<1>5. CASE ContainersOf(s, i) # {} /\ ~force
  <2>1. DeleteImage(s, i, force) = [st |-> s, ok |-> FALSE, id |-> i]
    BY <1>5 DEF DeleteImage, Ret
  <2> QED
    BY <2>1, <1>5, Stays
<1>6. CASE ~(ContainersOf(s, i) # {} /\ ~force)
  <2>1. DeleteImage(s, i, force) = [st |-> u, ok |-> TRUE, id |-> i]
    BY <1>6 DEF DeleteImage, Ret, u, t
  <2> QED
    BY <2>1, <1>1, <1>3, <1>4
<1> QED
  BY <1>5, <1>6

LEMMA RemoveByNameBecomes ==
  ASSUME NEW s, StoreOK(s), NEW i \in DOMAIN s.img, NEW n, NEW force \in BOOLEAN, NEW N
  PROVE  Becomes(s, RemoveByName(s, i, n, force).st, N)
<1>1. CASE Cardinality(s.img[i].names) = 1
  BY <1>1, DeleteImageBecomes DEF RemoveByName
<1>2. CASE Cardinality(s.img[i].names) # 1 /\ n \notin s.img[i].names
  BY <1>2, Stays DEF RemoveByName, Ret
<1>3. CASE Cardinality(s.img[i].names) # 1 /\ n \in s.img[i].names
  <2> DEFINE r == [s.img[i] EXCEPT !.names = @ \ {n}]
             t == [s EXCEPT !.img[i].names = @ \ {n}]
  <2>1. RemoveByName(s, i, n, force).st = t
    BY <1>3 DEF RemoveByName, Ret
  <2>2. DOMAIN t = DOMAIN s /\ t.next = s.next /\ t.ctr = s.ctr /\ t.img = [s.img EXCEPT ![i] = r]
    BY DEF StoreOK
  <2>3. ImageOK(r) /\ r.names = s.img[i].names \ {n} /\ r.kind = s.img[i].kind /\ r.inst = s.img[i].inst
    BY IdsArePositive, RenamedOK
  <2> HIDE DEF t, r
  <2>4. DOMAIN t.img = DOMAIN s.img /\ \A j \in DOMAIN t.img : t.img[j] = IF j = i THEN r ELSE s.img[j]
    BY <2>2
  <2>5. \A j \in DOMAIN t.img : ImageOK(t.img[j]) /\ t.img[j].names \subseteq s.img[j].names
    BY <2>3, <2>4, IdsArePositive
  <2>6. ContainersFrom(s, t)
    BY <2>2 DEF ContainersFrom
  <2>7. \A j \in DOMAIN t.img : t.img[j].kind = s.img[j].kind /\ t.img[j].inst = s.img[j].inst
    BY <2>3, <2>4
  <2>8. \A j \in DOMAIN t.img : t.img[j].kind = "list" => \A k \in t.img[j].inst : Plain(s, k)
    BY <2>4, <2>7 DEF StoreOK
  <2> QED
    BY <2>1, <2>2, <2>4, <2>5, <2>6, <2>7, <2>8, SmallerStore
<1> QED
  BY <1>1, <1>2, <1>3

LEMMA DeleteManifestsBecomes ==
  ASSUME NEW s, StoreOK(s), NEW n, NEW N
  PROVE  Becomes(s, DeleteManifests(s, n).st, N)
<1>1. CASE IsManifestList(s, Lookup(s, n))
  BY <1>1, RemoveByNameBecomes DEF DeleteManifests, IsManifestList
<1>2. CASE ~IsManifestList(s, Lookup(s, n))
  BY <1>2, Stays DEF DeleteManifests, Ret
<1> QED
  BY <1>1, <1>2

LEMMA ResolvedFinds ==
  ASSUME NEW s, StoreOK(s), NEW n
  PROVE  Resolved(s, n) # 0 => Resolved(s, n) \in DOMAIN s.img
<1> DEFINE here == {j \in DOMAIN s.img : s.img[j].plat = HostPlatform}
           i == Lookup(s, n)
<1>1. CASE IsManifestList(s, i) /\ s.img[i].inst \cap here # {}
  <2>1. Resolved(s, n) = CHOOSE j \in s.img[i].inst \cap here : TRUE
    BY <1>1 DEF Resolved, ResolvedFor
  <2> QED
    BY <2>1, <1>1
<1>2. CASE ~(IsManifestList(s, i) /\ s.img[i].inst \cap here # {})
  BY <1>2, LookupFinds DEF Resolved, ResolvedFor
<1> QED
  BY <1>1, <1>2

LEMMA RemoveImageBecomes ==
  ASSUME NEW s, StoreOK(s), NEW n, NEW force \in BOOLEAN, NEW N
  PROVE  Becomes(s, RemoveImage(s, n, force).st, N)
<1> DEFINE i == Resolved(s, n)
           first == IF i = 0 THEN Ret(s, FALSE, 0) ELSE RemoveByName(s, i, n, force)
<1>1. Becomes(s, first.st, N)
  <2>1. CASE i = 0
    BY <2>1, Stays DEF Ret
  <2>2. CASE i # 0
    BY <2>2, ResolvedFinds, RemoveByNameBecomes
  <2> QED
    BY <2>1, <2>2
<1>2. RemoveImage(s, n, force) = IF first.ok THEN first ELSE DeleteManifests(s, n)
  BY DEF RemoveImage
<1> HIDE DEF first
<1> QED
  BY <1>1, <1>2, DeleteManifestsBecomes

LEMMA RemoveImageByIdBecomes ==
  ASSUME NEW s, StoreOK(s), NEW i, NEW force \in BOOLEAN, NEW N
  PROVE  LET d == RemoveImageById(s, i, force)
         IN /\ Becomes(s, d.st, N)
            /\ force /\ i \in DOMAIN s.img =>
                 /\ DOMAIN d.st.img = DOMAIN s.img \ {i}
                 /\ \A j \in DOMAIN d.st.img : d.st.img[j] = s.img[j]
                 /\ DOMAIN d.st.ctr = DOMAIN s.ctr \ ContainersOf(s, i)
<1>1. CASE i \notin DOMAIN s.img \/ (Cardinality(s.img[i].names) > 1 /\ ~force)
  BY <1>1, Stays DEF RemoveImageById, Ret
<1>2. CASE ~(i \notin DOMAIN s.img \/ (Cardinality(s.img[i].names) > 1 /\ ~force))
  <2> DEFINE d == DeleteImage(s, i, force)
  <2>1. RemoveImageById(s, i, force) = d
    BY <1>2 DEF RemoveImageById
  <2>2. /\ Becomes(s, d.st, N)
        /\ d.ok => DOMAIN d.st.img = DOMAIN s.img \ {i}
        /\ \A j \in DOMAIN d.st.img : d.st.img[j] = s.img[j]
        /\ force => d.ok /\ DOMAIN d.st.ctr = DOMAIN s.ctr \ ContainersOf(s, i)
    BY DeleteImageBecomes
  <2> HIDE DEF d
  <2> QED
    BY <2>1, <2>2
<1> QED
  BY <1>1, <1>2

------------------------------------------------------------------------------
(* Names and lists.                                                        *)

LEMMA TagBecomes ==
  ASSUME NEW s, StoreOK(s), NEW n, NEW new
  PROVE  Becomes(s, Tag(s, n, new).st, {new})
<1> DEFINE i == Lookup(s, n)
           r == [s.img[i] EXCEPT !.names = @ \cup {new}]
<1>1. CASE i = 0
  BY <1>1, Stays DEF Tag, Ret
<1>2. CASE i # 0
  <2>1. i \in DOMAIN s.img /\ i \in Nat \ {0} /\ ImageOK(s.img[i])
    BY <1>2, LookupFinds, IdsArePositive
  <2>2. ImageOK(r) /\ r.names = s.img[i].names \cup {new} /\ r.kind = s.img[i].kind /\ r.inst = s.img[i].inst
    BY <2>1, RenamedOK
  <2>4. r.kind = "list" => IsManifestList(s, i) /\ \A j \in r.inst : Plain(s, j)
    BY <2>1, <2>2 DEF IsManifestList, StoreOK
  <2>3. Tag(s, n, new).st = PutImage(s, i, r)
    BY <1>2 DEF Tag, Ret
  <2> HIDE DEF r, i
  <2> QED
    BY <2>1, <2>2, <2>3, <2>4, PutImageBecomes
<1> QED
  BY <1>1, <1>2

LEMMA NothingLaunched == AppsOK(<<>>) /\ ImageOK([NewList(NoName) EXCEPT !.names = {}])
<1>1. AppsOK(<<>>)
  BY DEF AppsOK
<1> QED
  BY <1>1 DEF ImageOK, NewList, NoExtension, NoRegistry, NoKey, Launchable, RegistryOK

LEMMA NewListOK ==
  ASSUME NEW n
  PROVE  ImageOK(NewList(n)) /\ NewList(n).names = {n} /\ NewList(n).kind = "list" /\ NewList(n).inst = {}
BY NothingLaunched DEF ImageOK, NewList, NoExtension, NoRegistry, NoKey, Launchable, RegistryOK

LEMMA CreateManifestBecomes ==
  ASSUME NEW s, StoreOK(s), NEW n
  PROVE  LET c == CreateManifest(s, n)
         IN /\ Becomes(s, c.st, {n}) /\ c.ok \in BOOLEAN
            /\ ~c.ok => c.st = s
            /\ c.ok => /\ c.id = s.next /\ Lookup(s, n) = 0
                       /\ DOMAIN c.st.img = DOMAIN s.img \cup {c.id}
                       /\ c.st.img[c.id] = NewList(n)
                       /\ c.st.ctr = s.ctr
<1>1. CASE Lookup(s, n) # 0
  BY <1>1, Stays DEF CreateManifest, Ret
<1>2. CASE Lookup(s, n) = 0
  <2> DEFINE t == PutImage(s, s.next, NewList(n))
  <2>1. CreateManifest(s, n) = [st |-> t, ok |-> TRUE, id |-> s.next]
    BY <1>2 DEF CreateManifest, Ret
  <2>2. s.next \in Nat \ {0}
    BY DEF StoreOK
  <2>3. /\ Becomes(s, t, {n}) /\ DOMAIN t.img = DOMAIN s.img \cup {s.next}
        /\ t.img[s.next] = NewList(n) /\ t.ctr = s.ctr
    BY <2>2, NewListOK, PutImageBecomes
  <2> HIDE DEF t
  <2> QED
    BY <2>1, <2>3, <1>2
<1> QED
  BY <1>1, <1>2

AllPlain(s, I) == \A k \in I : Plain(s, k)

\* A list may get other instances.
LEMMA InstancesBecomes ==
  ASSUME NEW s, StoreOK(s), NEW l \in DOMAIN s.img, NEW I, AllPlain(s, I), NEW N,
         NEW t, t = [s EXCEPT !.img[l].inst = I]
  PROVE  /\ Becomes(s, t, N)
         /\ DOMAIN t.img = DOMAIN s.img
         /\ t.img[l].inst = I /\ t.img[l].kind = s.img[l].kind
         /\ \A j \in DOMAIN s.img : t.img[j].names = s.img[j].names
         /\ t.ctr = s.ctr
<1> DEFINE r == [s.img[l] EXCEPT !.inst = I]
<1>1. DOMAIN t = DOMAIN s /\ t.next = s.next /\ t.ctr = s.ctr /\ t.img = [s.img EXCEPT ![l] = r]
  BY DEF StoreOK
<1>2. ImageOK(s.img[l])
  BY IdsArePositive
<1>3. ImageOK(r) /\ r.names = s.img[l].names /\ r.inst = I /\ r.kind = s.img[l].kind
  BY <1>2 DEF ImageOK
<1> HIDE DEF r
<1>4. DOMAIN t.img = DOMAIN s.img /\ \A j \in DOMAIN t.img : t.img[j] = IF j = l THEN r ELSE s.img[j]
  BY <1>1
<1>5. \A j \in DOMAIN t.img : ImageOK(t.img[j]) /\ t.img[j].names \subseteq s.img[j].names
  BY <1>3, <1>4, IdsArePositive
<1>6. ContainersFrom(s, t)
  BY <1>1 DEF ContainersFrom
<1>8. \A j \in DOMAIN t.img : t.img[j].kind = s.img[j].kind
  BY <1>3, <1>4
<1>9. \A j \in DOMAIN t.img : t.img[j].kind = "list" => \A k \in t.img[j].inst : Plain(s, k)
  BY <1>3, <1>4, <1>8 DEF StoreOK, AllPlain
<1>7. Becomes(s, t, N)
  BY <1>1, <1>4, <1>5, <1>6, <1>8, <1>9, SmallerStore
<1> QED
  BY <1>1, <1>3, <1>4, <1>7

\* What a name or an ID stands for in a list are images.
LEMMA InstancesPlain ==
  ASSUME NEW s, StoreOK(s), NEW i \in DOMAIN s.img
  PROVE  \A j \in Instances(s, i) : Plain(s, j)
<1>1. CASE IsManifestList(s, i)
  BY <1>1 DEF Instances, IsManifestList, StoreOK
<1>2. CASE ~IsManifestList(s, i)
  BY <1>2 DEF Instances, Plain, StoreOK, ImagesOK
<1> QED
  BY <1>1, <1>2

LEMMA AddToListBecomes ==
  ASSUME NEW s, StoreOK(s), NEW l, IsManifestList(s, l), NEW i, NEW N
  PROVE  LET a == AddToList(s, l, i)
         IN /\ Becomes(s, a.st, N) /\ a.ok \in BOOLEAN
            /\ DOMAIN a.st.img = DOMAIN s.img /\ a.st.ctr = s.ctr
<1> DEFINE t == [s EXCEPT !.img[l].inst = s.img[l].inst \cup Instances(s, i)]
<1>0. l \in DOMAIN s.img /\ \A k \in s.img[l].inst : Plain(s, k)
  BY DEF IsManifestList, StoreOK
<1>1. i \in DOMAIN s.img => Becomes(s, t, N) /\ DOMAIN t.img = DOMAIN s.img /\ t.ctr = s.ctr
  <2> DEFINE I == s.img[l].inst \cup Instances(s, i)
  <2>1. i \in DOMAIN s.img => AllPlain(s, I)
    BY <1>0, InstancesPlain DEF AllPlain
  <2>2. t = [s EXCEPT !.img[l].inst = I]
    OBVIOUS
  <2> HIDE DEF I, t
  <2> QED
    BY <2>1, <2>2, <1>0, InstancesBecomes
<1>2. CASE i \notin DOMAIN s.img \/ ~(Instances(s, i) \subseteq DOMAIN s.img)
  <2>1. AddToList(s, l, i) = [st |-> s, ok |-> FALSE, id |-> l]
    BY <1>2 DEF AddToList, Ret
  <2> QED
    BY <2>1, Stays
<1>3. CASE ~(i \notin DOMAIN s.img \/ ~(Instances(s, i) \subseteq DOMAIN s.img))
  <2>1. AddToList(s, l, i) = [st |-> t, ok |-> TRUE, id |-> l]
    BY <1>3 DEF AddToList, Ret
  <2> HIDE DEF t
  <2> QED
    BY <2>1, <1>1, <1>3
<1> QED
  BY <1>2, <1>3

LEMMA AddToManifestBecomes ==
  ASSUME NEW s, StoreOK(s), NEW n, NEW i
  PROVE  LET a == AddToManifest(s, n, i)
         IN /\ Becomes(s, a.st, {n}) /\ a.ok \in BOOLEAN
            /\ a.ok => DOMAIN s.img \subseteq DOMAIN a.st.img /\ a.st.ctr = s.ctr
<1> DEFINE l == Lookup(s, n)
           c == CreateManifest(s, n)
           a == AddToList(c.st, c.id, i)
           d == DeleteManifests(a.st, n)
<1>1. CASE IsManifestList(s, l)
  <2>2. AddToManifest(s, n, i) = AddToList(s, l, i)
    BY <1>1 DEF AddToManifest
  <2> HIDE DEF l
  <2> QED
    BY <1>1, <2>2, AddToListBecomes
<1>2. CASE ~IsManifestList(s, l) /\ (l # 0 \/ ~c.ok)
  <2>1. AddToManifest(s, n, i) = [st |-> s, ok |-> FALSE, id |-> 0]
    BY <1>2 DEF AddToManifest, Ret
  <2> QED
    BY <2>1, Stays
<1>3. CASE ~IsManifestList(s, l) /\ l = 0 /\ c.ok
  <2>1. Becomes(s, c.st, {n}) /\ c.st.ctr = s.ctr /\ DOMAIN c.st.img = DOMAIN s.img \cup {c.id}
    BY <1>3, CreateManifestBecomes
  <2>2. StoreOK(c.st)
    BY <2>1 DEF Becomes
  <2>11. IsManifestList(c.st, c.id)
    <3>1. c.st.img[c.id] = NewList(n)
      BY <1>3, CreateManifestBecomes
    <3> HIDE DEF c
    <3> QED
      BY <3>1, <2>1, NewListOK DEF IsManifestList
  <2>3. AddToManifest(s, n, i) = IF a.ok THEN a ELSE [st |-> d.st, ok |-> FALSE, id |-> 0]
    BY <1>3 DEF AddToManifest, Ret
  <2> HIDE DEF c
  <2>4. Becomes(c.st, a.st, {n}) /\ a.ok \in BOOLEAN /\ DOMAIN a.st.img = DOMAIN c.st.img /\ a.st.ctr = c.st.ctr
    BY <2>11, <2>2, AddToListBecomes
  <2>5. StoreOK(a.st)
    BY <2>4 DEF Becomes
  <2> HIDE DEF a
  <2>6. Becomes(a.st, d.st, {n})
    BY <2>5, DeleteManifestsBecomes
  <2> HIDE DEF d
  <2>7. Becomes(s, a.st, {n})
    BY <2>1, <2>4, BecomesInTurn
  <2>8. Becomes(s, d.st, {n})
    BY <2>6, <2>7, BecomesInTurn
  <2>9. CASE a.ok
    BY <2>9, <2>1, <2>3, <2>4, <2>7
  <2>10. CASE ~a.ok
    <3>1. AddToManifest(s, n, i) = [st |-> d.st, ok |-> FALSE, id |-> 0]
      BY <2>10, <2>3
    <3> QED
      BY <3>1, <2>8
  <2> QED
    BY <2>9, <2>10
<1> QED
  BY <1>1, <1>2, <1>3

LEMMA RemoveFromManifestBecomes ==
  ASSUME NEW s, StoreOK(s), NEW n, NEW i, NEW N
  PROVE  Becomes(s, RemoveFromManifest(s, n, i).st, N)
<1> DEFINE l == Lookup(s, n)
<1>1. CASE ~IsManifestList(s, l) \/ i \notin s.img[l].inst
  BY <1>1, Stays DEF RemoveFromManifest, Ret
<1>2. CASE ~(~IsManifestList(s, l) \/ i \notin s.img[l].inst)
  <2> DEFINE I == s.img[l].inst \ {i}
  <2>1. RemoveFromManifest(s, n, i).st = [s EXCEPT !.img[l].inst = I]
    BY <1>2 DEF RemoveFromManifest, Ret
  <2>2. l \in DOMAIN s.img /\ AllPlain(s, I)
    BY <1>2 DEF IsManifestList, StoreOK, AllPlain
  <2> HIDE DEF l, I
  <2> QED
    BY <2>1, <2>2, InstancesBecomes
<1> QED
  BY <1>1, <1>2

------------------------------------------------------------------------------
(* Building and committing.                                                *)

LEMMA BuildBecomes ==
  ASSUME NEW s, StoreOK(s), NEW key, NEW name, NEW ext, NEW files, NEW useCache,
         AppsOK(ext.apps), Launchable(ext),
         NEW r \in Build(s, key, name, ext, files, useCache)
  PROVE  /\ Becomes(s, r.st, {name}) /\ r.ok = TRUE
         /\ r.id \in DOMAIN r.st.img
         /\ name # NoName => name \in r.st.img[r.id].names
         /\ DOMAIN s.img \subseteq DOMAIN r.st.img
         /\ r.st.ctr = s.ctr
<1> DEFINE names == IF name = NoName THEN {} ELSE {name}
           new == [names |-> names, kind |-> "image", plat |-> key.plat, inst |-> {}, key |-> key,
                   ext |-> ext, files |-> files \cup BaseFiles(s, key.base), listed |-> {},
                   saved |-> BaseRegistry(s, key.base)]
           again(i) == [s.img[i] EXCEPT !.names = @ \cup names]
<1>1. CASE useCache /\ Cached(s, key) # {}
  <2>1. PICK i \in Cached(s, key) : r = [st |-> PutImage(s, i, again(i)), ok |-> TRUE, id |-> i]
    BY <1>1 DEF Build, Ret
  <2>2. i \in DOMAIN s.img /\ i \in Nat \ {0} /\ ImageOK(s.img[i])
    BY IdsArePositive DEF Cached
  <2>3. /\ ImageOK(again(i)) /\ again(i).names = s.img[i].names \cup names
        /\ again(i).kind = s.img[i].kind /\ again(i).inst = s.img[i].inst
    BY <2>2, RenamedOK
  <2>5. again(i).kind = "list" => IsManifestList(s, i) /\ \A j \in again(i).inst : Plain(s, j)
    BY <2>2, <2>3 DEF IsManifestList, StoreOK
  <2> DEFINE t == PutImage(s, i, again(i))
  <2> HIDE DEF again
  <2>4. Becomes(s, t, {name}) /\ DOMAIN t.img = DOMAIN s.img \cup {i} /\ t.img[i] = again(i) /\ t.ctr = s.ctr
    BY <2>2, <2>3, <2>5, PutImageBecomes
  <2> HIDE DEF t
  <2> QED
    BY <2>1, <2>3, <2>4 DEF t
<1>2. CASE ~(useCache /\ Cached(s, key) # {})
  <2>1. r = [st |-> PutImage(s, s.next, new), ok |-> TRUE, id |-> s.next]
    BY <1>2 DEF Build, Ret
  <2>2. RegistryOK(BaseRegistry(s, key.base))
    <3>1. CASE key.base \in DOMAIN s.img
      BY <3>1, IdsArePositive DEF BaseRegistry, ImageOK
    <3>2. CASE key.base \notin DOMAIN s.img
      BY <3>2 DEF BaseRegistry, NoRegistry, RegistryOK
    <3> QED
      BY <3>1, <3>2
  <2>3. ImageOK(new) /\ new.names = names /\ new.kind # "list"
    BY <2>2 DEF ImageOK
  <2>4. s.next \in Nat \ {0}
    BY DEF StoreOK
  <2> DEFINE t == PutImage(s, s.next, new)
  <2> HIDE DEF new
  <2>5. Becomes(s, t, {name}) /\ DOMAIN t.img = DOMAIN s.img \cup {s.next} /\ t.img[s.next] = new /\ t.ctr = s.ctr
    BY <2>3, <2>4, PutImageBecomes
  <2> HIDE DEF t
  <2> QED
    BY <2>1, <2>3, <2>5 DEF t
<1> QED
  BY <1>1, <1>2

\* The container gets the extension and the registry directory of its image.
LEMMA CreateContainerKeeps ==
  ASSUME NEW s, StoreOK(s), NEW i, NEW r \in CreateWorkingContainer(s, i)
  PROVE  /\ StoreOK(r.st) /\ r.st.next = s.next /\ r.st.img = s.img /\ r.ok \in BOOLEAN
         /\ i \notin DOMAIN s.img => r.st = s /\ ~r.ok
         /\ i \in DOMAIN s.img => /\ DOMAIN r.st.ctr = DOMAIN s.ctr \cup {r.id}
                                  /\ r.st.ctr[r.id].image = i /\ r.st.ctr[r.id].plat = s.img[i].plat
                                  /\ \A c \in DOMAIN s.ctr \ {r.id} : r.st.ctr[c] = s.ctr[c]
<1> DEFINE free == 1 .. Cardinality(DOMAIN s.ctr) + 1 \ DOMAIN s.ctr
           c == CHOOSE d \in free : \A e \in free : d <= e
           new == [image |-> i, plat |-> s.img[i].plat, ext |-> s.img[i].ext, files |-> s.img[i].files,
                   listed |-> s.img[i].listed, saved |-> s.img[i].saved]
           ctr == [d \in DOMAIN s.ctr \cup {c} |-> IF d = c THEN new ELSE s.ctr[d]]
           made == [s EXCEPT !.ctr = ctr]
<1>0. r \in IF i \notin DOMAIN s.img THEN {Ret(s, FALSE, 0)} ELSE {Ret(made, TRUE, c), Ret(made, FALSE, c)}
  BY DEF CreateWorkingContainer
<1> HIDE DEF c, made
<1>1. CASE i \notin DOMAIN s.img
  <2>1. r = [st |-> s, ok |-> FALSE, id |-> 0]
    BY <1>0, <1>1 DEF Ret
  <2> QED
    BY <2>1, <1>1
<1>2. CASE i \in DOMAIN s.img
  <2>1. r.st = made /\ r.id = c /\ r.ok \in BOOLEAN
    <3>1. r = [st |-> made, ok |-> TRUE, id |-> c] \/ r = [st |-> made, ok |-> FALSE, id |-> c]
      BY <1>0, <1>2 DEF Ret
    <3>2. CASE r = [st |-> made, ok |-> TRUE, id |-> c]
      BY <3>2
    <3>3. CASE r = [st |-> made, ok |-> FALSE, id |-> c]
      BY <3>3
    <3> QED
      BY <3>1, <3>2, <3>3
  <2> USE DEF made
  <2>2. ContainerOK(new) /\ new.image = i /\ new.plat = s.img[i].plat
    BY <1>2, IdsArePositive DEF ContainerOK, ImageOK
  <2> HIDE DEF new
  <2>3. DOMAIN made = DOMAIN s /\ made.img = s.img /\ made.next = s.next /\ made.ctr = ctr
    BY DEF StoreOK
  <2>4. \A d \in DOMAIN ctr : ContainerOK(ctr[d]) /\ ctr[d].image \in 1 .. s.next - 1
    BY <2>2, <1>2 DEF StoreOK, ImagesOK
  <2> HIDE DEF made
  <2>5. StoreOK(made)
    BY <2>3, <2>4 DEF StoreOK, Plain, IsManifestList
  <2> QED
    BY <2>1, <2>2, <2>3, <2>5, <1>2
<1> QED
  BY <1>1, <1>2

\* The working container may get other annotations or another registry directory.
LEMMA ContainerChanged ==
  ASSUME NEW s, StoreOK(s), NEW c, NEW r, ContainerOK(r),
         c \in DOMAIN s.ctr => r.image = s.ctr[c].image /\ r.plat = s.ctr[c].plat,
         NEW t, t = [s EXCEPT !.ctr[c] = r]
  PROVE  /\ StoreOK(t) /\ t.next = s.next /\ t.img = s.img
         /\ DOMAIN t.ctr = DOMAIN s.ctr
         /\ \A d \in DOMAIN s.ctr : t.ctr[d].image = s.ctr[d].image /\ t.ctr[d].plat = s.ctr[d].plat
         /\ c \in DOMAIN s.ctr => t.ctr[c] = r
<1>1. DOMAIN t = DOMAIN s /\ t.img = s.img /\ t.next = s.next /\ t.ctr = [s.ctr EXCEPT ![c] = r]
  BY DEF StoreOK
<1>2. \A d \in DOMAIN t.ctr : ContainerOK(t.ctr[d]) /\ t.ctr[d].image \in 1 .. s.next - 1
  BY <1>1 DEF StoreOK
<1>3. StoreOK(t)
  BY <1>1, <1>2 DEF StoreOK, Plain, IsManifestList
<1> QED
  BY <1>1, <1>3

LEMMA CommitBecomes ==
  ASSUME NEW s, StoreOK(s), NEW c \in DOMAIN s.ctr, NEW name, NEW manifest, manifest \in {NoName, name},
         NEW r \in Commit(s, c, name, manifest)
  PROVE  /\ Becomes(s, r.st, {name}) /\ r.ok \in BOOLEAN
         /\ DOMAIN s.img \subseteq DOMAIN r.st.img
<1> DEFINE ctr == s.ctr[c]
           i == s.next
           names == IF manifest = NoName THEN {name} ELSE {}
           img == [names |-> names, kind |-> "image", plat |-> ctr.plat, inst |-> {},
                   key |-> [NoKey EXCEPT !.base = s.img[ctr.image].key.base],
                   ext |-> ctr.ext, files |-> ctr.files, listed |-> ctr.listed, saved |-> ctr.saved]
           committed == PutImage(s, i, img)
           done == IF manifest = NoName THEN Ret(committed, TRUE, i) ELSE AddToManifest(committed, manifest, i)
<1>1. r \in IF ~done.ok THEN {Ret(committed, FALSE, i)}
            ELSE {Ret(DropContainers(done.st, {c}), TRUE, i), Ret(done.st, FALSE, i)}
  BY DEF Commit
<1>2. ContainerOK(ctr) /\ i \in Nat \ {0}
  BY DEF StoreOK
<1>3. ImageOK(img) /\ img.names \subseteq {name} /\ img.kind # "list"
  BY <1>2 DEF ImageOK, ContainerOK, NoKey
<1> HIDE DEF img
<1>4. Becomes(s, committed, {name}) /\ DOMAIN s.img \subseteq DOMAIN committed.img
  BY <1>2, <1>3, PutImageBecomes
<1>5. StoreOK(committed)
  BY <1>4 DEF Becomes
<1> HIDE DEF committed
<1>6. /\ done.ok \in BOOLEAN
      /\ done.ok => Becomes(s, done.st, {name}) /\ DOMAIN s.img \subseteq DOMAIN done.st.img
  <2>1. CASE manifest = NoName
    BY <2>1, <1>4 DEF Ret
  <2>2. CASE manifest # NoName
    <3> DEFINE a == AddToManifest(committed, name, i)
    <3>1. done = a
      BY <2>2
    <3>2. /\ Becomes(committed, a.st, {name}) /\ a.ok \in BOOLEAN
          /\ a.ok => DOMAIN committed.img \subseteq DOMAIN a.st.img
      BY <1>5, AddToManifestBecomes
    <3> HIDE DEF a
    <3>3. Becomes(s, a.st, {name})
      BY <3>2, <1>4, BecomesInTurn
    <3> QED
      BY <3>1, <3>2, <3>3, <1>4
  <2> QED
    BY <2>1, <2>2
<1> HIDE DEF done
<1>7. CASE ~done.ok
  <2>1. r = [st |-> committed, ok |-> FALSE, id |-> i]
    BY <1>1, <1>7 DEF Ret
  <2> QED
    BY <2>1, <1>4
<1>8. CASE done.ok
  <2> DEFINE t == DropContainers(done.st, {c})
  <2>1. StoreOK(done.st)
    BY <1>6, <1>8 DEF Becomes
  <2>2. Becomes(done.st, t, {name}) /\ t.img = done.st.img
    BY <2>1, DropContainersBecomes
  <2> HIDE DEF t
  <2>3. Becomes(s, t, {name})
    BY <2>2, <1>6, <1>8, BecomesInTurn
  <2>4. r = [st |-> t, ok |-> TRUE, id |-> i] \/ r = [st |-> done.st, ok |-> FALSE, id |-> i]
    BY <1>1, <1>8 DEF Ret, t
  <2>5. CASE r = [st |-> t, ok |-> TRUE, id |-> i]
    BY <2>2, <2>3, <2>5, <1>6, <1>8
  <2>6. CASE r = [st |-> done.st, ok |-> FALSE, id |-> i]
    BY <2>6, <1>6, <1>8
  <2> QED
    BY <2>4, <2>5, <2>6
<1> QED
  BY <1>6, <1>7, <1>8

------------------------------------------------------------------------------
(* Moving images.                                                          *)

LEMMA LoadOneImageBecomes ==
  ASSUME NEW s, StoreOK(s), NEW i \in Nat \ {0}, NEW r, ImageOK(r), r.kind # "list"
  PROVE  LET t == LoadOneImage(s, i, r)
         IN Becomes(s, t, r.names) /\ DOMAIN t.img = DOMAIN s.img \cup {i} /\ t.ctr = s.ctr
<1> DEFINE q == IF i \in DOMAIN s.img THEN [s.img[i] EXCEPT !.names = s.img[i].names \cup r.names]
                ELSE [r EXCEPT !.key = [NoKey EXCEPT !.base = r.key.base]]
<1>1. LoadOneImage(s, i, r) = PutImage(s, i, q)
  BY DEF LoadOneImage
<1>2. /\ ImageOK(q) /\ \A n \in q.names : n \in r.names \/ (i \in DOMAIN s.img /\ n \in s.img[i].names)
      /\ q.kind = "list" => IsManifestList(s, i) /\ \A j \in q.inst : Plain(s, j)
  <2>1. CASE i \in DOMAIN s.img
    <3>1. /\ ImageOK(q) /\ q.names = s.img[i].names \cup r.names
          /\ q.kind = s.img[i].kind /\ q.inst = s.img[i].inst
      BY <2>1, IdsArePositive, RenamedOK
    <3> QED
      BY <2>1, <3>1 DEF IsManifestList, StoreOK
  <2>2. CASE i \notin DOMAIN s.img
    BY <2>2 DEF ImageOK, NoKey
  <2> QED
    BY <2>1, <2>2
<1> HIDE DEF q
<1> DEFINE t == PutImage(s, i, q)
<1>3. Becomes(s, t, r.names) /\ DOMAIN t.img = DOMAIN s.img \cup {i} /\ t.ctr = s.ctr
  BY <1>2, PutImageBecomes
<1> QED
  BY <1>1, <1>3

LEMMA PullBecomes ==
  ASSUME NEW s, StoreOK(s), NEW n, NEW rem, NEW next, next \in Nat, ImagesOK(rem, next),
         \A i \in DOMAIN rem : rem[i].kind # "list", NEW plat
  PROVE  LET p == Pull(s, n, rem, plat)
         IN /\ Becomes(s, p.st, {n}) /\ DOMAIN s.img \subseteq DOMAIN p.st.img /\ p.st.ctr = s.ctr
            /\ p.ok \in BOOLEAN
<1> DEFINE have == {i \in DOMAIN rem : rem[i].plat = plat}
           i == CHOOSE j \in have : TRUE
           q == [rem[i] EXCEPT !.names = {n}]
<1>1. CASE have = {}
  BY <1>1, Stays DEF Pull, Ret
<1>2. CASE have # {}
  <2> DEFINE t == LoadOneImage(s, i, q)
  <2>1. Pull(s, n, rem, plat) = [st |-> t, ok |-> TRUE, id |-> i]
    BY <1>2 DEF Pull, Ret
  <2>2. i \in have
    BY <1>2
  <2> HIDE DEF i
  <2>3. i \in Nat \ {0} /\ ImageOK(rem[i]) /\ rem[i].kind # "list"
    BY <2>2 DEF ImagesOK
  <2>4. ImageOK(q) /\ q.names = {n} /\ q.kind # "list"
    BY <2>3, RenamedOK
  <2> HIDE DEF q
  <2>5. Becomes(s, t, q.names) /\ DOMAIN t.img = DOMAIN s.img \cup {i} /\ t.ctr = s.ctr
    BY <2>3, <2>4, LoadOneImageBecomes
  <2> HIDE DEF t
  <2> QED
    BY <2>1, <2>4, <2>5
<1> QED
  BY <1>1, <1>2

LEMMA NextGrows ==
  ASSUME NEW f, NEW m \in Nat, NEW k \in Nat, k >= m, ImagesOK(f, m)
  PROVE  ImagesOK(f, k)
<1>1. ASSUME NEW i, i \in 1 .. m - 1 PROVE i \in 1 .. k - 1
  BY <1>1
<1> QED
  BY <1>1 DEF ImagesOK

LEMMA SaveMakes ==
  ASSUME NEW s, StoreOK(s), NEW n, NEW old, HeldOK(s, old.insts)
  PROVE  LET t == Save(s, n, old).tar
         IN HeldOK(s, t.insts)
<1> DEFINE i == Lookup(s, n)
           insts == Instances(s, i)
           names(j) == IF IsManifestList(s, i) THEN s.img[j].names ELSE {n}
           f == [j \in insts |-> OneName(s.img[j], names(j))]
<1>1. CASE i = 0
  BY <1>1 DEF Save
<1>2. CASE i # 0 /\ ~(insts \subseteq DOMAIN s.img)
  BY <1>2 DEF Save, NoArchive, ImagesOK, HeldOK
<1>3. CASE i # 0 /\ insts \subseteq DOMAIN s.img
  <2>1. Save(s, n, old).tar.insts = f
    BY <1>3 DEF Save
  <2>2. ASSUME NEW j \in insts PROVE j \in 1 .. s.next - 1 /\ ImageOK(f[j]) /\ f[j].kind # "list" /\ Plain(s, j)
    <3>1. j \in DOMAIN s.img /\ j \in 1 .. s.next - 1 /\ ImageOK(s.img[j])
      BY <1>3 DEF StoreOK, ImagesOK
    <3>2. ImageOK(OneName(s.img[j], names(j))) /\ OneName(s.img[j], names(j)).kind = s.img[j].kind
      BY <3>1, RenamedOK DEF OneName
    <3>3. Plain(s, j)
      BY <1>3, LookupFinds, InstancesPlain
    <3> QED
      BY <3>1, <3>2, <3>3 DEF Plain, IsManifestList
  <2> QED
    BY <2>1, <2>2 DEF ImagesOK, HeldOK
<1> QED
  BY <1>1, <1>2, <1>3

LEMMA PushedOK ==
  ASSUME NEW s, StoreOK(s), NEW n
  PROVE  HeldOK(s, Pushed(s, n))
<1> DEFINE i == Lookup(s, n)
           I == Instances(s, i)
<1>1. CASE i = 0 \/ ~(I \subseteq DOMAIN s.img)
  BY <1>1 DEF Pushed, ImagesOK, HeldOK
<1>2. CASE ~(i = 0 \/ ~(I \subseteq DOMAIN s.img))
  <2>1. Pushed(s, n) = [j \in I |-> s.img[j]] /\ I \subseteq DOMAIN s.img
    BY <1>2 DEF Pushed, Restrict
  <2>2. \A j \in I : Plain(s, j)
    BY <1>2, LookupFinds, InstancesPlain
  <2> HIDE DEF I
  <2>3. \A j \in I : j \in 1 .. s.next - 1 /\ ImageOK(s.img[j])
    BY <2>1 DEF ImagesOK, StoreOK
  <2> QED
    BY <2>1, <2>2, <2>3 DEF ImagesOK, HeldOK, Plain, IsManifestList
<1> QED
  BY <1>1, <1>2

LEMMA PrunedBecomes ==
  ASSUME NEW s, StoreOK(s), NEW I, NEW C, NEW N
  PROVE  Becomes(s, DropContainers([s EXCEPT !.img = Restrict(@, DOMAIN @ \ I)], C), N)
<1> DEFINE t == [s EXCEPT !.img = Restrict(@, DOMAIN @ \ I)]
<1>1. Becomes(s, t, N)
  BY DropImagesBecomes
<1>2. StoreOK(t)
  BY <1>1 DEF Becomes
<1> HIDE DEF t
<1>3. Becomes(t, DropContainers(t, C), N)
  BY <1>2, DropContainersBecomes
<1>4. Becomes(s, DropContainers(t, C), N)
  BY <1>1, <1>3, BecomesInTurn
<1> QED
  BY <1>4 DEF t

------------------------------------------------------------------------------
(* The inductive invariants.                                               *)

BuildPCs == {"read", "parse", "build", "container", "list", "saving", "auth", "authsaving",
             "config", "commit", "deferred", "over"}
\* There is a temporary image, there is a working container of the build.
TempPCs == {"container", "list", "saving", "auth", "authsaving", "config", "commit", "deferred"}
ContainerPCs == {"list", "saving", "auth", "authsaving", "config", "commit"}

\* The command in progress is the one the last record describes.
CommandInv ==
  /\ {"pc", "o", "todo", "iid", "ctr", "list", "ok", "mounted"} \subseteq DOMAIN b
  /\ {"cmd", "ok", "over", "name", "plats", "made", "auth", "dirs"} \subseteq DOMAIN last
  /\ b.pc \in BuildPCs \cup {"idle", "load", "mount"}
  /\ b.pc \in BuildPCs => last.cmd = "build"
  /\ b.pc = "load" => last.cmd = "load"
  /\ b.pc = "mount" => last.cmd = "run"
  /\ last.over => Idle

\* A result of the parser: whatever is launched is known.
ResOK(r) ==
  /\ {"ok", "apps", "cmdsOf", "envOf", "launch", "raw", "env", "files", "docker", "base", "legacy",
      "nlaunch", "ncmds", "ncmd"} \subseteq DOMAIN r
  /\ r.ok \in BOOLEAN /\ r.legacy \in Nat
  /\ AppsOK(r.apps) /\ r.launch \subseteq DOMAIN r.apps

\* The store, the archive and the registries have the shape they started with.
StoreInv ==
  /\ StoreOK(st)
  /\ \A n \in DOMAIN remote : HeldOK(st, remote[n])
  /\ HeldOK(st, tar.insts)
  /\ RegistryOK(reg)
  /\ ResOK(res)
  /\ b.pc = "build" => Launchable(Extension(res))
  /\ b.pc \in ContainerPCs => b.ctr \in DOMAIN st.ctr
  /\ b.pc = "load" => b.mounted \subseteq DOMAIN tar.insts

\* The directories of the build context are those there were before the build
\* and those its result knows of.
ContextInv ==
  /\ dirs \in Int /\ last.dirs \in Int
  /\ b.pc = "read" \/ (b.pc = "over" /\ b.ok) => dirs = last.dirs
  /\ b.pc = "parse" => (ast # <<>> => res.ok) /\ (res.ok => dirs = last.dirs + res.legacy)
  /\ b.pc \in TempPCs \cup {"build"} => dirs = last.dirs + res.legacy

\* Only the temporary image has a temporary name, and every working container
\* was left mounted, is made from that image or mounted by this command.
TagInv ==
  /\ crashes \in Nat
  /\ b.pc \in BuildPCs => ~IsTemp(b.o.tag)
  /\ b.pc = "mount" => ~IsTemp(b.o)

ArchiveClean == NoTemp(tar.insts) /\ ~IsTemp(tar.name)

TempPlaced ==
  /\ b.pc \in TempPCs => b.iid \in DOMAIN st.img
  /\ \A i \in DOMAIN st.img : \A n \in st.img[i].names : IsTemp(n) => b.pc \in TempPCs /\ i = b.iid
  /\ \A c \in DOMAIN st.ctr : \/ c \in left
                              \/ b.pc \in TempPCs /\ st.ctr[c].image = b.iid
                              \/ b.pc = "mount" /\ c \in b.mounted

TempInv == TagInv /\ (crashes = 0 => ArchiveClean /\ TempPlaced)

\* An image is complete, or a goroutine that is not done moves its tag.
Settled(im) ==
  \/ IsImageExist(reg, im, sv.plat)
  \/ \E h \in DOMAIN gr : gr[h].pc # "done" /\ \E jm \in gr[h].images : TagOf(jm) = TagOf(im)

\* The goroutines of a download share out its images, and the images of one
\* that is done are settled.
GroupsOK ==
  /\ {"mode", "plat", "images", "ok"} \subseteq DOMAIN sv
  /\ \A g \in DOMAIN gr :
       /\ {"pc", "images", "sec", "todo", "digests", "blobs", "nilErr", "fail", "retry"} \subseteq DOMAIN gr[g]
       /\ gr[g].todo \subseteq gr[g].images
  /\ sv.mode = "auth" =>
       /\ \A im \in sv.images : Group(im) \in DOMAIN gr /\ im \in gr[Group(im)].images
       /\ \A g \in DOMAIN gr : gr[g].pc = "done" => \A im \in gr[g].images : Settled(im)

InSections(im) == \E s \in DOMAIN b.o.auth : im \in b.o.auth[s].images

\* The download is that of the build in progress.
AuthInv ==
  /\ GroupsOK
  /\ sv.mode = IF b.pc = "saving" THEN "plain" ELSE IF b.pc = "authsaving" THEN "auth" ELSE "none"
  /\ sv.mode = "auth" => sv.plat = Plat /\ \A im \in sv.images : InSections(im)
  /\ b.pc \in BuildPCs => \A im \in last.auth : InSections(im)
  /\ AuthComplete

------------------------------------------------------------------------------
(* The parser.                                                             *)

LEMMA NoResultOK == ResOK(NoResult) /\ NoResult.ok /\ NoResult.legacy = 0
BY NothingLaunched DEF ResOK, NoResult

LEMMA CountedOK ==
  ASSUME NEW n, ResOK(res)
  PROVE  ResOK(Counted(n)) /\ Counted(n).ok = res.ok /\ Counted(n).legacy = res.legacy
BY DEF ResOK, Counted

LEMMA LineOK ==
  ASSUME NEW r, ResOK(r), NEW l
  PROVE  ResOK(Line(r, l)) /\ Line(r, l).ok = r.ok /\ Line(r, l).legacy = r.legacy
BY DEF ResOK, Line

LEMMA BadOK ==
  ASSUME NEW r, ResOK(r)
  PROVE  ResOK(Bad(r)) /\ ~Bad(r).ok /\ Bad(r).legacy = r.legacy
BY DEF ResOK, Bad

\* What an instruction that needs nothing from outside makes of a result.
Follows(r, q) == ResOK(q) /\ q.legacy = r.legacy /\ (q.ok => r.ok)

LEMMA PlainFollows ==
  ASSUME NEW n, NEW r, ResOK(r), n.cmd \in Supported, n.cmd \notin {"app", "cni", "csi", "from"}
  PROVE  Follows(r, ProcessOnCmd(n, r))
<1> USE DEF Follows
<1>1. CASE n.cmd \in {"label", "maintainer", "add", "arg", "run"}
  <2>1. ProcessOnCmd(n, r) = Line(r, <<n.cmd>> \o n.args)
    BY <1>1 DEF ProcessOnCmd
  <2> QED
    BY <2>1, LineOK
<1>2. CASE n.cmd = "env"
  <2> DEFINE q == [r EXCEPT !.env = @ \cup Range(n.args)]
  <2>1. ProcessOnCmd(n, r) = Line(q, <<n.cmd>> \o n.args)
    BY <1>2 DEF ProcessOnCmd, ProcessGlobalEnv
  <2>2. ResOK(q) /\ q.ok = r.ok /\ q.legacy = r.legacy
    BY DEF ResOK
  <2> HIDE DEF q
  <2> QED
    BY <2>1, <2>2, LineOK
<1>3. CASE n.cmd = "copy"
  <2> DEFINE q == [r EXCEPT !.files = @ \cup ImagesIn(Last(n.args), Front(n.args))]
  <2>1. ProcessOnCmd(n, r) = ProcessCopy(n, r)
    BY <1>3 DEF ProcessOnCmd
  <2>2. ProcessCopy(n, r) = Bad(r) \/ ProcessCopy(n, r) = Line(q, <<"copy">> \o n.args)
    BY DEF ProcessCopy
  <2>3. ResOK(q) /\ q.ok = r.ok /\ q.legacy = r.legacy
    BY DEF ResOK
  <2> HIDE DEF q
  <2> QED
    BY <2>1, <2>2, <2>3, LineOK, BadOK
<1>4. CASE n.cmd = "kubeversion"
  <2>1. ProcessOnCmd(n, r) = Line(r, <<"label", "version">>)
    BY <1>4 DEF ProcessOnCmd, ProcessKubeVersion
  <2> QED
    BY <2>1, LineOK
<1>5. CASE n.cmd = "appenv"
  <2> DEFINE old == IF App(n) \in DOMAIN r.envOf THEN r.envOf[App(n)] ELSE {}
             e == Put(r.envOf, App(n), old \cup Range(Tail(n.args)))
             q == [r EXCEPT !.envOf = e]
  <2>1. ProcessOnCmd(n, r) = ProcessAppEnv(n, r)
    BY <1>5 DEF ProcessOnCmd
  <2>2. ProcessAppEnv(n, r) = Bad(r) \/ ProcessAppEnv(n, r) = q
    BY DEF ProcessAppEnv
  <2> HIDE DEF e
  <2>3. ResOK(q) /\ q.ok = r.ok /\ q.legacy = r.legacy
    BY DEF ResOK
  <2> HIDE DEF q
  <2> QED
    BY <2>1, <2>2, <2>3, BadOK
<1>6. CASE n.cmd = "appcmds"
  <2> DEFINE q == [r EXCEPT !.cmdsOf = @ \cup {App(n)}]
  <2>1. ProcessOnCmd(n, r) = ProcessAppCmds(n, r)
    BY <1>6 DEF ProcessOnCmd
  <2>2. ProcessAppCmds(n, r) = Bad(r) \/ ProcessAppCmds(n, r) = q
    BY DEF ProcessAppCmds
  <2>3. ResOK(q) /\ q.ok = r.ok /\ q.legacy = r.legacy
    BY DEF ResOK
  <2> HIDE DEF q
  <2> QED
    BY <2>1, <2>2, <2>3, BadOK
<1>7. CASE n.cmd = "launch"
  <2> DEFINE q == [r EXCEPT !.launch = Range(n.args)]
  <2>1. ProcessOnCmd(n, r) = ProcessLaunch(n, r)
    BY <1>7 DEF ProcessOnCmd
  <2>2. CASE Range(n.args) \subseteq DOMAIN r.apps
    <3>1. ProcessLaunch(n, r) = q
      BY <2>2 DEF ProcessLaunch
    <3>2. ResOK(q) /\ q.ok = r.ok /\ q.legacy = r.legacy
      BY <2>2 DEF ResOK
    <3> QED
      BY <2>1, <3>1, <3>2
  <2>3. CASE ~(Range(n.args) \subseteq DOMAIN r.apps)
    BY <2>1, <2>3, BadOK DEF ProcessLaunch
  <2> QED
    BY <2>2, <2>3
<1>8. CASE n.cmd \in {"cmd", "cmds"}
  <2> DEFINE k == r.raw + (IF n.cmd = "cmd" THEN 1 ELSE Len(n.args))
             q == [r EXCEPT !.raw = k]
  <2>1. ProcessOnCmd(n, r) = q
    BY <1>8 DEF ProcessOnCmd, ProcessCmds
  <2> HIDE DEF k
  <2>2. ResOK(q) /\ q.ok = r.ok /\ q.legacy = r.legacy
    BY DEF ResOK
  <2> QED
    BY <2>1, <2>2
<1> QED
  BY <1>1, <1>2, <1>3, <1>4, <1>5, <1>6, <1>7, <1>8 DEF Supported, ListCommands

LEMMA PutAppOK ==
  ASSUME NEW apps, AppsOK(apps), NEW x, NEW type, NEW files
  PROVE  LET f == Put(apps, x, NewV1Application(type, files))
         IN AppsOK(f) /\ DOMAIN apps \subseteq DOMAIN f
BY DEF AppsOK, Put, NewV1Application

LEMMA AppFollows ==
  ASSUME NEW n, NEW r, ResOK(r), NEW sources
  PROVE  Follows(r, MakeItAsApp(n, r, sources)) /\ MakeItAsApp(n, r, sources).ok = r.ok
<1> DEFINE type == GetApplicationType(sources)
           files == GetApplicationFiles(type, sources)
           apps == Put(r.apps, n.args[1], NewV1Application(type, files))
           images == r.files \cup ImagesIn("application", n.args)
           q == [r EXCEPT !.apps = apps, !.files = images]
           l == <<"copy">> \o n.args
           k == <<"label", n.cmd, n.args[1]>>
<1>1. MakeItAsApp(n, r, sources) = IF n.cmd = "app" THEN Line(q, l) ELSE Line(Line(q, l), k)
  BY DEF MakeItAsApp
<1> HIDE DEF type, files, l, k, images
<1>2. AppsOK(apps) /\ DOMAIN r.apps \subseteq DOMAIN apps
  BY PutAppOK DEF ResOK
<1> HIDE DEF apps
<1>3. ResOK(q) /\ q.ok = r.ok /\ q.legacy = r.legacy
  BY <1>2 DEF ResOK
<1> HIDE DEF q
<1>4. ResOK(Line(q, l)) /\ Line(q, l).ok = r.ok /\ Line(q, l).legacy = r.legacy
  BY <1>3, LineOK
<1>5. ResOK(Line(Line(q, l), k)) /\ Line(Line(q, l), k).ok = r.ok /\ Line(Line(q, l), k).legacy = r.legacy
  BY <1>4, LineOK
<1> QED
  BY <1>1, <1>4, <1>5 DEF Follows

\* One turn of generateResult: the result stays one, and unless it failed the
\* directories that came are those that were recorded.
LEMMA GenerateKeeps ==
  ASSUME NEW pulled, AppsOK(pulled.apps), ResOK(res), dirs \in Int, GenerateResult(pulled)
  PROVE  /\ ResOK(res') /\ dirs' \in Int
         /\ ast' # <<>> => (res'.ok <=> res.ok)
         /\ res'.ok => res.ok /\ dirs' - res'.legacy = dirs - res.legacy
<1> DEFINE n == Head(ast)
           c == Counted(n)
           bad == [res EXCEPT !.ok = FALSE, !.legacy = 0]
<1>1. ResOK(c) /\ c.ok = res.ok /\ c.legacy = res.legacy
  BY CountedOK
<1>2. ResOK(bad) /\ ~bad.ok
  BY DEF ResOK
<1>3. res.ok \in BOOLEAN /\ res.legacy \in Nat
  BY DEF ResOK
<1>4. \/ Misplaced(n, c) /\ AbortUncleaned
      \/ ~Misplaced(n, c) /\ (ProcessLocalApp(n, c) \/ ProcessRemoteApp(n, c) \/ ProcessFrom(n, c, pulled) \/ ProcessPlain(n, c))
  BY DEF GenerateResult
<1> HIDE DEF n, c, bad
<1>5. CASE AbortUncleaned
  BY <1>5, <1>2 DEF AbortUncleaned, bad
<1>6. CASE Abort
  <2>1. res' = bad /\ dirs' = dirs - res.legacy /\ ast' = <<>>
    BY <1>6 DEF Abort, CleanLegacyContext, bad
  <2> QED
    BY <2>1, <1>2, <1>3
<1>7. CASE ProcessLocalApp(n, c)
  <2> DEFINE q == MakeItAsApp(n, c, Sources(n))
  <2>1. ResOK(q) /\ q.ok = res.ok /\ q.legacy = res.legacy
    BY <1>1, AppFollows DEF Follows
  <2>2. Abort \/ (res' = q /\ dirs' = dirs)
    BY <1>7 DEF ProcessLocalApp
  <2> HIDE DEF q
  <2> QED
    BY <2>1, <2>2, <1>6
<1>8. CASE ProcessRemoteApp(n, c)
  <2> DEFINE q == MakeItAsApp(n, c, Sources(n))
             more == [q EXCEPT !.legacy = q.legacy + 1]
  <2>1. ResOK(q) /\ q.ok = res.ok /\ q.legacy = res.legacy
    BY <1>1, AppFollows DEF Follows
  <2>2. \/ Abort
        \/ res' = more /\ dirs' = dirs + 1
        \/ res' = bad /\ dirs' = dirs - res.legacy + 1 /\ ast' = <<>>
    BY <1>8 DEF ProcessRemoteApp, CleanLegacyContext, bad
  <2> HIDE DEF q
  <2>3. ResOK(more) /\ more.ok = res.ok /\ more.legacy = res.legacy + 1
    BY <2>1, <1>3 DEF ResOK
  <2> HIDE DEF more
  <2>4. CASE res' = more /\ dirs' = dirs + 1
    <3>1. dirs' \in Int /\ dirs' - (res.legacy + 1) = dirs - res.legacy
      BY <2>4, <1>3
    <3> QED
      BY <2>3, <2>4, <3>1
  <2>5. CASE res' = bad /\ dirs' = dirs - res.legacy + 1 /\ ast' = <<>>
    BY <2>5, <1>2, <1>3
  <2> QED
    BY <2>2, <2>4, <2>5, <1>6
<1>9. CASE ProcessFrom(n, c, pulled)
  <2> DEFINE apps == [a \in DOMAIN pulled.apps \cup DOMAIN c.apps |->
                        IF a \in DOMAIN pulled.apps THEN pulled.apps[a] ELSE c.apps[a]]
             based == [c EXCEPT !.apps = apps, !.from = <<n.args[1], FlagPlatform(n.flag)>>]
             r == IF n.args # <<>> /\ n.args[1] = "scratch" THEN c ELSE based
             q == Line(r, <<"from", n.flag>> \o n.args)
  <2>1. Abort \/ (res' = q /\ dirs' = dirs)
    BY <1>9 DEF ProcessFrom
  <2>2. AppsOK(apps) /\ DOMAIN c.apps \subseteq DOMAIN apps
    BY <1>1 DEF ResOK, AppsOK
  <2> HIDE DEF apps
  <2>3. ResOK(based) /\ based.ok = res.ok /\ based.legacy = res.legacy
    BY <1>1, <2>2 DEF ResOK
  <2> HIDE DEF based
  <2>4. ResOK(r) /\ r.ok = res.ok /\ r.legacy = res.legacy
    BY <1>1, <2>3
  <2> HIDE DEF r
  <2>5. ResOK(q) /\ q.ok = res.ok /\ q.legacy = res.legacy
    BY <2>4, LineOK
  <2> HIDE DEF q
  <2> QED
    BY <2>1, <2>5, <1>6
<1>10. CASE ~Misplaced(n, c) /\ ProcessPlain(n, c)
  <2> DEFINE q == ProcessOnCmd(n, c)
  <2>1. n.cmd \in Supported /\ n.cmd \notin {"app", "cni", "csi", "from"}
    BY <1>10 DEF Misplaced, ProcessPlain
  <2>2. ResOK(q) /\ q.legacy = res.legacy /\ (q.ok => res.ok)
    BY <1>1, <2>1, PlainFollows DEF Follows
  <2>3. Abort \/ (q.ok /\ res' = q /\ dirs' = dirs)
    BY <1>10 DEF ProcessPlain
  <2> HIDE DEF q
  <2> QED
    BY <2>2, <2>3, <1>6
<1> QED
  BY <1>4, <1>5, <1>7, <1>8, <1>9, <1>10

\* After the checks everything launched has a type or commands.
LEMMA CheckResultOK ==
  ASSUME ResOK(res)
  PROVE  /\ ResOK(CheckResult)
         /\ CheckResult.ok => /\ res.ok /\ CheckResult.legacy = res.legacy
                              /\ Launchable(Extension(CheckResult))
<1>1. CASE Untyped(res) # {}
  <2>1. CheckResult = [res EXCEPT !.ok = FALSE, !.legacy = 0]
    BY <1>1 DEF CheckResult
  <2> QED
    BY <2>1 DEF ResOK
<1>2. CASE Untyped(res) = {}
  <2> DEFINE apps == Registered(res)
             q == [res EXCEPT !.apps = apps]
  <2>1. CheckResult = q
    BY <1>2 DEF CheckResult
  <2>2. DOMAIN apps = DOMAIN res.apps
    BY DEF Registered
  <2>3. ASSUME NEW a \in DOMAIN res.apps
        PROVE  /\ {"type", "files", "env", "cmds"} \subseteq DOMAIN apps[a] /\ apps[a].cmds \in BOOLEAN
               /\ apps[a].type # "" \/ apps[a].cmds
    <3>1. {"type", "files", "env", "cmds"} \subseteq DOMAIN res.apps[a] /\ res.apps[a].cmds \in BOOLEAN
      BY DEF ResOK, AppsOK
    <3> DEFINE e == IF a \in DOMAIN res.envOf THEN res.envOf[a] ELSE res.apps[a].env
               k == res.apps[a].cmds \/ a \in res.cmdsOf
    <3>2. apps[a] = [res.apps[a] EXCEPT !.env = e, !.cmds = k]
      BY DEF Registered
    <3>3. res.apps[a].type # "" \/ k
      BY <1>2 DEF Untyped
    <3>4. k \in BOOLEAN
      BY <3>1
    <3> HIDE DEF e, k, apps
    <3> QED
      BY <3>1, <3>2, <3>3, <3>4
  <2> HIDE DEF apps
  <2>4. AppsOK(apps)
    BY <2>2, <2>3 DEF AppsOK
  <2>5. ResOK(q) /\ q.ok = res.ok /\ q.legacy = res.legacy /\ q.apps = apps /\ q.launch = res.launch
    BY <2>2, <2>4 DEF ResOK
  <2> HIDE DEF q
  <2>6. Extension(q).apps = apps /\ Extension(q).launch = res.launch
    BY <2>5 DEF Extension
  <2>7. Launchable(Extension(q))
    BY <2>2, <2>3, <2>6 DEF Launchable, ResOK
  <2> QED
    BY <2>1, <2>5, <2>7
<1> QED
  BY <1>1, <1>2

------------------------------------------------------------------------------
(* The commands of one step.                                               *)

SimpleCommands ==
  \/ \E n \in ImageNames :
       \/ \E new \in ImageNames : TagCmd(n, new)
       \/ \E force \in BOOLEAN : RmiCmd(n, force)
       \/ SaveCmd(n) \/ PushCmd(n)
       \/ \E p \in {HostPlatform, "arm64"} : PullCmd(n, p)
       \/ ManifestCreateCmd(n) \/ ManifestDeleteCmd(n)
       \/ \E i \in DOMAIN st.img : ManifestAddCmd(n, i) \/ ManifestRemoveCmd(n, i)
  \/ \E i \in DOMAIN st.img, force \in BOOLEAN : RmiIdCmd(i, force)
  \/ \E force \in BOOLEAN : PruneCmd(force)
  \/ \E C \in {{c} : c \in DOMAIN st.ctr} \cup {DOMAIN st.ctr} : UmountCmd(C)

LEMMA CommandCases ==
  ASSUME Commands
  PROVE  \/ SimpleCommands
         \/ \E o \in BuildOptions : BuildCmd(o)
         \/ LoadCmd
         \/ \E n \in ImageNames : MountCmd(n)
         \/ \E n \in ImageNames, plats \in {<<HostPlatform>>, <<HostPlatform, "arm64">>} : MountImageCmd(n, plats)
BY DEF Commands, SimpleCommands

\* What they do to everything but the store, the archive and the registries.
Quick ==
  /\ Idle /\ UNCHANGED <<parserVars, saveVars, b, crashes>>
  /\ left' = left \cap DOMAIN st'.ctr
  /\ {"cmd", "ok", "over", "name", "plats", "made", "auth", "dirs"} \subseteq DOMAIN last'
  /\ last'.cmd \notin {"build", "load", "run"} /\ last'.auth = {} /\ last'.dirs = 0

LEMMA SimpleIsQuick ==
  ASSUME NEW cmd, cmd \notin {"build", "load", "run"}, NEW r, Simple(cmd, r)
  PROVE  Quick
BY DEF Simple, Quick, NoLast

LEMMA SimpleCommandsAreQuick ==
  ASSUME SimpleCommands
  PROVE  Quick
<1>1. ASSUME NEW n \in ImageNames, NEW new \in ImageNames, TagCmd(n, new) PROVE Quick
  BY <1>1, SimpleIsQuick DEF TagCmd
<1>2. ASSUME NEW n \in ImageNames, NEW force \in BOOLEAN, RmiCmd(n, force) PROVE Quick
  BY <1>2, SimpleIsQuick DEF RmiCmd
<1>3. ASSUME NEW n \in ImageNames, SaveCmd(n) PROVE Quick
  BY <1>3, SimpleIsQuick DEF SaveCmd
<1>4. ASSUME NEW n \in ImageNames, PushCmd(n) PROVE Quick
  BY <1>4, SimpleIsQuick DEF PushCmd
<1>5. ASSUME NEW n \in ImageNames, NEW p, PullCmd(n, p) PROVE Quick
  BY <1>5, SimpleIsQuick DEF PullCmd
<1>6. ASSUME NEW n \in ImageNames, ManifestCreateCmd(n) \/ ManifestDeleteCmd(n) PROVE Quick
  BY <1>6, SimpleIsQuick DEF ManifestCreateCmd, ManifestDeleteCmd
<1>7. ASSUME NEW n \in ImageNames, NEW i \in DOMAIN st.img, ManifestAddCmd(n, i) \/ ManifestRemoveCmd(n, i) PROVE Quick
  BY <1>7, SimpleIsQuick DEF ManifestAddCmd, ManifestRemoveCmd
<1>8. ASSUME NEW i \in DOMAIN st.img, NEW force \in BOOLEAN, RmiIdCmd(i, force) PROVE Quick
  BY <1>8, SimpleIsQuick DEF RmiIdCmd
<1>9. ASSUME NEW force \in BOOLEAN, PruneCmd(force) PROVE Quick
  BY <1>9, SimpleIsQuick DEF PruneCmd
<1>10. ASSUME NEW C, UmountCmd(C) PROVE Quick
  BY <1>10, SimpleIsQuick DEF UmountCmd
<1> QED
  BY <1>1, <1>2, <1>3, <1>4, <1>5, <1>6, <1>7, <1>8, <1>9, <1>10 DEF SimpleCommands

------------------------------------------------------------------------------
(* The command in progress.                                                *)

\* The pull of the engine's build: the base is here, or the build is over.
BaseFound == (\E i : res' = [res EXCEPT !.base = i]) /\ b' = b /\ dirs' = dirs
LEMMA BaseCases ==
  ASSUME PullBase
  PROVE  /\ b.pc = "build" /\ UNCHANGED <<reg, sv, gr, remote, tar, cmds, crashes, left, last>>
         /\ BaseFound \/ (Over(FALSE) /\ CleanContext)
         /\ \/ st' = st
            \/ st' = Pull(st, <<res.from[1]>>, Known(<<res.from[1]>>), PlatformOr(res.from[2], Plat)).st
<1> DEFINE name == <<res.from[1]>>
           got(rem) == Pull(st, name, rem, PlatformOr(res.from[2], Plat))
           Uses(r) == IF r.ok
                      THEN res' = [res EXCEPT !.base = r.id] /\ UNCHANGED <<b, ast, dirs, dlFaults>>
                      ELSE Over(FALSE) /\ CleanContext
<1>1. /\ b.pc = "build" /\ UNCHANGED <<reg, sv, gr, remote, tar, cmds, crashes, left, last>>
      /\ \/ st' = got(Known(name)).st /\ Uses(got(Known(name)))
         \/ st' = st /\ Uses(got(<<>>))
  BY DEF PullBase
<1>2. ASSUME NEW r, Uses(r) PROVE BaseFound \/ (Over(FALSE) /\ CleanContext)
  BY <1>2 DEF BaseFound
<1> HIDE DEF Uses
<1> QED
  BY <1>1, <1>2

LEMMA CommandInductive ==
  ASSUME CommandInv, [Next]_vars
  PROVE  CommandInv'
<1> USE DEF CommandInv, BuildPCs, Idle
<1>1. CASE ReadKubefile
  BY <1>1 DEF ReadKubefile, Over
<1>2. CASE ParseKubefile
  BY <1>2 DEF ParseKubefile, ctlVars
<1>3. CASE ParsedKubefile
  BY <1>3 DEF ParsedKubefile, Over
<1>39. CASE PullBase
  BY <1>39, BaseCases DEF BaseFound, Over
<1>4. CASE BuildLite
  BY <1>4 DEF BuildLite, Over
<1>5. CASE BuildTemp
  BY <1>5 DEF BuildTemp, Over
<1>6. CASE CreateContainer
  BY <1>6 DEF CreateContainer
<1>7. CASE DownloadList
  BY <1>7 DEF DownloadList, Deferred
<1>8. CASE DownloadStep
  BY <1>8 DEF DownloadStep, ctlVars
<1>9. CASE DownloadedList
  BY <1>9 DEF DownloadedList, Deferred
<1>10. CASE DownloadWithAuth
  BY <1>10 DEF DownloadWithAuth, Deferred
<1>11. CASE DownloadedWithAuth
  BY <1>11 DEF DownloadedWithAuth, Deferred
<1>12. CASE UpdateAnnotations
  BY <1>12 DEF UpdateAnnotations, Deferred
<1>13. CASE CommitContainer
  BY <1>13 DEF CommitContainer, Deferred
<1>14. CASE DeferredCleanup
  BY <1>14 DEF DeferredCleanup, Over
<1>0. ASSUME NEW ok, Finish(ok) PROVE CommandInv'
  BY <1>0 DEF Finish, NoCommand
<1>15. CASE PlatformOver
  <2>1. CASE Finish(FALSE) \/ Finish(TRUE)
    BY <2>1, <1>0
  <2>2. CASE b' = [NoCommand EXCEPT !.pc = "read", !.o = b.o, !.todo = Tail(b.todo)] /\ last' = last
    BY <2>2, <1>15 DEF PlatformOver, NoCommand
  <2> HIDE DEF CommandInv
  <2> QED
    BY <2>1, <2>2, <1>15 DEF PlatformOver
<1>16. CASE LoadInstance
  <2>1. PICK i \in b.mounted : (b' = [b EXCEPT !.mounted = @ \ {i}] /\ last' = last) \/ Finish(FALSE)
    BY <1>16 DEF LoadInstance
  <2>2. CASE b' = [b EXCEPT !.mounted = @ \ {i}] /\ last' = last
    BY <2>2, <1>16 DEF LoadInstance
  <2> QED
    BY <2>1, <2>2, <1>0
<1>17. CASE LoadManifest
  <2>1. \E ok : Finish(ok)
    BY <1>17 DEF LoadManifest
  <2> QED
    BY <2>1, <1>0
<1>18. CASE MountPlatform
  <2>1. \/ Finish(FALSE)
        \/ last' = last /\ \E c : b' = [b EXCEPT !.todo = Tail(@), !.mounted = @ \cup {c}]
    BY <1>18 DEF MountPlatform
  <2>2. ASSUME last' = last, NEW c, b' = [b EXCEPT !.todo = Tail(@), !.mounted = @ \cup {c}]
        PROVE  CommandInv'
    BY <2>2, <1>18 DEF MountPlatform
  <2> QED
    BY <2>1, <2>2, <1>0
<1>19. CASE UmountImage
  BY <1>19 DEF UmountImage, Finish, NoCommand
<1>20. CASE SimpleCommands
  BY <1>20, SimpleCommandsAreQuick DEF Quick
<1>21. ASSUME NEW o \in BuildOptions, BuildCmd(o) PROVE CommandInv'
  BY <1>21 DEF BuildCmd, NoCommand, NoLast
<1>22. CASE LoadCmd
  <2>1. \/ b' = b /\ b.pc = "idle" /\ last' = [NoLast EXCEPT !.cmd = "load", !.ok = FALSE]
        \/ /\ b' = [NoCommand EXCEPT !.pc = "load", !.mounted = DOMAIN tar.insts]
           /\ last' = [NoLast EXCEPT !.cmd = "load", !.over = FALSE, !.name = tar.name]
    BY <1>22 DEF LoadCmd
  <2> QED
    BY <2>1 DEF NoCommand, NoLast
<1>23. ASSUME NEW n \in ImageNames, MountCmd(n) PROVE CommandInv'
  BY <1>23 DEF MountCmd, NoLast
<1>24. ASSUME NEW n, NEW plats, MountImageCmd(n, plats) PROVE CommandInv'
  BY <1>24 DEF MountImageCmd, NoCommand, NoLast
<1>25. CASE Crash
  BY <1>25 DEF Crash, NoCommand
<1>26. CASE UNCHANGED vars
  BY <1>26 DEF vars, ctlVars
<1> HIDE DEF CommandInv, BuildPCs, Idle
<1>27. CASE BuildStep
  BY <1>27, <1>1, <1>2, <1>3, <1>4, <1>5, <1>6, <1>7, <1>8, <1>9, <1>10, <1>11, <1>12, <1>13, <1>14,
     <1>15, <1>16, <1>17, <1>18, <1>19, <1>39 DEF BuildStep
<1>28. CASE Commands
  BY <1>28, <1>20, <1>21, <1>22, <1>23, <1>24, CommandCases
<1> QED
  BY <1>25, <1>26, <1>27, <1>28 DEF Next, Terminated

------------------------------------------------------------------------------
(* The store.                                                              *)

\* What the store was made from is as it was, or a registry or the archive got
\* images of the store.
LEMMA HoldingsKept ==
  ASSUME NEW s, NEW t, StoreOK(s), StoreOK(t), t.next >= s.next, PlainStays(s, t), NEW f, HeldOK(s, f)
  PROVE  HeldOK(t, f)
<1>1. s.next \in Nat /\ t.next \in Nat
  BY DEF StoreOK
<1>2. ImagesOK(f, t.next)
  BY <1>1, NextGrows DEF HeldOK
<1> QED
  BY <1>2 DEF HeldOK, PlainStays

LEMMA SameImages ==
  ASSUME NEW s, NEW t, t.img = s.img, t.next = s.next
  PROVE  PlainStays(s, t)
BY DEF PlainStays, Plain, IsManifestList

LEMMA SimpleStore ==
  ASSUME StoreInv, SimpleCommands
  PROVE  /\ Becomes(st, st', ImageNames)
         /\ \A n \in DOMAIN remote' : HeldOK(st, remote'[n])
         /\ tar' = tar \/ \E n \in ImageNames : tar' = Save(st, n, tar).tar
<1> DEFINE Goal == /\ Becomes(st, st', ImageNames)
                   /\ \A n \in DOMAIN remote' : HeldOK(st, remote'[n])
                   /\ tar' = tar \/ \E n \in ImageNames : tar' = Save(st, n, tar).tar
<1>1. StoreOK(st) /\ \A n \in DOMAIN remote : HeldOK(st, remote[n])
  BY DEF StoreInv
<1>2. ASSUME NEW cmd, NEW r, Simple(cmd, r), UNCHANGED <<remote, tar>>,
             NEW N, N \subseteq ImageNames, Becomes(st, r.st, N)
      PROVE  Goal
  <2>1. st' = r.st
    BY <1>2 DEF Simple
  <2>2. Becomes(st, r.st, ImageNames)
    BY <1>2, BecomesMore
  <2> QED
    BY <1>1, <1>2, <2>1, <2>2
<1> HIDE DEF Goal
<1>3. ASSUME NEW n \in ImageNames, NEW new \in ImageNames, TagCmd(n, new) PROVE Goal
  <2>1. Becomes(st, Tag(st, n, new).st, {new})
    BY <1>1, TagBecomes
  <2>2. Simple("tag", Tag(st, n, new)) /\ UNCHANGED <<remote, tar>>
    BY <1>3 DEF TagCmd
  <2> QED
    BY <2>1, <2>2, <1>2
<1>4. ASSUME NEW n \in ImageNames, NEW force \in BOOLEAN, RmiCmd(n, force) PROVE Goal
  BY <1>4, <1>1, <1>2, RemoveImageBecomes DEF RmiCmd
<1>5. ASSUME NEW n \in ImageNames, SaveCmd(n) PROVE Goal
  <2>1. st' = st /\ remote' = remote /\ tar' = Save(st, n, tar).tar
    BY <1>5 DEF SaveCmd, Simple, Ret
  <2> QED
    BY <2>1, <1>1, Stays DEF Goal
<1>6. ASSUME NEW n \in ImageNames, PushCmd(n) PROVE Goal
  <2> DEFINE p == Pushed(st, n)
  <2>1. st' = st /\ tar' = tar /\ (remote' = remote \/ remote' = Put(remote, n, p))
    BY <1>6 DEF PushCmd, Simple, Ret
  <2>2. HeldOK(st, p)
    BY <1>1, PushedOK
  <2> HIDE DEF p
  <2>3. \A m \in DOMAIN remote' : HeldOK(st, remote'[m])
    BY <2>1, <2>2, <1>1 DEF Put
  <2> QED
    BY <2>1, <2>3, <1>1, Stays DEF Goal
<1>7. ASSUME NEW n \in ImageNames, NEW plat, PullCmd(n, plat) PROVE Goal
  <2> DEFINE rem == IF n \in DOMAIN remote THEN remote[n] ELSE <<>>
  <2>1. st.next \in Nat /\ ImagesOK(rem, st.next) /\ \A i \in DOMAIN rem : rem[i].kind # "list"
    BY <1>1 DEF StoreOK, ImagesOK, HeldOK
  <2>2. Simple("pull", Pull(st, n, rem, plat)) /\ UNCHANGED <<remote, tar>>
    BY <1>7 DEF PullCmd, Known
  <2> HIDE DEF rem
  <2>3. Becomes(st, Pull(st, n, rem, plat).st, {n})
    BY <2>1, <1>1, PullBecomes
  <2> QED
    BY <2>2, <2>3, <1>2
<1>8. ASSUME NEW n \in ImageNames, ManifestCreateCmd(n) PROVE Goal
  <2>1. Becomes(st, CreateManifest(st, n).st, {n})
    BY <1>1, CreateManifestBecomes
  <2>2. Simple("create", CreateManifest(st, n)) /\ UNCHANGED <<remote, tar>>
    BY <1>8 DEF ManifestCreateCmd
  <2> QED
    BY <2>1, <2>2, <1>2
<1>9. ASSUME NEW n \in ImageNames, ManifestDeleteCmd(n) PROVE Goal
  BY <1>9, <1>1, <1>2, DeleteManifestsBecomes DEF ManifestDeleteCmd
<1>10. ASSUME NEW n \in ImageNames, NEW i \in DOMAIN st.img, ManifestAddCmd(n, i) PROVE Goal
  BY <1>10, <1>1, <1>2, AddToManifestBecomes DEF ManifestAddCmd
<1>11. ASSUME NEW n \in ImageNames, NEW i \in DOMAIN st.img, ManifestRemoveCmd(n, i) PROVE Goal
  BY <1>11, <1>1, <1>2, RemoveFromManifestBecomes DEF ManifestRemoveCmd
<1>12. ASSUME NEW i \in DOMAIN st.img, NEW force \in BOOLEAN, RmiIdCmd(i, force) PROVE Goal
  BY <1>12, <1>1, <1>2, RemoveImageByIdBecomes DEF RmiIdCmd
<1>13. ASSUME NEW force \in BOOLEAN, PruneCmd(force) PROVE Goal
  <2> DEFINE gone == Dangling(st, force)
             C == UNION {ContainersOf(st, i) : i \in gone}
             pruned == DropContainers([st EXCEPT !.img = Restrict(@, DOMAIN @ \ gone)], C)
             r == Ret(pruned, gone = Dangling(st, TRUE), 0)
  <2>1. Simple("rmi", r) /\ UNCHANGED <<remote, tar>>
    BY <1>13 DEF PruneCmd
  <2>2. r.st = pruned
    BY DEF Ret
  <2> HIDE DEF gone, C, r
  <2>3. Becomes(st, pruned, ImageNames)
    BY <1>1, PrunedBecomes
  <2> HIDE DEF pruned
  <2> QED
    BY <2>1, <2>2, <2>3, <1>2
<1>14. ASSUME NEW C, UmountCmd(C) PROVE Goal
  <2> DEFINE r == Ret(DropContainers(st, C), C # {}, 0)
  <2>1. Simple("umount", r) /\ UNCHANGED <<remote, tar>>
    BY <1>14 DEF UmountCmd
  <2>2. r.st = DropContainers(st, C)
    BY DEF Ret
  <2> HIDE DEF r
  <2>3. Becomes(st, DropContainers(st, C), ImageNames)
    BY <1>1, DropContainersBecomes
  <2> QED
    BY <2>1, <2>2, <2>3, <1>2
<1>15. Goal
  BY <1>3, <1>4, <1>5, <1>6, <1>7, <1>8, <1>9, <1>10, <1>11, <1>12, <1>13, <1>14 DEF SimpleCommands
<1> QED
  BY <1>15 DEF Goal
\* The steps that change the store, one by one.
LEMMA BuildCmdStore ==
  ASSUME StoreInv, NEW o, BuildCmd(o)
  PROVE  Becomes(st, st', {o.tag})
<1>1. StoreOK(st)
  BY DEF StoreInv
<1>2. Becomes(st, CreateManifest(st, o.tag).st, {o.tag})
  BY <1>1, CreateManifestBecomes
<1>3. st' = st \/ st' = CreateManifest(st, o.tag).st
  BY DEF BuildCmd
<1> QED
  BY <1>1, <1>2, <1>3, Stays

LEMMA ParseStore ==
  ASSUME StoreInv, ParseKubefile
  PROVE  /\ Becomes(st, st', {<<Head(ast).args[1]>>})
         /\ \E pulled : AppsOK(pulled.apps) /\ GenerateResult(pulled)
<1> DEFINE name == <<Head(ast).args[1]>>
           known == IF name \in DOMAIN remote THEN remote[name] ELSE <<>>
           got(rem) == Pull(st, name, rem, PlatformOr(FlagPlatform(Head(ast).flag), HostPlatform))
           base(r) == [Inspect(r.st, r.id) EXCEPT !.ok = @ /\ r.ok]
           none == [ok |-> TRUE, id |-> 0, apps |-> <<>>]
<1>1. /\ StoreOK(st) /\ st.next \in Nat /\ ImagesOK(known, st.next) /\ ImagesOK(<<>>, st.next)
      /\ \A i \in DOMAIN known : known[i].kind # "list"
  BY DEF StoreInv, StoreOK, ImagesOK, HeldOK
<1>2. \/ st' = st /\ GenerateResult(none)
      \/ st' = got(known).st /\ GenerateResult(base(got(known)))
      \/ st' = st /\ GenerateResult(base(got(<<>>)))
  BY DEF ParseKubefile, Known
<1> HIDE DEF known, name
<1>3. Becomes(st, got(known).st, {name}) /\ Becomes(st, got(<<>>).st, {name})
  <2> DEFINE plat == PlatformOr(FlagPlatform(Head(ast).flag), HostPlatform)
             nothing == <<>>
  <2>1. ImagesOK(nothing, st.next) /\ \A i \in DOMAIN nothing : nothing[i].kind # "list"
    BY <1>1
  <2> HIDE DEF plat, nothing
  <2>2. Becomes(st, Pull(st, name, known, plat).st, {name})
    BY <1>1, PullBecomes
  <2>3. Becomes(st, Pull(st, name, nothing, plat).st, {name})
    BY <1>1, <2>1, PullBecomes
  <2> QED
    BY <2>2, <2>3 DEF plat, nothing
<1> HIDE DEF got
<1>4. ASSUME NEW r, StoreOK(r.st) PROVE AppsOK(base(r).apps)
  <2>1. base(r).apps = Inspect(r.st, r.id).apps
    BY DEF Inspect
  <2>2. Inspect(r.st, r.id).apps = IF r.id \in DOMAIN r.st.img THEN r.st.img[r.id].ext.apps ELSE <<>>
    BY DEF Inspect
  <2>3. r.id \in DOMAIN r.st.img => AppsOK(r.st.img[r.id].ext.apps)
    BY <1>4, IdsArePositive DEF ImageOK
  <2> QED
    BY <2>1, <2>2, <2>3, NothingLaunched
<1>5. AppsOK(base(got(known)).apps) /\ AppsOK(base(got(<<>>)).apps) /\ AppsOK(none.apps)
  BY <1>3, <1>4, NothingLaunched DEF Becomes
<1> HIDE DEF base, none
<1>6. CASE st' = st /\ GenerateResult(none)
  BY <1>1, <1>5, <1>6, Stays DEF name
<1>7. CASE st' = got(known).st /\ GenerateResult(base(got(known)))
  BY <1>3, <1>5, <1>7 DEF name
<1>8. CASE st' = st /\ GenerateResult(base(got(<<>>)))
  BY <1>1, <1>5, <1>8, Stays DEF name
<1> QED
  BY <1>2, <1>6, <1>7, <1>8

LEMMA BaseStore ==
  ASSUME StoreInv, PullBase
  PROVE  /\ Becomes(st, st', {<<res.from[1]>>})
         /\ ResOK(res') /\ res'.legacy = res.legacy /\ Extension(res)' = Extension(res)
<1> DEFINE name == <<res.from[1]>>
           known == Known(name)
           plat == PlatformOr(res.from[2], Plat)
<1>1. /\ StoreOK(st) /\ st.next \in Nat /\ ImagesOK(known, st.next) /\ ResOK(res)
      /\ \A i \in DOMAIN known : known[i].kind # "list"
  BY DEF StoreInv, StoreOK, ImagesOK, HeldOK, Known
<1>2. st' = st \/ st' = Pull(st, name, known, plat).st
  BY BaseCases
<1> HIDE DEF known, name, plat
<1>3. Becomes(st, Pull(st, name, known, plat).st, {name})
  BY <1>1, PullBecomes
<1>4. Becomes(st, st', {name})
  BY <1>1, <1>2, <1>3, Stays
<1>5. res' = res \/ \E i : res' = [res EXCEPT !.base = i]
  BY BaseCases DEF BaseFound, CleanContext
<1>6. ResOK(res') /\ res'.legacy = res.legacy /\ Extension(res)' = Extension(res)
  BY <1>1, <1>5 DEF ResOK, Extension
<1> QED
  BY <1>4, <1>6 DEF name

LEMMA BuildLiteStore ==
  ASSUME CommandInv, StoreInv, BuildLite
  PROVE  Becomes(st, st', {b.o.tag, NoName})
<1> DEFINE N == {b.o.tag, NoName}
           name == IF Multi(b.o) THEN NoName ELSE b.o.tag
           ext == Extension(res)
           added(r) == IF Multi(b.o) THEN AddToManifest(r.st, b.o.tag, r.id) ELSE r
<1>1. StoreOK(st) /\ Launchable(ext) /\ AppsOK(ext.apps)
  BY DEF StoreInv, BuildLite, ResOK, Extension
<1>2. st' = st \/ \E r \in Build(st, Key, name, ext, res.files, ~Multi(b.o) /\ b.o.cache) : st' = added(r).st
  BY DEF BuildLite, Manifest
<1> HIDE DEF ext
<1>3. ASSUME NEW r \in Build(st, Key, name, ext, res.files, ~Multi(b.o) /\ b.o.cache)
      PROVE  Becomes(st, added(r).st, N)
  <2>1. Becomes(st, r.st, {name})
    BY <1>1, BuildBecomes
  <2>2. Becomes(st, r.st, N)
    BY <2>1, BecomesMore
  <2>3. StoreOK(r.st)
    BY <2>2 DEF Becomes
  <2>4. Becomes(r.st, AddToManifest(r.st, b.o.tag, r.id).st, {b.o.tag})
    BY <2>3, AddToManifestBecomes
  <2>5. Becomes(r.st, AddToManifest(r.st, b.o.tag, r.id).st, N)
    BY <2>4, BecomesMore
  <2>6. Becomes(st, AddToManifest(r.st, b.o.tag, r.id).st, N)
    BY <2>2, <2>5, <1>1, BecomesInTurn
  <2> QED
    BY <2>2, <2>6
<1> HIDE DEF added
<1> QED
  BY <1>1, <1>2, <1>3, Stays

LEMMA BuildTempStore ==
  ASSUME CommandInv, StoreInv, BuildTemp
  PROVE  \/ st' = st /\ b'.pc = "over"
         \/ /\ Becomes(st, st', {TempTag}) /\ b'.iid \in DOMAIN st'.img
            /\ TempTag \in st'.img[b'.iid].names
            /\ b'.pc = "container"
<1> DEFINE ext == Extension(res)
<1>1. StoreOK(st) /\ Launchable(ext) /\ AppsOK(ext.apps)
  BY DEF StoreInv, BuildTemp, ResOK, Extension
<1>2. \/ st' = st /\ b'.pc = "over"
      \/ \E r \in Build(st, Key, TempTag, ext, res.files, b.o.cache) :
           st' = r.st /\ b'.iid = r.id /\ b'.pc = "container"
  BY DEF BuildTemp, CommandInv, Over
<1> HIDE DEF ext
<1>3. TempTag # NoName
  BY DEF TempTag, NoName
<1>4. ASSUME NEW r \in Build(st, Key, TempTag, ext, res.files, b.o.cache)
      PROVE  /\ Becomes(st, r.st, {TempTag}) /\ r.id \in DOMAIN r.st.img
             /\ TempTag \in r.st.img[r.id].names
  <2> DEFINE key == Key
             name == TempTag
             files == res.files
             useCache == b.o.cache
  <2>2. r \in Build(st, key, name, ext, files, useCache)
    OBVIOUS
  <2> HIDE DEF key, name, files, useCache
  <2>3. Becomes(st, r.st, {name})
    BY <1>1, <2>2, BuildBecomes
  <2>4. r.id \in DOMAIN r.st.img
    BY <1>1, <2>2, BuildBecomes
  <2>5. name # NoName => name \in r.st.img[r.id].names
    BY <1>1, <2>2, BuildBecomes
  <2>1. /\ Becomes(st, r.st, {TempTag}) /\ r.id \in DOMAIN r.st.img
        /\ TempTag # NoName => TempTag \in r.st.img[r.id].names
    BY <2>3, <2>4, <2>5 DEF name
  <2> QED
    BY <2>1, <1>3
<1> QED
  BY <1>2, <1>4

LEMMA CreateContainerStore ==
  ASSUME CommandInv, StoreInv, CreateContainer
  PROVE  /\ StoreOK(st') /\ st'.next = st.next /\ st'.img = st.img
         /\ b'.pc \in {"list", "deferred"} /\ b'.iid = b.iid
         /\ b'.pc = "list" => b'.ctr \in DOMAIN st'.ctr
         /\ \A c \in DOMAIN st'.ctr : st'.ctr[c].image = b.iid \/ (c \in DOMAIN st.ctr /\ st'.ctr[c] = st.ctr[c])
         /\ b'.pc = "list" => st'.ctr[b'.ctr].plat = st.img[b.iid].plat
<1>1. StoreOK(st)
  BY DEF StoreInv
<1>2. PICK r \in CreateWorkingContainer(st, b.iid) :
        /\ st' = r.st
        /\ b' = [b EXCEPT !.pc = IF r.ok THEN "list" ELSE "deferred", !.ctr = r.id, !.ok = r.ok]
  BY DEF CreateContainer
<1>3. b'.pc = (IF r.ok THEN "list" ELSE "deferred") /\ b'.ctr = r.id /\ b'.iid = b.iid
  BY <1>2 DEF CommandInv
<1>4. /\ StoreOK(r.st) /\ r.st.next = st.next /\ r.st.img = st.img
      /\ b.iid \notin DOMAIN st.img => r.st = st /\ ~r.ok
      /\ b.iid \in DOMAIN st.img => /\ DOMAIN r.st.ctr = DOMAIN st.ctr \cup {r.id}
                                    /\ r.st.ctr[r.id].image = b.iid /\ r.st.ctr[r.id].plat = st.img[b.iid].plat
                                    /\ \A c \in DOMAIN st.ctr \ {r.id} : r.st.ctr[c] = st.ctr[c]
  BY <1>1, CreateContainerKeeps
<1>5. CASE b.iid \in DOMAIN st.img
  BY <1>2, <1>3, <1>4, <1>5
<1>6. CASE b.iid \notin DOMAIN st.img
  BY <1>2, <1>3, <1>4, <1>6
<1> QED
  BY <1>5, <1>6

\* The working container gets what was downloaded, or its annotations.
ContainerKept(s, t) ==
  /\ StoreOK(t) /\ t.next = s.next /\ t.img = s.img /\ DOMAIN t.ctr = DOMAIN s.ctr
  /\ \A c \in DOMAIN s.ctr : t.ctr[c].image = s.ctr[c].image /\ t.ctr[c].plat = s.ctr[c].plat

WithRegistry(s, c, g) == [s EXCEPT !.ctr[c].saved = g]

LEMMA RegistryPut ==
  ASSUME NEW s, StoreOK(s), NEW c, c \in DOMAIN s.ctr, NEW g, RegistryOK(g)
  PROVE  ContainerKept(s, WithRegistry(s, c, g)) /\ WithRegistry(s, c, g).ctr[c].saved = g
<1> DEFINE t == WithRegistry(s, c, g)
           r == [s.ctr[c] EXCEPT !.saved = g]
<1>1. ContainerOK(s.ctr[c])
  BY DEF StoreOK
<1>2. ContainerOK(r) /\ r.image = s.ctr[c].image /\ r.plat = s.ctr[c].plat /\ r.saved = g
  BY <1>1 DEF ContainerOK
<1>3. t = [s EXCEPT !.ctr[c] = r]
  BY DEF WithRegistry
<1> HIDE DEF r, t
<1>4. /\ StoreOK(t) /\ t.next = s.next /\ t.img = s.img
      /\ DOMAIN t.ctr = DOMAIN s.ctr
      /\ \A d \in DOMAIN s.ctr : t.ctr[d].image = s.ctr[d].image /\ t.ctr[d].plat = s.ctr[d].plat
      /\ t.ctr[c] = r
  BY <1>2, <1>3, ContainerChanged
<1>5. ContainerKept(s, t) /\ t.ctr[c].saved = g
  BY <1>2, <1>4 DEF ContainerKept
<1> QED
  BY <1>5 DEF t

LEMMA StoredStore ==
  ASSUME StoreInv, b.ctr \in DOMAIN st.ctr
  PROVE  ContainerKept(st, Stored) /\ Stored.ctr[b.ctr].saved = reg
<1>1. StoreOK(st) /\ RegistryOK(reg)
  BY DEF StoreInv
<1>2. Stored = WithRegistry(st, b.ctr, reg)
  BY DEF Stored, WithRegistry
<1> QED
  BY <1>1, <1>2, RegistryPut

LEMMA ConfigStore ==
  ASSUME StoreInv, NEW c \in DOMAIN st.ctr, NEW images
  PROVE  ContainerKept(st, Config(st, c, images)) /\ Config(st, c, images).ctr[c].saved = st.ctr[c].saved
<1> DEFINE r == [st.ctr[c] EXCEPT !.listed = images]
           t == Config(st, c, images)
<1>1. StoreOK(st)
  BY DEF StoreInv
<1>2. ContainerOK(st.ctr[c])
  BY <1>1 DEF StoreOK
<1>3. ContainerOK(r) /\ r.image = st.ctr[c].image /\ r.plat = st.ctr[c].plat /\ r.saved = st.ctr[c].saved
  BY <1>2 DEF ContainerOK
<1>4. t = [st EXCEPT !.ctr[c] = r]
  BY DEF Config
<1> HIDE DEF r, t
<1>5. /\ StoreOK(t) /\ t.next = st.next /\ t.img = st.img
      /\ DOMAIN t.ctr = DOMAIN st.ctr
      /\ \A d \in DOMAIN st.ctr : t.ctr[d].image = st.ctr[d].image /\ t.ctr[d].plat = st.ctr[d].plat
      /\ t.ctr[c] = r
  BY <1>1, <1>3, <1>4, ContainerChanged
<1> QED
  BY <1>3, <1>5 DEF ContainerKept, t

LEMMA CommitStore ==
  ASSUME CommandInv, StoreInv, CommitContainer
  PROVE  Becomes(st, st', {b.o.tag}) /\ DOMAIN st.img \subseteq DOMAIN st'.img
<1> DEFINE name == b.o.tag
           manifest == Manifest(b.o)
           c == b.ctr
<1>1. StoreOK(st) /\ c \in DOMAIN st.ctr
  BY DEF StoreInv, CommitContainer, ContainerPCs
<1>2. manifest \in {NoName, name}
  BY DEF Manifest
<1>3. st' = st \/ \E r \in Commit(st, c, name, manifest) : st' = r.st
  BY DEF CommitContainer
<1> HIDE DEF name, manifest, c
<1>4. ASSUME NEW r \in Commit(st, c, name, manifest)
      PROVE  Becomes(st, r.st, {name}) /\ DOMAIN st.img \subseteq DOMAIN r.st.img
  BY <1>1, <1>2, CommitBecomes
<1>5. Becomes(st, st', {name}) /\ DOMAIN st.img \subseteq DOMAIN st'.img
  BY <1>1, <1>3, <1>4, Stays
<1> QED
  BY <1>5 DEF name

\* The removal by ID is forced, so the image goes with its containers.
LEMMA RemoveIntermediateBecomes ==
  ASSUME NEW s, StoreOK(s), NEW i, NEW tag, NEW N
  PROVE  LET t == RemoveIntermediate(s, i, tag)
         IN /\ Becomes(s, t, N)
            /\ i \in DOMAIN s.img =>
                 /\ DOMAIN t.ctr \cap ContainersOf(s, i) = {}
                 /\ \A j \in DOMAIN t.img : \A n \in t.img[j].names :
                      n \in N \/ (j \in DOMAIN s.img \ {i} /\ n \in s.img[j].names)
<1> DEFINE u == RemoveImageById(s, i, TRUE).st
           t == RemoveImage(u, tag, TRUE).st
<1>1. /\ Becomes(s, u, N)
      /\ i \in DOMAIN s.img =>
           /\ DOMAIN u.img = DOMAIN s.img \ {i}
           /\ \A j \in DOMAIN u.img : u.img[j] = s.img[j]
           /\ DOMAIN u.ctr = DOMAIN s.ctr \ ContainersOf(s, i)
  BY RemoveImageByIdBecomes
<1>2. StoreOK(u)
  BY <1>1 DEF Becomes
<1> HIDE DEF u
<1>3. Becomes(u, t, N)
  BY <1>2, RemoveImageBecomes
<1>4. RemoveIntermediate(s, i, tag) = t
  BY DEF RemoveIntermediate, u
<1> HIDE DEF t
<1>5. Becomes(s, t, N)
  BY <1>1, <1>3, BecomesInTurn
<1>6. ASSUME i \in DOMAIN s.img
      PROVE  /\ DOMAIN t.ctr \cap ContainersOf(s, i) = {}
             /\ \A j \in DOMAIN t.img : \A n \in t.img[j].names :
                  n \in N \/ (j \in DOMAIN s.img \ {i} /\ n \in s.img[j].names)
  BY <1>1, <1>3, <1>6 DEF Becomes, ContainersFrom, NamesFrom
<1> QED
  BY <1>4, <1>5, <1>6

LEMMA PlatformOverStore ==
  ASSUME StoreInv, PlatformOver, NEW N
  PROVE  Becomes(st, st', N)
<1>1. StoreOK(st)
  BY DEF StoreInv
<1>2. st' = st \/ st' = DeleteManifests(st, b.o.tag).st
  BY DEF PlatformOver
<1> QED
  BY <1>1, <1>2, Stays, DeleteManifestsBecomes

LEMMA LoadCmdStore ==
  ASSUME StoreInv, LoadCmd, NEW N
  PROVE  Becomes(st, st', N)
<1>1. StoreOK(st)
  BY DEF StoreInv
<1>2. st' = st \/ st' = DeleteManifests(st, tar.name).st
  BY DEF LoadCmd
<1> QED
  BY <1>1, <1>2, Stays, DeleteManifestsBecomes

\* What a load puts into the store comes from the archive.
LEMMA LoadInstanceStore ==
  ASSUME CommandInv, StoreInv, LoadInstance, b.mounted \subseteq DOMAIN tar.insts,
         NEW N, \A i \in DOMAIN tar.insts : tar.insts[i].names \subseteq N
  PROVE  Becomes(st, st', N)
<1>1. StoreOK(st) /\ HeldOK(st, tar.insts)
  BY DEF StoreInv
<1>2. PICK i \in b.mounted : st' = st \/ st' = LoadOneImage(st, i, tar.insts[i])
  BY DEF LoadInstance
<1>3. /\ i \in Nat \ {0} /\ ImageOK(tar.insts[i]) /\ tar.insts[i].names \subseteq N
      /\ tar.insts[i].kind # "list"
  BY <1>1 DEF ImagesOK, HeldOK
<1>4. Becomes(st, LoadOneImage(st, i, tar.insts[i]), tar.insts[i].names)
  BY <1>1, <1>3, LoadOneImageBecomes
<1>5. Becomes(st, LoadOneImage(st, i, tar.insts[i]), N)
  BY <1>3, <1>4, BecomesMore
<1> QED
  BY <1>1, <1>2, <1>5, Stays

LEMMA LookupAfterCreate ==
  ASSUME NEW s, StoreOK(s), NEW n, CreateManifest(s, n).ok
  PROVE  LET c == CreateManifest(s, n)
         IN Lookup(c.st, n) = c.id /\ c.id \in DOMAIN c.st.img /\ c.st.img[c.id] = NewList(n) /\ StoreOK(c.st)
<1> DEFINE c == CreateManifest(s, n)
<1>1. /\ Becomes(s, c.st, {n}) /\ DOMAIN c.st.img = DOMAIN s.img \cup {c.id}
      /\ c.st.img[c.id] = NewList(n)
  BY CreateManifestBecomes
<1>2. StoreOK(c.st)
  BY <1>1 DEF Becomes
<1> HIDE DEF c
<1>3. n \in c.st.img[c.id].names
  BY <1>1, NewListOK
<1>4. Lookup(c.st, n) = c.id
  BY <1>1, <1>2, <1>3, LookupFinds
<1> QED
  BY <1>1, <1>2, <1>4 DEF c

\* The list is made last, and with all instances or none.
LEMMA LoadManifestStore ==
  ASSUME CommandInv, StoreInv, LoadManifest
  PROVE  /\ Becomes(st, st', {tar.name})
         /\ last'.ok /\ tar.list =>
              LET l == Lookup(st', tar.name)
              IN /\ IsManifestList(st', l)
                 /\ st'.img[l].inst = DOMAIN tar.insts
                 /\ st'.img[l].inst \subseteq DOMAIN st'.img
<1> DEFINE n == tar.name
           I == DOMAIN tar.insts
           c == CreateManifest(st, n)
           a == AddAll(c.st, n, I)
<1>1. StoreOK(st)
  BY DEF StoreInv
<1>2. \/ ~tar.list /\ st' = st
      \/ ~c.ok /\ st' = st /\ last'.ok = FALSE
      \/ tar.list /\ c.ok /\ st' = a.st /\ last'.ok = a.ok
  BY DEF LoadManifest, Finish, CommandInv
<1> HIDE DEF n, I, c, a
<1>3. CASE ~tar.list /\ st' = st
  BY <1>1, <1>3, Stays
<1>4. CASE ~c.ok /\ st' = st /\ last'.ok = FALSE
  BY <1>1, <1>4, Stays
<1>5. CASE tar.list /\ c.ok /\ st' = a.st /\ last'.ok = a.ok
  <2>1. Becomes(st, c.st, {n})
    BY <1>1, CreateManifestBecomes DEF c
  <2>2. Lookup(c.st, n) = c.id /\ c.id \in DOMAIN c.st.img /\ c.st.img[c.id] = NewList(n) /\ StoreOK(c.st)
    BY <1>1, <1>5, LookupAfterCreate DEF c
  <2>3. CASE ~(I \subseteq DOMAIN c.st.img)
    <3>1. a.st = c.st /\ a.ok = FALSE
      BY <2>3 DEF a, AddAll, Ret
    <3> QED
      BY <2>1, <3>1, <1>5 DEF n
  <2>4. CASE I \subseteq DOMAIN c.st.img
    <3> DEFINE u == c.st
               l == c.id
               J == c.st.img[c.id].inst \cup I
               t == [u EXCEPT !.img[l].inst = J]
    <3>1. a.st = t
      BY <2>2, <2>4 DEF a, AddAll, Ret
    <3>2. /\ Becomes(c.st, t, {n}) /\ DOMAIN t.img = DOMAIN c.st.img
          /\ t.img[c.id].inst = c.st.img[c.id].inst \cup I
          /\ t.img[c.id].kind = c.st.img[c.id].kind
          /\ \A j \in DOMAIN c.st.img : t.img[j].names = c.st.img[j].names
      <4>3. c.st.img[c.id].inst = {} /\ PlainStays(st, c.st)
        BY <2>1, <2>2, NewListOK DEF Becomes
      <4>4. AllPlain(c.st, J)
        BY <4>3, <1>1 DEF AllPlain, PlainStays, StoreInv, HeldOK, I
      <4>1. StoreOK(u) /\ l \in DOMAIN u.img /\ AllPlain(u, J)
        BY <2>2, <4>4
      <4> HIDE DEF u, l, J
      <4>2. /\ Becomes(u, t, {n}) /\ DOMAIN t.img = DOMAIN u.img
            /\ t.img[l].inst = J /\ t.img[l].kind = u.img[l].kind
            /\ \A j \in DOMAIN u.img : t.img[j].names = u.img[j].names
        BY <4>1, InstancesBecomes
      <4> HIDE DEF t
      <4> QED
        BY <4>2 DEF u, l, J
    <3> HIDE DEF t
    <3>3. Becomes(st, t, {n}) /\ StoreOK(t)
      BY <2>1, <3>2, <1>1, BecomesInTurn DEF Becomes
    <3>4. n \in t.img[c.id].names /\ t.img[c.id].inst = I /\ t.img[c.id].kind = "list"
      BY <2>2, <3>2, NewListOK
    <3>5. Lookup(t, n) = c.id
      BY <2>2, <3>2, <3>3, <3>4, LookupFinds
    <3>6. IsManifestList(t, c.id) /\ t.img[c.id].inst \subseteq DOMAIN t.img
      BY <2>2, <2>4, <3>2, <3>4 DEF IsManifestList
    <3> QED
      BY <1>5, <3>1, <3>3, <3>4, <3>5, <3>6 DEF n, I
  <2> QED
    BY <2>3, <2>4
<1> QED
  BY <1>2, <1>3, <1>4, <1>5

LEMMA MountCmdStore ==
  ASSUME StoreInv, NEW n, MountCmd(n)
  PROVE  /\ StoreOK(st') /\ st'.next = st.next /\ st'.img = st.img
         /\ DOMAIN st'.ctr \subseteq left'
<1> DEFINE i == Resolved(st, n)
<1>1. StoreOK(st)
  BY DEF StoreInv
<1>2. PICK r \in IF ContainersOf(st, i) # {} THEN {Ret(st, TRUE, 0)} ELSE CreateWorkingContainer(st, i) :
        st' = r.st /\ left' = left \cup DOMAIN r.st.ctr
  BY DEF MountCmd
<1> HIDE DEF i
<1>3. CASE ContainersOf(st, i) # {}
  <2>1. r = [st |-> st, ok |-> TRUE, id |-> 0]
    BY <1>2, <1>3 DEF Ret
  <2> QED
    BY <1>1, <1>2, <2>1
<1>4. CASE ContainersOf(st, i) = {}
  BY <1>1, <1>2, <1>4, CreateContainerKeeps
<1> QED
  BY <1>3, <1>4

LEMMA MountPlatformStore ==
  ASSUME CommandInv, StoreInv, MountPlatform
  PROVE  /\ StoreOK(st') /\ st'.next >= st.next /\ NamesFrom(st, st', {b.o}) /\ PlainStays(st, st')
         /\ \/ /\ b'.pc = "mount" /\ b'.o = b.o /\ left' = left
               /\ \A c \in DOMAIN st'.ctr : c \in b'.mounted \/ c \in DOMAIN st.ctr
               /\ b.mounted \subseteq b'.mounted
            \/ b'.pc = "idle" /\ DOMAIN st'.ctr \subseteq left'
<1> DEFINE n == b.o
           plat == Plat
           rem == IF n \in DOMAIN remote THEN remote[n] ELSE <<>>
           p == PullMissing(st, n, plat)
<1>1. /\ StoreOK(st) /\ st.next \in Nat /\ ImagesOK(rem, st.next)
      /\ \A i \in DOMAIN rem : rem[i].kind # "list"
  BY DEF StoreInv, StoreOK, ImagesOK, HeldOK
<1>2. PICK r \in IF p.ok THEN CreateWorkingContainer(p.st, p.id) ELSE {Ret(p.st, FALSE, 0)} :
        /\ st' = r.st
        /\ IF r.ok THEN b' = [b EXCEPT !.todo = Tail(@), !.mounted = @ \cup {r.id}] /\ UNCHANGED <<last, left>>
           ELSE Finish(FALSE) /\ left' = left \cup DOMAIN r.st.ctr
  BY DEF MountPlatform
<1> HIDE DEF n, plat
<1>3. Becomes(st, p.st, {n})
  <2> DEFINE i == Lookup(st, n)
             here == {j \in DOMAIN st.img \cap (Instances(st, i) \cup {i}) : st.img[j].plat = plat}
  <2>1. p = IF i # 0 /\ here # {} THEN Ret(st, TRUE, CHOOSE j \in here : TRUE) ELSE Pull(st, n, rem, plat)
    BY DEF PullMissing, Known
  <2> HIDE DEF i, here, rem, p
  <2>2. Becomes(st, Pull(st, n, rem, plat).st, {n})
    BY <1>1, PullBecomes
  <2> QED
    BY <2>1, <2>2, <1>1, Stays DEF Ret
<1> HIDE DEF p
<1>4. /\ StoreOK(p.st) /\ p.st.next >= st.next /\ NamesFrom(st, p.st, {n}) /\ DOMAIN p.st.ctr \subseteq DOMAIN st.ctr
      /\ PlainStays(st, p.st)
  BY <1>3 DEF Becomes, ContainersFrom
<1>5. /\ StoreOK(r.st) /\ r.st.next = p.st.next /\ r.st.img = p.st.img
      /\ r.ok => DOMAIN r.st.ctr \subseteq DOMAIN st.ctr \cup {r.id}
  <2>1. CASE p.ok
    BY <1>2, <1>3, <1>4, <2>1, CreateContainerKeeps
  <2>2. CASE ~p.ok
    <3>1. r = [st |-> p.st, ok |-> FALSE, id |-> 0]
      BY <1>2, <2>2 DEF Ret
    <3> QED
      BY <3>1, <1>4
  <2> QED
    BY <2>1, <2>2
<1>9. PlainStays(st, st')
  BY <1>2, <1>4, <1>5, SameImages DEF PlainStays
<1>6. StoreOK(st') /\ st'.next >= st.next /\ NamesFrom(st, st', {b.o}) /\ PlainStays(st, st')
  BY <1>2, <1>4, <1>5, <1>9 DEF NamesFrom, n
<1>7. CASE r.ok
  <2>1. b'.mounted = b.mounted \cup {r.id} /\ b'.pc = b.pc /\ b.pc = "mount" /\ b'.o = b.o /\ left' = left
    BY <1>2, <1>7 DEF CommandInv, MountPlatform
  <2> QED
    BY <2>1, <1>2, <1>5, <1>6, <1>7
<1>8. CASE ~r.ok
  <2>1. b'.pc = "idle" /\ left' = left \cup DOMAIN st'.ctr
    BY <1>2, <1>8 DEF Finish, NoCommand
  <2> QED
    BY <2>1, <1>6
<1> QED
  BY <1>7, <1>8

\* Downloads add to the registry directory.
LEMMA SaveStepKeeps ==
  ASSUME RegistryOK(reg), SaveStep
  PROVE  RegistryOK(reg')
<1> PICK g \in DOMAIN gr :
      \/ StartGroup(g)
      \/ \E im \in gr[g].todo : SaveManifest(g, im)
      \/ ListBlobs(g)
      \/ \E x \in DOMAIN gr[g].blobs : StatBlobStep(g, x) \/ CheckErr(g, x) \/ SaveBlob(g, x)
      \/ EndGroup(g)
  BY DEF SaveStep
<1>1. CASE reg' = reg
  BY <1>1
<1>2. ASSUME NEW im, SaveManifest(g, im) PROVE RegistryOK(reg')
  <2> DEFINE tags == [t \in DOMAIN reg.tags \cup {TagOf(im)} |-> IF t = TagOf(im) THEN im ELSE reg.tags[t]]
             tagged == [reg EXCEPT !.tags = tags]
             stored(r, d) == [r EXCEPT !.mans = r.mans \cup {<<Repo(im), d>>}]
  <2>1. reg' \in {reg, tagged, stored(tagged, im), stored(reg, reg.tags[TagOf(im)])}
    BY <1>2 DEF SaveManifest
  <2> HIDE DEF tags
  <2>2. RegistryOK(tagged)
    BY DEF RegistryOK
  <2> HIDE DEF tagged
  <2>3. RegistryOK(stored(tagged, im)) /\ RegistryOK(stored(reg, reg.tags[TagOf(im)]))
    BY <2>2 DEF RegistryOK
  <2> QED
    BY <2>1, <2>2, <2>3
<1>3. ASSUME NEW x, SaveBlob(g, x) PROVE RegistryOK(reg')
  BY <1>3 DEF SaveBlob, RegistryOK
<1> QED
  BY <1>1, <1>2, <1>3 DEF StartGroup, ListBlobs, StatBlobStep, CheckErr, EndGroup

LEMMA StoreInductive ==
  ASSUME CommandInv, StoreInv, dirs \in Int, [Next]_vars
  PROVE  StoreInv'
<1> DEFINE Held == /\ \A n \in DOMAIN remote' : HeldOK(st', remote'[n])
                   /\ HeldOK(st', tar'.insts)
           Rest == /\ RegistryOK(reg') /\ ResOK(res')
                   /\ b'.pc = "build" => Launchable(Extension(res))'
                   /\ b'.pc \in ContainerPCs => b'.ctr \in DOMAIN st'.ctr
                   /\ b'.pc = "load" => b'.mounted \subseteq DOMAIN tar'.insts
<1> USE DEF ContainerPCs
<1>1. /\ StoreOK(st) /\ RegistryOK(reg) /\ ResOK(res)
      /\ \A n \in DOMAIN remote : HeldOK(st, remote[n])
      /\ HeldOK(st, tar.insts)
  BY DEF StoreInv
<1>2. ASSUME StoreOK(st'), st'.next >= st.next, PlainStays(st, st'), remote' = remote, tar' = tar, Rest PROVE StoreInv'
  <2>1. Held
    BY <1>1, <1>2, HoldingsKept
  <2> QED
    BY <2>1, <1>2 DEF StoreInv
<1>3. ASSUME NEW N, Becomes(st, st', N), remote' = remote, tar' = tar, Rest PROVE StoreInv'
  BY <1>2, <1>3 DEF Becomes
<1>4. ASSUME UNCHANGED storeVars, Rest PROVE StoreInv'
  <2>1. st'.next >= st.next
    BY <1>1, <1>4 DEF StoreOK, storeVars
  <2> QED
    BY <1>1, <1>2, <1>4, <2>1, SameImages DEF storeVars
<1>5. ASSUME ContainerKept(st, st'), remote' = remote, tar' = tar, Rest PROVE StoreInv'
  <2>1. st'.next >= st.next /\ StoreOK(st') /\ PlainStays(st, st')
    BY <1>1, <1>5, SameImages DEF ContainerKept, StoreOK
  <2> QED
    BY <1>2, <1>5, <2>1
<1>6. ASSUME ResOK(res'), UNCHANGED saveVars, b'.pc \notin ContainerPCs \cup {"build", "load"} PROVE Rest
  BY <1>1, <1>6 DEF saveVars
<1>7. ASSUME NEW ok, Finish(ok) PROVE b'.pc = "idle"
  BY <1>7 DEF Finish, NoCommand
<1>8. ASSUME NEW ok, Over(ok) PROVE b'.pc = "over"
  BY <1>8 DEF Over, CommandInv
<1>9. ASSUME NEW ok, Deferred(ok) PROVE b'.pc = "deferred"
  BY <1>9 DEF Deferred, CommandInv
<1>10. CASE ReadKubefile
  <2>1. res' = NoResult /\ UNCHANGED <<saveVars, storeVars>> /\ b'.pc \in {"over", "parse"}
    BY <1>10, <1>8 DEF ReadKubefile, CommandInv
  <2> QED
    BY <2>1, <1>4, <1>6, NoResultOK
<1>11. CASE ParseKubefile
  <2>1. Becomes(st, st', {<<Head(ast).args[1]>>}) /\ \E pulled : AppsOK(pulled.apps) /\ GenerateResult(pulled)
    BY <1>11, ParseStore
  <2>2. ResOK(res')
    BY <2>1, <1>1, GenerateKeeps
  <2>3. b' = b /\ b.pc = "parse" /\ remote' = remote /\ tar' = tar /\ reg' = reg
    BY <1>11 DEF ParseKubefile, ctlVars
  <2>4. Rest
    BY <2>2, <2>3, <1>1
  <2> HIDE DEF Rest
  <2> QED
    BY <2>1, <2>3, <2>4, <1>3
<1>12. CASE ParsedKubefile
  <2>1. ResOK(CheckResult) /\ (CheckResult.ok => Launchable(Extension(CheckResult)))
    BY <1>1, CheckResultOK
  <2>2. /\ UNCHANGED <<saveVars, storeVars>>
        /\ \/ res.ok /\ res' = CheckResult /\ CheckResult.ok /\ b'.pc = "build"
           \/ res' \in {res, CheckResult} /\ b'.pc = "over"
    BY <1>12, <1>8 DEF ParsedKubefile, CommandInv
  <2>3. ResOK(res') /\ (b'.pc = "build" => Launchable(Extension(res)'))
    BY <2>1, <2>2, <1>1 DEF Extension
  <2>4. Rest
    BY <2>2, <2>3, <1>1 DEF saveVars
  <2> HIDE DEF Rest
  <2> QED
    BY <2>2, <2>4, <1>4
<1>38. CASE PullBase
  <2>1. Becomes(st, st', {<<res.from[1]>>}) /\ ResOK(res') /\ Extension(res)' = Extension(res)
    BY <1>38, BaseStore
  <2>2. b.pc = "build" /\ remote' = remote /\ tar' = tar /\ reg' = reg /\ (b' = b \/ b'.pc = "over")
    BY <1>38, <1>8, BaseCases DEF BaseFound
  <2>3. Rest
    BY <2>1, <2>2, <1>1 DEF StoreInv
  <2> HIDE DEF Rest
  <2> QED
    BY <2>1, <2>2, <2>3, <1>3
<1>13. CASE BuildLite
  <2>1. Becomes(st, st', {b.o.tag, NoName})
    BY <1>13, BuildLiteStore
  <2>2. res' = res /\ UNCHANGED saveVars /\ remote' = remote /\ tar' = tar /\ b'.pc = "over"
    BY <1>13, <1>8 DEF BuildLite, CleanContext
  <2> QED
    BY <2>1, <2>2, <1>1, <1>3, <1>6
<1>14. CASE BuildTemp
  <2>1. res' = res /\ UNCHANGED saveVars /\ remote' = remote /\ tar' = tar
    BY <1>14 DEF BuildTemp, CleanContext, parserVars
  <2>2. CASE st' = st /\ b'.pc = "over"
    BY <2>1, <2>2, <1>1, <1>4, <1>6 DEF storeVars
  <2>3. CASE Becomes(st, st', {TempTag}) /\ b'.pc = "container"
    BY <2>1, <2>3, <1>1, <1>3, <1>6
  <2> QED
    BY <2>2, <2>3, <1>14, BuildTempStore
<1>15. CASE CreateContainer
  <2>1. /\ StoreOK(st') /\ st'.next = st.next /\ st'.img = st.img
        /\ b'.pc \in {"list", "deferred"} /\ (b'.pc = "list" => b'.ctr \in DOMAIN st'.ctr)
    BY <1>15, CreateContainerStore
  <2>2. res' = res /\ UNCHANGED saveVars /\ remote' = remote /\ tar' = tar
    BY <1>15 DEF CreateContainer, parserVars
  <2>3. st'.next >= st.next /\ PlainStays(st, st')
    BY <2>1, <1>1, SameImages DEF StoreOK
  <2>4. Rest
    BY <2>1, <2>2, <1>1 DEF saveVars
  <2> HIDE DEF Rest
  <2> QED
    BY <2>1, <2>2, <2>3, <2>4, <1>2
<1>16. CASE DownloadList
  <2>1. b.ctr \in DOMAIN st.ctr /\ RegistryOK(st.ctr[b.ctr].saved)
    BY <1>1, <1>16 DEF StoreInv, DownloadList, StoreOK, ContainerOK
  <2>2. res' = res /\ UNCHANGED storeVars /\ (reg' = reg \/ reg' = st.ctr[b.ctr].saved)
        /\ b'.pc \in {"saving", "deferred"} /\ b'.ctr = b.ctr
    BY <1>16 DEF DownloadList, SaveImages, Deferred, CommandInv, saveVars, parserVars
  <2>3. Rest
    BY <2>1, <2>2, <1>1 DEF storeVars
  <2> HIDE DEF Rest
  <2> QED
    BY <2>2, <2>3, <1>4
<1>17. CASE DownloadStep
  <2>1. RegistryOK(reg')
    BY <1>17, <1>1, SaveStepKeeps DEF DownloadStep
  <2>2. res' = res /\ UNCHANGED storeVars /\ b' = b /\ b.pc \in {"saving", "authsaving"}
    BY <1>17 DEF DownloadStep, ctlVars, parserVars
  <2>3. Rest
    BY <2>1, <2>2, <1>1 DEF storeVars, StoreInv
  <2> HIDE DEF Rest
  <2> QED
    BY <2>2, <2>3, <1>4
<1>18. CASE DownloadedList \/ DownloadedWithAuth
  <2>1. /\ st' = Stored /\ res' = res /\ reg' = reg /\ remote' = remote /\ tar' = tar
        /\ b.pc \in {"saving", "authsaving"} /\ b'.ctr = b.ctr /\ b'.pc \in {"auth", "config", "deferred"}
    BY <1>18 DEF DownloadedList, DownloadedWithAuth, Deferred, CommandInv, SaveOver, parserVars
  <2>2. b.ctr \in DOMAIN st.ctr
    BY <2>1 DEF StoreInv
  <2>3. ContainerKept(st, st')
    BY <2>1, <2>2, StoredStore
  <2>4. Rest
    BY <2>1, <2>2, <2>3, <1>1 DEF ContainerKept
  <2> HIDE DEF Rest
  <2> QED
    BY <2>1, <2>3, <2>4, <1>5
<1>19. CASE DownloadWithAuth
  <2>1. res' = res /\ UNCHANGED storeVars /\ reg' = reg /\ b'.ctr = b.ctr
        /\ b.pc = "auth" /\ b'.pc \in {"config", "deferred", "authsaving"}
    BY <1>19 DEF DownloadWithAuth, SaveImagesWithAuth, Deferred, CommandInv, saveVars, parserVars
  <2>2. Rest
    BY <2>1, <1>1 DEF storeVars, StoreInv
  <2> HIDE DEF Rest
  <2> QED
    BY <2>1, <2>2, <1>4
<1>20. CASE UpdateAnnotations
  <2>1. /\ st' = st \/ st' = Config(st, b.ctr, b.list)
        /\ res' = res /\ UNCHANGED saveVars /\ remote' = remote /\ tar' = tar
        /\ b.pc = "config" /\ b'.ctr = b.ctr /\ b'.pc \in {"commit", "deferred"}
    BY <1>20 DEF UpdateAnnotations, Deferred, CommandInv, parserVars
  <2>2. b.ctr \in DOMAIN st.ctr
    BY <2>1 DEF StoreInv
  <2>3. ContainerKept(st, st')
    <3>1. CASE st' = st
      BY <3>1, <1>1 DEF ContainerKept
    <3>2. CASE st' = Config(st, b.ctr, b.list)
      BY <3>2, <2>2, ConfigStore
    <3> QED
      BY <3>1, <3>2, <2>1
  <2>4. Rest
    BY <2>1, <2>2, <2>3, <1>1 DEF ContainerKept, saveVars
  <2> HIDE DEF Rest
  <2> QED
    BY <2>1, <2>3, <2>4, <1>5
<1>21. CASE CommitContainer
  <2>1. res' = res /\ UNCHANGED saveVars /\ remote' = remote /\ tar' = tar /\ b'.pc = "deferred"
    BY <1>21, <1>9 DEF CommitContainer, parserVars
  <2> QED
    BY <2>1, <1>1, <1>3, <1>6, <1>21, CommitStore
<1>22. CASE DeferredCleanup
  <2>1. /\ st' = RemoveIntermediate(st, b.iid, TempTag)
        /\ res' = res /\ UNCHANGED saveVars /\ remote' = remote /\ tar' = tar /\ b'.pc = "over"
    BY <1>22, <1>8 DEF DeferredCleanup, CleanContext
  <2>2. Becomes(st, st', {})
    BY <2>1, <1>1, RemoveIntermediateBecomes
  <2> QED
    BY <2>1, <2>2, <1>1, <1>3, <1>6
<1>23. CASE PlatformOver
  <2>1. res' = NoResult /\ reg' = NoRegistry /\ remote' = remote /\ tar' = tar /\ b'.pc \in {"idle", "read"}
    BY <1>23, <1>7 DEF PlatformOver, NoCommand
  <2>2. Becomes(st, st', {})
    BY <1>23, PlatformOverStore
  <2>3. Rest
    BY <2>1, NoResultOK DEF RegistryOK, NoRegistry
  <2> HIDE DEF Rest
  <2> QED
    BY <2>1, <2>2, <2>3, <1>3
<1>24. CASE LoadInstance
  <2> DEFINE N == UNION {tar.insts[i].names : i \in DOMAIN tar.insts}
  <2>1. b.pc = "load" /\ b.mounted \subseteq DOMAIN tar.insts
    BY <1>24 DEF LoadInstance, StoreInv
  <2>2. Becomes(st, st', N)
    BY <2>1, <1>24, LoadInstanceStore
  <2>3. res' = res /\ UNCHANGED saveVars /\ remote' = remote /\ tar' = tar
    BY <1>24 DEF LoadInstance, parserVars
  <2>4. b'.pc = "idle" \/ (b'.pc = "load" /\ b'.mounted \subseteq b.mounted)
    BY <1>24, <2>1, <1>7 DEF LoadInstance, CommandInv
  <2>5. Rest
    BY <2>1, <2>3, <2>4, <1>1 DEF saveVars
  <2> HIDE DEF Rest, N
  <2> QED
    BY <2>2, <2>3, <2>5, <1>3
<1>25. CASE LoadManifest
  <2>1. res' = res /\ UNCHANGED saveVars /\ remote' = remote /\ tar' = tar /\ b'.pc = "idle"
    BY <1>25, <1>7 DEF LoadManifest, parserVars
  <2> QED
    BY <2>1, <1>1, <1>3, <1>6, <1>25, LoadManifestStore
<1>26. CASE MountPlatform
  <2>1. StoreOK(st') /\ st'.next >= st.next /\ PlainStays(st, st') /\ b'.pc \in {"mount", "idle"}
    BY <1>26, MountPlatformStore
  <2>2. res' = res /\ UNCHANGED saveVars /\ remote' = remote /\ tar' = tar
    BY <1>26 DEF MountPlatform, parserVars
  <2> QED
    BY <2>1, <2>2, <1>1, <1>2, <1>6
<1>27. CASE UmountImage
  <2>1. PICK C : st' = DropContainers(st, C)
    BY <1>27 DEF UmountImage, RemoveContainer
  <2>2. res' = res /\ UNCHANGED saveVars /\ remote' = remote /\ tar' = tar /\ b'.pc = "idle"
    BY <1>27, <1>7 DEF UmountImage, parserVars
  <2>3. Becomes(st, st', {})
    BY <2>1, <1>1, DropContainersBecomes
  <2> QED
    BY <2>2, <2>3, <1>1, <1>3, <1>6
<1>28. CASE SimpleCommands
  <2>1. /\ Becomes(st, st', ImageNames)
        /\ \A n \in DOMAIN remote' : HeldOK(st, remote'[n])
        /\ tar' = tar \/ \E n \in ImageNames : tar' = Save(st, n, tar).tar
    BY <1>28, SimpleStore
  <2>2. HeldOK(st, tar'.insts)
    BY <2>1, <1>1, SaveMakes
  <2>3. StoreOK(st') /\ Held
    BY <2>1, <2>2, <1>1, HoldingsKept DEF Becomes
  <2>4. res' = res /\ reg' = reg /\ b'.pc = "idle"
    BY <1>28, SimpleCommandsAreQuick DEF Quick, Idle, parserVars, saveVars
  <2> QED
    BY <2>3, <2>4, <1>1 DEF StoreInv
<1>29. ASSUME NEW o \in BuildOptions, BuildCmd(o) PROVE StoreInv'
  <2>1. res' = res /\ UNCHANGED saveVars /\ remote' = remote /\ tar' = tar /\ b'.pc \in {"idle", "read"}
    BY <1>29 DEF BuildCmd, NoCommand, Idle, parserVars
  <2> QED
    BY <2>1, <1>1, <1>3, <1>6, <1>29, BuildCmdStore
<1>30. CASE LoadCmd
  <2>1. Becomes(st, st', {})
    BY <1>30, LoadCmdStore
  <2>2. /\ res' = res /\ UNCHANGED saveVars /\ remote' = remote /\ tar' = tar
        /\ \/ b' = b /\ b.pc = "idle"
           \/ b' = [NoCommand EXCEPT !.pc = "load", !.mounted = DOMAIN tar.insts]
    BY <1>30 DEF LoadCmd, Idle, parserVars
  <2>3. b'.pc = "idle" \/ (b'.pc = "load" /\ b'.mounted = DOMAIN tar.insts)
    BY <2>2 DEF NoCommand
  <2>4. Rest
    BY <2>2, <2>3, <1>1 DEF saveVars
  <2> HIDE DEF Rest
  <2> QED
    BY <2>1, <2>2, <2>4, <1>3
<1>31. ASSUME NEW n \in ImageNames, MountCmd(n) PROVE StoreInv'
  <2>1. StoreOK(st') /\ st'.next = st.next /\ st'.img = st.img
    BY <1>31, MountCmdStore
  <2>2. res' = res /\ UNCHANGED saveVars /\ remote' = remote /\ tar' = tar /\ b'.pc = "idle"
    BY <1>31 DEF MountCmd, Idle, parserVars
  <2>3. st'.next >= st.next /\ PlainStays(st, st')
    BY <2>1, <1>1, SameImages DEF StoreOK
  <2> QED
    BY <2>1, <2>2, <2>3, <1>1, <1>2, <1>6
<1>32. ASSUME NEW n, NEW plats, MountImageCmd(n, plats) PROVE StoreInv'
  <2>1. res' = res /\ UNCHANGED <<saveVars, storeVars>> /\ b'.pc = "mount"
    BY <1>32 DEF MountImageCmd, NoCommand, parserVars
  <2> QED
    BY <2>1, <1>1, <1>4, <1>6
<1>33. CASE Crash
  <2>1. res' = NoResult /\ reg' = NoRegistry /\ UNCHANGED storeVars /\ b'.pc = "idle"
    BY <1>33 DEF Crash, NoCommand
  <2>2. Rest
    BY <2>1, NoResultOK DEF RegistryOK, NoRegistry
  <2> HIDE DEF Rest
  <2> QED
    BY <2>1, <2>2, <1>4
<1>34. CASE UNCHANGED vars
  BY <1>34 DEF vars, ctlVars, storeVars, saveVars, parserVars, StoreInv, Extension
<1> HIDE DEF Rest, Held
<1>35. CASE BuildStep
  BY <1>35, <1>10, <1>11, <1>12, <1>13, <1>14, <1>15, <1>16, <1>17, <1>18, <1>19, <1>20, <1>21, <1>22,
     <1>23, <1>24, <1>25, <1>26, <1>27, <1>38 DEF BuildStep
<1>36. CASE Commands
  BY <1>36, <1>28, <1>29, <1>30, <1>31, <1>32, CommandCases
<1> QED
  BY <1>33, <1>34, <1>35, <1>36 DEF Next, Terminated

------------------------------------------------------------------------------
(* The build context.                                                      *)

ContextSound == ContextInv /\ ContextClean

LEMMA ContextInductive ==
  ASSUME CommandInv, StoreInv, ContextSound, [Next]_vars
  PROVE  ContextSound'
<1> USE DEF TempPCs
<1>1. dirs \in Int /\ last.dirs \in Int /\ res.legacy \in Nat /\ res.ok \in BOOLEAN /\ ResOK(res)
  BY DEF ContextSound, ContextInv, StoreInv, ResOK
\* The steps between the parse and the end of a platform.
<1>2. ASSUME UNCHANGED parserVars, last'.dirs = last.dirs, last'.over = last.over,
             b.pc \in TempPCs \cup {"build"}, b'.pc \in TempPCs
      PROVE  ContextSound'
  <2>1. dirs' = last'.dirs + res'.legacy
    BY <1>2 DEF ContextSound, ContextInv, parserVars
  <2>2. ~last'.over
    BY <1>2 DEF CommandInv, Idle
  <2> QED
    BY <2>1, <2>2, <1>1, <1>2 DEF ContextSound, ContextInv, ContextClean, parserVars
<1>3. ASSUME CleanContext, last' = last, b.pc \in TempPCs \cup {"build"}, b'.pc = "over"
      PROVE  ContextSound'
  <2>1. dirs = last.dirs + res.legacy /\ dirs' = dirs - res.legacy
    BY <1>3 DEF ContextSound, ContextInv, CleanContext, CleanLegacyContext
  <2>2. dirs' = last'.dirs /\ dirs' \in Int
    BY <2>1, <1>1, <1>3
  <2>3. ~last'.over
    BY <1>3 DEF CommandInv, Idle
  <2> QED
    BY <2>2, <2>3, <1>1, <1>3 DEF ContextSound, ContextInv, ContextClean
\* What leaves the context alone and no build under way.
<1>4. ASSUME UNCHANGED parserVars, last'.dirs \in Int,
             b'.pc \in {"idle", "load", "mount"}, last'.cmd # "build" \/ ~last'.ok
      PROVE  ContextSound'
  BY <1>1, <1>4 DEF ContextSound, ContextInv, ContextClean, parserVars
<1>5. ASSUME NEW ok, Finish(ok)
      PROVE  b'.pc = "idle" /\ last'.ok = ok /\ last'.dirs = last.dirs /\ last'.cmd = last.cmd
  BY <1>5 DEF Finish, NoCommand, CommandInv
<1>6. ASSUME NEW ok, Over(ok) PROVE b'.pc = "over" /\ b'.ok = ok
  BY <1>6 DEF Over, CommandInv
<1>7. ASSUME NEW ok, Deferred(ok) PROVE b'.pc = "deferred"
  BY <1>7 DEF Deferred, CommandInv
<1>10. CASE ReadKubefile
  <2>1. /\ res' = NoResult /\ dirs' = dirs /\ last' = last /\ b.pc = "read"
        /\ b'.pc = "parse" \/ (b'.pc = "over" /\ b'.ok = FALSE)
    BY <1>10, <1>6 DEF ReadKubefile, CommandInv
  <2>2. dirs = last.dirs /\ NoResult.legacy = 0 /\ NoResult.ok /\ ~last.over
    BY <2>1, NoResultOK DEF ContextSound, ContextInv, CommandInv, Idle
  <2>3. dirs' = last'.dirs + res'.legacy
    BY <2>1, <2>2, <1>1
  <2> QED
    BY <2>1, <2>2, <2>3, <1>1 DEF ContextSound, ContextInv, ContextClean
<1>11. CASE ParseKubefile
  <2>1. \E pulled : AppsOK(pulled.apps) /\ GenerateResult(pulled)
    BY <1>11, ParseStore
  <2>2. /\ ResOK(res') /\ dirs' \in Int
        /\ ast' # <<>> => (res'.ok <=> res.ok)
        /\ res'.ok => res.ok /\ dirs' - res'.legacy = dirs - res.legacy
    BY <2>1, <1>1, GenerateKeeps
  <2>3. b' = b /\ b.pc = "parse" /\ last' = last /\ ast # <<>>
    BY <1>11 DEF ParseKubefile, ctlVars
  <2>4. res.ok /\ dirs = last.dirs + res.legacy /\ ~last.over
    BY <2>3 DEF ContextSound, ContextInv, CommandInv, Idle
  <2>5. res'.ok => dirs' = last'.dirs + res'.legacy
    <3>1. ASSUME NEW x \in Int, NEW y \in Nat, NEW z \in Int, x - y = z PROVE x = z + y
      BY <3>1
    <3>2. res'.legacy \in Nat /\ dirs - res.legacy = last.dirs
      BY <2>2, <2>4, <1>1 DEF ResOK
    <3> QED
      BY <2>2, <2>3, <3>1, <3>2, <1>1
  <2> QED
    BY <2>2, <2>3, <2>4, <2>5, <1>1 DEF ContextSound, ContextInv, ContextClean
<1>12. CASE ParsedKubefile
  <2>1. /\ dirs' = dirs /\ last' = last /\ b.pc = "parse"
        /\ \/ res.ok /\ res' = CheckResult /\ CheckResult.ok /\ b'.pc = "build"
           \/ b'.pc = "over" /\ b'.ok = FALSE
    BY <1>12, <1>6 DEF ParsedKubefile, CommandInv
  <2>2. CheckResult.ok => CheckResult.legacy = res.legacy
    BY <1>1, CheckResultOK
  <2>3. (res.ok => dirs = last.dirs + res.legacy) /\ ~last.over
    BY <2>1 DEF ContextSound, ContextInv, CommandInv, Idle
  <2> QED
    BY <2>1, <2>2, <2>3, <1>1 DEF ContextSound, ContextInv, ContextClean
<1>38. CASE PullBase
  <2>1. b.pc = "build" /\ last' = last /\ (BaseFound \/ (Over(FALSE) /\ CleanContext))
    BY <1>38, BaseCases
  <2>2. CASE Over(FALSE) /\ CleanContext
    BY <1>3, <1>6, <2>1, <2>2
  <2>3. CASE BaseFound
    <3>1. res'.legacy = res.legacy /\ b' = b /\ dirs' = dirs
      BY <1>38, <2>3, BaseStore DEF BaseFound
    <3>2. ~last.over
      BY <2>1 DEF CommandInv, Idle
    <3> QED
      BY <2>1, <3>1, <3>2, <1>1 DEF ContextSound, ContextInv, ContextClean
  <2> QED
    BY <2>1, <2>2, <2>3
<1>13. CASE BuildLite
  BY <1>3, <1>6, <1>13 DEF BuildLite
<1>14. CASE BuildTemp
  <2>1. CASE Over(FALSE) /\ CleanContext
    BY <1>3, <1>6, <1>14, <2>1 DEF BuildTemp
  <2>2. CASE UNCHANGED parserVars /\ b'.pc = "container"
    BY <1>2, <1>14, <2>2 DEF BuildTemp
  <2> QED
    BY <1>14, <2>1, <2>2 DEF BuildTemp, CommandInv
<1>15. CASE CreateContainer
  <2>1. b'.pc \in {"list", "deferred"}
    BY <1>15, CreateContainerStore
  <2> QED
    BY <1>2, <1>15, <2>1 DEF CreateContainer
<1>16. CASE DownloadList
  <2>1. b'.pc \in {"saving", "deferred"}
    BY <1>16 DEF DownloadList, Deferred, CommandInv
  <2> QED
    BY <1>2, <1>16, <2>1 DEF DownloadList
<1>17. CASE DownloadStep
  BY <1>2, <1>17 DEF DownloadStep, ctlVars
<1>18. CASE DownloadedList
  <2>1. b'.pc \in {"auth", "deferred"}
    BY <1>18 DEF DownloadedList, Deferred, CommandInv
  <2> QED
    BY <1>2, <1>18, <2>1 DEF DownloadedList
<1>19. CASE DownloadWithAuth
  <2>1. b'.pc \in {"config", "deferred", "authsaving"}
    BY <1>19 DEF DownloadWithAuth, Deferred, CommandInv
  <2> QED
    BY <1>2, <1>19, <2>1 DEF DownloadWithAuth
<1>20. CASE DownloadedWithAuth
  <2>1. b'.pc \in {"config", "deferred"}
    BY <1>20 DEF DownloadedWithAuth, Deferred, CommandInv
  <2>2. last'.dirs = last.dirs /\ last'.over = last.over
    BY <1>20 DEF DownloadedWithAuth, CommandInv
  <2> QED
    BY <1>2, <1>20, <2>1, <2>2 DEF DownloadedWithAuth
<1>21. CASE UpdateAnnotations
  <2>1. b'.pc \in {"commit", "deferred"}
    BY <1>21 DEF UpdateAnnotations, Deferred, CommandInv
  <2> QED
    BY <1>2, <1>21, <2>1 DEF UpdateAnnotations
<1>22. CASE CommitContainer
  BY <1>2, <1>7, <1>22 DEF CommitContainer
<1>23. CASE DeferredCleanup
  BY <1>3, <1>6, <1>23 DEF DeferredCleanup
<1>24. CASE PlatformOver
  <2>1. b.pc = "over" /\ dirs' = dirs /\ ~last.over
    BY <1>24 DEF PlatformOver, CommandInv, Idle
  <2>2. b.ok => dirs = last.dirs
    BY <2>1 DEF ContextSound, ContextInv
  <2>3. CASE ~b.ok /\ Finish(FALSE)
    BY <1>5, <2>1, <2>3, <1>1 DEF ContextSound, ContextInv, ContextClean
  <2>4. CASE b.ok /\ Finish(TRUE)
    BY <1>5, <2>1, <2>2, <2>4, <1>1 DEF ContextSound, ContextInv, ContextClean
  <2>5. CASE b.ok /\ b'.pc = "read" /\ last' = last
    BY <2>1, <2>2, <2>5, <1>1 DEF ContextSound, ContextInv, ContextClean
  <2> QED
    BY <1>24, <2>3, <2>4, <2>5 DEF PlatformOver, NoCommand
<1>25. CASE LoadInstance
  <2>1. last.cmd = "load" /\ UNCHANGED parserVars
    BY <1>25 DEF LoadInstance, CommandInv
  <2>2. b'.pc \in {"idle", "load"} /\ last'.dirs = last.dirs /\ last'.cmd = last.cmd
    BY <1>25, <1>5 DEF LoadInstance, CommandInv
  <2> QED
    BY <2>1, <2>2, <1>1, <1>4
<1>26. CASE LoadManifest
  <2>1. last.cmd = "load" /\ UNCHANGED parserVars
    BY <1>26 DEF LoadManifest, CommandInv
  <2>2. b'.pc = "idle" /\ last'.dirs = last.dirs /\ last'.cmd = last.cmd
    BY <1>26, <1>5 DEF LoadManifest
  <2> QED
    BY <2>1, <2>2, <1>1, <1>4
<1>27. CASE MountPlatform
  <2>1. last.cmd = "run" /\ UNCHANGED parserVars
    BY <1>27 DEF MountPlatform, CommandInv
  <2>2. last'.dirs = last.dirs /\ last'.cmd = last.cmd
    BY <1>27, <1>5 DEF MountPlatform
  <2>3. b'.pc \in {"idle", "mount"}
    BY <1>27, MountPlatformStore
  <2> QED
    BY <2>1, <2>2, <2>3, <1>1, <1>4
<1>28. CASE UmountImage
  <2>1. last.cmd = "run" /\ UNCHANGED parserVars
    BY <1>28 DEF UmountImage, CommandInv
  <2>2. b'.pc = "idle" /\ last'.dirs = last.dirs /\ last'.cmd = last.cmd
    BY <1>28, <1>5 DEF UmountImage
  <2> QED
    BY <2>1, <2>2, <1>1, <1>4
<1>29. CASE SimpleCommands
  BY <1>29, <1>4, SimpleCommandsAreQuick DEF Quick, Idle
<1>30. ASSUME NEW o \in BuildOptions, BuildCmd(o) PROVE ContextSound'
  <2>1. UNCHANGED parserVars
    BY <1>30 DEF BuildCmd
  <2>2. \/ b'.pc = "read" /\ last'.dirs = dirs /\ ~last'.over
        \/ b'.pc = "idle" /\ last'.dirs = dirs /\ ~last'.ok
    BY <1>30 DEF BuildCmd, NoCommand, NoLast, Idle
  <2> QED
    BY <2>1, <2>2, <1>1, <1>4 DEF ContextSound, ContextInv, ContextClean, parserVars
<1>31. CASE LoadCmd
  <2>1. UNCHANGED parserVars
    BY <1>31 DEF LoadCmd
  <2>2. b'.pc \in {"idle", "load"}
    BY <1>31 DEF LoadCmd, NoCommand, Idle
  <2>3. \/ last' = [NoLast EXCEPT !.cmd = "load", !.ok = FALSE]
        \/ last' = [NoLast EXCEPT !.cmd = "load", !.over = FALSE, !.name = tar.name]
    BY <1>31 DEF LoadCmd
  <2>4. last'.dirs = 0 /\ last'.cmd = "load"
    BY <2>3 DEF NoLast
  <2> QED
    BY <2>1, <2>2, <2>4, <1>4
<1>32. ASSUME NEW n \in ImageNames, MountCmd(n) PROVE ContextSound'
  <2>1. UNCHANGED parserVars /\ b'.pc = "idle" /\ last'.dirs = 0 /\ last'.cmd = "mount"
    BY <1>32 DEF MountCmd, NoLast, Idle
  <2> QED
    BY <2>1, <1>4
<1>33. ASSUME NEW n, NEW plats, MountImageCmd(n, plats) PROVE ContextSound'
  <2>1. UNCHANGED parserVars /\ b'.pc = "mount" /\ last'.dirs = 0 /\ last'.cmd = "run"
    BY <1>33 DEF MountImageCmd, NoCommand, NoLast
  <2> QED
    BY <2>1, <1>4
<1>34. CASE Crash
  <2>1. dirs' = dirs /\ b'.pc = "idle" /\ last'.cmd = "killed" /\ last'.dirs = last.dirs
    BY <1>34 DEF Crash, NoCommand, CommandInv
  <2> QED
    BY <2>1, <1>1 DEF ContextSound, ContextInv, ContextClean
<1>35. CASE UNCHANGED vars
  BY <1>35 DEF vars, ctlVars, parserVars, ContextSound, ContextInv, ContextClean
<1>36. CASE BuildStep
  BY <1>36, <1>10, <1>11, <1>12, <1>13, <1>14, <1>15, <1>16, <1>17, <1>18, <1>19, <1>20, <1>21, <1>22,
     <1>23, <1>24, <1>25, <1>26, <1>27, <1>28, <1>38 DEF BuildStep
<1>37. CASE Commands
  BY <1>37, <1>29, <1>30, <1>31, <1>32, <1>33, CommandCases
<1> QED
  BY <1>34, <1>35, <1>36, <1>37 DEF Next, Terminated

------------------------------------------------------------------------------
(* Loading what was saved.                                                 *)

LEMMA LoadInductive ==
  ASSUME CommandInv, StoreInv, LoadRestores, [Next]_vars
  PROVE  LoadRestores'
<1>1. ASSUME last'.cmd # "load" \/ ~last'.ok \/ ~last'.over PROVE LoadRestores'
  BY <1>1 DEF LoadRestores
<1>2. ASSUME NEW ok, Finish(ok) PROVE last'.cmd = last.cmd /\ last'.ok = ok
  BY <1>2 DEF Finish, CommandInv
<1>3. CASE /\ BuildStep /\ ~LoadInstance /\ ~LoadManifest
  <2>1. b.pc \in BuildPCs \cup {"mount"}
    BY <1>3 DEF BuildStep, BuildPCs, ReadKubefile, ParseKubefile, ParsedKubefile, PullBase, BuildLite, BuildTemp,
       CreateContainer, DownloadList, DownloadStep, DownloadedList, DownloadWithAuth, DownloadedWithAuth,
       UpdateAnnotations, CommitContainer, DeferredCleanup, PlatformOver, MountPlatform, UmountImage
  <2>2. last.cmd # "load"
    BY <2>1 DEF CommandInv
  <2>3. last'.cmd = last.cmd
    <3>1. CASE ReadKubefile \/ ParseKubefile \/ ParsedKubefile \/ BuildLite \/ BuildTemp \/ CreateContainer
      BY <3>1 DEF ReadKubefile, ParseKubefile, ParsedKubefile, BuildLite, BuildTemp, CreateContainer, ctlVars
    <3>6. CASE PullBase
      BY <3>6, BaseCases
    <3>2. CASE DownloadList \/ DownloadStep \/ DownloadedList \/ DownloadWithAuth
      BY <3>2 DEF DownloadList, DownloadStep, DownloadedList, DownloadWithAuth, ctlVars
    <3>3. CASE DownloadedWithAuth
      BY <3>3 DEF DownloadedWithAuth, CommandInv
    <3>4. CASE UpdateAnnotations \/ CommitContainer \/ DeferredCleanup
      BY <3>4 DEF UpdateAnnotations, CommitContainer, DeferredCleanup
    <3>5. CASE PlatformOver \/ MountPlatform \/ UmountImage
      BY <3>5, <1>2 DEF PlatformOver, MountPlatform, UmountImage
    <3> QED
      BY <1>3, <3>1, <3>2, <3>3, <3>4, <3>5, <3>6 DEF BuildStep
  <2> QED
    BY <2>2, <2>3, <1>1
<1>4. CASE LoadInstance
  <2>1. b.pc = "load" /\ ~last.over
    BY <1>4 DEF LoadInstance, CommandInv, Idle
  <2>2. last' = last \/ Finish(FALSE)
    BY <1>4 DEF LoadInstance
  <2> QED
    BY <2>1, <2>2, <1>1, <1>2
<1>5. CASE LoadManifest
  <2>1. tar' = tar
    BY <1>5 DEF LoadManifest
  <2>2. last'.ok /\ tar.list =>
          LET l == Lookup(st', tar.name)
          IN /\ IsManifestList(st', l)
             /\ st'.img[l].inst = DOMAIN tar.insts
             /\ st'.img[l].inst \subseteq DOMAIN st'.img
    BY <1>5, LoadManifestStore
  <2> QED
    BY <2>1, <2>2 DEF LoadRestores
<1>6. CASE SimpleCommands
  BY <1>1, <1>6, SimpleCommandsAreQuick DEF Quick
<1>7. ASSUME NEW o \in BuildOptions, BuildCmd(o) PROVE LoadRestores'
  <2>1. last'.cmd = "build"
    BY <1>7 DEF BuildCmd, NoLast
  <2> QED
    BY <1>1, <2>1
<1>8. CASE LoadCmd
  <2>1. \/ last' = [NoLast EXCEPT !.cmd = "load", !.ok = FALSE]
        \/ last' = [NoLast EXCEPT !.cmd = "load", !.over = FALSE, !.name = tar.name]
    BY <1>8 DEF LoadCmd
  <2>2. ~last'.ok \/ ~last'.over
    BY <2>1 DEF NoLast
  <2> QED
    BY <1>1, <2>2
<1>9. ASSUME NEW n \in ImageNames, MountCmd(n) PROVE LoadRestores'
  <2>1. last'.cmd = "mount"
    BY <1>9 DEF MountCmd, NoLast
  <2> QED
    BY <1>1, <2>1
<1>10. ASSUME NEW n, NEW plats, MountImageCmd(n, plats) PROVE LoadRestores'
  <2>1. last'.cmd = "run"
    BY <1>10 DEF MountImageCmd, NoLast
  <2> QED
    BY <1>1, <2>1
<1>11. CASE Crash
  <2>1. last'.cmd = "killed"
    BY <1>11 DEF Crash, CommandInv
  <2> QED
    BY <1>1, <2>1
<1>12. CASE UNCHANGED vars
  BY <1>12 DEF vars, ctlVars, storeVars, LoadRestores
<1>13. CASE Commands
  BY <1>13, <1>6, <1>7, <1>8, <1>9, <1>10, CommandCases
<1> QED
  BY <1>3, <1>4, <1>5, <1>11, <1>12, <1>13 DEF Next, Terminated

------------------------------------------------------------------------------
(* Temporary images and working containers.                                *)

LEMMA SaveNoTemp ==
  ASSUME NEW s, StoreOK(s), NoTemp(s.img), NEW n, ~IsTemp(n), NEW old, NoTemp(old.insts), ~IsTemp(old.name)
  PROVE  LET t == Save(s, n, old).tar
         IN NoTemp(t.insts) /\ ~IsTemp(t.name)
<1> DEFINE i == Lookup(s, n)
           list == IsManifestList(s, i)
           insts == Instances(s, i)
           names(j) == IF list THEN s.img[j].names ELSE {n}
           f == [j \in insts |-> OneName(s.img[j], names(j))]
           name == IF list THEN CHOOSE m \in s.img[i].names : TRUE ELSE n
<1>1. CASE i = 0
  BY <1>1 DEF Save
<1>2. CASE i # 0 /\ ~(insts \subseteq DOMAIN s.img)
  BY <1>2 DEF Save, NoArchive, NoTemp, IsTemp, NoName
<1>3. CASE i # 0 /\ insts \subseteq DOMAIN s.img
  <2>1. Save(s, n, old).tar.insts = f /\ Save(s, n, old).tar.name = name
    BY <1>3 DEF Save
  <2>2. i \in DOMAIN s.img /\ n \in s.img[i].names
    BY <1>3, LookupFinds
  <2>3. ~IsTemp(name)
    BY <2>2 DEF NoTemp
  <2>4. ASSUME NEW j \in insts, NEW m \in f[j].names PROVE ~IsTemp(m)
    <3>1. ImageOK(s.img[j]) /\ j \in DOMAIN s.img
      BY <1>3, IdsArePositive
    <3> DEFINE N == IF names(j) = {} THEN {} ELSE {CHOOSE x \in names(j) : TRUE}
    <3>2. f[j] = [s.img[j] EXCEPT !.names = N]
      BY DEF OneName
    <3>4. N \subseteq names(j)
      OBVIOUS
    <3> HIDE DEF N, f
    <3>3. f[j].names = N
      BY <3>1, <3>2, RenamedOK
    <3>5. \A x \in names(j) : ~IsTemp(x)
      BY <3>1 DEF NoTemp
    <3> QED
      BY <3>3, <3>4, <3>5, <2>4
  <2> HIDE DEF f, name, insts
  <2>5. DOMAIN f = insts
    BY DEF f
  <2> QED
    BY <2>1, <2>3, <2>4, <2>5 DEF NoTemp
<1> QED
  BY <1>1, <1>2, <1>3

\* A step of a command that has no temporary image.
LEMMA NoTempStep ==
  ASSUME TempInv, TagInv', crashes' = crashes, crashes = 0 => ArchiveClean',
         NEW N, crashes = 0 => \A n \in N : ~IsTemp(n), Becomes(st, st', N),
         b.pc \notin TempPCs, b'.pc \notin TempPCs, b.pc # "mount",
         left \cap DOMAIN st'.ctr \subseteq left'
  PROVE  TempInv'
BY DEF TempInv, TempPlaced, Becomes, NamesFrom, ContainersFrom

\* A step that keeps the temporary image.
LEMMA TempStep ==
  ASSUME TempInv, TagInv', crashes' = crashes, tar' = tar, left' = left,
         b.pc \in TempPCs, b'.pc \in TempPCs, b'.iid = b.iid,
         NEW N, \A n \in N : ~IsTemp(n), NamesFrom(st, st', N), DOMAIN st.img \subseteq DOMAIN st'.img,
         \A c \in DOMAIN st'.ctr : \/ st'.ctr[c].image = b.iid
                                   \/ c \in DOMAIN st.ctr /\ st'.ctr[c].image = st.ctr[c].image
  PROVE  TempInv'
<1>1. b.pc # "mount"
  BY DEF TempPCs
<1> QED
  BY <1>1 DEF TempInv, TempPlaced, ArchiveClean, NamesFrom

LEMMA TagInductive ==
  ASSUME CommandInv, TagInv, [Next]_vars
  PROVE  TagInv'
<1> USE DEF BuildPCs
<1>1. ASSUME crashes' = crashes, b'.pc \in {"idle", "load"} PROVE TagInv'
  BY <1>1 DEF TagInv
<1>2. ASSUME crashes' = crashes, b'.o = b.o, b.pc \in BuildPCs, b'.pc \in BuildPCs PROVE TagInv'
  BY <1>2 DEF TagInv
<1>3. ASSUME NEW ok, Finish(ok) PROVE b'.pc = "idle"
  BY <1>3 DEF Finish, NoCommand
<1>4. CASE ReadKubefile \/ ParseKubefile \/ ParsedKubefile
  <2>1. crashes' = crashes /\ b'.o = b.o /\ b.pc \in BuildPCs /\ b'.pc \in BuildPCs
    BY <1>4 DEF ReadKubefile, ParseKubefile, ParsedKubefile, Over, CommandInv, ctlVars
  <2> QED
    BY <2>1, <1>2
<1>29. CASE PullBase
  <2>1. crashes' = crashes /\ b'.o = b.o /\ b.pc \in BuildPCs /\ b'.pc \in BuildPCs
    BY <1>29, BaseCases DEF BaseFound, Over, CommandInv
  <2> QED
    BY <2>1, <1>2
<1>5. CASE BuildLite \/ BuildTemp \/ CreateContainer
  <2>1. crashes' = crashes /\ b'.o = b.o /\ b.pc \in BuildPCs /\ b'.pc \in BuildPCs
    BY <1>5 DEF BuildLite, BuildTemp, CreateContainer, Over, CommandInv
  <2> QED
    BY <2>1, <1>2
<1>6. CASE DownloadList \/ DownloadStep \/ DownloadedList
  <2>1. crashes' = crashes /\ b'.o = b.o /\ b.pc \in BuildPCs /\ b'.pc \in BuildPCs
    BY <1>6 DEF DownloadList, DownloadStep, DownloadedList, Deferred, CommandInv, ctlVars
  <2> QED
    BY <2>1, <1>2
<1>7. CASE DownloadWithAuth \/ DownloadedWithAuth
  <2>1. crashes' = crashes /\ b'.o = b.o /\ b.pc \in BuildPCs /\ b'.pc \in BuildPCs
    BY <1>7 DEF DownloadWithAuth, DownloadedWithAuth, Deferred, CommandInv
  <2> QED
    BY <2>1, <1>2
<1>8. CASE UpdateAnnotations \/ CommitContainer \/ DeferredCleanup
  <2>1. crashes' = crashes /\ b'.o = b.o /\ b.pc \in BuildPCs /\ b'.pc \in BuildPCs
    BY <1>8 DEF UpdateAnnotations, CommitContainer, DeferredCleanup, Deferred, Over, CommandInv
  <2> QED
    BY <2>1, <1>2
<1>9. CASE PlatformOver
  <2>1. crashes' = crashes /\ b.pc = "over" /\ (b'.pc = "idle" \/ (b'.pc = "read" /\ b'.o = b.o))
    BY <1>9, <1>3 DEF PlatformOver, NoCommand
  <2> QED
    BY <2>1, <1>1, <1>2
<1>10. CASE LoadInstance \/ LoadManifest
  <2>1. crashes' = crashes /\ b'.pc \in {"idle", "load"}
    BY <1>10, <1>3 DEF LoadInstance, LoadManifest, CommandInv
  <2> QED
    BY <2>1, <1>1
<1>11. CASE MountPlatform \/ UmountImage
  <2>1. crashes' = crashes /\ b.pc = "mount" /\ (b'.pc = "idle" \/ (b'.pc = "mount" /\ b'.o = b.o))
    BY <1>11, <1>3 DEF MountPlatform, UmountImage, CommandInv
  <2> QED
    BY <2>1 DEF TagInv
<1>12. CASE SimpleCommands
  BY <1>12, <1>1, SimpleCommandsAreQuick DEF Quick, Idle
<1>13. ASSUME NEW o \in BuildOptions, BuildCmd(o) PROVE TagInv'
  <2>1. crashes' = crashes /\ (b'.pc = "idle" \/ (b'.pc = "read" /\ b'.o = o))
    BY <1>13 DEF BuildCmd, NoCommand, Idle
  <2>2. ~IsTemp(o.tag)
    BY BuildAssumption
  <2> QED
    BY <2>1, <2>2 DEF TagInv
<1>14. CASE LoadCmd
  <2>1. crashes' = crashes /\ b'.pc \in {"idle", "load"}
    BY <1>14 DEF LoadCmd, NoCommand, Idle
  <2> QED
    BY <2>1, <1>1
<1>15. ASSUME NEW n \in ImageNames, MountCmd(n) PROVE TagInv'
  <2>1. crashes' = crashes /\ b'.pc = "idle"
    BY <1>15 DEF MountCmd, Idle
  <2> QED
    BY <2>1, <1>1
<1>16. ASSUME NEW n \in ImageNames, NEW plats, MountImageCmd(n, plats) PROVE TagInv'
  <2>1. crashes' = crashes /\ b'.pc = "mount" /\ b'.o = n
    BY <1>16 DEF MountImageCmd, NoCommand
  <2>2. ~IsTemp(n)
    BY BuildAssumption
  <2> QED
    BY <2>1, <2>2 DEF TagInv
<1>17. CASE Crash
  <2>1. crashes' = crashes + 1 /\ b'.pc = "idle"
    BY <1>17 DEF Crash, NoCommand
  <2> QED
    BY <2>1 DEF TagInv
<1>18. CASE UNCHANGED vars
  BY <1>18 DEF vars, ctlVars, TagInv
<1> HIDE DEF BuildPCs
<1>19. CASE BuildStep
  BY <1>19, <1>29, <1>4, <1>5, <1>6, <1>7, <1>8, <1>9, <1>10, <1>11 DEF BuildStep
<1>20. CASE Commands
  BY <1>20, <1>12, <1>13, <1>14, <1>15, <1>16, CommandCases
<1> QED
  BY <1>17, <1>18, <1>19, <1>20 DEF Next, Terminated

LEMMA TempInductive ==
  ASSUME CommandInv, StoreInv, TempInv, [Next]_vars
  PROVE  TempInv'
<1>1. TagInv /\ TagInv' /\ StoreOK(st)
  BY TagInductive DEF TempInv, StoreInv
<1>2. ASSUME crashes' = crashes, tar' = tar, left' = left \/ left' = left \cap DOMAIN st'.ctr,
             NEW N, crashes = 0 => \A n \in N : ~IsTemp(n), Becomes(st, st', N),
             b.pc \notin TempPCs, b'.pc \notin TempPCs, b.pc # "mount"
      PROVE  TempInv'
  <2>1. crashes = 0 => ArchiveClean'
    BY <1>2 DEF TempInv, ArchiveClean
  <2>2. left \cap DOMAIN st'.ctr \subseteq left'
    BY <1>2
  <2> QED
    BY <2>1, <2>2, <1>1, <1>2, NoTempStep
<1>3. ASSUME UNCHANGED <<storeVars, crashes, left>>, b.pc \notin TempPCs, b'.pc \notin TempPCs, b.pc # "mount"
      PROVE  TempInv'
  <2>1. Becomes(st, st', {})
    BY <1>1, <1>3, Stays DEF storeVars
  <2> QED
    BY <2>1, <1>2, <1>3 DEF storeVars
<1>4. ASSUME UNCHANGED <<storeVars, crashes, left>>, b.pc \in TempPCs, b'.pc \in TempPCs, b'.iid = b.iid
      PROVE  TempInv'
  BY <1>1, <1>4 DEF TempInv, ArchiveClean, TempPlaced, TempPCs, storeVars
<1>5. ASSUME UNCHANGED <<remote, tar, crashes, left>>, b.pc \in TempPCs, b'.pc \in TempPCs, b'.iid = b.iid,
             ContainerKept(st, st')
      PROVE  TempInv'
  BY <1>1, <1>5 DEF TempInv, ArchiveClean, TempPlaced, TempPCs, ContainerKept
<1>6. ASSUME NEW ok, Finish(ok) PROVE b'.pc = "idle"
  BY <1>6 DEF Finish, NoCommand
<1>7. ASSUME NEW ok, Over(ok) PROVE b'.pc = "over"
  BY <1>7 DEF Over, CommandInv
<1>8. ASSUME NEW ok, Deferred(ok) PROVE b'.pc = "deferred" /\ b'.iid = b.iid
  BY <1>8 DEF Deferred, CommandInv
<1> USE DEF TempPCs
<1>10. CASE ReadKubefile
  <2>1. UNCHANGED <<storeVars, crashes, left>> /\ b.pc = "read" /\ b'.pc \in {"over", "parse"}
    BY <1>10, <1>7 DEF ReadKubefile, CommandInv
  <2> QED
    BY <2>1, <1>3
<1>11. CASE ParseKubefile
  <2> DEFINE N == {<<Head(ast).args[1]>>}
  <2>1. Becomes(st, st', N)
    BY <1>11, ParseStore
  <2>2. \A n \in N : ~IsTemp(n)
    BY DEF IsTemp
  <2>3. crashes' = crashes /\ tar' = tar /\ left' = left /\ b' = b /\ b.pc = "parse"
    BY <1>11 DEF ParseKubefile, ctlVars
  <2> HIDE DEF N
  <2> QED
    BY <2>1, <2>2, <2>3, <1>2
<1>12. CASE ParsedKubefile
  <2>1. UNCHANGED <<storeVars, crashes, left>> /\ b.pc = "parse" /\ b'.pc \in {"over", "build"}
    BY <1>12, <1>7 DEF ParsedKubefile, CommandInv
  <2> QED
    BY <2>1, <1>3
<1>38. CASE PullBase
  <2> DEFINE N == {<<res.from[1]>>}
  <2>1. Becomes(st, st', N)
    BY <1>38, BaseStore
  <2>2. \A n \in N : ~IsTemp(n)
    BY DEF IsTemp
  <2>3. crashes' = crashes /\ tar' = tar /\ left' = left /\ b.pc = "build" /\ b'.pc \in {"build", "over"}
    BY <1>38, <1>7, BaseCases DEF BaseFound, Over, CommandInv
  <2> HIDE DEF N
  <2> QED
    BY <2>1, <2>2, <2>3, <1>2
<1>13. CASE BuildLite
  <2> DEFINE N == {b.o.tag, NoName}
  <2>1. Becomes(st, st', N)
    BY <1>13, BuildLiteStore
  <2>2. crashes' = crashes /\ tar' = tar /\ left' = left /\ b.pc = "build" /\ b'.pc = "over"
    BY <1>13, <1>7 DEF BuildLite
  <2>3. ~IsTemp(b.o.tag) /\ ~IsTemp(NoName)
    BY <2>2, <1>1 DEF TagInv, BuildPCs, IsTemp, NoName
  <2>4. \A n \in N : ~IsTemp(n)
    BY <2>3
  <2> HIDE DEF N
  <2> QED
    BY <2>1, <2>2, <2>4, <1>2
<1>14. CASE BuildTemp
  <2>1. b.pc = "build" /\ tar' = tar /\ remote' = remote /\ crashes' = crashes /\ left' = left
    BY <1>14 DEF BuildTemp
  <2>2. CASE st' = st /\ b'.pc = "over"
    BY <2>1, <2>2, <1>3 DEF storeVars
  <2>3. CASE /\ Becomes(st, st', {TempTag}) /\ b'.iid \in DOMAIN st'.img
             /\ TempTag \in st'.img[b'.iid].names /\ b'.pc = "container"
    <3> SUFFICES ASSUME crashes = 0 PROVE ArchiveClean' /\ TempPlaced'
      BY <1>1, <2>1 DEF TempInv
    <3>1. ArchiveClean' /\ TempPlaced
      BY <2>1 DEF TempInv, ArchiveClean
    <3>2. \A i \in DOMAIN st'.img : \A n \in st'.img[i].names : IsTemp(n) => i = b'.iid
      <4> SUFFICES ASSUME NEW i \in DOMAIN st'.img, NEW n \in st'.img[i].names, IsTemp(n) PROVE i = b'.iid
        OBVIOUS
      <4>1. n = TempTag
        BY <2>1, <2>3, <3>1 DEF Becomes, NamesFrom, TempPlaced
      <4>2. i = b'.iid
        BY <2>3, <4>1 DEF Becomes, StoreOK
      <4> QED
        BY <4>2
    <3>3. \A c \in DOMAIN st'.ctr : c \in left'
      BY <2>1, <2>3, <3>1 DEF Becomes, ContainersFrom, TempPlaced
    <3> QED
      BY <2>3, <3>1, <3>2, <3>3 DEF TempPlaced
  <2> QED
    BY <1>14, <2>2, <2>3, BuildTempStore
<1>15. CASE CreateContainer
  <2>1. /\ st'.img = st.img
        /\ b'.pc \in {"list", "deferred"} /\ b'.iid = b.iid
        /\ \A c \in DOMAIN st'.ctr : st'.ctr[c].image = b.iid \/ (c \in DOMAIN st.ctr /\ st'.ctr[c] = st.ctr[c])
    BY <1>15, CreateContainerStore
  <2>2. crashes' = crashes /\ tar' = tar /\ left' = left /\ b.pc = "container"
    BY <1>15 DEF CreateContainer
  <2>3. NamesFrom(st, st', {})
    BY <2>1 DEF NamesFrom
  <2> QED
    BY <2>1, <2>2, <2>3, <1>1, TempStep
<1>16. CASE DownloadList
  <2>1. UNCHANGED <<storeVars, crashes, left>> /\ b.pc = "list" /\ b'.pc \in {"saving", "deferred"} /\ b'.iid = b.iid
    BY <1>16, <1>8 DEF DownloadList, CommandInv
  <2> QED
    BY <2>1, <1>4
<1>17. CASE DownloadStep
  <2>1. UNCHANGED <<storeVars, crashes, left>> /\ b.pc \in {"saving", "authsaving"} /\ b' = b
    BY <1>17 DEF DownloadStep, ctlVars
  <2> QED
    BY <2>1, <1>4
<1>18. CASE DownloadedList \/ DownloadedWithAuth
  <2>1. /\ st' = Stored /\ UNCHANGED <<remote, tar, crashes, left>>
        /\ b.pc \in {"saving", "authsaving"} /\ b'.iid = b.iid /\ b'.pc \in {"auth", "config", "deferred"}
    BY <1>18, <1>8 DEF DownloadedList, DownloadedWithAuth, CommandInv
  <2>2. b.ctr \in DOMAIN st.ctr
    BY <2>1 DEF StoreInv, ContainerPCs
  <2>3. ContainerKept(st, st')
    BY <2>1, <2>2, StoredStore
  <2> QED
    BY <2>1, <2>3, <1>5
<1>19. CASE DownloadWithAuth
  <2>1. /\ UNCHANGED <<storeVars, crashes, left>> /\ b.pc = "auth" /\ b'.iid = b.iid
        /\ b'.pc \in {"config", "deferred", "authsaving"}
    BY <1>19, <1>8 DEF DownloadWithAuth, CommandInv
  <2> QED
    BY <2>1, <1>4
<1>20. CASE UpdateAnnotations
  <2>1. /\ st' = st \/ st' = Config(st, b.ctr, b.list)
        /\ UNCHANGED <<remote, tar, crashes, left>>
        /\ b.pc = "config" /\ b'.iid = b.iid /\ b'.pc \in {"commit", "deferred"}
    BY <1>20, <1>8 DEF UpdateAnnotations, CommandInv
  <2>2. b.ctr \in DOMAIN st.ctr
    BY <2>1 DEF StoreInv, ContainerPCs
  <2>3. ContainerKept(st, st')
    <3>1. CASE st' = st
      BY <3>1, <1>1 DEF ContainerKept
    <3>2. CASE st' = Config(st, b.ctr, b.list)
      BY <3>2, <2>2, ConfigStore
    <3> QED
      BY <3>1, <3>2, <2>1
  <2> QED
    BY <2>1, <2>3, <1>5
<1>21. CASE CommitContainer
  <2> DEFINE N == {b.o.tag}
  <2>1. Becomes(st, st', N) /\ DOMAIN st.img \subseteq DOMAIN st'.img
    BY <1>21, CommitStore
  <2>2. crashes' = crashes /\ tar' = tar /\ left' = left /\ b.pc = "commit" /\ b'.pc = "deferred" /\ b'.iid = b.iid
    BY <1>21, <1>8 DEF CommitContainer
  <2>3. \A n \in N : ~IsTemp(n)
    BY <2>2, <1>1 DEF TagInv, BuildPCs
  <2> HIDE DEF N
  <2>4. NamesFrom(st, st', N) /\ \A c \in DOMAIN st'.ctr : c \in DOMAIN st.ctr /\ st'.ctr[c].image = st.ctr[c].image
    BY <2>1 DEF Becomes, ContainersFrom
  <2> QED
    BY <2>1, <2>2, <2>3, <2>4, <1>1, TempStep
<1>22. CASE DeferredCleanup
  <2>1. /\ st' = RemoveIntermediate(st, b.iid, TempTag) /\ left' = left \cap DOMAIN st'.ctr
        /\ tar' = tar /\ crashes' = crashes /\ b.pc = "deferred" /\ b'.pc = "over"
    BY <1>22, <1>7 DEF DeferredCleanup
  <2> SUFFICES ASSUME crashes = 0 PROVE ArchiveClean' /\ TempPlaced'
    BY <1>1, <2>1 DEF TempInv
  <2>2. ArchiveClean' /\ TempPlaced
    BY <2>1 DEF TempInv, ArchiveClean
  <2>3. b.iid \in DOMAIN st.img
    BY <2>1, <2>2 DEF TempPlaced
  <2>4. /\ Becomes(st, st', {}) /\ DOMAIN st'.ctr \cap ContainersOf(st, b.iid) = {}
        /\ \A j \in DOMAIN st'.img : \A n \in st'.img[j].names : j \in DOMAIN st.img \ {b.iid} /\ n \in st.img[j].names
    BY <2>1, <2>3, <1>1, RemoveIntermediateBecomes
  <2>5. \A j \in DOMAIN st'.img : \A n \in st'.img[j].names : ~IsTemp(n)
    BY <2>2, <2>4 DEF TempPlaced
  <2>6. \A c \in DOMAIN st'.ctr : c \in DOMAIN st.ctr /\ st.ctr[c].image # b.iid
    BY <2>4 DEF Becomes, ContainersFrom, ContainersOf
  <2>7. \A c \in DOMAIN st'.ctr : c \in left'
    BY <2>1, <2>2, <2>6 DEF TempPlaced
  <2> QED
    BY <2>1, <2>2, <2>5, <2>7 DEF TempPlaced
<1>23. CASE PlatformOver
  <2>1. Becomes(st, st', {})
    BY <1>23, PlatformOverStore
  <2>2. crashes' = crashes /\ tar' = tar /\ left' = left /\ b.pc = "over" /\ b'.pc \in {"idle", "read"}
    BY <1>23, <1>6 DEF PlatformOver, NoCommand
  <2> QED
    BY <2>1, <2>2, <1>2
<1>24. CASE LoadInstance
  <2> DEFINE N == UNION {tar.insts[i].names : i \in DOMAIN tar.insts}
  <2>1. b.pc = "load" /\ b.mounted \subseteq DOMAIN tar.insts
    BY <1>24 DEF LoadInstance, StoreInv
  <2>2. Becomes(st, st', N)
    BY <2>1, <1>24, LoadInstanceStore
  <2>3. crashes = 0 => \A n \in N : ~IsTemp(n)
    BY DEF TempInv, ArchiveClean, NoTemp
  <2>4. crashes' = crashes /\ tar' = tar /\ left' = left /\ b'.pc \in {"idle", "load"}
    BY <1>24, <2>1, <1>6 DEF LoadInstance, CommandInv
  <2> HIDE DEF N
  <2> QED
    BY <2>1, <2>2, <2>3, <2>4, <1>2
<1>25. CASE LoadManifest
  <2> DEFINE N == {tar.name}
  <2>1. Becomes(st, st', N)
    BY <1>25, LoadManifestStore
  <2>2. crashes' = crashes /\ tar' = tar /\ left' = left /\ b.pc = "load" /\ b'.pc = "idle"
    BY <1>25, <1>6 DEF LoadManifest
  <2>3. crashes = 0 => \A n \in N : ~IsTemp(n)
    BY DEF TempInv, ArchiveClean
  <2> HIDE DEF N
  <2> QED
    BY <2>1, <2>2, <2>3, <1>2
<1>26. CASE MountPlatform
  <2>1. /\ NamesFrom(st, st', {b.o})
        /\ \/ /\ b'.pc = "mount" /\ left' = left
              /\ \A c \in DOMAIN st'.ctr : c \in b'.mounted \/ c \in DOMAIN st.ctr
              /\ b.mounted \subseteq b'.mounted
           \/ b'.pc = "idle" /\ DOMAIN st'.ctr \subseteq left'
    BY <1>26, MountPlatformStore
  <2>2. crashes' = crashes /\ tar' = tar /\ b.pc = "mount"
    BY <1>26 DEF MountPlatform
  <2> SUFFICES ASSUME crashes = 0 PROVE ArchiveClean' /\ TempPlaced'
    BY <1>1, <2>2 DEF TempInv
  <2>3. ArchiveClean' /\ TempPlaced /\ ~IsTemp(b.o)
    BY <1>1, <2>2 DEF TempInv, ArchiveClean, TagInv
  <2>4. \A i \in DOMAIN st'.img : \A n \in st'.img[i].names : ~IsTemp(n)
    BY <2>1, <2>2, <2>3 DEF NamesFrom, TempPlaced
  <2>5. \A c \in DOMAIN st'.ctr : c \in left' \/ (b'.pc = "mount" /\ c \in b'.mounted)
    BY <2>1, <2>2, <2>3 DEF TempPlaced
  <2> QED
    BY <2>1, <2>3, <2>4, <2>5 DEF TempPlaced
<1>27. CASE UmountImage
  <2>1. PICK C : st' = DropContainers(st, C) /\ left' = left \cup (b.mounted \ C)
    BY <1>27 DEF UmountImage, RemoveContainer
  <2>2. crashes' = crashes /\ tar' = tar /\ b.pc = "mount" /\ b'.pc = "idle"
    BY <1>27, <1>6 DEF UmountImage
  <2>3. st'.img = st.img /\ DOMAIN st'.ctr = DOMAIN st.ctr \ C
    BY <2>1, <1>1, DropContainersBecomes
  <2> QED
    BY <2>1, <2>2, <2>3, <1>1 DEF TempInv, ArchiveClean, TempPlaced
<1>28. CASE SimpleCommands
  <2>1. /\ Becomes(st, st', ImageNames)
        /\ tar' = tar \/ \E n \in ImageNames : tar' = Save(st, n, tar).tar
    BY <1>28, SimpleStore
  <2>2. b.pc = "idle" /\ b' = b /\ crashes' = crashes /\ left' = left \cap DOMAIN st'.ctr
    BY <1>28, SimpleCommandsAreQuick DEF Quick, Idle
  <2>3. \A n \in ImageNames : ~IsTemp(n)
    BY BuildAssumption
  <2>4. crashes = 0 => ArchiveClean'
    <3> SUFFICES ASSUME crashes = 0 PROVE ArchiveClean'
      OBVIOUS
    <3>1. NoTemp(st.img) /\ ArchiveClean
      BY <2>2 DEF TempInv, TempPlaced, NoTemp
    <3>2. CASE tar' = tar
      BY <3>1, <3>2 DEF ArchiveClean
    <3>3. ASSUME NEW n \in ImageNames, tar' = Save(st, n, tar).tar PROVE ArchiveClean'
      BY <3>1, <3>3, <2>3, <1>1, SaveNoTemp DEF ArchiveClean
    <3> QED
      BY <2>1, <3>2, <3>3
  <2>5. left \cap DOMAIN st'.ctr \subseteq left'
    BY <2>2
  <2> QED
    BY <2>1, <2>2, <2>3, <2>4, <2>5, <1>1, NoTempStep
<1>29. ASSUME NEW o \in BuildOptions, BuildCmd(o) PROVE TempInv'
  <2> DEFINE N == {o.tag}
  <2>1. Becomes(st, st', N)
    BY <1>29, BuildCmdStore
  <2>2. crashes' = crashes /\ tar' = tar /\ left' = left /\ b.pc = "idle" /\ b'.pc \in {"idle", "read"}
    BY <1>29 DEF BuildCmd, NoCommand, Idle
  <2>3. \A n \in N : ~IsTemp(n)
    BY BuildAssumption
  <2> HIDE DEF N
  <2> QED
    BY <2>1, <2>2, <2>3, <1>2
<1>30. CASE LoadCmd
  <2>1. Becomes(st, st', {})
    BY <1>30, LoadCmdStore
  <2>2. crashes' = crashes /\ tar' = tar /\ left' = left /\ b.pc = "idle" /\ b'.pc \in {"idle", "load"}
    BY <1>30 DEF LoadCmd, NoCommand, Idle
  <2> QED
    BY <2>1, <2>2, <1>2
<1>31. ASSUME NEW n \in ImageNames, MountCmd(n) PROVE TempInv'
  <2>1. st'.img = st.img /\ DOMAIN st'.ctr \subseteq left'
    BY <1>31, MountCmdStore
  <2>2. crashes' = crashes /\ tar' = tar /\ b.pc = "idle" /\ b'.pc = "idle"
    BY <1>31 DEF MountCmd, Idle
  <2> QED
    BY <2>1, <2>2, <1>1 DEF TempInv, ArchiveClean, TempPlaced
<1>32. ASSUME NEW n \in ImageNames, NEW plats, MountImageCmd(n, plats) PROVE TempInv'
  <2>1. UNCHANGED <<storeVars, crashes, left>> /\ b.pc = "idle" /\ b'.pc = "mount"
    BY <1>32 DEF MountImageCmd, NoCommand, Idle
  <2> QED
    BY <2>1, <1>3
<1>33. CASE Crash
  <2>1. crashes' = crashes + 1
    BY <1>33 DEF Crash
  <2>2. crashes' # 0
    BY <2>1, <1>1 DEF TagInv
  <2> QED
    BY <2>2, <1>1 DEF TempInv
<1>34. CASE UNCHANGED vars
  BY <1>1, <1>34 DEF vars, ctlVars, storeVars, TempInv, ArchiveClean, TempPlaced
<1> HIDE DEF TempPCs
<1>35. CASE BuildStep
  BY <1>35, <1>10, <1>11, <1>12, <1>13, <1>14, <1>15, <1>16, <1>17, <1>18, <1>19, <1>20, <1>21, <1>22,
     <1>23, <1>24, <1>25, <1>26, <1>27, <1>38 DEF BuildStep
<1>36. CASE Commands
  BY <1>36, <1>28, <1>29, <1>30, <1>31, <1>32, CommandCases
<1> QED
  BY <1>33, <1>34, <1>35, <1>36 DEF Next, Terminated
------------------------------------------------------------------------------
(* Downloads with credentials.                                             *)

\* Whether an image is there depends on its tag only.
LEMMA SameTag ==
  ASSUME NEW r, NEW p, NEW im, NEW jm, TagOf(im) = TagOf(jm), IsImageExist(r, im, p)
  PROVE  IsImageExist(r, jm, p)
<1>1. Repo(im) = Repo(jm)
  BY DEF TagOf, Repo
<1> QED
  BY <1>1 DEF IsImageExist

\* A registry directory has what it had, but for the tags T.
Grown(r, t, T) ==
  /\ DOMAIN r.tags \subseteq DOMAIN t.tags
  /\ \A tag \in DOMAIN r.tags \ T : t.tags[tag] = r.tags[tag]
  /\ r.mans \subseteq t.mans /\ r.links \subseteq t.links

LEMMA GrownKeeps ==
  ASSUME NEW r, NEW t, NEW T, Grown(r, t, T), NEW p, NEW im, TagOf(im) \notin T, IsImageExist(r, im, p)
  PROVE  IsImageExist(t, im, p)
<1> DEFINE d == r.tags[TagOf(im)]
<1>1. /\ TagOf(im) \in DOMAIN r.tags /\ <<Repo(im), d>> \in r.mans
      /\ HasPlatform(d, p) /\ \A x \in GetBlobList(d, p) : StatBlob(r, x)
  BY DEF IsImageExist, GetContent
<1>2. TagOf(im) \in DOMAIN t.tags /\ t.tags[TagOf(im)] = d /\ <<Repo(im), d>> \in t.mans
  BY <1>1 DEF Grown
<1>3. \A x : StatBlob(r, x) => StatBlob(t, x)
  BY DEF Grown, StatBlob
<1> HIDE DEF d
<1> QED
  BY <1>1, <1>2, <1>3 DEF IsImageExist, GetContent

LEMMA GrownSame ==
  ASSUME NEW r, NEW T
  PROVE  Grown(r, r, T)
BY DEF Grown

LEMMA SaveManifestGrows ==
  ASSUME RegistryOK(reg), NEW g, NEW im, SaveManifest(g, im)
  PROVE  Grown(reg, reg', {TagOf(im)})
<1> DEFINE tag == TagOf(im)
           tags == [t \in DOMAIN reg.tags \cup {tag} |-> IF t = tag THEN im ELSE reg.tags[t]]
           tagged == [reg EXCEPT !.tags = tags]
           stored(r, d) == [r EXCEPT !.mans = r.mans \cup {<<Repo(im), d>>}]
<1>1. reg' \in {reg, tagged, stored(tagged, im), stored(reg, reg.tags[tag])}
  BY DEF SaveManifest
<1>2. DOMAIN reg.tags \subseteq DOMAIN tags /\ \A t \in DOMAIN reg.tags \ {tag} : tags[t] = reg.tags[t]
  OBVIOUS
<1> HIDE DEF tag, tags
<1>3. tagged.tags = tags /\ tagged.mans = reg.mans /\ tagged.links = reg.links /\ RegistryOK(tagged)
  BY DEF RegistryOK
<1>4. Grown(reg, tagged, {tag})
  BY <1>2, <1>3 DEF Grown
<1> HIDE DEF tagged
<1>5. ASSUME NEW r, RegistryOK(r), Grown(reg, r, {tag}), NEW d PROVE Grown(reg, stored(r, d), {tag})
  <2>1. stored(r, d).tags = r.tags /\ stored(r, d).links = r.links /\ r.mans \subseteq stored(r, d).mans
    BY <1>5 DEF RegistryOK
  <2> HIDE DEF stored
  <2> QED
    BY <2>1, <1>5 DEF Grown
<1>6. Grown(reg, reg, {tag})
  BY GrownSame
<1> HIDE DEF stored
<1>7. Grown(reg, reg', {tag})
  BY <1>1, <1>3, <1>4, <1>5, <1>6
<1> QED
  BY <1>7 DEF tag
\* A step of one goroutine: its images stay, the others are as they were.
OneGroup(g) ==
  /\ DOMAIN gr' = DOMAIN gr
  /\ \A h \in DOMAIN gr \ {g} : gr'[h] = gr[h]
  /\ {"pc", "images", "sec", "todo", "digests", "blobs", "nilErr", "fail", "retry"} \subseteq DOMAIN gr'[g]
  /\ gr'[g].images = gr[g].images /\ gr'[g].todo \subseteq gr[g].images
  /\ sv' = sv

LEMMA GroupSet ==
  ASSUME NEW g \in DOMAIN gr, NEW r, Set(g, r), sv' = sv,
         {"pc", "images", "sec", "todo", "digests", "blobs", "nilErr", "fail", "retry"} \subseteq DOMAIN r,
         r.images = gr[g].images, r.todo \subseteq gr[g].images
  PROVE  OneGroup(g) /\ gr'[g] = r
BY DEF OneGroup, Set

\* The goroutine is not done before and after, and moves the tags T of its
\* images at most.
LEMMA BusyGroup ==
  ASSUME GroupsOK, NEW g \in DOMAIN gr, OneGroup(g), gr[g].pc # "done", gr'[g].pc # "done",
         NEW T, Grown(reg, reg', T), T \subseteq {TagOf(im) : im \in gr[g].images}
  PROVE  GroupsOK'
<1>1. ASSUME NEW im, Settled(im) PROVE Settled(im)'
  <2>1. CASE TagOf(im) \in T
    <3>1. PICK jm \in gr[g].images : TagOf(jm) = TagOf(im)
      BY <2>1
    <3> QED
      BY <3>1 DEF Settled, OneGroup
  <2>2. CASE IsImageExist(reg, im, sv.plat) /\ TagOf(im) \notin T
    <3>1. IsImageExist(reg', im, sv.plat)
      BY <2>2, GrownKeeps
    <3> QED
      BY <3>1 DEF Settled, OneGroup
  <2>3. ASSUME NEW h \in DOMAIN gr, gr[h].pc # "done", NEW jm \in gr[h].images, TagOf(jm) = TagOf(im)
        PROVE  Settled(im)'
    <3>1. h \in DOMAIN gr' /\ gr'[h].pc # "done" /\ jm \in gr'[h].images
      BY <2>3 DEF OneGroup
    <3> QED
      BY <3>1, <2>3 DEF Settled
  <2> QED
    BY <1>1, <2>1, <2>2, <2>3 DEF Settled
<1>2. ASSUME sv.mode = "auth", NEW h \in DOMAIN gr, gr'[h].pc = "done", NEW im \in gr'[h].images
      PROVE  Settled(im)'
  <2>1. h # g /\ gr'[h] = gr[h]
    BY <1>2 DEF OneGroup
  <2>2. Settled(im)
    BY <1>2, <2>1 DEF GroupsOK
  <2> QED
    BY <2>2, <1>1
<1>3. ASSUME sv.mode = "auth", NEW im \in sv.images PROVE Group(im) \in DOMAIN gr' /\ im \in gr'[Group(im)].images
  BY <1>3 DEF GroupsOK, OneGroup
<1>4. \A h \in DOMAIN gr' :
        /\ {"pc", "images", "sec", "todo", "digests", "blobs", "nilErr", "fail", "retry"} \subseteq DOMAIN gr'[h]
        /\ gr'[h].todo \subseteq gr'[h].images
  BY DEF GroupsOK, OneGroup
<1>5. DOMAIN gr' = DOMAIN gr /\ sv' = sv /\ {"mode", "plat", "images", "ok"} \subseteq DOMAIN sv
  BY DEF GroupsOK, OneGroup
<1> QED
  BY <1>2, <1>3, <1>4, <1>5 DEF GroupsOK

\* The goroutine is done: it looked at every image of its own, and so at every
\* image of another one that has the same tag.
LEMMA DoneGroup ==
  ASSUME GroupsOK, NEW g \in DOMAIN gr, OneGroup(g), reg' = reg,
         sv.mode = "auth" => \A im \in gr[g].images : IsImageExist(reg, im, sv.plat)
  PROVE  GroupsOK'
<1>1. ASSUME sv.mode = "auth", NEW im, Settled(im) PROVE Settled(im)'
  <2>1. CASE IsImageExist(reg, im, sv.plat)
    BY <2>1 DEF Settled, OneGroup
  <2>2. ASSUME NEW h \in DOMAIN gr, gr[h].pc # "done", NEW jm \in gr[h].images, TagOf(jm) = TagOf(im)
        PROVE  Settled(im)'
    <3>1. CASE h = g
      <4>1. IsImageExist(reg, jm, sv.plat)
        BY <1>1, <2>2, <3>1
      <4>2. IsImageExist(reg, im, sv.plat)
        BY <4>1, <2>2, SameTag
      <4> QED
        BY <4>2, <2>1
    <3>2. CASE h # g
      <4>1. h \in DOMAIN gr' /\ gr'[h].pc # "done" /\ jm \in gr'[h].images
        BY <2>2, <3>2 DEF OneGroup
      <4> QED
        BY <4>1, <2>2 DEF Settled
    <3> QED
      BY <3>1, <3>2
  <2> QED
    BY <1>1, <2>1, <2>2 DEF Settled
<1>2. ASSUME sv.mode = "auth", NEW h \in DOMAIN gr, gr'[h].pc = "done", NEW im \in gr'[h].images
      PROVE  Settled(im)'
  <2>1. CASE h = g
    <3>1. IsImageExist(reg, im, sv.plat)
      BY <1>2, <2>1 DEF OneGroup
    <3> QED
      BY <3>1 DEF Settled, OneGroup
  <2>2. CASE h # g
    <3>1. Settled(im)
      BY <1>2, <2>2 DEF GroupsOK, OneGroup
    <3> QED
      BY <3>1, <1>1, <1>2
  <2> QED
    BY <2>1, <2>2
<1>3. ASSUME sv.mode = "auth", NEW im \in sv.images PROVE Group(im) \in DOMAIN gr' /\ im \in gr'[Group(im)].images
  BY <1>3 DEF GroupsOK, OneGroup
<1>4. \A h \in DOMAIN gr' :
        /\ {"pc", "images", "sec", "todo", "digests", "blobs", "nilErr", "fail", "retry"} \subseteq DOMAIN gr'[h]
        /\ gr'[h].todo \subseteq gr'[h].images
  BY DEF GroupsOK, OneGroup
<1>5. DOMAIN gr' = DOMAIN gr /\ sv' = sv /\ {"mode", "plat", "images", "ok"} \subseteq DOMAIN sv
  BY DEF GroupsOK, OneGroup
<1> QED
  BY <1>2, <1>3, <1>4, <1>5 DEF GroupsOK
LEMMA SaveStepSettles ==
  ASSUME RegistryOK(reg), GroupsOK, SaveStep
  PROVE  GroupsOK' /\ sv' = sv
<1> PICK g \in DOMAIN gr :
      \/ StartGroup(g)
      \/ \E im \in gr[g].todo : SaveManifest(g, im)
      \/ ListBlobs(g)
      \/ \E x \in DOMAIN gr[g].blobs : StatBlobStep(g, x) \/ CheckErr(g, x) \/ SaveBlob(g, x)
      \/ EndGroup(g)
  BY DEF SaveStep
<1> DEFINE r == gr[g]
<1>1. /\ {"pc", "images", "sec", "todo", "digests", "blobs", "nilErr", "fail", "retry"} \subseteq DOMAIN r
      /\ r.todo \subseteq r.images
  BY DEF GroupsOK
\* A step that moves no tag and does not end the goroutine.
<1>2. ASSUME r.pc # "done", sv' = sv, Grown(reg, reg', {}), NEW q, Set(g, q), q.pc # "done",
             {"pc", "images", "sec", "todo", "digests", "blobs", "nilErr", "fail", "retry"} \subseteq DOMAIN q,
             q.images = r.images, q.todo \subseteq r.images
      PROVE  GroupsOK'
  <2>1. OneGroup(g) /\ gr'[g] = q
    BY <1>2, GroupSet
  <2>2. {} \subseteq {TagOf(im) : im \in gr[g].images}
    OBVIOUS
  <2> QED
    BY <2>1, <2>2, <1>2, BusyGroup
<1>3. Grown(reg, reg, {})
  BY GrownSame
<1>4. CASE StartGroup(g)
  <2>1. PICK q : Set(g, q) /\ (q = [r EXCEPT !.pc = "tags"] \/ q = [r EXCEPT !.pc = "failed"])
    BY <1>4 DEF StartGroup
  <2>2. r.pc = "wait" /\ sv' = sv /\ reg' = reg
    BY <1>4 DEF StartGroup
  <2> HIDE DEF r
  <2>3. /\ {"pc", "images", "sec", "todo", "digests", "blobs", "nilErr", "fail", "retry"} \subseteq DOMAIN q
        /\ q.images = r.images /\ q.todo \subseteq r.images /\ q.pc # "done"
    BY <2>1, <1>1
  <2> QED
    BY <2>1, <2>2, <2>3, <1>2, <1>3
<1>5. ASSUME NEW im \in r.todo, SaveManifest(g, im) PROVE GroupsOK' /\ sv' = sv
  <2>1. PICK q : /\ Set(g, q)
                 /\ \/ \E d : q = [r EXCEPT !.todo = @ \ {im}, !.digests = @ \cup {d}]
                    \/ q = [r EXCEPT !.todo = @ \ {im}, !.fail = TRUE]
    BY <1>5 DEF SaveManifest
  <2>2. r.pc = "tags" /\ sv' = sv
    BY <1>5 DEF SaveManifest
  <2>3. Grown(reg, reg', {TagOf(im)})
    BY <1>5, SaveManifestGrows
  <2>4. {TagOf(im)} \subseteq {TagOf(jm) : jm \in gr[g].images}
    BY <1>1
  <2>5. /\ {"pc", "images", "sec", "todo", "digests", "blobs", "nilErr", "fail", "retry"} \subseteq DOMAIN q
        /\ q.images = r.images /\ q.todo \subseteq r.images /\ q.pc # "done"
    <3> HIDE DEF r
    <3> QED
      BY <2>1, <2>2, <1>1
  <2>6. OneGroup(g) /\ gr'[g] = q
    BY <2>1, <2>2, <2>5, GroupSet
  <2> QED
    BY <2>2, <2>3, <2>4, <2>5, <2>6, BusyGroup
<1>6. CASE ListBlobs(g)
  <2>1. PICK q : Set(g, q) /\ (q = [r EXCEPT !.pc = "failed"] \/ \E f : q = [r EXCEPT !.pc = "blobs", !.blobs = f])
    BY <1>6 DEF ListBlobs
  <2>2. r.pc = "tags" /\ sv' = sv /\ reg' = reg
    BY <1>6 DEF ListBlobs
  <2> HIDE DEF r
  <2>3. /\ {"pc", "images", "sec", "todo", "digests", "blobs", "nilErr", "fail", "retry"} \subseteq DOMAIN q
        /\ q.images = r.images /\ q.todo \subseteq r.images /\ q.pc # "done"
    BY <2>1, <1>1
  <2> QED
    BY <2>1, <2>2, <2>3, <1>2, <1>3
<1>7. ASSUME NEW x, StatBlobStep(g, x) \/ CheckErr(g, x) \/ SaveBlob(g, x) PROVE GroupsOK' /\ sv' = sv
  <2>1. PICK q : /\ Set(g, q)
                 /\ \/ \E v : q = [r EXCEPT !.blobs[x] = v]
                    \/ \E v, w : q = [r EXCEPT !.blobs[x] = v, !.nilErr = w]
                    \/ \E v : q = [r EXCEPT !.blobs[x] = v, !.fail = TRUE]
    <3>1. CASE StatBlobStep(g, x)
      <4>1. Set(g, [r EXCEPT !.blobs[x] = "stat", !.nilErr = StatLink(reg, g[2], x)])
        BY <3>1 DEF StatBlobStep
      <4> QED
        BY <4>1
    <3>2. CASE CheckErr(g, x)
      <4>1. Set(g, [r EXCEPT !.blobs[x] = IF r.nilErr THEN "end" ELSE "open"])
        BY <3>2 DEF CheckErr
      <4> QED
        BY <4>1
    <3>3. CASE SaveBlob(g, x)
      <4>1. Set(g, [r EXCEPT !.blobs[x] = "end"]) \/ Set(g, [r EXCEPT !.blobs[x] = "end", !.fail = TRUE])
        BY <3>3 DEF SaveBlob
      <4> QED
        BY <4>1
    <3> QED
      BY <1>7, <3>1, <3>2, <3>3
  <2>2. r.pc = "blobs" /\ sv' = sv
    BY <1>7 DEF StatBlobStep, CheckErr, SaveBlob
  <2>3. Grown(reg, reg', {})
    <3>1. CASE reg' = reg
      BY <3>1, <1>3
    <3>2. CASE reg' = [reg EXCEPT !.links = @ \cup {<<g[2], x>>}]
      BY <3>2 DEF Grown, RegistryOK
    <3> QED
      BY <3>1, <3>2, <1>7 DEF StatBlobStep, CheckErr, SaveBlob
  <2> HIDE DEF r
  <2>4. /\ {"pc", "images", "sec", "todo", "digests", "blobs", "nilErr", "fail", "retry"} \subseteq DOMAIN q
        /\ q.images = r.images /\ q.todo \subseteq r.images /\ q.pc # "done"
    BY <2>1, <2>2, <1>1
  <2> QED
    BY <2>1, <2>2, <2>3, <2>4, <1>2
<1>8. CASE EndGroup(g)
  <2> DEFINE complete == \A im \in r.images : IsImageExist(reg, im, sv.plat)
  <2>1. PICK q : /\ Set(g, q)
                 /\ \/ q = [r EXCEPT !.pc = "failed"] \/ q = Restarted(r)
                    \/ q = [r EXCEPT !.pc = "done"] /\ (sv.mode = "plain" \/ complete)
    BY <1>8 DEF EndGroup
  <2>2. r.pc = "blobs" /\ sv' = sv /\ reg' = reg
    BY <1>8 DEF EndGroup
  <2>3. CASE q = [r EXCEPT !.pc = "failed"] \/ q = Restarted(r)
    <3> HIDE DEF r
    <3>1. /\ {"pc", "images", "sec", "todo", "digests", "blobs", "nilErr", "fail", "retry"} \subseteq DOMAIN q
          /\ q.images = r.images /\ q.todo \subseteq r.images /\ q.pc # "done"
      BY <2>3, <1>1 DEF Restarted, NewGroup
    <3> QED
      BY <3>1, <2>1, <2>2, <1>2, <1>3
  <2>4. CASE q = [r EXCEPT !.pc = "done"] /\ (sv.mode = "plain" \/ complete)
    <3>1. /\ {"pc", "images", "sec", "todo", "digests", "blobs", "nilErr", "fail", "retry"} \subseteq DOMAIN q
          /\ q.images = r.images /\ q.todo \subseteq r.images
      BY <2>4, <1>1
    <3>2. OneGroup(g)
      BY <3>1, <2>1, <2>2, GroupSet
    <3>3. sv.mode = "auth" => \A im \in gr[g].images : IsImageExist(reg, im, sv.plat)
      BY <2>4
    <3> QED
      BY <3>2, <3>3, <2>2, DoneGroup
  <2> QED
    BY <2>1, <2>2, <2>3, <2>4
<1> QED
  BY <1>4, <1>5, <1>6, <1>7, <1>8 DEF StartGroup, ListBlobs, EndGroup
LEMMA NothingSaved ==
  ASSUME sv' = NoSave, gr' = <<>>
  PROVE  GroupsOK' /\ sv'.mode = "none"
<1>1. \A g \in DOMAIN gr' : FALSE
  OBVIOUS
<1>2. {"mode", "plat", "images", "ok"} \subseteq DOMAIN sv' /\ sv'.mode = "none"
  BY DEF NoSave
<1> QED
  BY <1>1, <1>2 DEF GroupsOK

LEMMA NewGroupOK ==
  ASSUME NEW I, NEW s
  PROVE  LET r == NewGroup(I, s)
         IN /\ {"pc", "images", "sec", "todo", "digests", "blobs", "nilErr", "fail", "retry"} \subseteq DOMAIN r
            /\ r.images = I /\ r.todo = I /\ r.pc = "wait"
BY DEF NewGroup

LEMMA AuthInductive ==
  ASSUME CommandInv, StoreInv, AuthInv, [Next]_vars
  PROVE  AuthInv'
<1> DEFINE saving == {"saving", "authsaving"}
           stored == {"config", "commit"}
\* The sections and the images already downloaded stay those of the build.
<1> DEFINE Told == b'.pc \in BuildPCs => last'.auth = {} \/ (b.pc \in BuildPCs /\ last'.auth = last.auth /\ b'.o = b.o)
<1>0. GroupsOK /\ StoreOK(st) /\ RegistryOK(reg)
  BY DEF AuthInv, StoreInv
<1>1. ASSUME Told, b'.pc \in BuildPCs, NEW im \in last'.auth PROVE InSections(im)'
  BY <1>1 DEF AuthInv, InSections
<1>2. ASSUME sv' = sv, gr' = gr, b.pc \notin saving, b'.pc \notin saving \cup stored, Told PROVE AuthInv'
  <2>1. sv.mode = "none"
    BY <1>2 DEF AuthInv
  <2>2. GroupsOK'
    BY <1>0, <1>2, <2>1 DEF GroupsOK
  <2>3. AuthComplete'
    BY <1>2 DEF AuthComplete
  <2> QED
    BY <2>1, <2>2, <2>3, <1>1, <1>2 DEF AuthInv
<1>3. ASSUME sv' = NoSave, gr' = <<>>, b'.pc \notin saving \cup stored, Told PROVE AuthInv'
  <2>1. GroupsOK' /\ sv'.mode = "none"
    BY <1>3, NothingSaved
  <2>2. AuthComplete'
    BY <1>3 DEF AuthComplete
  <2> QED
    BY <2>1, <2>2, <1>1, <1>3 DEF AuthInv
<1>4. ASSUME NEW ok, Finish(ok) PROVE b'.pc = "idle"
  BY <1>4 DEF Finish, NoCommand
<1>5. ASSUME NEW ok, Over(ok) PROVE b'.pc = "over" /\ b'.o = b.o
  BY <1>5 DEF Over, CommandInv
<1>6. ASSUME NEW ok, Deferred(ok) PROVE b'.pc = "deferred" /\ b'.o = b.o
  BY <1>6 DEF Deferred, CommandInv
<1> USE DEF BuildPCs
<1>7. CASE ReadKubefile \/ ParsedKubefile
  <2>1. /\ UNCHANGED <<sv, gr, last>> /\ b.pc \in {"read", "parse"}
        /\ b'.pc \in {"parse", "build", "over"} /\ b'.o = b.o
    BY <1>7, <1>5 DEF ReadKubefile, ParsedKubefile, saveVars, CommandInv
  <2> QED
    BY <2>1, <1>2
<1>8. CASE ParseKubefile
  <2>1. UNCHANGED <<sv, gr, last, b>> /\ b.pc = "parse"
    BY <1>8 DEF ParseKubefile, ctlVars
  <2> QED
    BY <2>1, <1>2
<1>29. CASE PullBase
  <2>1. UNCHANGED <<sv, gr, last>> /\ b.pc = "build" /\ b'.pc \in {"build", "over"} /\ b'.o = b.o
    BY <1>29, <1>5, BaseCases DEF BaseFound, Over, CommandInv
  <2> QED
    BY <2>1, <1>2
<1>9. CASE BuildLite \/ BuildTemp
  <2>1. UNCHANGED <<sv, gr, last>> /\ b.pc = "build" /\ b'.pc \in {"container", "over"} /\ b'.o = b.o
    BY <1>9, <1>5 DEF BuildLite, BuildTemp, saveVars, CommandInv
  <2> QED
    BY <2>1, <1>2
<1>10. CASE CreateContainer
  <2>1. UNCHANGED <<sv, gr, last>> /\ b.pc = "container" /\ b'.pc \in {"list", "deferred"} /\ b'.o = b.o
    BY <1>10 DEF CreateContainer, saveVars, CommandInv
  <2> QED
    BY <2>1, <1>2
<1>11. CASE CommitContainer \/ DeferredCleanup
  <2>1. UNCHANGED <<sv, gr, last>> /\ b.pc \in {"commit", "deferred"} /\ b'.pc \in {"over", "deferred"} /\ b'.o = b.o
    BY <1>11, <1>5, <1>6 DEF CommitContainer, DeferredCleanup, saveVars, CommandInv
  <2> QED
    BY <2>1, <1>2
<1>12. CASE PlatformOver
  <2>1. CASE Finish(TRUE) \/ Finish(FALSE)
    <3>1. UNCHANGED <<sv, gr>> /\ b.pc = "over" /\ b'.pc = "idle"
      BY <1>12, <2>1, <1>4 DEF PlatformOver
    <3> QED
      BY <3>1, <1>2
  <2>2. CASE b' = [NoCommand EXCEPT !.pc = "read", !.o = b.o, !.todo = Tail(b.todo)] /\ last' = last
    <3>1. UNCHANGED <<sv, gr, last>> /\ b.pc = "over" /\ b'.pc = "read" /\ b'.o = b.o
      BY <1>12, <2>2 DEF PlatformOver, NoCommand
    <3> QED
      BY <3>1, <1>2
  <2> QED
    BY <1>12, <2>1, <2>2 DEF PlatformOver
<1>13. CASE LoadInstance \/ LoadManifest \/ MountPlatform \/ UmountImage
  <2>1. UNCHANGED <<sv, gr>> /\ b.pc \in {"load", "mount"}
    BY <1>13 DEF LoadInstance, LoadManifest, MountPlatform, UmountImage, saveVars
  <2>2. b'.pc \in {"idle", "load", "mount"}
    BY <1>13, <1>4 DEF LoadInstance, LoadManifest, MountPlatform, UmountImage, CommandInv
  <2> QED
    BY <2>1, <2>2, <1>2
<1>14. CASE DownloadList
  <2>1. CASE Deferred(FALSE) /\ UNCHANGED saveVars
    <3>1. UNCHANGED <<sv, gr, last>> /\ b.pc = "list" /\ b'.pc = "deferred" /\ b'.o = b.o
      BY <1>14, <2>1, <1>6 DEF DownloadList, saveVars
    <3> QED
      BY <3>1, <1>2
  <2>2. ASSUME NEW list, SaveImages(st.ctr[b.ctr].saved, list, Plat), b' = [b EXCEPT !.pc = "saving", !.list = list]
        PROVE  AuthInv'
    <3>1. b.pc = "list" /\ b'.pc = "saving" /\ b'.o = b.o /\ last' = last
      BY <1>14, <2>2 DEF DownloadList, CommandInv
    <3>2. sv' = [mode |-> "plain", plat |-> Plat, images |-> list, ok |-> TRUE]
      BY <2>2 DEF SaveImages
    <3>3. PICK todo : gr' = [g \in {Group(im) : im \in todo} |-> NewGroup({im \in todo : Group(im) = g}, 1)]
      BY <2>2 DEF SaveImages
    <3>4. \A g \in DOMAIN gr' :
            /\ {"pc", "images", "sec", "todo", "digests", "blobs", "nilErr", "fail", "retry"} \subseteq DOMAIN gr'[g]
            /\ gr'[g].todo \subseteq gr'[g].images
      BY <3>3 DEF NewGroup
    <3>5. GroupsOK' /\ sv'.mode = "plain"
      BY <3>2, <3>4 DEF GroupsOK
    <3>6. AuthComplete'
      BY <3>1 DEF AuthComplete
    <3> QED
      BY <3>1, <3>5, <3>6, <1>1 DEF AuthInv
  <2>3. \/ Deferred(FALSE) /\ UNCHANGED saveVars
        \/ \E list : SaveImages(st.ctr[b.ctr].saved, list, Plat) /\ b' = [b EXCEPT !.pc = "saving", !.list = list]
    BY <1>14 DEF DownloadList
  <2> QED
    BY <2>1, <2>2, <2>3
<1>15. CASE DownloadStep
  <2>1. GroupsOK' /\ sv' = sv
    BY <1>15, <1>0, SaveStepSettles DEF DownloadStep
  <2>2. UNCHANGED <<st, b, last>> /\ b.pc \in saving
    BY <1>15 DEF DownloadStep, ctlVars, storeVars
  <2>3. AuthComplete' /\ Plat' = Plat
    BY <2>2 DEF AuthComplete, Plat
  <2>4. Told
    BY <2>2
  <2>5. \A im : InSections(im)' <=> InSections(im)
    BY <2>2 DEF InSections
  <2> HIDE DEF saving, stored
  <2> QED
    BY <2>1, <2>2, <2>3, <2>4, <2>5, <1>1 DEF AuthInv
<1>16. CASE DownloadedList
  <2>1. /\ sv' = NoSave /\ gr' = <<>> /\ last' = last /\ b.pc = "saving"
        /\ b'.pc \in {"auth", "deferred"} /\ b'.o = b.o
    BY <1>16, <1>6 DEF DownloadedList, SaveOver, CommandInv
  <2> QED
    BY <2>1, <1>3
<1>17. CASE DownloadWithAuth
  <2> DEFINE images == [s \in DOMAIN b.o.auth |-> b.o.auth[s].images]
             wanted == UNION Range(images)
  <2>1. b.pc = "auth" /\ last' = last /\ st' = st
    BY <1>17 DEF DownloadWithAuth, storeVars
  <2>2. \A im : im \in wanted <=> InSections(im)
    BY DEF InSections, Range
  <2>3. CASE Deferred(FALSE) /\ UNCHANGED saveVars
    <3>1. UNCHANGED <<sv, gr>> /\ b'.pc = "deferred" /\ b'.o = b.o
      BY <2>3, <1>6 DEF saveVars
    <3> QED
      BY <2>1, <3>1, <1>2
  <2>4. CASE wanted = {} /\ b' = [b EXCEPT !.pc = "config"] /\ UNCHANGED saveVars
    <3>1. UNCHANGED <<sv, gr>> /\ b'.pc = "config" /\ b'.o = b.o
      BY <2>4 DEF saveVars, CommandInv
    <3>2. \A im \in last.auth : FALSE
      BY <2>1, <2>2, <2>4 DEF AuthInv
    <3>3. AuthComplete'
      BY <2>1, <3>2 DEF AuthComplete
    <3>4. sv.mode = "none" /\ GroupsOK'
      BY <1>0, <2>1, <3>1 DEF AuthInv, GroupsOK
    <3>5. \A im \in last'.auth : InSections(im)'
      BY <2>1, <3>2
    <3> HIDE DEF images, wanted
    <3> QED
      BY <2>1, <3>1, <3>3, <3>4, <3>5 DEF AuthInv
  <2>5. CASE SaveImagesWithAuth(images, Plat) /\ b' = [b EXCEPT !.pc = "authsaving", !.list = @ \cup wanted]
    <3>1. b'.pc = "authsaving" /\ b'.o = b.o /\ b'.todo = b.todo
      BY <2>5 DEF CommandInv
    <3> DEFINE keys == {Group(im) : im \in wanted}
               mine(g) == {im \in wanted : Group(im) = g}
    <3>2. sv' = [mode |-> "auth", plat |-> Plat, images |-> wanted, ok |-> TRUE]
      BY <2>5 DEF SaveImagesWithAuth
    <3> DEFINE sec(g) == CHOOSE s \in DOMAIN images : \E im \in images[s] : Group(im) = g
    <3>3. gr' = [g \in keys |-> NewGroup(mine(g), sec(g))]
      BY <2>5 DEF SaveImagesWithAuth
    <3> HIDE DEF sec, images, wanted
    <3>4. DOMAIN gr' = keys /\ \A g \in keys : gr'[g] = NewGroup(mine(g), sec(g))
      BY <3>3
    <3>5. \A g \in keys :
            /\ {"pc", "images", "sec", "todo", "digests", "blobs", "nilErr", "fail", "retry"} \subseteq DOMAIN gr'[g]
            /\ gr'[g].images = mine(g) /\ gr'[g].todo = mine(g) /\ gr'[g].pc = "wait"
      <4> HIDE DEF mine
      <4> QED
        BY <3>4, NewGroupOK
    <3>6. \A im \in wanted : Group(im) \in keys /\ im \in mine(Group(im))
      OBVIOUS
    <3> HIDE DEF keys, mine
    <3>7. \A im \in sv'.images : Group(im) \in DOMAIN gr' /\ im \in gr'[Group(im)].images
      BY <3>2, <3>4, <3>5, <3>6
    <3>8. GroupsOK'
      BY <3>2, <3>4, <3>5, <3>7 DEF GroupsOK
    <3>9. sv'.mode = "auth" /\ sv'.plat = Plat' /\ AuthComplete'
      BY <3>1, <3>2 DEF Plat, AuthComplete
    <3>10. \A im : InSections(im)' <=> InSections(im)
      BY <3>1 DEF InSections
    <3>11. \A im \in sv'.images : InSections(im)'
      BY <2>2, <3>2, <3>10
    <3>12. \A im \in last'.auth : InSections(im)'
      BY <2>1, <3>10 DEF AuthInv
    <3> QED
      BY <3>1, <3>8, <3>9, <3>11, <3>12 DEF AuthInv
  <2> QED
    BY <1>17, <2>3, <2>4, <2>5 DEF DownloadWithAuth
<1>18. CASE DownloadedWithAuth
  <2>1. b.pc = "authsaving" /\ sv' = NoSave /\ gr' = <<>> /\ st' = Stored
    BY <1>18 DEF DownloadedWithAuth, SaveOver
  <2>2. CASE ~SaveOk
    <3>1. last' = last /\ b'.pc = "deferred" /\ b'.o = b.o
      BY <1>18, <2>2, <1>6 DEF DownloadedWithAuth
    <3> QED
      BY <2>1, <3>1, <1>3
  <2>3. CASE SaveOk
    <3>1. /\ b'.pc = "config" /\ b'.o = b.o /\ b'.ctr = b.ctr /\ b'.todo = b.todo
          /\ last'.auth = sv.images
      BY <1>18, <2>3 DEF DownloadedWithAuth, CommandInv
    <3>2. /\ sv.mode = "auth" /\ sv.plat = Plat /\ \A im \in sv.images : InSections(im)
      BY <2>1 DEF AuthInv
    <3>3. \A im \in sv.images : IsImageExist(reg, im, Plat)
      <4> SUFFICES ASSUME NEW im \in sv.images PROVE IsImageExist(reg, im, sv.plat)
        BY <3>2
      <4>1. Group(im) \in DOMAIN gr /\ im \in gr[Group(im)].images
        BY <3>2, <1>0 DEF GroupsOK
      <4>2. Settled(im)
        BY <4>1, <2>3, <3>2, <1>0 DEF GroupsOK, SaveOk
      <4> QED
        BY <4>2, <2>3 DEF Settled, SaveOk
    <3>4. st'.ctr[b.ctr].saved = reg
      BY <2>1, StoredStore DEF StoreInv, ContainerPCs
    <3>5. AuthComplete'
      <4>1. Plat' = Plat
        BY <3>1 DEF Plat
      <4> QED
        BY <3>1, <3>3, <3>4, <4>1 DEF AuthComplete
    <3>6. GroupsOK' /\ sv'.mode = "none"
      BY <2>1, NothingSaved
    <3>7. \A im \in last'.auth : InSections(im)'
      BY <3>1, <3>2 DEF InSections
    <3> QED
      BY <3>1, <3>5, <3>6, <3>7 DEF AuthInv
  <2> QED
    BY <2>2, <2>3
<1>19. CASE UpdateAnnotations
  <2>1. /\ UNCHANGED <<sv, gr, last>> /\ b.pc = "config" /\ b'.o = b.o /\ b'.ctr = b.ctr /\ b'.todo = b.todo
        /\ b'.pc \in {"commit", "deferred"}
    BY <1>19 DEF UpdateAnnotations, Deferred, saveVars, CommandInv
  <2>2. b.ctr \in DOMAIN st.ctr
    BY <2>1 DEF StoreInv, ContainerPCs
  <2>3. st' = st \/ st' = Config(st, b.ctr, b.list)
    BY <1>19 DEF UpdateAnnotations
  <2>4. st'.ctr[b.ctr].saved = st.ctr[b.ctr].saved
    BY <2>2, <2>3, ConfigStore
  <2>5. Plat' = Plat /\ AuthComplete
    BY <2>1 DEF Plat, AuthInv
  <2>6. AuthComplete'
    BY <2>1, <2>4, <2>5 DEF AuthComplete
  <2>7. sv.mode = "none" /\ GroupsOK'
    BY <1>0, <2>1 DEF AuthInv, GroupsOK
  <2>8. Told
    BY <2>1
  <2> QED
    BY <2>1, <2>6, <2>7, <2>8, <1>1 DEF AuthInv
<1>20. CASE SimpleCommands
  <2>1. UNCHANGED <<sv, gr>> /\ b.pc = "idle" /\ b' = b
    BY <1>20, SimpleCommandsAreQuick DEF Quick, Idle, saveVars
  <2> QED
    BY <2>1, <1>2
<1>21. ASSUME NEW o \in BuildOptions, BuildCmd(o) PROVE AuthInv'
  <2>1. UNCHANGED <<sv, gr>> /\ b.pc = "idle" /\ b'.pc \in {"idle", "read"} /\ last'.auth = {}
    BY <1>21 DEF BuildCmd, NoCommand, NoLast, Idle, saveVars
  <2> QED
    BY <2>1, <1>2
<1>22. CASE LoadCmd
  <2>1. UNCHANGED <<sv, gr>> /\ b.pc = "idle" /\ b'.pc \in {"idle", "load"}
    BY <1>22 DEF LoadCmd, NoCommand, Idle, saveVars
  <2> QED
    BY <2>1, <1>2
<1>23. ASSUME NEW n \in ImageNames, MountCmd(n) PROVE AuthInv'
  <2>1. UNCHANGED <<sv, gr>> /\ b.pc = "idle" /\ b' = b
    BY <1>23 DEF MountCmd, Idle, saveVars
  <2> QED
    BY <2>1, <1>2
<1>24. ASSUME NEW n \in ImageNames, NEW plats, MountImageCmd(n, plats) PROVE AuthInv'
  <2>1. UNCHANGED <<sv, gr>> /\ b.pc = "idle" /\ b'.pc = "mount"
    BY <1>24 DEF MountImageCmd, NoCommand, Idle, saveVars
  <2> QED
    BY <2>1, <1>2
<1>25. CASE Crash
  <2>1. sv' = NoSave /\ gr' = <<>> /\ b'.pc = "idle"
    BY <1>25 DEF Crash, NoCommand
  <2> QED
    BY <2>1, <1>3
<1>26. CASE UNCHANGED vars
  BY <1>26 DEF vars, ctlVars, storeVars, saveVars, AuthInv, GroupsOK, Settled, InSections, AuthComplete, Plat
<1> HIDE DEF BuildPCs
<1>27. CASE BuildStep
  BY <1>27, <1>29, <1>7, <1>8, <1>9, <1>10, <1>11, <1>12, <1>13, <1>14, <1>15, <1>16, <1>17, <1>18, <1>19 DEF BuildStep
<1>28. CASE Commands
  BY <1>28, <1>20, <1>21, <1>22, <1>23, <1>24, CommandCases
<1> QED
  BY <1>25, <1>26, <1>27, <1>28 DEF Next, Terminated

------------------------------------------------------------------------------
(* The list of a build for several platforms.                              *)

\* What other images and lists may rely on in an image.
Same(r, q) == q.kind = r.kind /\ q.inst = r.inst /\ q.plat = r.plat /\ q.key = r.key

\* From s to t nothing goes, no list appears, and only x gets names, those of N.
Carry(s, t, N, x) ==
  /\ \A j \in DOMAIN s.img :
       /\ j \in DOMAIN t.img /\ Same(s.img[j], t.img[j])
       /\ s.img[j].names \ N \subseteq t.img[j].names
       /\ j # x => t.img[j].names \subseteq s.img[j].names
  /\ \A j \in DOMAIN t.img \ DOMAIN s.img : t.img[j].kind # "list"

LEMMA CarryNothing ==
  ASSUME NEW s, NEW t, t.img = s.img, NEW N, NEW x
  PROVE  Carry(s, t, N, x)
BY DEF Carry, Same

\* r is x with names of N in addition, or a new image.
MayPut(s, x, r, N) ==
  IF x \in DOMAIN s.img
  THEN Same(s.img[x], r) /\ s.img[x].names \subseteq r.names /\ r.names \subseteq s.img[x].names \cup N
  ELSE r.kind # "list" /\ r.names \subseteq N

\* t is s with x under the record r, with names of N.
Puts(s, t, N, x, r) ==
  Carry(s, t, N, x) /\ t.ctr = s.ctr /\ DOMAIN t.img = DOMAIN s.img \cup {x} /\ t.img[x] = r

LEMMA PutImageCarries ==
  ASSUME NEW s, StoreOK(s), NEW x \in Nat \ {0}, NEW r, ImageOK(r), NEW N, MayPut(s, x, r, N)
  PROVE  Puts(s, PutImage(s, x, r), N, x, r)
<1> DEFINE t == PutImage(s, x, r)
<1>1. /\ DOMAIN t.img = DOMAIN s.img \cup {x} /\ t.img[x] = r /\ t.ctr = s.ctr
      /\ \A j \in DOMAIN s.img \ {x} : t.img[j] = [s.img[j] EXCEPT !.names = s.img[j].names \ r.names]
  BY DEF PutImage, StoreOK
<1>2. ASSUME NEW j \in DOMAIN s.img, j # x
      PROVE  t.img[j].names = s.img[j].names \ r.names /\ Same(s.img[j], t.img[j])
  <2>1. ImageOK(s.img[j]) /\ t.img[j] = [s.img[j] EXCEPT !.names = s.img[j].names \ r.names]
    BY <1>1, <1>2, IdsArePositive
  <2> QED
    BY <2>1, RenamedOK DEF Same
<1>3. ASSUME NEW j \in DOMAIN s.img, j # x
      PROVE  s.img[j].names \ N \subseteq t.img[j].names
  <2>1. x \in DOMAIN s.img => s.img[j].names \cap s.img[x].names = {}
    BY <1>3 DEF StoreOK
  <2> QED
    BY <2>1, <1>2, <1>3 DEF MayPut
<1>4. ASSUME NEW j \in DOMAIN s.img
      PROVE  /\ j \in DOMAIN t.img /\ Same(s.img[j], t.img[j])
             /\ s.img[j].names \ N \subseteq t.img[j].names
             /\ j # x => t.img[j].names \subseteq s.img[j].names
  BY <1>1, <1>2, <1>3, <1>4 DEF MayPut
<1>5. ASSUME NEW j \in DOMAIN t.img \ DOMAIN s.img
      PROVE  t.img[j].kind # "list"
  BY <1>1, <1>5 DEF MayPut
<1> QED
  BY <1>1, <1>4, <1>5 DEF Carry, Puts

LEMMA NextIsNew ==
  ASSUME NEW s, StoreOK(s)
  PROVE  s.next \in Nat \ {0} /\ s.next \notin DOMAIN s.img
<1>1. s.next \in Nat \ {0} /\ s.next \notin 1 .. s.next - 1
  BY DEF StoreOK
<1> QED
  BY <1>1 DEF StoreOK, ImagesOK

\* An image of the store gets names, or a new one is put into it.
LEMMA RenameCarries ==
  ASSUME NEW s, StoreOK(s), NEW i \in DOMAIN s.img, NEW N, NEW M, M \subseteq N
  PROVE  LET q == [s.img[i] EXCEPT !.names = s.img[i].names \cup M]
         IN Puts(s, PutImage(s, i, q), N, i, q) /\ Same(s.img[i], q) /\ q.names = s.img[i].names \cup M
<1> DEFINE q == [s.img[i] EXCEPT !.names = s.img[i].names \cup M]
<1>1. i \in Nat \ {0} /\ ImageOK(s.img[i])
  BY IdsArePositive
<1>2. ImageOK(q) /\ q.names = s.img[i].names \cup M /\ Same(s.img[i], q)
  BY <1>1, RenamedOK DEF Same
<1> HIDE DEF q
<1>3. MayPut(s, i, q, N)
  BY <1>2 DEF MayPut
<1>4. Puts(s, PutImage(s, i, q), N, i, q)
  BY <1>1, <1>2, <1>3, PutImageCarries
<1> QED
  BY <1>2, <1>4 DEF q

LEMMA NewCarries ==
  ASSUME NEW s, StoreOK(s), NEW N, NEW q, ImageOK(q), q.kind # "list", q.names \subseteq N
  PROVE  Puts(s, PutImage(s, s.next, q), N, s.next, q)
<1>1. s.next \in Nat \ {0} /\ s.next \notin DOMAIN s.img
  BY NextIsNew
<1>2. MayPut(s, s.next, q, N)
  BY <1>1 DEF MayPut
<1> QED
  BY <1>1, <1>2, PutImageCarries

\* A build makes a new image, or finds one built from the same for the platform.
Built(s, r, key, name, useCache) ==
  /\ Carry(s, r.st, {name}, r.id)
  /\ DOMAIN r.st.img = DOMAIN s.img \cup {r.id} /\ r.st.ctr = s.ctr
  /\ r.st.img[r.id].plat = key.plat /\ r.st.img[r.id].key = key
  /\ ~useCache => /\ r.id \notin DOMAIN s.img /\ r.st.img[r.id].kind = "image"
                  /\ name = NoName => r.st.img[r.id].names = {}
  /\ r.id \in Nat

LEMMA BuildCarries ==
  ASSUME NEW s, StoreOK(s), NEW key, NEW name, NEW ext, NEW files, NEW useCache,
         AppsOK(ext.apps), Launchable(ext), key.plat # "",
         NEW r \in Build(s, key, name, ext, files, useCache)
  PROVE  Built(s, r, key, name, useCache)
<1> DEFINE given == IF name = NoName THEN {} ELSE {name}
           own == {name}
           fresh == [names |-> given, kind |-> "image", plat |-> key.plat, inst |-> {}, key |-> key,
                   ext |-> ext, files |-> files \cup BaseFiles(s, key.base), listed |-> {},
                   saved |-> BaseRegistry(s, key.base)]
           again(i) == [s.img[i] EXCEPT !.names = s.img[i].names \cup given]
<1>0. given \subseteq own /\ (name = NoName => given = {})
  OBVIOUS
<1>1. CASE useCache /\ Cached(s, key) # {}
  <2>1. PICK i \in Cached(s, key) : r = [st |-> PutImage(s, i, again(i)), ok |-> TRUE, id |-> i]
    BY <1>1 DEF Build, Ret
  <2>2. i \in DOMAIN s.img /\ i \in Nat \ {0} /\ ImageOK(s.img[i]) /\ s.img[i].key = key
    BY IdsArePositive DEF Cached
  <2> DEFINE q == again(i)
             t == PutImage(s, i, q)
  <2>3. r.st = t /\ r.id = i
    BY <2>1
  <2>4. s.img[i].plat = key.plat
    BY <2>2 DEF ImageOK
  <2> HIDE DEF given, own
  <2>5. Puts(s, t, own, i, q) /\ Same(s.img[i], q)
    BY <1>0, <2>2, RenameCarries
  <2> HIDE DEF q, t
  <2> QED
    BY <1>1, <2>2, <2>3, <2>4, <2>5 DEF own, Puts, Same, Built
<1>2. CASE ~(useCache /\ Cached(s, key) # {})
  <2> DEFINE t == PutImage(s, s.next, fresh)
  <2>1. r = [st |-> t, ok |-> TRUE, id |-> s.next]
    BY <1>2 DEF Build, Ret
  <2>2. RegistryOK(BaseRegistry(s, key.base))
    <3>1. CASE key.base \in DOMAIN s.img
      BY <3>1, IdsArePositive DEF BaseRegistry, ImageOK
    <3>2. CASE key.base \notin DOMAIN s.img
      BY <3>2 DEF BaseRegistry, NoRegistry, RegistryOK
    <3> QED
      BY <3>1, <3>2
  <2>3. ImageOK(fresh) /\ fresh.names = given /\ fresh.kind = "image" /\ fresh.plat = key.plat /\ fresh.key = key
    BY <2>2 DEF ImageOK
  <2>4. s.next \in Nat \ {0} /\ s.next \notin DOMAIN s.img
    BY NextIsNew
  <2>6. r.st = t /\ r.id = s.next
    BY <2>1
  <2> HIDE DEF fresh, given, own
  <2>5. Puts(s, t, own, s.next, fresh)
    BY <1>0, <2>3, NewCarries
  <2> HIDE DEF t
  <2> QED
    BY <1>0, <2>3, <2>4, <2>5, <2>6 DEF own, Puts, Built
<1> QED
  BY <1>1, <1>2

\* A pull gives the name to an image of the registry, never to a list.
PulledInto(s, t, n, rem) ==
  t = s \/ \E x \in DOMAIN rem : /\ Carry(s, t, {n}, x) /\ t.ctr = s.ctr
                                 /\ x \in DOMAIN t.img /\ n \in t.img[x].names /\ t.img[x].kind # "list"

LEMMA PullCarries ==
  ASSUME NEW s, StoreOK(s), NEW n, NEW rem, HeldOK(s, rem), NEW plat
  PROVE  PulledInto(s, Pull(s, n, rem, plat).st, n, rem)
<1> USE DEF PulledInto
<1> DEFINE have == {i \in DOMAIN rem : rem[i].plat = plat}
           i == CHOOSE j \in have : TRUE
           q == [rem[i] EXCEPT !.names = {n}]
<1>1. CASE have = {}
  BY <1>1 DEF Pull, Ret
<1>2. CASE have # {}
  <2> DEFINE p == IF i \in DOMAIN s.img THEN [s.img[i] EXCEPT !.names = s.img[i].names \cup q.names]
                  ELSE [q EXCEPT !.key = [NoKey EXCEPT !.base = q.key.base]]
             t == PutImage(s, i, p)
  <2>1. Pull(s, n, rem, plat).st = t
    BY <1>2 DEF Pull, Ret, LoadOneImage
  <2>2. i \in have
    BY <1>2
  <2> HIDE DEF i
  <2>3. /\ i \in Nat \ {0} /\ ImageOK(rem[i]) /\ rem[i].kind # "list" /\ ~IsManifestList(s, i)
        /\ i \in DOMAIN rem
    BY <2>2 DEF ImagesOK, HeldOK, Plain
  <2>4. ImageOK(q) /\ q.names = {n} /\ q.kind # "list"
    BY <2>3, RenamedOK
  <2> HIDE DEF q
  <2>5. CASE i \in DOMAIN s.img
    <3>1. ImageOK(s.img[i]) /\ p = [s.img[i] EXCEPT !.names = s.img[i].names \cup q.names]
      BY <2>5, IdsArePositive
    <3> HIDE DEF p
    <3>2. ImageOK(p) /\ p.names = s.img[i].names \cup {n} /\ Same(s.img[i], p) /\ p.kind # "list"
      BY <3>1, <2>3, <2>4, <2>5, RenamedOK DEF Same, IsManifestList
    <3>3. s.img[i].names \subseteq p.names /\ n \in p.names
      BY <3>2
    <3>5. MayPut(s, i, p, {n})
      BY <2>5, <3>2 DEF MayPut
    <3>4. Puts(s, t, {n}, i, p)
      BY <2>3, <3>2, <3>5, PutImageCarries
    <3> HIDE DEF t
    <3> QED
      BY <2>1, <2>3, <3>2, <3>3, <3>4 DEF Puts
  <2>6. CASE i \notin DOMAIN s.img
    <3>1. p = [q EXCEPT !.key = [NoKey EXCEPT !.base = q.key.base]]
      BY <2>6
    <3> HIDE DEF p
    <3>2. ImageOK(p) /\ p.names = {n} /\ p.kind # "list"
      BY <3>1, <2>4 DEF ImageOK, NoKey
    <3>5. MayPut(s, i, p, {n})
      BY <2>6, <3>2 DEF MayPut
    <3>4. Puts(s, t, {n}, i, p)
      BY <2>3, <3>2, <3>5, PutImageCarries
    <3> HIDE DEF t
    <3> QED
      BY <2>1, <2>3, <3>2, <3>4 DEF Puts
  <2> QED
    BY <2>5, <2>6
<1> QED
  BY <1>1, <1>2
------------------------------------------------------------------------------
(* The list of a build, and the images it has.                             *)

\* l is the list the build made: its one name is the build's, and it was not
\* built from a Dockerfile.
ListAt(s, l, tag) ==
  /\ l \in DOMAIN s.img /\ s.img[l].kind = "list" /\ s.img[l].names = {tag}
  /\ s.img[l].key.plat = "" /\ ContainersOf(s, l) = {}

Plats(s, I) == {s.img[i].plat : i \in I}
First(p, d) == {p[k] : k \in 1 .. d}

\* It has one image for each of the first d platforms; those of the all mode
\* were committed, not built.
Holds(s, l, o, d) ==
  /\ s.img[l].inst \subseteq DOMAIN s.img /\ IsFiniteSet(s.img[l].inst)
  /\ Cardinality(s.img[l].inst) = d
  /\ Plats(s, s.img[l].inst) = First(o.plats, d)
  /\ ~o.lite => \A i \in s.img[l].inst : s.img[i].key.plat = ""

Good(s, o, d) == \E l : ListAt(s, l, o.tag) /\ Holds(s, l, o, d)

\* A pull gave the name of the list to an image.
Stolen(s, tag) == \E i \in DOMAIN s.img : tag \in s.img[i].names /\ s.img[i].kind # "list"
NoList(s, tag) == \A i \in DOMAIN s.img : tag \in s.img[i].names => s.img[i].kind # "list"

Building(s, o, d) == Stolen(s, o.tag) \/ Good(s, o, d)
Failing(s, o) == NoList(s, o.tag) \/ \E l : ListAt(s, l, o.tag)

LEMMA BuildingMayFail ==
  ASSUME NEW s, StoreOK(s), NEW o, NEW d, Building(s, o, d)
  PROVE  Failing(s, o)
<1>1. CASE Stolen(s, o.tag)
  BY <1>1 DEF Stolen, NoList, Failing, StoreOK
<1>2. CASE Good(s, o, d)
  BY <1>2 DEF Good, Failing
<1> QED
  BY <1>1, <1>2 DEF Building

LEMMA CarryKeepsList ==
  ASSUME NEW s, NEW t, NEW N, NEW x, Carry(s, t, N, x), t.ctr = s.ctr,
         NEW l, NEW tag, ListAt(s, l, tag), tag \notin N, l # x
  PROVE  ListAt(t, l, tag) /\ t.img[l].inst = s.img[l].inst
<1>1. /\ l \in DOMAIN t.img /\ Same(s.img[l], t.img[l])
      /\ s.img[l].names \ N \subseteq t.img[l].names /\ t.img[l].names \subseteq s.img[l].names
  BY DEF Carry, ListAt
<1>2. t.img[l].names = {tag}
  BY <1>1 DEF ListAt
<1>3. ContainersOf(t, l) = {}
  BY DEF ContainersOf, ListAt
<1> QED
  BY <1>1, <1>2, <1>3 DEF ListAt, Same

LEMMA CarryKeepsHeld ==
  ASSUME NEW s, NEW t, NEW N, NEW x, Carry(s, t, N, x),
         NEW l, NEW o, NEW d, l \in DOMAIN s.img, Holds(s, l, o, d), t.img[l].inst = s.img[l].inst
  PROVE  Holds(t, l, o, d)
<1> DEFINE I == s.img[l].inst
<1>1. I \subseteq DOMAIN s.img /\ IsFiniteSet(I) /\ Cardinality(I) = d /\ t.img[l].inst = I
  BY DEF Holds
<1>2. \A i \in I : i \in DOMAIN t.img /\ t.img[i].plat = s.img[i].plat /\ t.img[i].key = s.img[i].key
  BY <1>1 DEF Carry, Same
<1>3. Plats(t, I) = Plats(s, I)
  BY <1>2 DEF Plats
<1>4. Plats(s, I) = First(o.plats, d) /\ (~o.lite => \A i \in I : s.img[i].key.plat = "")
  BY DEF Holds
<1> HIDE DEF I
<1> QED
  BY <1>1, <1>2, <1>3, <1>4 DEF Holds

LEMMA CarryBuilds ==
  ASSUME NEW s, NEW t, NEW N, NEW x, Carry(s, t, N, x), t.ctr = s.ctr,
         NEW o, NEW d, o.tag \notin N, Building(s, o, d),
         \A l : ListAt(s, l, o.tag) => l # x
  PROVE  Building(t, o, d)
<1>1. CASE Stolen(s, o.tag)
  BY <1>1 DEF Stolen, Carry, Same, Building
<1>2. CASE Good(s, o, d)
  <2>1. PICK l : ListAt(s, l, o.tag) /\ Holds(s, l, o, d)
    BY <1>2 DEF Good
  <2>2. ListAt(t, l, o.tag) /\ t.img[l].inst = s.img[l].inst
    BY <2>1, CarryKeepsList
  <2>3. Holds(t, l, o, d)
    BY <2>1, <2>2, CarryKeepsHeld DEF ListAt
  <2> QED
    BY <2>2, <2>3 DEF Good, Building
<1> QED
  BY <1>1, <1>2 DEF Building

\* The containers change, those of the list excepted.
LEMMA SameImagesBuild ==
  ASSUME NEW s, NEW t, t.img = s.img, NEW o, NEW d, Building(s, o, d),
         \A l : ListAt(s, l, o.tag) => ContainersOf(t, l) = {}
  PROVE  Building(t, o, d)
<1>1. CASE Stolen(s, o.tag)
  BY <1>1 DEF Stolen, Building
<1>2. CASE Good(s, o, d)
  <2>1. PICK l : ListAt(s, l, o.tag) /\ Holds(s, l, o, d)
    BY <1>2 DEF Good
  <2>2. ListAt(t, l, o.tag)
    BY <2>1 DEF ListAt
  <2>3. Holds(t, l, o, d)
    BY <2>1 DEF Holds, Plats
  <2> QED
    BY <2>2, <2>3 DEF Good, Building
<1> QED
  BY <1>1, <1>2 DEF Building

------------------------------------------------------------------------------
(* An image joins the list.                                                *)

LEMMA LookupList ==
  ASSUME NEW s, StoreOK(s), NEW l, NEW tag, ListAt(s, l, tag)
  PROVE  Lookup(s, tag) = l /\ IsManifestList(s, Lookup(s, tag))
BY LookupFinds DEF ListAt, IsManifestList

\* s and t differ in the instances of lists only.
SameButLists(s, t) ==
  /\ DOMAIN t.img = DOMAIN s.img /\ t.ctr = s.ctr
  /\ \A j \in DOMAIN s.img : /\ t.img[j].names = s.img[j].names /\ t.img[j].kind = s.img[j].kind
                             /\ t.img[j].plat = s.img[j].plat /\ t.img[j].key = s.img[j].key

LEMMA WithInstances ==
  ASSUME NEW s, StoreOK(s), NEW l \in DOMAIN s.img, NEW I, NEW t, t = [s EXCEPT !.img[l].inst = I]
  PROVE  SameButLists(s, t) /\ t.img[l].inst = I
<1> DEFINE r == [s.img[l] EXCEPT !.inst = I]
<1>1. DOMAIN t = DOMAIN s /\ t.ctr = s.ctr /\ t.img = [s.img EXCEPT ![l] = r]
  BY DEF StoreOK
<1>2. ImageOK(s.img[l])
  BY IdsArePositive
<1>3. /\ r.names = s.img[l].names /\ r.inst = I /\ r.kind = s.img[l].kind
      /\ r.plat = s.img[l].plat /\ r.key = s.img[l].key
  BY <1>2 DEF ImageOK
<1> HIDE DEF r
<1>4. DOMAIN t.img = DOMAIN s.img /\ \A j \in DOMAIN t.img : t.img[j] = IF j = l THEN r ELSE s.img[j]
  BY <1>1
<1> QED
  BY <1>1, <1>3, <1>4 DEF SameButLists

LEMMA FirstGrows ==
  ASSUME NEW p, NEW d \in Nat
  PROVE  First(p, d + 1) = First(p, d) \cup {p[d + 1]}
<1>1. 1 .. d + 1 = (1 .. d) \cup {d + 1}
  OBVIOUS
<1> QED
  BY <1>1 DEF First

\* The image i may join the list.
Joins(s, i, o, d) ==
  /\ i \in DOMAIN s.img /\ s.img[i].kind # "list" /\ s.img[i].plat = o.plats[d + 1]
  /\ ~o.lite => s.img[i].key.plat = ""

LEMMA HoldsOneMore ==
  ASSUME NEW s, NEW t, SameButLists(s, t), NEW l, NEW o, NEW d \in Nat, Holds(s, l, o, d),
         NEW i, Joins(s, i, o, d), i \notin s.img[l].inst, t.img[l].inst = s.img[l].inst \cup {i}
  PROVE  Holds(t, l, o, d + 1)
<1> DEFINE I == s.img[l].inst
           J == I \cup {i}
<1>1. /\ I \subseteq DOMAIN s.img /\ IsFiniteSet(I) /\ Cardinality(I) = d /\ Plats(s, I) = First(o.plats, d)
      /\ (~o.lite => \A k \in I : s.img[k].key.plat = "")
  BY DEF Holds
<1>2. IsFiniteSet(J) /\ Cardinality(J) = d + 1
  BY <1>1, FS_AddElement
<1>3. J \subseteq DOMAIN t.img
  BY <1>1 DEF SameButLists, Joins
<1>4. \A k \in J : t.img[k].plat = s.img[k].plat /\ t.img[k].key = s.img[k].key
  BY <1>1 DEF SameButLists, Joins
<1>5. Plats(t, J) = Plats(s, I) \cup {o.plats[d + 1]}
  <2>1. Plats(s, J) = Plats(s, I) \cup {s.img[i].plat}
    <3> HIDE DEF I
    <3> QED
      BY DEF Plats
  <2> HIDE DEF J, I
  <2>2. Plats(t, J) = Plats(s, J)
    BY <1>4 DEF Plats
  <2> QED
    BY <2>1, <2>2 DEF Joins
<1>6. Plats(t, J) = First(o.plats, d + 1)
  <2> DEFINE p == o.plats
  <2> HIDE DEF p, J, I
  <2>1. First(p, d + 1) = First(p, d) \cup {p[d + 1]}
    BY FirstGrows
  <2> QED
    BY <1>1, <1>5, <2>1 DEF p
<1>7. ~o.lite => \A k \in J : t.img[k].key.plat = ""
  BY <1>1, <1>4 DEF Joins
<1>8. t.img[l].inst = J
  OBVIOUS
<1> HIDE DEF J
<1> QED
  BY <1>2, <1>3, <1>6, <1>7, <1>8 DEF Holds

LEMMA AddJoins ==
  ASSUME NEW s, StoreOK(s), NEW l, NEW o, NEW d \in Nat, ListAt(s, l, o.tag), Holds(s, l, o, d),
         NEW i, Joins(s, i, o, d), i \notin s.img[l].inst
  PROVE  LET a == AddToManifest(s, o.tag, i)
         IN a.ok /\ Good(a.st, o, d + 1) /\ SameButLists(s, a.st)
<1> DEFINE I == s.img[l].inst \cup {i}
           t == [s EXCEPT !.img[l].inst = I]
<1>1. Lookup(s, o.tag) = l /\ IsManifestList(s, l)
  BY LookupList
<1>2. Instances(s, i) = {i} /\ i \in DOMAIN s.img
  BY DEF Joins, Instances, IsManifestList
<1>3. AddToManifest(s, o.tag, i) = AddToList(s, l, i)
  BY <1>1 DEF AddToManifest
<1>4. AddToList(s, l, i) = [st |-> t, ok |-> TRUE, id |-> l]
  BY <1>2 DEF AddToList, Ret
<1>5. l \in DOMAIN s.img /\ t = [s EXCEPT !.img[l].inst = I]
  BY DEF ListAt
<1>9. I = s.img[l].inst \cup {i}
  OBVIOUS
<1> HIDE DEF t, I
<1>6. SameButLists(s, t) /\ t.img[l].inst = I
  BY <1>5, WithInstances
<1>7. ListAt(t, l, o.tag)
  BY <1>6 DEF ListAt, SameButLists, ContainersOf
<1>8. Holds(t, l, o, d + 1)
  BY <1>6, <1>9, HoldsOneMore
<1> QED
  BY <1>3, <1>4, <1>6, <1>7, <1>8 DEF Good

LEMMA AddFails ==
  ASSUME NEW s, StoreOK(s), NEW tag, Stolen(s, tag), NEW i
  PROVE  LET a == AddToManifest(s, tag, i) IN ~a.ok /\ a.st = s
<1>1. PICK k \in DOMAIN s.img : tag \in s.img[k].names /\ s.img[k].kind # "list"
  BY DEF Stolen
<1>2. Lookup(s, tag) = k /\ k # 0
  BY <1>1, LookupFinds
<1>3. ~IsManifestList(s, Lookup(s, tag))
  BY <1>1, <1>2 DEF IsManifestList
<1>4. AddToManifest(s, tag, i) = [st |-> s, ok |-> FALSE, id |-> 0]
  BY <1>2, <1>3 DEF AddToManifest, Ret
<1> QED
  BY <1>4
------------------------------------------------------------------------------
(* The build in progress.                                                  *)

EndPCs == {"over", "deferred"}

\* The platforms that are done.
Done == Len(b.o.plats) - Len(b.todo)

\* The build is that of the last record, and works through its platforms.
TaskInv ==
  b.pc \in BuildPCs =>
    /\ b.o \in BuildOptions
    /\ last.name = b.o.tag /\ last.plats = b.o.plats /\ (last.made => Multi(b.o))
    /\ b.todo \in Seq(STRING) /\ Len(b.todo) \in 1 .. Len(b.o.plats)
    /\ \A k \in 1 .. Len(b.todo) : b.todo[k] = b.o.plats[Len(b.o.plats) - Len(b.todo) + k]
    /\ b.pc \in TempPCs => ~b.o.lite

\* i has the name n, was built for platform p, and is no commit.
Temporary(s, i, n, p) ==
  i \in DOMAIN s.img /\ n \in s.img[i].names /\ s.img[i].plat = p /\ s.img[i].key.plat # ""

PlaceInv ==
  b.pc \in TempPCs /\ Multi(b.o) =>
    /\ Temporary(st, b.iid, TempTag, Plat)
    /\ b.pc \in ContainerPCs => st.ctr[b.ctr].plat = Plat

\* The list has the platforms that are done, with the one being built at its
\* end; unless its name went to an image, and then the build will fail.
ListInv ==
  b.pc \in BuildPCs /\ Multi(b.o) =>
    IF b.pc \in EndPCs
    THEN IF b.ok THEN Good(st, b.o, Done + 1) ELSE Failing(st, b.o)
    ELSE Building(st, b.o, Done)

LEMMA OptionsOK ==
  ASSUME NEW o \in BuildOptions
  PROVE  /\ ~IsTemp(o.tag) /\ o.tag # NoName
         /\ o.plats \in Seq(STRING) /\ o.plats # <<>> /\ \A k \in DOMAIN o.plats : o.plats[k] # ""
BY BuildAssumption

LEMMA TaskPlat ==
  ASSUME TaskInv, b.pc \in BuildPCs
  PROVE  /\ Done \in Nat /\ Done + 1 <= Len(b.o.plats) /\ Plat = b.o.plats[Done + 1] /\ Plat # ""
         /\ ~IsTemp(b.o.tag) /\ b.o.tag # NoName /\ Len(b.o.plats) \in Nat /\ Len(b.todo) \in Nat
<1> DEFINE n == Len(b.todo)
           p == b.o.plats
           m == Len(p)
<1>1. /\ b.o \in BuildOptions /\ b.todo \in Seq(STRING) /\ n \in 1 .. m
      /\ \A k \in 1 .. n : b.todo[k] = p[m - n + k]
  BY DEF TaskInv
<1>2. /\ ~IsTemp(b.o.tag) /\ b.o.tag # NoName /\ p \in Seq(STRING)
      /\ \A k \in DOMAIN p : p[k] # ""
  BY <1>1, OptionsOK
<1>3. n \in Nat /\ m \in Nat /\ DOMAIN p = 1 .. m
  <2>1. ASSUME NEW q \in Seq(STRING) PROVE Len(q) \in Nat /\ DOMAIN q = 1 .. Len(q)
    OBVIOUS
  <2> HIDE DEF p
  <2> QED
    BY <1>1, <1>2, <2>1
<1>4. Plat = b.todo[1]
  BY <1>1 DEF Plat
<1> HIDE DEF n, p, m
<1>5. 1 \in 1 .. n /\ m - n + 1 \in 1 .. m /\ m - n \in Nat /\ m - n + 1 <= m
  BY <1>1, <1>3
<1>6. b.todo[1] = p[m - n + 1] /\ p[m - n + 1] # ""
  BY <1>1, <1>2, <1>3, <1>5
<1>7. Done = m - n /\ Len(b.o.plats) = m /\ Len(b.todo) = n /\ b.o.plats = p
  BY DEF Done, m, n, p
<1> QED
  BY <1>2, <1>3, <1>4, <1>5, <1>6, <1>7

\* A step within the work on one platform.
Goes ==
  /\ b.pc \in BuildPCs /\ b'.pc \in BuildPCs /\ b'.o = b.o /\ b'.todo = b.todo /\ cmds' = cmds
  /\ last'.name = last.name /\ last'.plats = last.plats /\ last'.made = last.made
  /\ b.pc # "over" /\ (b'.pc \in TempPCs => b.pc \in TempPCs \/ ~b.o.lite)

\* A step that leaves the images and the platforms of containers alone.
Still ==
  /\ st'.img = st.img
  /\ DOMAIN st'.ctr = DOMAIN st.ctr
  /\ \A c \in DOMAIN st.ctr : st'.ctr[c].image = st.ctr[c].image /\ st'.ctr[c].plat = st.ctr[c].plat

LEMMA OverGoes ==
  ASSUME CommandInv, NEW ok, Over(ok)
  PROVE  b'.pc = "over" /\ b'.o = b.o /\ b'.todo = b.todo /\ b'.iid = b.iid /\ b'.ctr = b.ctr /\ b'.ok = ok
BY DEF CommandInv, Over

LEMMA DeferredGoes ==
  ASSUME CommandInv, NEW ok, Deferred(ok)
  PROVE  b'.pc = "deferred" /\ b'.o = b.o /\ b'.todo = b.todo /\ b'.iid = b.iid /\ b'.ctr = b.ctr /\ b'.ok = ok
BY DEF CommandInv, Deferred

\* From the tag on: the container is worked on, or the build fails.
Works ==
  /\ b.pc \in ContainerPCs /\ b'.pc \in ContainerPCs \cup {"deferred"}
  /\ b'.pc = "deferred" => ~b'.ok
  /\ b'.iid = b.iid /\ b'.ctr = b.ctr

\* The steps that do nothing to images and names.
LEMMA QuietGoes ==
  ASSUME CommandInv, StoreInv, ReadKubefile \/ ParsedKubefile
  PROVE  Goes /\ Still /\ b.pc \in {"read", "parse"} /\ b'.pc \in {"parse", "build", "over"} /\ (b'.pc = "over" => ~b'.ok)
<1>1. CASE ReadKubefile
  <2>1. UNCHANGED <<st, cmds, last>> /\ b.pc = "read" /\ (Over(FALSE) \/ b' = [b EXCEPT !.pc = "parse"])
    BY <1>1 DEF ReadKubefile, storeVars
  <2>2. CASE Over(FALSE)
    BY <2>1, <2>2, OverGoes DEF Goes, Still, BuildPCs, TempPCs
  <2>3. CASE b' = [b EXCEPT !.pc = "parse"]
    BY <2>1, <2>3 DEF Goes, Still, BuildPCs, TempPCs, CommandInv
  <2> QED
    BY <2>1, <2>2, <2>3
<1>2. CASE ParsedKubefile
  <2>1. UNCHANGED <<st, cmds, last>> /\ b.pc = "parse" /\ (Over(FALSE) \/ b' = [b EXCEPT !.pc = "build"])
    BY <1>2 DEF ParsedKubefile, storeVars
  <2>2. CASE Over(FALSE)
    BY <2>1, <2>2, OverGoes DEF Goes, Still, BuildPCs, TempPCs
  <2>3. CASE b' = [b EXCEPT !.pc = "build"]
    BY <2>1, <2>3 DEF Goes, Still, BuildPCs, TempPCs, CommandInv
  <2> QED
    BY <2>1, <2>2, <2>3
<1> QED
  BY <1>1, <1>2

LEMMA WorkGoes ==
  ASSUME CommandInv, StoreInv,
         DownloadList \/ DownloadStep \/ DownloadedList \/ DownloadWithAuth \/ DownloadedWithAuth \/ UpdateAnnotations
  PROVE  Goes /\ Still /\ Works
<1> USE DEF ContainerPCs
<1>1. ASSUME b.pc \in ContainerPCs, cmds' = cmds, NEW p \in ContainerPCs,
             \/ Deferred(FALSE)
             \/ b'.pc = p /\ b'.o = b.o /\ b'.todo = b.todo /\ b'.iid = b.iid /\ b'.ctr = b.ctr,
             last'.name = last.name /\ last'.plats = last.plats /\ last'.made = last.made
      PROVE  Goes /\ Works
  BY <1>1, DeferredGoes DEF Goes, Works, BuildPCs, TempPCs
<1>2. st' = st => Still
  BY DEF Still
<1>3. ContainerKept(st, st') => Still
  BY DEF Still, ContainerKept
<1>4. CASE DownloadList
  <2>1. UNCHANGED <<st, cmds, last>> /\ b.pc = "list"
    BY <1>4 DEF DownloadList, storeVars
  <2>2. Deferred(FALSE) \/ \E list : b' = [b EXCEPT !.pc = "saving", !.list = list]
    BY <1>4 DEF DownloadList
  <2>3. ASSUME NEW list, b' = [b EXCEPT !.pc = "saving", !.list = list]
        PROVE  b'.pc = "saving" /\ b'.o = b.o /\ b'.todo = b.todo /\ b'.iid = b.iid /\ b'.ctr = b.ctr
    BY <2>3 DEF CommandInv
  <2> QED
    BY <2>1, <2>2, <2>3, <1>1, <1>2
<1>5. CASE DownloadStep
  <2>1. UNCHANGED <<st, cmds, last, b>> /\ b.pc \in {"saving", "authsaving"}
    BY <1>5 DEF DownloadStep, storeVars, ctlVars
  <2> QED
    BY <2>1, <1>1, <1>2
<1>6. CASE DownloadedList
  <2>1. UNCHANGED <<cmds, last>> /\ b.pc = "saving" /\ st' = Stored
    BY <1>6 DEF DownloadedList
  <2>2. Deferred(FALSE) \/ b' = [b EXCEPT !.pc = "auth"]
    BY <1>6 DEF DownloadedList
  <2>3. ASSUME b' = [b EXCEPT !.pc = "auth"]
        PROVE  b'.pc = "auth" /\ b'.o = b.o /\ b'.todo = b.todo /\ b'.iid = b.iid /\ b'.ctr = b.ctr
    BY <2>3 DEF CommandInv
  <2>4. Still
    BY <2>1, <1>3, StoredStore DEF StoreInv
  <2> QED
    BY <2>1, <2>2, <2>3, <2>4, <1>1
<1>7. CASE DownloadWithAuth
  <2>1. UNCHANGED <<st, cmds, last>> /\ b.pc = "auth"
    BY <1>7 DEF DownloadWithAuth, storeVars
  <2>2. \/ Deferred(FALSE) \/ b' = [b EXCEPT !.pc = "config"]
        \/ \E w : b' = [b EXCEPT !.pc = "authsaving", !.list = w]
    BY <1>7 DEF DownloadWithAuth
  <2>3. ASSUME NEW w, b' = [b EXCEPT !.pc = "authsaving", !.list = w]
        PROVE  b'.pc = "authsaving" /\ b'.o = b.o /\ b'.todo = b.todo /\ b'.iid = b.iid /\ b'.ctr = b.ctr
    BY <2>3 DEF CommandInv
  <2>4. ASSUME b' = [b EXCEPT !.pc = "config"]
        PROVE  b'.pc = "config" /\ b'.o = b.o /\ b'.todo = b.todo /\ b'.iid = b.iid /\ b'.ctr = b.ctr
    BY <2>4 DEF CommandInv
  <2> QED
    BY <2>1, <2>2, <2>3, <2>4, <1>1, <1>2
<1>8. CASE DownloadedWithAuth
  <2>1. cmds' = cmds /\ b.pc = "authsaving" /\ st' = Stored
    BY <1>8 DEF DownloadedWithAuth
  <2>2. Deferred(FALSE) \/ b' = [b EXCEPT !.pc = "config"]
    BY <1>8 DEF DownloadedWithAuth
  <2>3. ASSUME b' = [b EXCEPT !.pc = "config"]
        PROVE  b'.pc = "config" /\ b'.o = b.o /\ b'.todo = b.todo /\ b'.iid = b.iid /\ b'.ctr = b.ctr
    BY <2>3 DEF CommandInv
  <2>4. Still
    BY <2>1, <1>3, StoredStore DEF StoreInv
  <2>5. last'.name = last.name /\ last'.plats = last.plats /\ last'.made = last.made
    BY <1>8 DEF DownloadedWithAuth, CommandInv
  <2> QED
    BY <2>1, <2>2, <2>3, <2>4, <2>5, <1>1
<1>9. CASE UpdateAnnotations
  <2>1. UNCHANGED <<cmds, last>> /\ b.pc = "config"
    BY <1>9 DEF UpdateAnnotations
  <2>2. Deferred(FALSE) \/ b' = [b EXCEPT !.pc = "commit"]
    BY <1>9 DEF UpdateAnnotations
  <2>3. ASSUME b' = [b EXCEPT !.pc = "commit"]
        PROVE  b'.pc = "commit" /\ b'.o = b.o /\ b'.todo = b.todo /\ b'.iid = b.iid /\ b'.ctr = b.ctr
    BY <2>3 DEF CommandInv
  <2>4. st' = st \/ st' = Config(st, b.ctr, b.list)
    BY <1>9 DEF UpdateAnnotations
  <2>5. Still
    BY <2>1, <2>4, <1>2, <1>3, ConfigStore DEF StoreInv
  <2> QED
    BY <2>1, <2>2, <2>3, <2>5, <1>1
<1> QED
  BY <1>4, <1>5, <1>6, <1>7, <1>8, <1>9

\* TaskInv within a platform.
LEMMA TaskGoes ==
  ASSUME TaskInv, Goes
  PROVE  TaskInv' /\ Done' = Done /\ TempTag' = TempTag /\ Plat' = Plat /\ Multi(b.o)' = Multi(b.o)
BY DEF TaskInv, Goes, Done, TempTag, Plat, Multi

LEMMA ListGoes ==
  ASSUME TaskInv, Goes, StoreOK(st'), b'.pc \in EndPCs => ~b'.ok,
         Multi(b.o) => Building(st', b.o, Done)
  PROVE  ListInv'
<1>1. Done' = Done /\ b'.o = b.o /\ (Multi(b.o)' <=> Multi(b.o))
  BY TaskGoes DEF Goes
<1>2. Multi(b.o) => Failing(st', b.o)
  BY BuildingMayFail
<1> QED
  BY <1>1, <1>2 DEF ListInv

LEMMA StillBuilding ==
  ASSUME ListInv, b.pc \in BuildPCs \ EndPCs, Still, Multi(b.o)
  PROVE  Building(st', b.o, Done)
<1>1. Building(st, b.o, Done)
  BY DEF ListInv
<1>2. \A l : ListAt(st, l, b.o.tag) => ContainersOf(st', l) = {}
  BY DEF ListAt, ContainersOf, Still
<1>3. st'.img = st.img
  BY DEF Still
<1> QED
  BY <1>1, <1>2, <1>3, SameImagesBuild
------------------------------------------------------------------------------
(* What each step does to the list.                                        *)

BuildInv == CommandInv /\ StoreInv /\ TaskInv /\ PlaceInv /\ ListInv
MadeInv == TaskInv /\ PlaceInv /\ ListInv

LEMMA QuietList ==
  ASSUME BuildInv, StoreInv', ReadKubefile \/ ParsedKubefile
  PROVE  MadeInv'
<1>1. Goes /\ Still /\ b.pc \in {"read", "parse"} /\ b'.pc \in {"parse", "build", "over"} /\ (b'.pc = "over" => ~b'.ok)
  BY QuietGoes DEF BuildInv
<1>2. TaskInv'
  BY <1>1, TaskGoes DEF BuildInv
<1>3. PlaceInv'
  BY <1>1 DEF PlaceInv, TempPCs
<1>4. Multi(b.o) => Building(st', b.o, Done)
  BY <1>1, StillBuilding DEF BuildInv, BuildPCs, EndPCs
<1>5. ListInv'
  BY <1>1, <1>4, ListGoes DEF BuildInv, StoreInv, EndPCs
<1> QED
  BY <1>2, <1>3, <1>5 DEF MadeInv

LEMMA WorkList ==
  ASSUME BuildInv, StoreInv',
         DownloadList \/ DownloadStep \/ DownloadedList \/ DownloadWithAuth \/ DownloadedWithAuth \/ UpdateAnnotations
  PROVE  MadeInv'
<1>1. Goes /\ Still /\ Works
  BY WorkGoes DEF BuildInv
<1>2. TaskInv' /\ TempTag' = TempTag /\ Plat' = Plat /\ (Multi(b.o)' <=> Multi(b.o))
  BY <1>1, TaskGoes DEF BuildInv
<1>3. b.pc \in TempPCs /\ b.pc \in ContainerPCs /\ b.pc \in BuildPCs \ EndPCs /\ b.ctr \in DOMAIN st.ctr
  BY <1>1 DEF Works, ContainerPCs, TempPCs, BuildPCs, EndPCs, BuildInv, StoreInv
<1>4. ASSUME Multi(b.o) PROVE Temporary(st, b.iid, TempTag, Plat) /\ st.ctr[b.ctr].plat = Plat
  BY <1>3, <1>4 DEF BuildInv, PlaceInv
<1>5. PlaceInv'
  BY <1>1, <1>2, <1>3, <1>4 DEF PlaceInv, Temporary, Still, Works
<1>6. Multi(b.o) => Building(st', b.o, Done)
  BY <1>1, <1>3, StillBuilding DEF BuildInv
<1>7. ListInv'
  BY <1>1, <1>6, ListGoes DEF BuildInv, StoreInv, EndPCs, Works, ContainerPCs
<1> QED
  BY <1>2, <1>5, <1>7 DEF MadeInv

\* FROM may pull the base by the name the build has.
LEMMA PullList ==
  ASSUME NEW s, StoreOK(s), NEW n, NEW rem, HeldOK(s, rem), NEW plat, NEW o, NEW d, Building(s, o, d)
  PROVE  Building(Pull(s, n, rem, plat).st, o, d)
<1> DEFINE t == Pull(s, n, rem, plat).st
<1>1. PulledInto(s, t, n, rem)
  BY PullCarries
<1> HIDE DEF t
<1>2. ASSUME NEW x \in DOMAIN rem, Carry(s, t, {n}, x), t.ctr = s.ctr,
             x \in DOMAIN t.img, n \in t.img[x].names, t.img[x].kind # "list"
      PROVE  Building(t, o, d)
  <2>1. CASE n = o.tag
    BY <1>2, <2>1 DEF Stolen, Building
  <2>2. CASE n # o.tag
    <3>1. Plain(s, x)
      BY DEF HeldOK
    <3>2. \A l : ListAt(s, l, o.tag) => l # x
      BY <3>1 DEF Plain, IsManifestList, ListAt
    <3> DEFINE N == {n}
    <3>3. o.tag \notin N /\ Carry(s, t, N, x)
      BY <1>2, <2>2
    <3> HIDE DEF N
    <3> QED
      BY <1>2, <3>2, <3>3, CarryBuilds
  <2> QED
    BY <2>1, <2>2
<1>3. Building(t, o, d)
  BY <1>1, <1>2 DEF PulledInto
<1> QED
  BY <1>3 DEF t

LEMMA PulledBuilding ==
  ASSUME StoreInv, NEW n, NEW plat, st' = st \/ st' = Pull(st, n, Known(n), plat).st,
         Multi(b.o) => Building(st, b.o, Done)
  PROVE  Multi(b.o) => Building(st', b.o, Done)
<1> DEFINE o == b.o
           d == Done
           known == Known(n)
<1>1. HeldOK(st, known) /\ StoreOK(st)
  <2>1. HeldOK(st, <<>>)
    BY DEF HeldOK, ImagesOK
  <2> QED
    BY <2>1 DEF StoreInv, Known
<1>2. (st' = st \/ st' = Pull(st, n, known, plat).st) /\ (Multi(o) => Building(st, o, d))
  OBVIOUS
<1> HIDE DEF o, d, known
<1>3. Building(st, o, d) => Building(Pull(st, n, known, plat).st, o, d)
  BY <1>1, PullList
<1>4. Multi(o) => Building(st', o, d)
  BY <1>2, <1>3
<1> QED
  BY <1>4 DEF o, d

LEMMA ParseList ==
  ASSUME BuildInv, StoreInv', ParseKubefile
  PROVE  MadeInv'
<1> DEFINE name == <<Head(ast).args[1]>>
           known == Known(name)
           plat == PlatformOr(FlagPlatform(Head(ast).flag), HostPlatform)
<1>1. UNCHANGED <<b, cmds, last>> /\ b.pc = "parse" /\ (st' = st \/ st' = Pull(st, name, known, plat).st)
  BY DEF ParseKubefile, ctlVars
<1>3. Goes
  BY <1>1 DEF Goes, BuildPCs, TempPCs
<1>4. Multi(b.o) => Building(st, b.o, Done)
  BY <1>1 DEF BuildInv, ListInv, BuildPCs, EndPCs
<1> HIDE DEF known, name, plat
<1>5. Multi(b.o) => Building(st', b.o, Done)
  BY <1>1, <1>4, PulledBuilding DEF BuildInv, known
<1>6. ListInv'
  BY <1>1, <1>3, <1>5, ListGoes DEF BuildInv, StoreInv, EndPCs
<1>7. TaskInv' /\ PlaceInv'
  BY <1>1, <1>3, TaskGoes DEF BuildInv, PlaceInv, TempPCs
<1> QED
  BY <1>6, <1>7 DEF MadeInv

LEMMA BaseGoes ==
  ASSUME CommandInv, PullBase
  PROVE  Goes /\ b.pc = "build" /\ b'.pc \in {"build", "over"} /\ (b'.pc = "over" => ~b'.ok)
<1>1. b.pc = "build" /\ UNCHANGED <<cmds, last>> /\ (b' = b \/ Over(FALSE))
  BY BaseCases DEF BaseFound
<1>2. CASE b' = b
  BY <1>1, <1>2 DEF Goes, BuildPCs, TempPCs
<1>3. CASE Over(FALSE)
  BY <1>1, <1>3, OverGoes DEF Goes, BuildPCs, TempPCs
<1> QED
  BY <1>1, <1>2, <1>3

LEMMA BaseList ==
  ASSUME BuildInv, StoreInv', PullBase
  PROVE  MadeInv'
<1> DEFINE name == <<res.from[1]>>
           plat == PlatformOr(res.from[2], Plat)
<1>1. Goes /\ b.pc = "build" /\ b'.pc \in {"build", "over"} /\ (b'.pc = "over" => ~b'.ok)
  BY BaseGoes DEF BuildInv
<1>2. st' = st \/ st' = Pull(st, name, Known(name), plat).st
  BY BaseCases
<1>3. Multi(b.o) => Building(st, b.o, Done)
  BY <1>1 DEF BuildInv, ListInv, BuildPCs, EndPCs
<1> HIDE DEF name, plat
<1>4. Multi(b.o) => Building(st', b.o, Done)
  BY <1>2, <1>3, PulledBuilding DEF BuildInv
<1>5. ListInv'
  BY <1>1, <1>4, ListGoes DEF BuildInv, StoreInv, EndPCs
<1>6. TaskInv' /\ PlaceInv'
  BY <1>1, TaskGoes DEF BuildInv, PlaceInv, TempPCs
<1> QED
  BY <1>5, <1>6 DEF MadeInv

\* A new image for the platform joins the list.
Joined(t, a, o, d) ==
  /\ Building(t, o, d)
  /\ a.ok => Good(a.st, o, d + 1) /\ SameButLists(t, a.st)
  /\ ~a.ok => a.st = t

LEMMA NewJoins ==
  ASSUME NEW s, StoreOK(s), NEW t, StoreOK(t), NEW N, NEW i, Carry(s, t, N, i), t.ctr = s.ctr, i \notin DOMAIN s.img,
         NEW o, NEW d \in Nat, o.tag \notin N, Building(s, o, d), Joins(t, i, o, d)
  PROVE  Joined(t, AddToManifest(t, o.tag, i), o, d)
<1> USE DEF Joined
<1>1. \A l : ListAt(s, l, o.tag) => l # i
  BY DEF ListAt
<1>2. Building(t, o, d)
  BY <1>1, CarryBuilds
<1>3. CASE Stolen(t, o.tag)
  BY <1>2, <1>3, AddFails
<1>4. CASE Good(s, o, d)
  <2>1. PICK l : ListAt(s, l, o.tag) /\ Holds(s, l, o, d)
    BY <1>4 DEF Good
  <2>2. ListAt(t, l, o.tag) /\ t.img[l].inst = s.img[l].inst
    BY <2>1, <1>1, CarryKeepsList
  <2>3. Holds(t, l, o, d)
    BY <2>1, <2>2, CarryKeepsHeld DEF ListAt
  <2>4. i \notin t.img[l].inst
    BY <2>1, <2>2 DEF Holds
  <2>5. AddToManifest(t, o.tag, i).ok /\ Good(AddToManifest(t, o.tag, i).st, o, d + 1) /\ SameButLists(t, AddToManifest(t, o.tag, i).st)
    BY <2>2, <2>3, <2>4, AddJoins
  <2> QED
    BY <1>2, <2>5
<1>5. CASE Stolen(s, o.tag)
  <2>1. Stolen(t, o.tag)
    BY <1>5 DEF Stolen, Carry, Same
  <2> QED
    BY <2>1, <1>3
<1> QED
  BY <1>4, <1>5 DEF Building
LEMMA ListEnds ==
  ASSUME TaskInv, Goes, b'.pc \in EndPCs, b'.ok, Multi(b.o) => Good(st', b.o, Done + 1)
  PROVE  ListInv'
<1>1. Done' = Done /\ b'.o = b.o /\ (Multi(b.o)' <=> Multi(b.o))
  BY TaskGoes DEF Goes
<1> QED
  BY <1>1 DEF ListInv

\* A build for a list in the lite mode: nothing is taken from the cache.
LEMMA LiteJoins ==
  ASSUME NEW s, StoreOK(s), NEW key, NEW ext, NEW files, NEW useCache, ~useCache,
         AppsOK(ext.apps), Launchable(ext), key.plat # "",
         NEW r \in Build(s, key, NoName, ext, files, useCache),
         NEW o, o.lite, NEW d \in Nat, key.plat = o.plats[d + 1], o.tag # NoName, Building(s, o, d)
  PROVE  LET a == AddToManifest(r.st, o.tag, r.id)
         IN IF a.ok THEN Good(a.st, o, d + 1) ELSE Building(a.st, o, d)
<1> DEFINE t == r.st
           i == r.id
           N == {NoName}
           a == AddToManifest(t, o.tag, i)
<1>1. Becomes(s, t, N)
  BY BuildBecomes
<1>2. /\ Carry(s, t, N, i) /\ t.ctr = s.ctr /\ i \notin DOMAIN s.img /\ DOMAIN t.img = DOMAIN s.img \cup {i}
      /\ t.img[i].plat = key.plat /\ t.img[i].kind = "image"
  <2> DEFINE name == NoName
  <2>1. r \in Build(s, key, name, ext, files, useCache) /\ N = {name}
    OBVIOUS
  <2> HIDE DEF name, N
  <2>2. Built(s, r, key, name, useCache)
    BY <2>1, BuildCarries
  <2> QED
    BY <2>1, <2>2 DEF Built
<1>3. o.tag \notin N
  OBVIOUS
<1> HIDE DEF t, i, N
<1>4. Joins(t, i, o, d)
  BY <1>2 DEF Joins
<1>5. Joined(t, a, o, d)
  BY <1>1, <1>2, <1>3, <1>4, NewJoins DEF Becomes
<1> HIDE DEF a
<1>6. IF a.ok THEN Good(a.st, o, d + 1) ELSE Building(a.st, o, d)
  BY <1>5 DEF Joined
<1> QED
  BY <1>6 DEF a, t, i

LEMMA LiteList ==
  ASSUME BuildInv, StoreInv', BuildLite
  PROVE  MadeInv'
<1> DEFINE ext == Extension(res)
           added(r) == IF Multi(b.o) THEN AddToManifest(r.st, b.o.tag, r.id) ELSE r
           use == ~Multi(b.o) /\ b.o.cache
           name == IF Multi(b.o) THEN NoName ELSE b.o.tag
<1>1. /\ b.pc = "build" /\ b.o.lite /\ UNCHANGED <<cmds, last>>
      /\ \/ \E r \in Build(st, Key, name, ext, res.files, use) : st' = added(r).st /\ Over(added(r).ok)
         \/ Over(FALSE) /\ st' = st
  BY DEF BuildLite, Manifest
<1>2. ASSUME NEW ok, Over(ok)
      PROVE  Goes /\ b'.pc = "over" /\ b'.ok = ok
  BY <1>1, <1>2, OverGoes DEF Goes, BuildPCs, TempPCs, BuildInv
<1>3. b.pc \in BuildPCs /\ b.pc \notin EndPCs
  BY <1>1 DEF BuildPCs, EndPCs
<1>4. StoreOK(st) /\ StoreOK(st') /\ Launchable(ext) /\ AppsOK(ext.apps)
  BY <1>1 DEF BuildInv, StoreInv, ResOK, Extension
<1>5. Multi(b.o) => Building(st, b.o, Done)
  BY <1>3 DEF BuildInv, ListInv
<1>6. /\ Done \in Nat /\ Key.plat = b.o.plats[Done + 1] /\ Key.plat # "" /\ b.o.tag # NoName
  BY <1>3, TaskPlat DEF BuildInv, Key
<1>7. ASSUME Goes, b'.pc = "over" PROVE TaskInv' /\ PlaceInv'
  BY <1>7, TaskGoes DEF BuildInv, PlaceInv, TempPCs
<1>8. CASE Over(FALSE) /\ st' = st
  <2>1. Multi(b.o) => Building(st', b.o, Done)
    BY <1>5, <1>8
  <2>2. Goes /\ b'.pc = "over" /\ ~b'.ok
    BY <1>2, <1>8
  <2>3. ListInv'
    BY <1>4, <2>1, <2>2, ListGoes DEF BuildInv
  <2> QED
    BY <2>2, <2>3, <1>7 DEF MadeInv
<1> HIDE DEF ext
<1>9. ASSUME NEW r \in Build(st, Key, name, ext, res.files, use), st' = added(r).st, Over(added(r).ok)
      PROVE  MadeInv'
  <2> DEFINE ok == added(r).ok
  <2>1. Goes /\ b'.pc = "over" /\ b'.ok = ok
    BY <1>2, <1>9
  <2>2. TaskInv' /\ PlaceInv'
    BY <2>1, <1>7
  <2>3. Multi(b.o) => IF ok THEN Good(st', b.o, Done + 1) ELSE Building(st', b.o, Done)
    <3>1. SUFFICES ASSUME Multi(b.o) PROVE IF ok THEN Good(st', b.o, Done + 1) ELSE Building(st', b.o, Done)
      OBVIOUS
    <3> DEFINE key == Key
               files == res.files
               o == b.o
               d == Done
               a == AddToManifest(r.st, o.tag, r.id)
    <3>2. r \in Build(st, key, NoName, ext, files, use) /\ ~use /\ st' = a.st /\ ok = a.ok
      BY <1>9, <3>1
    <3>3. o.lite /\ d \in Nat /\ key.plat = o.plats[d + 1] /\ key.plat # "" /\ o.tag # NoName /\ Building(st, o, d)
      BY <1>1, <1>5, <1>6, <3>1
    <3> HIDE DEF key, files, o, d, use, ok
    <3>4. IF a.ok THEN Good(a.st, o, d + 1) ELSE Building(a.st, o, d)
      BY <1>4, <3>2, <3>3, LiteJoins
    <3> HIDE DEF a
    <3>5. IF ok THEN Good(st', o, d + 1) ELSE Building(st', o, d)
      BY <3>2, <3>4
    <3> QED
      BY <3>5 DEF o, d
  <2> HIDE DEF ok
  <2>4. ListInv'
    <3>1. CASE ok
      BY <2>1, <2>3, <3>1, ListEnds DEF BuildInv, EndPCs
    <3>2. CASE ~ok
      BY <2>1, <2>3, <3>2, <1>4, ListGoes DEF BuildInv
    <3> QED
      BY <3>1, <3>2
  <2> QED
    BY <2>2, <2>4 DEF MadeInv
<1> QED
  BY <1>1, <1>8, <1>9
\* The temporary image is not the list: a list was not built.
LEMMA TempNotList ==
  ASSUME NEW s, NEW l, NEW tag, ListAt(s, l, tag), NEW i, NEW n, NEW p, Temporary(s, i, n, p)
  PROVE  l # i
BY DEF ListAt, Temporary

LEMMA TempBuilds ==
  ASSUME NEW s, StoreOK(s), NEW key, NEW name, NEW ext, NEW files, NEW useCache,
         AppsOK(ext.apps), Launchable(ext), key.plat # "",
         NEW r \in Build(s, key, name, ext, files, useCache), name # NoName,
         NEW o, NEW d, o.tag # name, Building(s, o, d)
  PROVE  Building(r.st, o, d) /\ Temporary(r.st, r.id, name, key.plat)
<1> DEFINE N == {name}
           t == r.st
           i == r.id
<1>1. Built(s, r, key, name, useCache)
  BY BuildCarries
<1>2. /\ Carry(s, t, N, i) /\ t.ctr = s.ctr /\ i \in DOMAIN t.img
      /\ t.img[i].plat = key.plat /\ t.img[i].key = key
  BY <1>1 DEF Built
<1>3. name \in t.img[i].names
  BY BuildBecomes
<1>4. o.tag \notin N
  OBVIOUS
<1> HIDE DEF N, t, i
<1>5. Temporary(t, i, name, key.plat)
  BY <1>2, <1>3 DEF Temporary
<1>6. \A l : ListAt(s, l, o.tag) => l # i
  BY <1>2 DEF ListAt, Carry, Same
<1>7. Building(t, o, d)
  BY <1>2, <1>4, <1>6, CarryBuilds
<1> QED
  BY <1>5, <1>7 DEF t, i

LEMMA TempList ==
  ASSUME BuildInv, StoreInv', BuildTemp
  PROVE  MadeInv'
<1> DEFINE ext == Extension(res)
<1>1. /\ b.pc = "build" /\ ~b.o.lite /\ UNCHANGED <<cmds, last>>
      /\ \/ \E r \in Build(st, Key, TempTag, ext, res.files, b.o.cache) :
              st' = r.st /\ b' = [b EXCEPT !.pc = "container", !.iid = r.id]
         \/ Over(FALSE) /\ st' = st
  BY DEF BuildTemp
<1>3. b.pc \in BuildPCs /\ b.pc \notin EndPCs
  BY <1>1 DEF BuildPCs, EndPCs
<1>4. StoreOK(st) /\ StoreOK(st') /\ Launchable(ext) /\ AppsOK(ext.apps)
  BY <1>1 DEF BuildInv, StoreInv, ResOK, Extension
<1>5. Multi(b.o) => Building(st, b.o, Done)
  BY <1>3 DEF BuildInv, ListInv
<1>6. Key.plat = Plat /\ Plat # "" /\ ~IsTemp(b.o.tag)
  BY <1>3, TaskPlat DEF BuildInv, Key
<1>7. TempTag # NoName /\ IsTemp(TempTag)
  BY DEF TempTag, NoName, IsTemp
<1>10. TempTag # b.o.tag
  BY <1>6, <1>7
<1>8. CASE Over(FALSE) /\ st' = st
  <2>1. Multi(b.o) => Building(st', b.o, Done)
    BY <1>5, <1>8
  <2>2. Goes /\ b'.pc = "over" /\ ~b'.ok
    BY <1>1, <1>8, OverGoes DEF Goes, BuildPCs, TempPCs, BuildInv
  <2>3. ListInv'
    BY <1>4, <2>1, <2>2, ListGoes DEF BuildInv
  <2>4. TaskInv' /\ PlaceInv'
    BY <2>2, TaskGoes DEF BuildInv, PlaceInv, TempPCs
  <2> QED
    BY <2>3, <2>4 DEF MadeInv
<1> HIDE DEF ext
<1>9. ASSUME NEW r \in Build(st, Key, TempTag, ext, res.files, b.o.cache),
             st' = r.st, b' = [b EXCEPT !.pc = "container", !.iid = r.id]
      PROVE  MadeInv'
  <2>1. b'.pc = "container" /\ b'.iid = r.id /\ b'.o = b.o /\ b'.todo = b.todo
    BY <1>9 DEF BuildInv, CommandInv
  <2>2. Goes
    BY <1>1, <2>1 DEF Goes, BuildPCs, TempPCs
  <2>3. TaskInv' /\ TempTag' = TempTag /\ Plat' = Plat /\ (Multi(b.o)' <=> Multi(b.o))
    BY <2>2, TaskGoes DEF BuildInv
  <2>4. Multi(b.o) => Building(st', b.o, Done) /\ Temporary(st', r.id, TempTag, Plat)
    <3>1. SUFFICES ASSUME Multi(b.o) PROVE Building(st', b.o, Done) /\ Temporary(st', r.id, TempTag, Plat)
      OBVIOUS
    <3> DEFINE key == Key
               name == TempTag
               files == res.files
               useCache == b.o.cache
               o == b.o
               d == Done
    <3>2. /\ r \in Build(st, key, name, ext, files, useCache) /\ key.plat # "" /\ key.plat = Plat
          /\ name # NoName /\ o.tag # name /\ Building(st, o, d)
      BY <1>5, <1>6, <1>7, <1>10, <3>1
    <3> HIDE DEF key, name, files, useCache, o, d
    <3>3. Building(r.st, o, d) /\ Temporary(r.st, r.id, name, key.plat)
      BY <1>4, <3>2, TempBuilds
    <3> QED
      BY <3>2, <3>3, <1>9 DEF name, o, d
  <2>5. ListInv'
    BY <2>1, <2>2, <2>4, <1>4, ListGoes DEF BuildInv, EndPCs
  <2>6. PlaceInv'
    BY <2>1, <2>3, <2>4 DEF PlaceInv, ContainerPCs
  <2> QED
    BY <2>3, <2>5, <2>6 DEF MadeInv
<1> QED
  BY <1>1, <1>8, <1>9

LEMMA ContainerList ==
  ASSUME BuildInv, StoreInv', CreateContainer
  PROVE  MadeInv'
<1>1. /\ StoreOK(st') /\ st'.img = st.img
      /\ b'.iid = b.iid
      /\ \A c \in DOMAIN st'.ctr : st'.ctr[c].image = b.iid \/ (c \in DOMAIN st.ctr /\ st'.ctr[c] = st.ctr[c])
      /\ b'.pc = "list" => st'.ctr[b'.ctr].plat = st.img[b.iid].plat
  BY CreateContainerStore DEF BuildInv
<1>2. /\ b.pc = "container" /\ UNCHANGED <<cmds, last>>
      /\ \E ok, id : b' = [b EXCEPT !.pc = IF ok THEN "list" ELSE "deferred", !.ctr = id, !.ok = ok]
  BY DEF CreateContainer
<1>3. /\ b'.pc \in {"list", "deferred"} /\ (b'.pc = "deferred" => ~b'.ok)
      /\ b'.o = b.o /\ b'.todo = b.todo
  BY <1>2 DEF BuildInv, CommandInv
<1>4. Goes
  BY <1>2, <1>3 DEF Goes, BuildPCs, TempPCs
<1>5. TaskInv' /\ TempTag' = TempTag /\ Plat' = Plat /\ (Multi(b.o)' <=> Multi(b.o))
  BY <1>4, TaskGoes DEF BuildInv
<1>6. Multi(b.o) => Temporary(st, b.iid, TempTag, Plat) /\ Building(st, b.o, Done)
  BY <1>2 DEF BuildInv, PlaceInv, ListInv, BuildPCs, TempPCs, EndPCs
<1>7. PlaceInv'
  BY <1>1, <1>3, <1>5, <1>6 DEF PlaceInv, Temporary, ContainerPCs
<1>8. Multi(b.o) => Building(st', b.o, Done)
  <2>1. SUFFICES ASSUME Multi(b.o) PROVE Building(st', b.o, Done)
    OBVIOUS
  <2>2. ASSUME NEW l, ListAt(st, l, b.o.tag) PROVE ContainersOf(st', l) = {}
    <3>1. l # b.iid
      BY <2>1, <2>2, <1>6, TempNotList
    <3> QED
      BY <3>1, <2>2, <1>1 DEF ListAt, ContainersOf
  <2> DEFINE o == b.o
             d == Done
  <2>3. Building(st, o, d) /\ \A l : ListAt(st, l, o.tag) => ContainersOf(st', l) = {}
    BY <2>1, <2>2, <1>6
  <2> HIDE DEF o, d
  <2>4. Building(st', o, d)
    BY <2>3, <1>1, SameImagesBuild
  <2> QED
    BY <2>4 DEF o, d
<1>9. ListInv'
  BY <1>1, <1>3, <1>4, <1>8, ListGoes DEF BuildInv, EndPCs
<1> QED
  BY <1>5, <1>7, <1>9 DEF MadeInv
------------------------------------------------------------------------------
(* Commit.                                                                 *)

\* The images of s are in t, with their names.
Remains(s, t) ==
  \A j \in DOMAIN s.img :
    /\ j \in DOMAIN t.img /\ s.img[j].names \subseteq t.img[j].names
    /\ t.img[j].plat = s.img[j].plat /\ t.img[j].key = s.img[j].key

LEMMA GoodFewer ==
  ASSUME NEW s, NEW t, t.img = s.img, ContainersFrom(s, t), NEW o, NEW d, Good(s, o, d)
  PROVE  Good(t, o, d)
<1>1. PICK l : ListAt(s, l, o.tag) /\ Holds(s, l, o, d)
  BY DEF Good
<1>2. ListAt(t, l, o.tag)
  BY <1>1 DEF ListAt, ContainersOf, ContainersFrom
<1>3. Holds(t, l, o, d)
  BY <1>1 DEF Holds, Plats
<1> QED
  BY <1>2, <1>3 DEF Good

Committed(s, r, o, d) ==
  /\ IF r.ok THEN Good(r.st, o, d + 1) ELSE Failing(r.st, o)
  /\ Remains(s, r.st)

LEMMA CommitJoins ==
  ASSUME NEW s, StoreOK(s), NEW c \in DOMAIN s.ctr, NEW o, NEW d \in Nat, o.tag # NoName,
         s.ctr[c].plat = o.plats[d + 1], Building(s, o, d),
         NEW r \in Commit(s, c, o.tag, o.tag)
  PROVE  Committed(s, r, o, d)
<1> DEFINE ctr == s.ctr[c]
           i == s.next
           none == {}
           img == [names |-> none, kind |-> "image", plat |-> ctr.plat, inst |-> {},
                   key |-> [NoKey EXCEPT !.base = s.img[ctr.image].key.base],
                   ext |-> ctr.ext, files |-> ctr.files, listed |-> ctr.listed, saved |-> ctr.saved]
           t == PutImage(s, i, img)
           a == AddToManifest(t, o.tag, i)
<1>1. r \in IF ~a.ok THEN {Ret(t, FALSE, i)} ELSE {Ret(DropContainers(a.st, {c}), TRUE, i), Ret(a.st, FALSE, i)}
  BY DEF Commit
<1>2. ContainerOK(ctr) /\ i \in Nat \ {0} /\ i \notin DOMAIN s.img
  BY NextIsNew DEF StoreOK
<1>3. /\ ImageOK(img) /\ img.names = none /\ img.kind = "image" /\ img.plat = ctr.plat /\ img.key.plat = ""
  BY <1>2 DEF ImageOK, ContainerOK, NoKey
<1>13. img.kind # "list" /\ img.names \subseteq none /\ o.tag \notin none
  BY <1>3
<1> HIDE DEF img, none
<1>4. Becomes(s, t, none)
  BY <1>2, <1>13, <1>3, PutImageBecomes
<1>5. Puts(s, t, none, i, img)
  BY <1>3, <1>13, NewCarries
<1>6. StoreOK(t)
  BY <1>4 DEF Becomes
<1> HIDE DEF t
<1>7. Carry(s, t, none, i) /\ t.ctr = s.ctr /\ Joins(t, i, o, d)
  BY <1>3, <1>5 DEF Puts, Joins
<1> HIDE DEF i
<1>8. Joined(t, a, o, d)
  BY <1>2, <1>6, <1>7, <1>13, NewJoins
<1>9. Remains(s, t)
  BY <1>7 DEF Carry, Same, Remains, none
<1>10. StoreOK(a.st) /\ a.ok \in BOOLEAN
  BY <1>6, AddToManifestBecomes DEF Becomes
<1> HIDE DEF a
<1>11. CASE ~a.ok
  <2>1. r = [st |-> t, ok |-> FALSE, id |-> i]
    BY <1>1, <1>11 DEF Ret
  <2>2. Failing(t, o)
    BY <1>6, <1>8, BuildingMayFail DEF Joined
  <2> QED
    BY <2>1, <2>2, <1>9 DEF Committed
<1>12. CASE a.ok
  <2> DEFINE u == DropContainers(a.st, {c})
  <2>1. Good(a.st, o, d + 1) /\ SameButLists(t, a.st)
    BY <1>8, <1>12 DEF Joined
  <2>2. Remains(s, a.st)
    BY <2>1, <1>9 DEF Remains, SameButLists
  <2>3. u.img = a.st.img /\ ContainersFrom(a.st, u)
    BY <1>10, DropContainersBecomes DEF Becomes
  <2>4. r = [st |-> u, ok |-> TRUE, id |-> i] \/ r = [st |-> a.st, ok |-> FALSE, id |-> i]
    BY <1>1, <1>12 DEF Ret
  <2> HIDE DEF u
  <2> DEFINE e == d + 1
  <2>8. Good(a.st, o, e)
    BY <2>1
  <2> HIDE DEF e
  <2>5. Good(u, o, e) /\ Remains(s, u)
    BY <2>2, <2>3, <2>8, GoodFewer DEF Remains
  <2>6. Failing(a.st, o)
    BY <1>10, <2>8, BuildingMayFail DEF Building
  <2>7. CASE r = [st |-> u, ok |-> TRUE, id |-> i]
    BY <2>5, <2>7 DEF Committed, e
  <2>9. CASE r = [st |-> a.st, ok |-> FALSE, id |-> i]
    BY <2>2, <2>6, <2>9 DEF Committed
  <2> QED
    BY <2>4, <2>7, <2>9
<1> QED
  BY <1>11, <1>12

LEMMA CommitList ==
  ASSUME BuildInv, StoreInv', CommitContainer
  PROVE  MadeInv'
<1>1. /\ b.pc = "commit" /\ UNCHANGED <<cmds, last>>
      /\ \/ \E r \in Commit(st, b.ctr, b.o.tag, Manifest(b.o)) : st' = r.st /\ Deferred(r.ok)
         \/ Deferred(FALSE) /\ st' = st
  BY DEF CommitContainer
<1>2. ASSUME NEW ok, Deferred(ok)
      PROVE  Goes /\ b'.pc = "deferred" /\ b'.ok = ok /\ b'.iid = b.iid
  BY <1>1, <1>2, DeferredGoes DEF Goes, BuildPCs, TempPCs, BuildInv
<1>3. b.pc \in BuildPCs /\ b.pc \notin EndPCs /\ b.pc \in TempPCs /\ b.pc \in ContainerPCs
  BY <1>1 DEF BuildPCs, EndPCs, TempPCs, ContainerPCs
<1>4. StoreOK(st) /\ StoreOK(st') /\ b.ctr \in DOMAIN st.ctr
  BY <1>3 DEF BuildInv, StoreInv
<1>5. Multi(b.o) => /\ Building(st, b.o, Done) /\ Temporary(st, b.iid, TempTag, Plat)
                    /\ st.ctr[b.ctr].plat = Plat
  BY <1>3 DEF BuildInv, ListInv, PlaceInv
<1>6. Done \in Nat /\ Plat = b.o.plats[Done + 1] /\ b.o.tag # NoName
  BY <1>3, TaskPlat DEF BuildInv
<1>7. ASSUME Goes, b'.pc = "deferred", b'.iid = b.iid, Multi(b.o) => Remains(st, st')
      PROVE  TaskInv' /\ PlaceInv'
  <2>1. TaskInv' /\ TempTag' = TempTag /\ Plat' = Plat /\ (Multi(b.o)' <=> Multi(b.o))
    BY <1>7, TaskGoes DEF BuildInv
  <2>2. Multi(b.o) => Temporary(st', b.iid, TempTag, Plat)
    BY <1>5, <1>7 DEF Temporary, Remains
  <2> QED
    BY <2>1, <2>2, <1>7 DEF PlaceInv, ContainerPCs
<1>8. CASE Deferred(FALSE) /\ st' = st
  <2>1. Multi(b.o) => Building(st', b.o, Done)
    BY <1>5, <1>8
  <2>2. Goes /\ b'.pc = "deferred" /\ ~b'.ok /\ b'.iid = b.iid
    BY <1>2, <1>8
  <2>3. ListInv'
    BY <1>4, <2>1, <2>2, ListGoes DEF BuildInv
  <2>4. Remains(st, st')
    BY <1>8 DEF Remains
  <2> QED
    BY <2>2, <2>3, <2>4, <1>7 DEF MadeInv
<1>9. ASSUME NEW r \in Commit(st, b.ctr, b.o.tag, Manifest(b.o)), st' = r.st, Deferred(r.ok)
      PROVE  MadeInv'
  <2>1. Goes /\ b'.pc = "deferred" /\ b'.ok = r.ok /\ b'.iid = b.iid
    BY <1>2, <1>9
  <2>2. Multi(b.o) => Committed(st, r, b.o, Done)
    <3>1. SUFFICES ASSUME Multi(b.o) PROVE Committed(st, r, b.o, Done)
      OBVIOUS
    <3> DEFINE o == b.o
               d == Done
               c == b.ctr
    <3>2. /\ c \in DOMAIN st.ctr /\ d \in Nat /\ o.tag # NoName /\ st.ctr[c].plat = o.plats[d + 1]
          /\ Building(st, o, d) /\ r \in Commit(st, c, o.tag, o.tag)
      BY <1>4, <1>5, <1>6, <1>9, <3>1 DEF Manifest
    <3> HIDE DEF o, d, c
    <3>3. Committed(st, r, o, d)
      BY <1>4, <3>2, CommitJoins
    <3> QED
      BY <3>3 DEF o, d
  <2>3. TaskInv' /\ PlaceInv'
    BY <2>1, <2>2, <1>7, <1>9 DEF Committed
  <2>4. ListInv'
    <3>1. Done' = Done /\ b'.o = b.o /\ (Multi(b.o)' <=> Multi(b.o))
      BY <2>1, TaskGoes DEF Goes, BuildInv
    <3>2. Multi(b.o) => IF b'.ok THEN Good(st', b.o, Done + 1) ELSE Failing(st', b.o)
      BY <2>1, <2>2, <1>9 DEF Committed
    <3> QED
      BY <2>1, <3>1, <3>2 DEF ListInv, EndPCs
  <2> QED
    BY <2>3, <2>4 DEF MadeInv
<1> QED
  BY <1>1, <1>8, <1>9
------------------------------------------------------------------------------
(* The end of a platform and of a build.                                   *)

\* The deferred removal takes the temporary image away and nothing else: by ID
\* first, and then no image is left that has the temporary name.
Without(s, t, i) ==
  /\ DOMAIN t.img = DOMAIN s.img \ {i} /\ \A j \in DOMAIN t.img : t.img[j] = s.img[j]
  /\ ContainersFrom(s, t)

LEMMA IntermediateGone ==
  ASSUME NEW s, StoreOK(s), NEW i \in DOMAIN s.img, NEW n, n \in s.img[i].names
  PROVE  Without(s, RemoveIntermediate(s, i, n), i)
<1> DEFINE u == RemoveImageById(s, i, TRUE).st
<1>1. /\ Becomes(s, u, {}) /\ DOMAIN u.img = DOMAIN s.img \ {i}
      /\ \A j \in DOMAIN u.img : u.img[j] = s.img[j]
  BY RemoveImageByIdBecomes
<1>2. RemoveIntermediate(s, i, n) = RemoveImage(u, n, TRUE).st
  BY DEF RemoveIntermediate
<1> HIDE DEF u
<1>3. StoreOK(u) /\ ContainersFrom(s, u)
  BY <1>1 DEF Becomes
<1>4. \A j \in DOMAIN u.img : n \notin u.img[j].names
  BY <1>1 DEF StoreOK
<1>5. Lookup(u, n) = 0 /\ ~IsManifestList(u, 0)
  BY <1>3, <1>4, LookupFinds DEF Lookup, IsManifestList
<1>6. Resolved(u, n) = 0
  BY <1>5 DEF Resolved, ResolvedFor
<1>7. RemoveImage(u, n, TRUE) = [st |-> u, ok |-> FALSE, id |-> 0]
  BY <1>5, <1>6 DEF RemoveImage, DeleteManifests, Ret
<1> DEFINE x == RemoveImage(u, n, TRUE)
<1>9. x = [st |-> u, ok |-> FALSE, id |-> 0] /\ RemoveIntermediate(s, i, n) = x.st
  BY <1>2, <1>7
<1> HIDE DEF x
<1>8. RemoveIntermediate(s, i, n) = u
  BY <1>9
<1> QED
  BY <1>1, <1>3, <1>8 DEF Without

\* Without an image that is not among its instances a list is what it was.
LEMMA ListWithout ==
  ASSUME NEW s, NEW t, NEW i, Without(s, t, i), NEW l, NEW tag, ListAt(s, l, tag), l # i
  PROVE  ListAt(t, l, tag) /\ t.img[l].inst = s.img[l].inst
BY DEF ListAt, ContainersOf, ContainersFrom, Without

LEMMA HoldsWithout ==
  ASSUME NEW s, NEW t, NEW i, Without(s, t, i), NEW l, NEW o, NEW d, Holds(s, l, o, d), t.img[l].inst = s.img[l].inst, i \notin s.img[l].inst
  PROVE  Holds(t, l, o, d)
<1> DEFINE I == s.img[l].inst
<1>1. /\ I \subseteq DOMAIN s.img /\ IsFiniteSet(I) /\ Cardinality(I) = d /\ t.img[l].inst = I
      /\ Plats(s, I) = First(o.plats, d) /\ (~o.lite => \A k \in I : s.img[k].key.plat = "") /\ i \notin I
  BY DEF Holds
<1> HIDE DEF I
<1>2. I \subseteq DOMAIN t.img /\ \A k \in I : t.img[k] = s.img[k]
  BY <1>1 DEF Without
<1>3. Plats(t, I) = Plats(s, I)
  BY <1>2 DEF Plats
<1> QED
  BY <1>1, <1>2, <1>3 DEF Holds

LEMMA TempGone ==
  ASSUME NEW s, StoreOK(s), NEW i, NEW n, NEW p, Temporary(s, i, n, p), NEW o, ~o.lite
  PROVE  LET t == RemoveIntermediate(s, i, n)
         IN (\A d : Good(s, o, d) => Good(t, o, d)) /\ (Failing(s, o) => Failing(t, o))
<1> DEFINE t == RemoveIntermediate(s, i, n)
<1>1. Without(s, t, i)
  BY IntermediateGone DEF Temporary
<1> HIDE DEF t
<1>2. ASSUME NEW l, ListAt(s, l, o.tag) PROVE ListAt(t, l, o.tag) /\ t.img[l].inst = s.img[l].inst
  <2>1. l # i
    BY <1>2, TempNotList
  <2> QED
    BY <2>1, <1>1, <1>2, ListWithout
<1>3. ASSUME NEW d, Good(s, o, d) PROVE Good(t, o, d)
  <2>1. PICK l : ListAt(s, l, o.tag) /\ Holds(s, l, o, d)
    BY <1>3 DEF Good
  <2>2. ListAt(t, l, o.tag) /\ t.img[l].inst = s.img[l].inst
    BY <2>1, <1>2
  <2>3. i \notin s.img[l].inst
    BY <2>1 DEF Holds, Temporary
  <2>4. Holds(t, l, o, d)
    BY <2>1, <2>2, <2>3, <1>1, HoldsWithout
  <2> QED
    BY <2>2, <2>4 DEF Good
<1>4. ASSUME Failing(s, o) PROVE Failing(t, o)
  <2>1. CASE NoList(s, o.tag)
    BY <2>1, <1>1 DEF NoList, Failing, Without
  <2>2. CASE \E l : ListAt(s, l, o.tag)
    BY <2>2, <1>2 DEF Failing
  <2> QED
    BY <1>4, <2>1, <2>2 DEF Failing
<1> QED
  BY <1>3, <1>4 DEF t

LEMMA DeferredList ==
  ASSUME BuildInv, DeferredCleanup
  PROVE  MadeInv'
<1>1. b.pc = "deferred" /\ UNCHANGED <<cmds, last>> /\ st' = RemoveIntermediate(st, b.iid, TempTag) /\ Over(b.ok)
  BY DEF DeferredCleanup
<1>2. Goes /\ b'.pc = "over" /\ b'.ok = b.ok
  BY <1>1, OverGoes DEF Goes, BuildPCs, TempPCs, BuildInv
<1>3. TaskInv' /\ PlaceInv'
  BY <1>2, TaskGoes DEF BuildInv, PlaceInv, TempPCs
<1>4. b.pc \in BuildPCs /\ b.pc \in EndPCs /\ b.pc \in TempPCs
  BY <1>1 DEF BuildPCs, EndPCs, TempPCs
<1>5. StoreOK(st) /\ ~b.o.lite
  BY <1>4 DEF BuildInv, StoreInv, TaskInv
<1>6. Multi(b.o) => /\ Temporary(st, b.iid, TempTag, Plat)
                    /\ IF b.ok THEN Good(st, b.o, Done + 1) ELSE Failing(st, b.o)
  BY <1>4 DEF BuildInv, PlaceInv, ListInv
<1>7. Multi(b.o) => IF b.ok THEN Good(st', b.o, Done + 1) ELSE Failing(st', b.o)
  <2>1. SUFFICES ASSUME Multi(b.o) PROVE IF b.ok THEN Good(st', b.o, Done + 1) ELSE Failing(st', b.o)
    OBVIOUS
  <2> DEFINE o == b.o
             d == Done + 1
             i == b.iid
             n == TempTag
             t == RemoveIntermediate(st, i, n)
  <2>2. Temporary(st, i, n, Plat) /\ ~o.lite /\ (IF b.ok THEN Good(st, o, d) ELSE Failing(st, o)) /\ st' = t
    BY <2>1, <1>1, <1>5, <1>6
  <2> HIDE DEF o, d, i, n
  <2>3. (\A e : Good(st, o, e) => Good(t, o, e)) /\ (Failing(st, o) => Failing(t, o))
    BY <2>2, <1>5, TempGone
  <2> HIDE DEF t
  <2>4. IF b.ok THEN Good(st', o, d) ELSE Failing(st', o)
    BY <2>2, <2>3
  <2> QED
    BY <2>4 DEF o, d
<1>8. Done' = Done /\ b'.o = b.o /\ (Multi(b.o)' <=> Multi(b.o))
  BY <1>2, TaskGoes DEF Goes, BuildInv
<1>9. ListInv'
  BY <1>2, <1>7, <1>8 DEF ListInv, EndPCs
<1> QED
  BY <1>3, <1>9 DEF MadeInv

\* After a failure the list goes: it has one name and no container.
LEMMA FailedListGoes ==
  ASSUME NEW s, StoreOK(s), NEW o, Failing(s, o)
  PROVE  LET t == DeleteManifests(s, o.tag).st IN ~IsManifestList(t, Lookup(t, o.tag))
<1>1. CASE NoList(s, o.tag)
  <2>1. ~IsManifestList(s, Lookup(s, o.tag))
    BY <1>1, LookupFinds DEF NoList, IsManifestList
  <2>2. DeleteManifests(s, o.tag) = [st |-> s, ok |-> FALSE, id |-> 0]
    BY <2>1 DEF DeleteManifests, Ret
  <2> QED
    BY <2>1, <2>2
<1>2. ASSUME NEW l, ListAt(s, l, o.tag)
      PROVE  LET t == DeleteManifests(s, o.tag).st IN ~IsManifestList(t, Lookup(t, o.tag))
  <2> DEFINE x == DeleteImage(s, l, FALSE)
             t == x.st
  <2>1. Lookup(s, o.tag) = l /\ IsManifestList(s, l)
    BY <1>2, LookupList
  <2>2. Cardinality(s.img[l].names) = 1
    BY <1>2, FS_Singleton DEF ListAt
  <2>3. DeleteManifests(s, o.tag) = x
    BY <2>1, <2>2 DEF DeleteManifests, RemoveByName
  <2>4. x.ok
    BY <1>2 DEF DeleteImage, ListAt, Ret
  <2>5. Becomes(s, t, {}) /\ DOMAIN t.img = DOMAIN s.img \ {l} /\ \A j \in DOMAIN t.img : t.img[j] = s.img[j]
    BY <2>4, DeleteImageBecomes
  <2> HIDE DEF x
  <2>6. StoreOK(t)
    BY <2>5 DEF Becomes
  <2>7. \A j \in DOMAIN t.img : o.tag \notin t.img[j].names
    BY <2>5, <1>2 DEF ListAt, StoreOK
  <2>8. Lookup(t, o.tag) = 0 /\ 0 \notin DOMAIN t.img
    BY <2>6, <2>7, LookupFinds DEF Lookup
  <2> QED
    BY <2>3, <2>8 DEF IsManifestList
<1> QED
  BY <1>1, <1>2 DEF Failing
\* The next platform.
LEMMA TailTask ==
  ASSUME NEW p \in Seq(STRING), NEW q \in Seq(STRING), Len(q) \in 1 .. Len(p), Len(q) > 1,
         \A k \in 1 .. Len(q) : q[k] = p[Len(p) - Len(q) + k]
  PROVE  /\ Tail(q) \in Seq(STRING) /\ Len(Tail(q)) \in 1 .. Len(p) /\ Len(Tail(q)) = Len(q) - 1
         /\ \A k \in 1 .. Len(Tail(q)) : Tail(q)[k] = p[Len(p) - Len(Tail(q)) + k]
<1> DEFINE n == Len(q)
           m == Len(p)
           t == Tail(q)
<1>1. n \in Nat /\ m \in Nat
  OBVIOUS
<1>2. q # <<>>
  OBVIOUS
<1>3. t \in Seq(STRING) /\ Len(t) = n - 1 /\ \A k \in 1 .. n - 1 : t[k] = q[k + 1]
  BY <1>2, <1>1
<1>4. \A k \in 1 .. n : q[k] = p[m - n + k]
  OBVIOUS
<1>7. n \in 1 .. m /\ n > 1
  OBVIOUS
<1> HIDE DEF n, m, t
<1>5. \A k \in 1 .. n - 1 : k + 1 \in 1 .. n /\ m - n + (k + 1) = m - (n - 1) + k
  BY <1>1
<1>6. \A k \in 1 .. n - 1 : t[k] = p[m - (n - 1) + k]
  BY <1>3, <1>4, <1>5
<1>8. n - 1 \in 1 .. m
  BY <1>1, <1>7
<1>9. /\ t \in Seq(STRING) /\ Len(t) \in 1 .. m /\ Len(t) = n - 1
      /\ \A k \in 1 .. Len(t) : t[k] = p[m - Len(t) + k]
  BY <1>3, <1>6, <1>8
<1> QED
  BY <1>9 DEF t, n, m

LEMMA NextPlatformList ==
  ASSUME BuildInv, PlatformOver, b.ok, Len(b.todo) > 1
  PROVE  MadeInv'
<1>1. /\ b.pc = "over" /\ UNCHANGED <<st, last, cmds>>
      /\ b' = [NoCommand EXCEPT !.pc = "read", !.o = b.o, !.todo = Tail(b.todo)]
  BY DEF PlatformOver
<1>2. b'.pc = "read" /\ b'.o = b.o /\ b'.todo = Tail(b.todo)
  BY <1>1 DEF NoCommand
<1>3. b.pc \in BuildPCs /\ b.pc \in EndPCs
  BY <1>1 DEF BuildPCs, EndPCs
<1>4. /\ b.o \in BuildOptions
      /\ last.name = b.o.tag /\ last.plats = b.o.plats /\ (last.made => Multi(b.o))
      /\ b.todo \in Seq(STRING) /\ Len(b.todo) \in 1 .. Len(b.o.plats)
      /\ \A k \in 1 .. Len(b.todo) : b.todo[k] = b.o.plats[Len(b.o.plats) - Len(b.todo) + k]
  BY <1>3 DEF BuildInv, TaskInv
<1>5. b.o.plats \in Seq(STRING)
  BY <1>4, OptionsOK
<1>6. /\ Tail(b.todo) \in Seq(STRING) /\ Len(Tail(b.todo)) \in 1 .. Len(b.o.plats)
      /\ Len(Tail(b.todo)) = Len(b.todo) - 1
      /\ \A k \in 1 .. Len(Tail(b.todo)) : Tail(b.todo)[k] = b.o.plats[Len(b.o.plats) - Len(Tail(b.todo)) + k]
  <2> DEFINE p == b.o.plats
             q == b.todo
  <2>1. /\ p \in Seq(STRING) /\ q \in Seq(STRING) /\ Len(q) \in 1 .. Len(p) /\ Len(q) > 1
        /\ \A k \in 1 .. Len(q) : q[k] = p[Len(p) - Len(q) + k]
    BY <1>4, <1>5
  <2> HIDE DEF p, q
  <2>2. /\ Tail(q) \in Seq(STRING) /\ Len(Tail(q)) \in 1 .. Len(p) /\ Len(Tail(q)) = Len(q) - 1
        /\ \A k \in 1 .. Len(Tail(q)) : Tail(q)[k] = p[Len(p) - Len(Tail(q)) + k]
    BY <2>1, TailTask
  <2> QED
    BY <2>2 DEF p, q
<1>7. Multi(b.o)' <=> Multi(b.o)
  BY <1>2 DEF Multi
<1>8. TaskInv'
  BY <1>1, <1>2, <1>4, <1>6, <1>7 DEF TaskInv, TempPCs
<1>9. PlaceInv'
  BY <1>2 DEF PlaceInv, TempPCs
<1>10. Len(b.o.plats) \in Nat /\ Len(b.todo) \in Nat
  BY <1>3, TaskPlat DEF BuildInv
<1>11. Done' = Done + 1
  <2>1. Done' = Len(b.o.plats) - (Len(b.todo) - 1)
    BY <1>2, <1>6 DEF Done
  <2>2. ASSUME NEW m \in Nat, NEW n \in Nat PROVE m - (n - 1) = m - n + 1
    OBVIOUS
  <2> QED
    BY <2>1, <2>2, <1>10 DEF Done
<1>12. Multi(b.o) => Good(st', b.o, Done')
  BY <1>1, <1>3, <1>11 DEF BuildInv, ListInv
<1>13. ListInv'
  BY <1>2, <1>7, <1>12 DEF ListInv, Building, EndPCs
<1> QED
  BY <1>8, <1>9, <1>13 DEF MadeInv

LEMMA FinishedBuild ==
  ASSUME BuildInv, PlatformOver, Finish(TRUE) \/ Finish(FALSE)
  PROVE  MadeInv' /\ (~b.ok \/ Len(b.todo) <= 1 => ManifestComplete')
<1>1. b.pc = "over" /\ b'.pc = "idle"
  BY DEF PlatformOver, Finish, NoCommand
<1>2. MadeInv'
  BY <1>1 DEF MadeInv, TaskInv, PlaceInv, ListInv, BuildPCs, TempPCs
<1>3. b.pc \in BuildPCs /\ b.pc \in EndPCs
  BY <1>1 DEF BuildPCs, EndPCs
<1>4. /\ last.name = b.o.tag /\ last.plats = b.o.plats /\ (last.made => Multi(b.o)) /\ b.o \in BuildOptions
      /\ Len(b.todo) \in 1 .. Len(b.o.plats)
  BY <1>3 DEF BuildInv, TaskInv
<1>5. StoreOK(st)
  BY DEF BuildInv, StoreInv
<1>6. Multi(b.o) => IF b.ok THEN Good(st, b.o, Done + 1) ELSE Failing(st, b.o)
  BY <1>3 DEF BuildInv, ListInv
<1>7. CASE ~b.ok
  <2>1. last'.ok = FALSE /\ last'.name = last.name /\ last'.made = last.made
    BY <1>7 DEF PlatformOver, Finish, BuildInv, CommandInv
  <2>2. Multi(b.o) => st' = DeleteManifests(st, b.o.tag).st
    BY <1>7 DEF PlatformOver
  <2> DEFINE o == b.o
  <2>3. Multi(o) => Failing(st, o) /\ st' = DeleteManifests(st, o.tag).st
    BY <1>6, <1>7, <2>2
  <2> HIDE DEF o
  <2>4. Multi(o) => ~IsManifestList(st', Lookup(st', o.tag))
    BY <2>3, <1>5, FailedListGoes
  <2>5. last.made => ~IsManifestList(st', Lookup(st', last.name))
    BY <2>4, <1>4 DEF o
  <2>6. ManifestComplete'
    BY <2>1, <2>5 DEF ManifestComplete
  <2> QED
    BY <2>6, <1>2
<1>8. CASE b.ok /\ Len(b.todo) <= 1
  <2>1. last'.name = last.name /\ last'.made = last.made /\ last'.plats = last.plats /\ last'.ok = TRUE
    <3>3. ASSUME NEW n \in Nat, n <= 1 PROVE ~(n > 1)
      BY <3>3
    <3>1. ~(Len(b.todo) > 1)
      BY <3>3, <1>8, <1>3, TaskPlat DEF BuildInv
    <3>2. Finish(TRUE)
      BY <1>8, <3>1 DEF PlatformOver
    <3> QED
      BY <3>2 DEF Finish, BuildInv, CommandInv
  <2>2. st' = st
    BY <1>8 DEF PlatformOver
  <2> DEFINE m == Len(b.o.plats)
  <2>3. Done + 1 = m /\ m \in Nat
    <3>1. Len(b.todo) \in Nat /\ m \in Nat /\ Len(b.todo) \in 1 .. m
      BY <1>3, <1>4, TaskPlat DEF BuildInv
    <3>4. ASSUME NEW n \in Nat, n \in 1 .. m, n <= 1 PROVE n = 1
      BY <3>1, <3>4
    <3>2. Len(b.todo) = 1
      BY <3>1, <3>4, <1>8
    <3>3. m - 1 + 1 = m
      BY <3>1
    <3> QED
      BY <3>1, <3>2, <3>3 DEF Done
  <2>4. ASSUME last.made
        PROVE  /\ IsManifestList(st, Lookup(st, last.name))
               /\ st.img[Lookup(st, last.name)].inst \subseteq DOMAIN st.img
               /\ Cardinality(st.img[Lookup(st, last.name)].inst) = Len(last.plats)
               /\ {st.img[i].plat : i \in st.img[Lookup(st, last.name)].inst} = Range(last.plats)
    <3>1. Good(st, b.o, m)
      BY <2>3, <2>4, <1>4, <1>6, <1>8
    <3>2. PICK l : ListAt(st, l, b.o.tag) /\ Holds(st, l, b.o, m)
      BY <3>1 DEF Good
    <3>3. Lookup(st, last.name) = l /\ IsManifestList(st, l)
      BY <3>2, <1>4, <1>5, LookupList
    <3>4. First(b.o.plats, m) = Range(b.o.plats)
      <4>1. b.o.plats \in Seq(STRING)
        BY <1>4, OptionsOK
      <4>2. DOMAIN b.o.plats = 1 .. m
        BY <4>1
      <4> HIDE DEF m
      <4> QED
        BY <4>2 DEF First, Range
    <3> HIDE DEF m
    <3>5. /\ st.img[l].inst \subseteq DOMAIN st.img /\ Cardinality(st.img[l].inst) = m
          /\ Plats(st, st.img[l].inst) = Range(last.plats)
      BY <3>2, <3>4, <1>4 DEF Holds
    <3>6. {st.img[i].plat : i \in st.img[l].inst} = Range(last.plats)
      BY <3>5 DEF Plats
    <3>7. m = Len(last.plats)
      BY <1>4 DEF m
    <3> QED
      BY <3>3, <3>5, <3>6, <3>7
  <2>5. ManifestComplete'
    <3> DEFINE l == Lookup(st', last'.name)
    <3>1. last'.made => /\ IsManifestList(st', l) /\ st'.img[l].inst \subseteq DOMAIN st'.img
                        /\ Cardinality(st'.img[l].inst) = Len(last'.plats)
                        /\ {st'.img[i].plat : i \in st'.img[l].inst} = Range(last'.plats)
      BY <2>1, <2>2, <2>4
    <3> HIDE DEF l
    <3> QED
      BY <2>1, <3>1 DEF ManifestComplete, l
  <2> QED
    BY <2>5, <1>2
<1> QED
  BY <1>2, <1>7, <1>8
\* A list is made with the first name it is given.
LEMMA NewListGood ==
  ASSUME NEW s, StoreOK(s), NEW o, CreateManifest(s, o.tag).ok
  PROVE  Good(CreateManifest(s, o.tag).st, o, 0)
<1> DEFINE t == CreateManifest(s, o.tag).st
           l == s.next
<1>1. CreateManifest(s, o.tag) = [st |-> PutImage(s, l, NewList(o.tag)), ok |-> TRUE, id |-> l]
  BY DEF CreateManifest, Ret
<1>2. t = PutImage(s, l, NewList(o.tag))
  BY <1>1
<1>3. l \in DOMAIN t.img /\ t.img[l] = NewList(o.tag) /\ t.ctr = s.ctr
  BY <1>2 DEF PutImage, StoreOK
<1> HIDE DEF t
<1>4. /\ t.img[l].kind = "list" /\ t.img[l].names = {o.tag} /\ t.img[l].key.plat = "" /\ t.img[l].inst = {}
  <2>1. ASSUME NEW n PROVE NewList(n).key.plat = "" /\ NewList(n).inst = {}
    BY DEF NewList, NoKey
  <2> QED
    BY <2>1, <1>3, NewListOK
<1>5. ContainersOf(t, l) = {}
  <2>1. ASSUME NEW n \in Nat, n \in 1 .. n - 1 PROVE FALSE
    BY <2>1
  <2>2. \A c \in DOMAIN s.ctr : s.ctr[c].image # l
    BY <2>1 DEF StoreOK
  <2> QED
    BY <2>2, <1>3 DEF ContainersOf
<1>6. ListAt(t, l, o.tag)
  BY <1>3, <1>4, <1>5 DEF ListAt
<1>7. IsFiniteSet({}) /\ Cardinality({}) = 0
  BY FS_EmptySet
<1>8. Plats(t, {}) = {} /\ First(o.plats, 0) = {}
  BY DEF Plats, First
<1>9. Holds(t, l, o, 0)
  BY <1>4, <1>7, <1>8 DEF Holds
<1> QED
  BY <1>6, <1>9 DEF Good, t

LEMMA BuildCmdList ==
  ASSUME CommandInv, StoreInv, NEW o \in BuildOptions, BuildCmd(o)
  PROVE  MadeInv' /\ (last'.over => ~last'.made)
<1> DEFINE m == CreateManifest(st, o.tag)
<1>1. \/ /\ b' = [NoCommand EXCEPT !.pc = "read", !.o = o, !.todo = o.plats]
         /\ last' = [NoLast EXCEPT !.cmd = "build", !.over = FALSE, !.name = o.tag,
                                   !.plats = o.plats, !.made = Multi(o), !.dirs = dirs]
         /\ Multi(o) => m.ok /\ st' = m.st
      \/ b.pc = "idle" /\ b' = b /\ last'.made = FALSE
  BY DEF BuildCmd, NoLast, Idle
<1>2. CASE b.pc = "idle" /\ b' = b /\ last'.made = FALSE
  BY <1>2 DEF MadeInv, TaskInv, PlaceInv, ListInv, BuildPCs, TempPCs
<1>3. CASE /\ b' = [NoCommand EXCEPT !.pc = "read", !.o = o, !.todo = o.plats]
           /\ last' = [NoLast EXCEPT !.cmd = "build", !.over = FALSE, !.name = o.tag,
                                     !.plats = o.plats, !.made = Multi(o), !.dirs = dirs]
           /\ Multi(o) => m.ok /\ st' = m.st
  <2>1. b'.pc = "read" /\ b'.o = o /\ b'.todo = o.plats
    BY <1>3 DEF NoCommand
  <2>2. last'.over = FALSE /\ last'.name = o.tag /\ last'.plats = o.plats /\ (last'.made => Multi(o))
    BY <1>3 DEF NoLast
  <2>3. o.plats \in Seq(STRING) /\ o.plats # <<>>
    BY OptionsOK
  <2> DEFINE p == o.plats
             n == Len(p)
  <2>4. n \in Nat /\ n # 0
    <3>1. ASSUME NEW q \in Seq(STRING), q # <<>> PROVE Len(q) \in Nat /\ Len(q) # 0
      BY <3>1
    <3> QED
      BY <2>3, <3>1
  <2> HIDE DEF n
  <2>5. n \in 1 .. n /\ n - n = 0 /\ \A k \in 1 .. n : n - n + k = k
    BY <2>4
  <2>6. Multi(b.o)' <=> Multi(o)
    BY <2>1 DEF Multi
  <2>7. TaskInv'
    <3>1. b'.todo \in Seq(STRING) /\ Len(b'.todo) \in 1 .. Len(b'.o.plats)
      BY <2>1, <2>3, <2>5 DEF n
    <3>2. \A k \in 1 .. n : p[k] = p[n - n + k]
      BY <2>5
    <3>3. \A k \in 1 .. Len(b'.todo) : b'.todo[k] = b'.o.plats[Len(b'.o.plats) - Len(b'.todo) + k]
      BY <2>1, <3>2 DEF n
    <3> QED
      BY <2>1, <2>2, <2>6, <3>1, <3>3 DEF TaskInv, TempPCs
  <2>8. PlaceInv'
    BY <2>1 DEF PlaceInv, TempPCs
  <2>9. Done' = 0
    BY <2>1, <2>5 DEF Done, n
  <2>10. Multi(o) => Good(st', o, 0)
    BY <1>3, NewListGood DEF StoreInv
  <2>11. ListInv'
    BY <2>1, <2>6, <2>9, <2>10 DEF ListInv, Building, EndPCs
  <2> QED
    BY <2>2, <2>7, <2>8, <2>11 DEF MadeInv
<1> QED
  BY <1>1, <1>2, <1>3

\* The last record is one of a build only after a build.
LEMMA ListInductive ==
  ASSUME BuildInv, StoreInv', CommandInv', ManifestComplete, [Next]_vars
  PROVE  MadeInv' /\ ManifestComplete'
<1>0. CommandInv /\ StoreInv
  BY DEF BuildInv
<1>1. ASSUME b'.pc \in BuildPCs PROVE ManifestComplete'
  BY <1>1 DEF CommandInv, Idle, BuildPCs, ManifestComplete
<1>2. ASSUME MadeInv', Goes PROVE MadeInv' /\ ManifestComplete'
  BY <1>1, <1>2 DEF Goes
<1>3. ASSUME b'.pc \notin BuildPCs PROVE MadeInv'
  BY <1>3 DEF MadeInv, TaskInv, PlaceInv, ListInv, BuildPCs, TempPCs
<1>4. ASSUME last'.cmd # "build" PROVE ManifestComplete'
  BY <1>4 DEF ManifestComplete
<1>5. ASSUME NEW ok, Finish(ok) PROVE b'.pc \notin BuildPCs /\ last'.cmd = last.cmd
  BY <1>0, <1>5 DEF Finish, NoCommand, BuildPCs, CommandInv
<1>6. CASE ReadKubefile \/ ParsedKubefile
  BY <1>0, <1>2, <1>6, QuietList, QuietGoes
<1>38. CASE PullBase
  BY <1>0, <1>2, <1>38, BaseList, BaseGoes
<1>7. CASE DownloadList \/ DownloadStep \/ DownloadedList \/ DownloadWithAuth \/ DownloadedWithAuth \/ UpdateAnnotations
  BY <1>0, <1>2, <1>7, WorkList, WorkGoes
<1>8. CASE ParseKubefile
  <2>1. b'.pc \in BuildPCs
    BY <1>8 DEF ParseKubefile, ctlVars, BuildPCs
  <2> QED
    BY <2>1, <1>1, <1>8, ParseList
<1>9. CASE BuildLite
  <2>1. b'.pc \in BuildPCs
    BY <1>0, <1>9, OverGoes DEF BuildLite, BuildPCs
  <2> QED
    BY <2>1, <1>1, <1>9, LiteList
<1>10. CASE BuildTemp
  <2>1. b'.pc \in BuildPCs
    BY <1>0, <1>10, OverGoes DEF BuildTemp, BuildPCs, CommandInv
  <2> QED
    BY <2>1, <1>1, <1>10, TempList
<1>11. CASE CreateContainer
  <2>1. b'.pc \in BuildPCs
    BY <1>0, <1>11, CreateContainerStore DEF BuildPCs
  <2> QED
    BY <2>1, <1>1, <1>11, ContainerList
<1>12. CASE CommitContainer
  <2>1. b'.pc \in BuildPCs
    BY <1>0, <1>12, DeferredGoes DEF CommitContainer, BuildPCs
  <2> QED
    BY <2>1, <1>1, <1>12, CommitList
<1>13. CASE DeferredCleanup
  <2>1. b'.pc \in BuildPCs
    BY <1>0, <1>13, OverGoes DEF DeferredCleanup, BuildPCs
  <2> QED
    BY <2>1, <1>1, <1>13, DeferredList
<1>14. CASE PlatformOver
  <2>1. CASE b.ok /\ Len(b.todo) > 1
    <3>1. b'.pc \in BuildPCs
      BY <1>14, <2>1 DEF PlatformOver, NoCommand, BuildPCs
    <3> QED
      BY <3>1, <1>1, <1>14, <2>1, NextPlatformList
  <2>2. CASE ~b.ok
    BY <1>14, <2>2, FinishedBuild DEF PlatformOver
  <2>3. CASE b.ok /\ ~(Len(b.todo) > 1)
    <3>1. Finish(TRUE)
      BY <1>14, <2>3 DEF PlatformOver
    <3>2. Len(b.todo) \in Nat
      BY <1>14, TaskPlat DEF PlatformOver, BuildPCs, BuildInv
    <3>3. ASSUME NEW n \in Nat, ~(n > 1) PROVE n <= 1
      BY <3>3
    <3>4. Len(b.todo) <= 1
      BY <3>2, <3>3, <2>3
    <3> QED
      BY <3>1, <3>4, <1>14, FinishedBuild
  <2> QED
    BY <2>1, <2>2, <2>3
<1>15. CASE LoadInstance \/ LoadManifest \/ MountPlatform \/ UmountImage
  <2>1. b.pc \in {"load", "mount"} /\ last.cmd # "build"
    BY <1>0, <1>15 DEF LoadInstance, LoadManifest, MountPlatform, UmountImage, CommandInv
  <2>2. \/ \E ok : Finish(ok)
        \/ last' = last /\ b'.pc = b.pc
    BY <1>0, <1>15 DEF LoadInstance, LoadManifest, MountPlatform, UmountImage, CommandInv
  <2>3. b'.pc \notin BuildPCs /\ last'.cmd # "build"
    BY <2>1, <2>2, <1>5 DEF BuildPCs
  <2> QED
    BY <2>3, <1>3, <1>4
<1>16. CASE SimpleCommands
  <2>1. b.pc = "idle" /\ b' = b /\ last'.cmd # "build"
    BY <1>16, SimpleCommandsAreQuick DEF Quick, Idle
  <2> QED
    BY <2>1, <1>3, <1>4 DEF BuildPCs
<1>17. ASSUME NEW o \in BuildOptions, BuildCmd(o) PROVE MadeInv' /\ ManifestComplete'
  BY <1>0, <1>17, BuildCmdList DEF ManifestComplete
<1>18. CASE LoadCmd
  <2>1. b'.pc \in {"idle", "load"} /\ last'.cmd = "load"
    BY <1>18 DEF LoadCmd, NoCommand, NoLast, Idle
  <2> QED
    BY <2>1, <1>3, <1>4 DEF BuildPCs
<1>19. ASSUME NEW n \in ImageNames, MountCmd(n) PROVE MadeInv' /\ ManifestComplete'
  <2>1. b'.pc = "idle" /\ last'.cmd = "mount"
    BY <1>19 DEF MountCmd, NoLast, Idle
  <2> QED
    BY <2>1, <1>3, <1>4 DEF BuildPCs
<1>20. ASSUME NEW n \in ImageNames, NEW plats, MountImageCmd(n, plats) PROVE MadeInv' /\ ManifestComplete'
  <2>1. b'.pc = "mount" /\ last'.cmd = "run"
    BY <1>20 DEF MountImageCmd, NoCommand, NoLast
  <2> QED
    BY <2>1, <1>3, <1>4 DEF BuildPCs
<1>21. CASE Crash
  <2>1. b'.pc = "idle" /\ last'.cmd = "killed"
    BY <1>0, <1>21 DEF Crash, NoCommand, CommandInv
  <2> QED
    BY <2>1, <1>3, <1>4 DEF BuildPCs
<1>22. CASE UNCHANGED vars
  <2>1. UNCHANGED <<st, b, cmds, last>>
    BY <1>22 DEF vars, ctlVars, storeVars
  <2>2. MadeInv' <=> MadeInv
    BY <2>1 DEF MadeInv, TaskInv, PlaceInv, ListInv, Done, TempTag, Plat, Multi
  <2>3. ManifestComplete' <=> ManifestComplete
    BY <2>1 DEF ManifestComplete
  <2> QED
    BY <2>2, <2>3 DEF BuildInv, MadeInv
<1>23. CASE BuildStep
  BY <1>23, <1>38, <1>6, <1>7, <1>8, <1>9, <1>10, <1>11, <1>12, <1>13, <1>14, <1>15 DEF BuildStep
<1>24. CASE Commands
  BY <1>24, <1>16, <1>17, <1>18, <1>19, <1>20, CommandCases
<1> QED
  BY <1>21, <1>22, <1>23, <1>24 DEF Next, Terminated

------------------------------------------------------------------------------
(* The theorems.                                                           *)

LEMMA InitOK ==
  ASSUME Init
  PROVE  CommandInv /\ StoreInv /\ ContextSound /\ LoadRestores /\ TempInv /\ AuthInv
<1>1. CommandInv
  BY DEF Init, CommandInv, NoCommand, NoLast, Idle, BuildPCs
<1>2. b.pc = "idle" /\ last.cmd = "none" /\ last.dirs = 0 /\ dirs = 0
  BY DEF Init, NoCommand, NoLast, ParserInit
<1>3. StoreOK(st) /\ HeldOK(st, tar.insts) /\ \A n \in DOMAIN remote : HeldOK(st, remote[n])
  BY BuildAssumption DEF Init
<1>4. RegistryOK(reg) /\ ResOK(res)
  BY NoResultOK DEF Init, SaveInit, ParserInit, RegistryOK, NoRegistry
<1>5. StoreInv
  BY <1>2, <1>3, <1>4 DEF StoreInv, ContainerPCs
<1>6. ContextSound
  BY <1>2 DEF ContextSound, ContextInv, ContextClean, TempPCs
<1>7. /\ NoTemp(st.img) /\ NoTemp(tar.insts) /\ ~IsTemp(tar.name)
      /\ st.ctr = <<>> /\ crashes = 0
  BY BuildAssumption DEF Init
<1>8. TempInv
  BY <1>2, <1>7 DEF TempInv, TagInv, ArchiveClean, TempPlaced, NoTemp, TempPCs, BuildPCs
<1>9. AuthInv
  <2>1. sv = NoSave /\ gr = <<>>
    BY DEF Init, SaveInit
  <2>2. \A g \in DOMAIN gr : FALSE
    BY <2>1
  <2>3. {"mode", "plat", "images", "ok"} \subseteq DOMAIN sv /\ sv.mode = "none"
    BY <2>1 DEF NoSave
  <2>4. GroupsOK
    BY <2>2, <2>3 DEF GroupsOK
  <2> QED
    BY <1>2, <2>3, <2>4 DEF AuthInv, AuthComplete, BuildPCs
<1> QED
  BY <1>1, <1>2, <1>5, <1>6, <1>8, <1>9 DEF LoadRestores

Inv == CommandInv /\ StoreInv /\ ContextSound /\ LoadRestores /\ TempInv /\ AuthInv

LEMMA BuildInvariant == Spec => []Inv
<1>1. Init => Inv
  BY InitOK DEF Inv
<1>2. Inv /\ [Next]_vars => Inv'
  BY CommandInductive, StoreInductive, ContextInductive, LoadInductive, TempInductive, AuthInductive
     DEF Inv, ContextSound, ContextInv
<1> QED
  BY <1>1, <1>2, PTL DEF Spec

\* Every image there ever is in the store can launch what it says it launches:
\* the parser refuses an application of unknown type without commands, and
\* nothing else makes or changes an extension, whichever platform's base processFrom
\* pulled and the engine's build pulls after it (PullBase).
THEOREM ImagesCanLaunch == Spec => []LaunchableApps
<1>1. Inv => LaunchableApps
  BY IdsArePositive DEF Inv, StoreInv, LaunchableApps, ImageOK
<1> QED
  BY <1>1, BuildInvariant, PTL

\* sealer build leaves the build context as it was when it succeeds, whatever
\* instructions, downloads and platforms it went through.
THEOREM SuccessfulBuildLeavesNoFiles == Spec => []ContextClean
<1>1. Inv => ContextClean
  BY DEF Inv, ContextSound
<1> QED
  BY <1>1, BuildInvariant, PTL

\* sealer load, when it succeeds with the archive of a list, leaves a list of
\* exactly the archive's instances, all in the store, whatever the store held.
THEOREM LoadRestoresSaved == Spec => []LoadRestores
<1>1. Inv => LoadRestores
  BY DEF Inv
<1> QED
  BY <1>1, BuildInvariant, PTL

\* Whatever step of a build fails, the deferred calls of buildSingleSealerImage
\* take the temporary image and every container made from it away, and nothing
\* else ever carries a temporary name, as long as no command was killed.
THEOREM NoBuildLeavesIntermediates == Spec => []NoIntermediateLeft
<1>1. Inv => NoIntermediateLeft
  BY DEF Inv, TempInv, TempPlaced, NoIntermediateLeft, Idle, TempPCs
<1> QED
  BY <1>1, BuildInvariant, PTL

\* When SaveImagesWithAuth succeeds, every image of every section is in the
\* registry directory with its manifest and all blobs of the platform, for every
\* number of goroutines, order of their steps and pattern of lost requests, and
\* also when images of two domains share a tag of the directory.
THEOREM AuthDownloadsAreComplete == Spec => []AuthComplete
<1>1. Inv => AuthComplete
  BY DEF Inv, AuthInv
<1> QED
  BY <1>1, BuildInvariant, PTL

ManifestInv == Inv /\ MadeInv /\ ManifestComplete

\* sealer build for several platforms, when it succeeds, leaves a list with one
\* image for every platform it was asked for, each of its platform and in the
\* store; when it fails it leaves no list of that name.  Whatever the store held,
\* the Kubefile says, the cache answers or the temporary images are named.
THEOREM MultiPlatformBuildsAreComplete == Spec => []ManifestComplete
<1>1. Init => ManifestInv
  <2> SUFFICES ASSUME Init PROVE ManifestInv
    OBVIOUS
  <2>1. b.pc = "idle" /\ last.cmd = "none"
    BY DEF Init, NoCommand, NoLast
  <2>2. MadeInv /\ ManifestComplete
    BY <2>1 DEF MadeInv, TaskInv, PlaceInv, ListInv, ManifestComplete, BuildPCs, TempPCs
  <2> QED
    BY <2>2, InitOK DEF ManifestInv, Inv
<1>2. ManifestInv /\ [Next]_vars => ManifestInv'
  <2> SUFFICES ASSUME ManifestInv, [Next]_vars PROVE ManifestInv'
    OBVIOUS
  <2>1. Inv'
    BY CommandInductive, StoreInductive, ContextInductive, LoadInductive, TempInductive, AuthInductive
       DEF ManifestInv, Inv, ContextSound, ContextInv
  <2>2. BuildInv /\ StoreInv' /\ CommandInv' /\ ManifestComplete
    BY <2>1 DEF ManifestInv, Inv, BuildInv, MadeInv
  <2>3. MadeInv' /\ ManifestComplete'
    BY <2>2, ListInductive
  <2> QED
    BY <2>1, <2>3 DEF ManifestInv
<1>3. ManifestInv => ManifestComplete
  BY DEF ManifestInv
<1> QED
  BY <1>1, <1>2, <1>3, PTL DEF Spec
==============================================================================
