-------------------------- MODULE CommandDocs_proofs --------------------------
(* What is proved of the documents and the applications of ClusterCommands, *)
(* for any hosts, images, Clusterfiles and flags and any number of commands *)
(* and failures: the Clusterfile keeps what was asked for, hooks run in the *)
(* rootfs of their image, and applications are launched as asked.  Facts    *)
(* about lists are proved by induction on their length, that is from the    *)
(* least place where they fail.                                             *)
EXTENDS ClusterCommands_proofs, WellFoundedInduction

------------------------------------------------------------------------------
(* Lists.                                                                  *)

LEMMA Least ==
  ASSUME NEW S, S \subseteq Nat, S # {}
  PROVE  \E m \in S : \A k \in S : m <= k
<1> DEFINE R == OpToRel(<, Nat)
<1>1. IsWellFoundedOn(R, Nat)
  BY NatLessThanWellFounded, Zenon
<1>2. \A k, m \in Nat : <<k, m>> \in R <=> k < m
  BY DEF OpToRel
<1> HIDE DEF R
<1>3. PICK m \in S : \A k \in S : ~ (<<k, m>> \in R)
  BY <1>1, WFMin
<1>4. ASSUME NEW k \in S PROVE m <= k
  <2>1. k \in Nat /\ m \in Nat
    OBVIOUS
  <2>2. ~(k < m)
    BY <1>2, <1>3, <2>1
  <2> QED
    BY <2>1, <2>2
<1> QED
  BY <1>4

LEMMA ListSays ==
  ASSUME NEW s, IsList(s)
  PROVE  \E P : s \in Seq(P)
  BY DEF IsList

LEMMA SeqIsList ==
  ASSUME NEW P, NEW s \in Seq(P)
  PROVE  IsList(s) /\ Len(s) \in Nat
  BY DEF IsList

LEMMA ListsThen ==
  ASSUME NEW s, NEW t, IsList(s), IsList(t)
  PROVE  /\ IsList(s \o t) /\ Len(s) \in Nat /\ Len(t) \in Nat /\ Len(s \o t) = Len(s) + Len(t)
         /\ \A i \in 1..Len(s) : i \in 1..Len(s \o t) /\ (s \o t)[i] = s[i]
         /\ \A i \in 1..Len(t) : Len(s) + i \in 1..Len(s \o t) /\ (s \o t)[Len(s) + i] = t[i]
         /\ \A i \in 1..Len(s \o t) :
              i \in 1..Len(s) \/ (i > Len(s) /\ i - Len(s) \in 1..Len(t) /\ (s \o t)[i] = t[i - Len(s)])
<1>1. PICK P : s \in Seq(P)
  BY ListSays
<1>2. PICK Q : t \in Seq(Q)
  BY ListSays
<1>3. s \in Seq(P \cup Q) /\ t \in Seq(P \cup Q)
  BY <1>1, <1>2
<1>4. s \o t \in Seq(P \cup Q)
  BY <1>3
<1>5. IsList(s \o t)
  BY <1>4, SeqIsList
<1> QED
  BY <1>3, <1>5

\* One step of Only.
Keeps(s, places, f, i) ==
  IF i = 0 THEN <<>> ELSE IF i \in places THEN Append(f[i - 1], s[i]) ELSE f[i - 1]

\* There is a function as Only defines it, up to every place.
LEMMA OnlyExists ==
  ASSUME NEW s, Len(s) \in Nat, NEW places
  PROVE  \E f : f = [i \in 0..Len(s) |-> Keeps(s, places, f, i)]
<1> DEFINE Good(k) == \E f : f = [i \in 0..k |-> Keeps(s, places, f, i)]
           S == {k \in 0..Len(s) : ~Good(k)}
<1>1. SUFFICES ASSUME S # {} PROVE FALSE
  OBVIOUS
<1>2. PICK m \in S : \A k \in S : m <= k
  <2>1. S \subseteq Nat
    OBVIOUS
  <2> HIDE DEF S
  <2> QED
    BY <1>1, <2>1, Least
<1>3. Good(0)
  <2> DEFINE f == [i \in 0..0 |-> <<>>]
  <2>1. f = [i \in 0..0 |-> Keeps(s, places, f, i)]
    BY DEF Keeps
  <2> QED
    BY <2>1
<1>4. m # 0 /\ m - 1 \in 0..Len(s) /\ m \in Nat
  <2>1. m \in 0..Len(s) /\ ~Good(m)
    BY <1>2
  <2> HIDE DEF Good
  <2> QED
    BY <1>3, <2>1
<1>5. Good(m - 1)
  BY <1>2, <1>4
<1>6. PICK f : f = [i \in 0..(m - 1) |-> Keeps(s, places, f, i)]
  BY <1>5
<1> DEFINE g == [i \in 0..m |-> IF i = m THEN Keeps(s, places, f, m) ELSE f[i]]
<1>7. g = [i \in 0..m |-> Keeps(s, places, g, i)]
  <2>1. ASSUME NEW i \in 0..m PROVE g[i] = Keeps(s, places, g, i)
    <3>1. i # 0 => g[i - 1] = f[i - 1]
      BY <1>4
    <3>2. Keeps(s, places, g, i) = Keeps(s, places, f, i)
      BY <3>1 DEF Keeps
    <3>3. i # m => f[i] = Keeps(s, places, f, i)
      BY <1>4, <1>6
    <3> QED
      BY <3>2, <3>3
  <2> QED
    BY <2>1
<1> QED
  BY <1>2, <1>7

\* r lists the elements of s at the places among the first k, in their order:
\* g says where each of them was.
Lists(r, g, s, places, k) ==
  /\ IsList(r) /\ g \in [1..Len(r) -> 1..k]
  /\ \A j \in 1..Len(r) : g[j] \in places /\ r[j] = s[g[j]]
  /\ \A i, j \in 1..Len(r) : i < j => g[i] < g[j]
  /\ \A p \in places : p \in 1..k => \E j \in 1..Len(r) : g[j] = p

LEMMA OnlySays ==
  ASSUME NEW s, IsList(s), NEW places
  PROVE  \E g : Lists(Only(s, places), g, s, places, Len(s))
<1> DEFINE f == CHOOSE f : f = [i \in 0..Len(s) |-> Keeps(s, places, f, i)]
<1>0. Len(s) \in Nat
  BY ListSays, SeqIsList
<1>1. f = [i \in 0..Len(s) |-> Keeps(s, places, f, i)]
  BY <1>0, OnlyExists
<1>2. Only(s, places) = f[Len(s)]
  BY Zenon DEF Only, Keeps
<1> HIDE DEF f
<1> DEFINE Good(k) == \E g : Lists(f[k], g, s, places, k)
           S == {k \in 0..Len(s) : ~Good(k)}
<1>3. S = {}
  <2>1. SUFFICES ASSUME S # {} PROVE FALSE
    OBVIOUS
  <2>2. PICK m \in S : \A k \in S : m <= k
    <3>1. S \subseteq Nat
      BY <1>0
    <3> HIDE DEF S
    <3> QED
      BY <2>1, <3>1, Least
  <2>3. Good(0)
    <3>1. f[0] = <<>>
      BY <1>0, <1>1 DEF Keeps
    <3>2. Len(<<>>) = 0 /\ IsList(<<>>)
      BY DEF IsList
    <3> DEFINE g == [j \in 1..Len(<<>>) |-> 0]
    <3>3. Lists(<<>>, g, s, places, 0)
      BY <3>2 DEF Lists
    <3> QED
      BY <3>1, <3>3
  <2>4. m # 0 /\ m - 1 \in 0..Len(s) /\ m \in Nat /\ m \in 0..Len(s)
    <3>1. m \in 0..Len(s) /\ ~Good(m)
      BY <2>2
    <3> HIDE DEF Good
    <3> QED
      BY <1>0, <2>3, <3>1
  <2>5. Good(m - 1)
    BY <2>2, <2>4
  <2>6. PICK g : Lists(f[m - 1], g, s, places, m - 1)
    BY <2>5
  <2>7. f[m] = IF m \in places THEN Append(f[m - 1], s[m]) ELSE f[m - 1]
    BY <1>1, <2>4 DEF Keeps
  <2> DEFINE r == f[m - 1]
  <2>8. CASE m \in places
    <3> DEFINE t == Append(r, s[m])
               N == Len(r)
               gg == [j \in 1..(N + 1) |-> IF j = N + 1 THEN m ELSE g[j]]
    <3>1. PICK P : r \in Seq(P)
      BY <2>6, ListSays DEF Lists
    <3>2. N \in Nat /\ t \in Seq(P \cup {s[m]})
      BY <3>1
    <3>3. Len(t) = N + 1 /\ t[N + 1] = s[m] /\ \A j \in 1..N : t[j] = r[j]
      BY <3>1
    <3>4. IsList(t)
      BY <3>2, SeqIsList
    <3> HIDE DEF t, r, N
    <3>5. /\ g \in [1..N -> 1..(m - 1)]
          /\ \A j \in 1..N : g[j] \in places /\ r[j] = s[g[j]]
          /\ \A i, j \in 1..N : i < j => g[i] < g[j]
          /\ \A p \in places : p \in 1..(m - 1) => \E j \in 1..N : g[j] = p
      BY <2>6 DEF Lists, r, N
    <3>6. gg \in [1..Len(t) -> 1..m]
      BY <3>2, <3>3, <3>5, <2>4
    <3>7. \A j \in 1..Len(t) : gg[j] \in places /\ t[j] = s[gg[j]]
      BY <3>2, <3>3, <3>5, <2>8
    <3>8. \A i, j \in 1..Len(t) : i < j => gg[i] < gg[j]
      <4> SUFFICES ASSUME NEW i \in 1..(N + 1), NEW j \in 1..(N + 1), i < j PROVE gg[i] < gg[j]
        BY <3>3
      <4>1. i \in 1..N /\ g[i] \in 1..(m - 1) /\ gg[i] = g[i]
        BY <3>2, <3>5
      <4>2. CASE j = N + 1
        BY <4>1, <4>2, <2>4
      <4>3. CASE j \in 1..N
        BY <4>1, <4>3, <3>2, <3>5
      <4> QED
        BY <4>2, <4>3, <3>2
    <3>9. ASSUME NEW p \in places, p \in 1..m PROVE \E j \in 1..Len(t) : gg[j] = p
      <4>1. CASE p = m
        <5>1. N + 1 \in 1..Len(t) /\ gg[N + 1] = m
          BY <3>2, <3>3
        <5> QED
          BY <4>1, <5>1
      <4>2. CASE p \in 1..(m - 1)
        <5>1. PICK j \in 1..N : g[j] = p
          BY <4>2, <3>5
        <5>2. j \in 1..Len(t) /\ gg[j] = p
          BY <5>1, <3>2, <3>3
        <5> QED
          BY <5>2
      <4> QED
        BY <3>9, <4>1, <4>2, <2>4
    <3>10. Lists(t, gg, s, places, m)
      BY <3>4, <3>6, <3>7, <3>8, <3>9 DEF Lists
    <3> QED
      BY <3>10, <2>7, <2>8, <2>2 DEF t, r
  <2>9. CASE m \notin places
    <3>1. Lists(f[m], g, s, places, m)
      <4> HIDE DEF r
      <4>1. f[m] = r /\ Lists(r, g, s, places, m - 1)
        BY <2>6, <2>7, <2>9 DEF r
      <4>2. \A p \in places : p \in 1..m => p \in 1..(m - 1)
        BY <2>4, <2>9
      <4>3. g \in [1..Len(r) -> 1..m]
        BY <4>1, <2>4 DEF Lists
      <4> QED
        BY <4>1, <4>2, <4>3 DEF Lists
    <3> QED
      BY <3>1, <2>2
  <2> QED
    BY <2>8, <2>9
<1>4. Good(Len(s))
  BY <1>0, <1>3
<1> QED
  BY <1>2, <1>4

------------------------------------------------------------------------------
(* Environments: a later pair overrides an earlier one.                    *)

Keys(env) == {env[i][1] : i \in 1..Len(env)}
LastAt(env, k, i) == i \in 1..Len(env) /\ env[i][1] = k /\ \A j \in (i + 1)..Len(env) : env[j][1] # k

LEMMA LastExists ==
  ASSUME NEW env, IsList(env), NEW k \in Keys(env)
  PROVE  \E i : LastAt(env, k, i)
<1> DEFINE N == Len(env)
           S == {m \in 0..N : N - m \in 1..N /\ env[N - m][1] = k}
<1>0. N \in Nat
  BY ListSays, SeqIsList
<1>1. PICK i \in 1..N : env[i][1] = k
  BY DEF Keys
<1> HIDE DEF N
<1>2. N - i \in S /\ S \subseteq Nat
  BY <1>0, <1>1
<1>3. PICK m \in S : \A l \in S : m <= l
  <2> HIDE DEF S
  <2> QED
    BY <1>2, Least
<1>4. N - m \in 1..N /\ env[N - m][1] = k /\ m \in 0..N
  BY <1>3
<1>5. ASSUME NEW j \in (N - m + 1)..N PROVE env[j][1] # k
  <2>1. N - j \in 0..N /\ N - (N - j) = j /\ j \in 1..N /\ N - j < m
    BY <1>0, <1>4
  <2>2. N - j \notin S
    BY <1>3, <1>4, <2>1
  <2> QED
    BY <2>1, <2>2
<1> QED
  BY <1>4, <1>5 DEF LastAt, N

LEMMA LastIsOne ==
  ASSUME NEW env, IsList(env), NEW k, NEW i, LastAt(env, k, i), NEW j, LastAt(env, k, j)
  PROVE  i = j
<1>1. Len(env) \in Nat
  BY ListSays, SeqIsList
<1> QED
  BY <1>1 DEF LastAt

LEMMA MapSays ==
  ASSUME NEW env, IsList(env), NEW map, map = ConvertStringSliceToMap(env)
  PROVE  /\ DOMAIN map = Keys(env)
         /\ \A k, i : LastAt(env, k, i) => k \in Keys(env) /\ map[k] = env[i][2]
<1>1. DOMAIN map = Keys(env)
  BY DEF ConvertStringSliceToMap, Keys
<1>2. ASSUME NEW k, NEW i, LastAt(env, k, i)
      PROVE  k \in Keys(env) /\ map[k] = env[i][2]
  <2>1. k \in Keys(env)
    BY <1>2 DEF LastAt, Keys
  <2> DEFINE Fits(j) == env[j][1] = k /\ \A l \in (j + 1)..Len(env) : env[l][1] # k
             at == CHOOSE j \in 1..Len(env) : Fits(j)
  <2>2. map[k] = env[at][2]
    BY <2>1 DEF ConvertStringSliceToMap, Keys
  <2>3. i \in 1..Len(env) /\ Fits(i)
    BY <1>2 DEF LastAt
  <2>4. at \in 1..Len(env) /\ Fits(at)
    <3> HIDE DEF Fits
    <3> QED
      BY <2>3
  <2>5. LastAt(env, k, at)
    BY <2>4 DEF LastAt
  <2> HIDE DEF at
  <2>6. at = i
    BY <1>2, <2>5, LastIsOne
  <2> QED
    BY <2>1, <2>2, <2>6
<1> QED
  BY <1>1, <1>2

\* The map of two lists, one after the other.
LEMMA MapThen ==
  ASSUME NEW s, NEW t, IsList(s), IsList(t), NEW both, both = ConvertStringSliceToMap(s \o t),
         NEW ms, ms = ConvertStringSliceToMap(s), NEW mt, mt = ConvertStringSliceToMap(t)
  PROVE  /\ DOMAIN both = DOMAIN ms \cup DOMAIN mt
         /\ \A k \in DOMAIN mt : both[k] = mt[k]
         /\ \A k \in DOMAIN ms : k \notin DOMAIN mt => both[k] = ms[k]
<1> DEFINE r == s \o t
<1>1. /\ IsList(r) /\ Len(s) \in Nat /\ Len(t) \in Nat /\ Len(r) = Len(s) + Len(t)
      /\ \A i \in 1..Len(s) : i \in 1..Len(r) /\ r[i] = s[i]
      /\ \A i \in 1..Len(t) : Len(s) + i \in 1..Len(r) /\ r[Len(s) + i] = t[i]
      /\ \A i \in 1..Len(r) :
           i \in 1..Len(s) \/ (i > Len(s) /\ i - Len(s) \in 1..Len(t) /\ r[i] = t[i - Len(s)])
  BY ListsThen
<1>2. both = ConvertStringSliceToMap(r)
  OBVIOUS
<1> HIDE DEF r
<1>3. Keys(r) = Keys(s) \cup Keys(t)
  <2>1. ASSUME NEW k \in Keys(r) PROVE k \in Keys(s) \cup Keys(t)
    <3>1. PICK i \in 1..Len(r) : r[i][1] = k
      BY DEF Keys
    <3> QED
      BY <3>1, <1>1 DEF Keys
  <2>2. ASSUME NEW k \in Keys(s) PROVE k \in Keys(r)
    BY <1>1 DEF Keys
  <2>3. ASSUME NEW k \in Keys(t) PROVE k \in Keys(r)
    <3>1. PICK i \in 1..Len(t) : t[i][1] = k
      BY DEF Keys
    <3> QED
      BY <3>1, <1>1 DEF Keys
  <2> QED
    BY <2>1, <2>2, <2>3
<1>4. DOMAIN both = Keys(r) /\ DOMAIN ms = Keys(s) /\ DOMAIN mt = Keys(t)
  BY <1>1, <1>2, MapSays
<1>5. ASSUME NEW k \in Keys(t) PROVE both[k] = mt[k]
  <2>1. PICK i : LastAt(t, k, i)
    BY LastExists
  <2>2. i \in 1..Len(t) /\ t[i][1] = k /\ \A j \in (i + 1)..Len(t) : t[j][1] # k
    BY <2>1 DEF LastAt
  <2>3. Len(s) + i \in 1..Len(r) /\ r[Len(s) + i] = t[i]
    BY <2>2, <1>1
  <2>4. ASSUME NEW j \in (Len(s) + i + 1)..Len(r) PROVE r[j][1] # k
    <3>1. j \in 1..Len(r) /\ ~(j \in 1..Len(s)) /\ j - Len(s) \in (i + 1)..Len(t)
      BY <2>2, <1>1
    <3> QED
      BY <3>1, <2>2, <1>1
  <2>5. LastAt(r, k, Len(s) + i)
    BY <2>2, <2>3, <2>4 DEF LastAt
  <2>6. both[k] = r[Len(s) + i][2] /\ mt[k] = t[i][2]
    BY <1>1, <1>2, <2>1, <2>5, MapSays
  <2> QED
    BY <2>3, <2>6
<1>6. ASSUME NEW k \in Keys(s), k \notin Keys(t) PROVE both[k] = ms[k]
  <2>1. PICK i : LastAt(s, k, i)
    BY LastExists
  <2>2. i \in 1..Len(s) /\ s[i][1] = k /\ \A j \in (i + 1)..Len(s) : s[j][1] # k
    BY <2>1 DEF LastAt
  <2>3. i \in 1..Len(r) /\ r[i] = s[i]
    BY <2>2, <1>1
  <2>4. ASSUME NEW j \in (i + 1)..Len(r) PROVE r[j][1] # k
    <3>1. j \in 1..Len(r)
      BY <2>2, <1>1
    <3>2. CASE j \in 1..Len(s)
      <4>1. j \in (i + 1)..Len(s) /\ r[j] = s[j]
        BY <3>2, <1>1, <2>2
      <4> QED
        BY <4>1, <2>2
    <3>3. CASE j - Len(s) \in 1..Len(t) /\ r[j] = t[j - Len(s)]
      BY <3>3, <1>6 DEF Keys
    <3> QED
      BY <3>1, <3>2, <3>3, <1>1
  <2>5. LastAt(r, k, i)
    BY <2>2, <2>3, <2>4 DEF LastAt
  <2>6. both[k] = r[i][2] /\ ms[k] = s[i][2]
    BY <1>1, <1>2, <2>1, <2>5, MapSays
  <2> QED
    BY <2>3, <2>6
<1> QED
  BY <1>3, <1>4, <1>5, <1>6

LEMMA MapOver ==
  ASSUME NEW s, NEW t, IsList(s), IsList(t)
  PROVE  /\ DOMAIN ConvertStringSliceToMap(s \o t)
              = DOMAIN ConvertStringSliceToMap(s) \cup DOMAIN ConvertStringSliceToMap(t)
         /\ \A k \in DOMAIN ConvertStringSliceToMap(t) :
              ConvertStringSliceToMap(s \o t)[k] = ConvertStringSliceToMap(t)[k]
         /\ \A k \in DOMAIN ConvertStringSliceToMap(s) : k \notin DOMAIN ConvertStringSliceToMap(t) =>
              ConvertStringSliceToMap(s \o t)[k] = ConvertStringSliceToMap(s)[k]
  BY MapThen

\* What is dropped of an environment are the reserved keys.
LEMMA OwnSays ==
  ASSUME NEW env, IsList(env), NEW all, all = ConvertStringSliceToMap(env),
         NEW own, own = ConvertStringSliceToMap(OwnEnv(env))
  PROVE  /\ IsList(OwnEnv(env))
         /\ DOMAIN own = DOMAIN all \ Reserved
         /\ \A k \in DOMAIN own : own[k] = all[k]
<1> DEFINE r == OwnEnv(env)
           places == {i \in 1..Len(env) : env[i][1] \notin Reserved}
<1>1. PICK g : Lists(Only(env, places), g, env, places, Len(env))
  <2> HIDE DEF places
  <2> QED
    BY OnlySays
<1>2. Lists(r, g, env, places, Len(env))
  BY <1>1 DEF OwnEnv
<1>3. own = ConvertStringSliceToMap(r)
  OBVIOUS
<1> HIDE DEF r
<1>4. /\ IsList(r) /\ g \in [1..Len(r) -> 1..Len(env)]
      /\ \A j \in 1..Len(r) : g[j] \in 1..Len(env) /\ env[g[j]][1] \notin Reserved /\ r[j] = env[g[j]]
      /\ \A i, j \in 1..Len(r) : i < j => g[i] < g[j]
      /\ \A p \in 1..Len(env) : env[p][1] \notin Reserved => \E j \in 1..Len(r) : g[j] = p
  BY <1>2 DEF Lists
<1>5. Keys(r) = Keys(env) \ Reserved
  <2>1. ASSUME NEW k \in Keys(r) PROVE k \in Keys(env) \ Reserved
    BY <1>4 DEF Keys
  <2>2. ASSUME NEW k \in Keys(env) \ Reserved PROVE k \in Keys(r)
    <3>1. PICK p \in 1..Len(env) : env[p][1] = k
      BY DEF Keys
    <3>2. PICK j \in 1..Len(r) : g[j] = p
      BY <3>1, <1>4
    <3> QED
      BY <3>1, <3>2, <1>4 DEF Keys
  <2> QED
    BY <2>1, <2>2
<1>6. DOMAIN own = Keys(r) /\ DOMAIN all = Keys(env)
  BY <1>3, <1>4, MapSays
<1>7. ASSUME NEW k \in Keys(r) PROVE own[k] = all[k]
  <2>1. PICK i : LastAt(r, k, i)
    BY <1>4, LastExists
  <2>2. i \in 1..Len(r) /\ r[i][1] = k /\ \A j \in (i + 1)..Len(r) : r[j][1] # k
    BY <2>1 DEF LastAt
  <2>3. g[i] \in 1..Len(env) /\ r[i] = env[g[i]] /\ env[g[i]][1] = k /\ k \notin Reserved
    BY <2>2, <1>4
  <2>4. Len(r) \in Nat /\ Len(env) \in Nat
    BY <1>4, ListSays, SeqIsList
  <2>5. ASSUME NEW p \in (g[i] + 1)..Len(env), env[p][1] = k PROVE FALSE
    <3>1. p \in 1..Len(env)
      BY <2>3, <2>4
    <3>2. PICK j \in 1..Len(r) : g[j] = p
      BY <3>1, <2>3, <2>5, <1>4
    <3>3. r[j][1] = k /\ g[i] < g[j]
      BY <3>2, <2>3, <2>4, <2>5, <1>4
    <3>4. i < j
      BY <3>3, <2>2, <2>3, <2>4, <1>4, <3>2
    <3>5. j \in (i + 1)..Len(r)
      BY <3>4, <2>2, <2>4
    <3> QED
      BY <3>3, <3>5, <2>2
  <2>6. LastAt(env, k, g[i])
    BY <2>3, <2>5 DEF LastAt
  <2>7. own[k] = r[i][2] /\ all[k] = env[g[i]][2]
    BY <2>1, <2>6, <1>3, <1>4, MapSays
  <2> QED
    BY <2>3, <2>7
<1> QED
  BY <1>4, <1>5, <1>6, <1>7 DEF r

\* The function that Only defines.
Grows(f, s, places, N) ==
  f[0] = <<>> /\ \A i \in 1..N : f[i] = IF i \in places THEN Append(f[i - 1], s[i]) ELSE f[i - 1]

LEMMA OnlyIs ==
  ASSUME NEW s, IsList(s), NEW places
  PROVE  \E f : Grows(f, s, places, Len(s)) /\ Only(s, places) = f[Len(s)]
<1> DEFINE f == CHOOSE f : f = [i \in 0..Len(s) |-> Keeps(s, places, f, i)]
<1>0. Len(s) \in Nat
  BY ListSays, SeqIsList
<1>1. f = [i \in 0..Len(s) |-> Keeps(s, places, f, i)]
  BY <1>0, OnlyExists
<1>2. Only(s, places) = f[Len(s)]
  BY Zenon DEF Only, Keeps
<1> HIDE DEF f
<1>3. \A i \in 0..Len(s) : f[i] = Keeps(s, places, f, i)
  BY <1>1, Zenon
<1>4. f[0] = <<>>
  BY <1>0, <1>3 DEF Keeps
<1>5. ASSUME NEW i \in 1..Len(s) PROVE f[i] = IF i \in places THEN Append(f[i - 1], s[i]) ELSE f[i - 1]
  <2>1. i \in 0..Len(s) /\ i # 0
    BY <1>0
  <2>2. f[i] = Keeps(s, places, f, i)
    BY <2>1, <1>3
  <2> QED
    BY <2>1, <2>2 DEF Keeps
<1> QED
  BY <1>2, <1>4, <1>5 DEF Grows

\* The elements of two lists, one after the other.
LEMMA OnlyThen ==
  ASSUME NEW s, NEW t, IsList(s), IsList(t), NEW P, NEW Q, NEW R,
         \A i \in 1..Len(s) : i \in R <=> i \in P,
         \A i \in 1..Len(t) : Len(s) + i \in R <=> i \in Q
  PROVE  Only(s \o t, R) = Only(s, P) \o Only(t, Q)
<1> DEFINE r == s \o t
           N == Len(s)
           T == Len(t)
<1>1. /\ IsList(r) /\ N \in Nat /\ T \in Nat /\ Len(r) = N + T
      /\ \A i \in 1..N : r[i] = s[i]
      /\ \A i \in 1..T : r[N + i] = t[i]
  BY ListsThen
<1> HIDE DEF r
<1>2. PICK fs : Grows(fs, s, P, N) /\ Only(s, P) = fs[N]
  BY OnlyIs
<1>3. PICK ft : Grows(ft, t, Q, T) /\ Only(t, Q) = ft[T]
  BY OnlyIs
<1>4. PICK fr : Grows(fr, r, R, N + T) /\ Only(r, R) = fr[N + T]
  <2>1. PICK f : Grows(f, r, R, Len(r)) /\ Only(r, R) = f[Len(r)]
    BY <1>1, OnlyIs
  <2> QED
    BY <2>1, <1>1
<1> HIDE DEF N, T
<1>a. \A i \in 1..N : fs[i] = IF i \in P THEN Append(fs[i - 1], s[i]) ELSE fs[i - 1]
  BY <1>2 DEF Grows
<1>b. \A i \in 1..T : ft[i] = IF i \in Q THEN Append(ft[i - 1], t[i]) ELSE ft[i - 1]
  BY <1>3 DEF Grows
<1>c. \A i \in 1..(N + T) : fr[i] = IF i \in R THEN Append(fr[i - 1], r[i]) ELSE fr[i - 1]
  BY <1>4 DEF Grows
<1>d. fs[0] = <<>> /\ ft[0] = <<>> /\ fr[0] = <<>>
  BY <1>2, <1>3, <1>4 DEF Grows
<1>e. IsList(fs[N])
  <2>1. PICK g : Lists(Only(s, P), g, s, P, Len(s))
    BY OnlySays
  <2> QED
    BY <1>2, <2>1 DEF Lists
<1>5. fr[N] = fs[N]
  <2> DEFINE S == {k \in 0..N : fr[k] # fs[k]}
  <2>1. SUFFICES ASSUME S # {} PROVE FALSE
    BY <1>1
  <2>2. S \subseteq Nat
    BY <1>1
  <2>3. PICK m \in S : \A k \in S : m <= k
    <3> HIDE DEF S
    <3> QED
      BY <2>1, <2>2, Least
  <2>4. m \in 0..N /\ fr[m] # fs[m] /\ m # 0
    BY <2>3, <1>d
  <2>5. m - 1 \in 0..N /\ m - 1 \notin S /\ m \in 1..N /\ m \in 1..(N + T)
    BY <2>3, <2>4, <1>1
  <2>6. fr[m - 1] = fs[m - 1]
    BY <2>5
  <2>7. (m \in R <=> m \in P) /\ r[m] = s[m]
    BY <2>5, <1>1 DEF N
  <2> QED
    BY <2>4, <2>5, <2>6, <2>7, <1>a, <1>c
<1> DEFINE Good(k) == IsList(ft[k]) /\ fr[N + k] = fs[N] \o ft[k]
           S == {k \in 0..T : ~Good(k)}
<1>6. S = {}
  <2>1. SUFFICES ASSUME S # {} PROVE FALSE
    OBVIOUS
  <2>2. S \subseteq Nat
    <3> HIDE DEF Good
    <3> QED
      BY <1>1
  <2>3. PICK m \in S : \A k \in S : m <= k
    <3> HIDE DEF S
    <3> QED
      BY <2>1, <2>2, Least
  <2>4. Good(0)
    <3>1. IsList(<<>>)
      BY DEF IsList
    <3>2. N + 0 = N
      BY <1>1
    <3>3. PICK A : fs[N] \in Seq(A)
      BY <1>e, ListSays
    <3>4. fs[N] \o <<>> = fs[N]
      BY <3>3
    <3> QED
      BY <3>1, <3>2, <3>4, <1>d, <1>5
  <2>5. m \in 0..T /\ ~Good(m)
    BY <2>3
  <2> HIDE DEF Good
  <2>6. m # 0
    BY <2>4, <2>5
  <2>7. m - 1 \in 0..T /\ m \in 1..T /\ N + m \in 1..(N + T) /\ N + m - 1 = N + (m - 1)
    BY <2>5, <2>6, <1>1
  <2>8. Good(m - 1)
    BY <2>3, <2>5, <2>7
  <2> DEFINE a == fs[N]
             b == ft[m - 1]
             x == t[m]
  <2>9. IsList(b) /\ fr[N + (m - 1)] = a \o b
    BY <2>8 DEF Good
  <2>10. ft[m] = IF m \in Q THEN Append(b, x) ELSE b
    BY <2>7, <1>b
  <2>11. fr[N + m] = IF m \in Q THEN Append(a \o b, x) ELSE a \o b
    <3>1. (N + m \in R <=> m \in Q) /\ r[N + m] = x
      BY <2>7, <1>1 DEF N, T
    <3> QED
      <4> DEFINE j == N + m
                 k == N + (m - 1)
      <4>1. j \in 1..(N + T) /\ j - 1 = k
        BY <2>5, <2>7, <1>1
      <4> HIDE DEF j, k
      <4>2. fr[j] = IF j \in R THEN Append(fr[k], r[j]) ELSE fr[k]
        BY <4>1, <1>c
      <4>3. (j \in R <=> m \in Q) /\ r[j] = x /\ fr[k] = a \o b
        BY <3>1, <2>9 DEF j, k
      <4> HIDE DEF a, b, x
      <4> QED
        BY <4>2, <4>3, Zenon DEF j
  <2> HIDE DEF a, b, x
  <2>12. IsList(a)
    BY <1>e DEF a
  <2>13. PICK A : a \in Seq(A)
    BY <2>12, ListSays
  <2>14. PICK B : b \in Seq(B)
    BY <2>9, ListSays
  <2> DEFINE C == A \cup B \cup {x}
  <2>15. a \in Seq(C) /\ b \in Seq(C) /\ x \in C
    BY <2>13, <2>14
  <2> HIDE DEF C
  <2>16. Append(b, x) \in Seq(C) /\ Append(a \o b, x) = a \o Append(b, x)
    <3>1. a \o b \in Seq(C) /\ Append(b, x) \in Seq(C)
      BY <2>15
    <3> QED
      BY <2>15, <3>1
  <2>17. IsList(Append(b, x))
    BY <2>16, SeqIsList
  <2>18. Good(m)
    BY <2>9, <2>10, <2>11, <2>16, <2>17 DEF Good, a
  <2> QED
    BY <2>5, <2>18
<1>7. Good(T)
  <2> HIDE DEF Good
  <2>1. T \in 0..T
    BY <1>1
  <2> QED
    BY <1>6, <2>1
<1>8. Only(r, R) = fs[N] \o ft[T]
  BY <1>4, <1>7
<1> QED
  BY <1>2, <1>3, <1>8 DEF r, N, T

\* All elements of a list.
LEMMA OnlyAll ==
  ASSUME NEW s, IsList(s), NEW places, \A i \in 1..Len(s) : i \in places
  PROVE  Only(s, places) = s
<1> DEFINE N == Len(s)
<1>0. N \in Nat
  BY ListSays, SeqIsList
<1>1. PICK f : Grows(f, s, places, N) /\ Only(s, places) = f[N]
  BY OnlyIs
<1>2. \A i \in 1..N : f[i] = Append(f[i - 1], s[i])
  BY <1>1 DEF Grows
<1>3. f[0] = <<>>
  BY <1>1 DEF Grows
<1>4. PICK P : s \in Seq(P)
  BY ListSays
<1>5. \A i \in 1..N : s[i] \in P
  BY <1>4
<1> DEFINE Good(k) == f[k] \in Seq(P) /\ Len(f[k]) = k /\ \A j \in 1..k : f[k][j] = s[j]
           S == {k \in 0..N : ~Good(k)}
<1> HIDE DEF N
<1>6. S = {}
  <2>1. SUFFICES ASSUME S # {} PROVE FALSE
    OBVIOUS
  <2>2. S \subseteq Nat
    BY <1>0
  <2>3. PICK m \in S : \A k \in S : m <= k
    <3> HIDE DEF S
    <3> QED
      BY <2>1, <2>2, Least
  <2>4. Good(0)
    BY <1>3
  <2>5. m \in 0..N /\ ~Good(m)
    BY <2>3
  <2>6. m # 0 /\ m - 1 \in 0..N /\ m \in 1..N
    <3> HIDE DEF Good
    <3> QED
      BY <2>4, <2>5, <1>0
  <2>7. Good(m - 1)
    BY <2>3, <2>5, <2>6
  <2> DEFINE b == f[m - 1]
             x == s[m]
  <2>8. f[m] = Append(b, x) /\ x \in P
    BY <2>6, <1>2, <1>5
  <2>9. b \in Seq(P) /\ Len(b) = m - 1 /\ \A j \in 1..(m - 1) : b[j] = s[j]
    BY <2>7
  <2> HIDE DEF b
  <2>10. Good(m)
    <3>1. Append(b, x) \in Seq(P) /\ Len(Append(b, x)) = m
      BY <2>6, <2>8, <2>9
    <3>2. ASSUME NEW j \in 1..m PROVE Append(b, x)[j] = s[j]
      BY <2>6, <2>8, <2>9
    <3> QED
      BY <2>8, <3>1, <3>2
  <2> QED
    BY <2>5, <2>10
<1>7. Good(N)
  BY <1>0, <1>6
<1> DEFINE r == f[N]
<1>8. r \in Seq(P) /\ Len(r) = Len(s) /\ \A j \in 1..Len(s) : r[j] = s[j]
  BY <1>7 DEF N
<1> HIDE DEF r
<1>9. r = s
  BY <1>4, <1>8
<1> QED
  BY <1>1, <1>9 DEF r

\* OwnEnv of lists one after the other, and of what has no or only reserved names.
LEMMA OwnThen ==
  ASSUME NEW s, NEW t, IsList(s), IsList(t)
  PROVE  OwnEnv(s \o t) = OwnEnv(s) \o OwnEnv(t)
<1> DEFINE r == s \o t
           P == {i \in 1..Len(s) : s[i][1] \notin Reserved}
           Q == {i \in 1..Len(t) : t[i][1] \notin Reserved}
           R == {i \in 1..Len(r) : r[i][1] \notin Reserved}
<1>1. (\A i \in 1..Len(s) : i \in R <=> i \in P) /\ (\A i \in 1..Len(t) : Len(s) + i \in R <=> i \in Q)
  BY ListsThen
<1>2. OwnEnv(r) = Only(r, R) /\ OwnEnv(s) = Only(s, P) /\ OwnEnv(t) = Only(t, Q)
  BY DEF OwnEnv
<1> HIDE DEF P, Q, R
<1> QED
  BY <1>1, <1>2, OnlyThen

LEMMA OwnAll ==
  ASSUME NEW s, IsList(s), Keys(s) \cap Reserved = {}
  PROVE  OwnEnv(s) = s
<1> DEFINE P == {i \in 1..Len(s) : s[i][1] \notin Reserved}
<1>1. \A i \in 1..Len(s) : i \in P
  BY DEF Keys
<1>2. OwnEnv(s) = Only(s, P)
  BY DEF OwnEnv
<1> HIDE DEF P
<1> QED
  BY <1>1, <1>2, OnlyAll

LEMMA OwnNone ==
  ASSUME NEW s, IsList(s), Keys(s) \subseteq Reserved
  PROVE  OwnEnv(s) = <<>>
<1> DEFINE P == {i \in 1..Len(s) : s[i][1] \notin Reserved}
           r == OwnEnv(s)
<1>1. P = {}
  BY DEF Keys
<1>2. r = Only(s, P)
  BY DEF OwnEnv
<1> HIDE DEF P, r
<1>3. PICK g : Lists(r, g, s, P, Len(s))
  BY <1>2, OnlySays
<1>4. IsList(r) /\ \A j \in 1..Len(r) : g[j] \in P
  BY <1>3 DEF Lists
<1>5. PICK A : r \in Seq(A)
  BY <1>4, ListSays
<1>6. Len(r) = 0
  <2>1. SUFFICES ASSUME Len(r) # 0 PROVE FALSE
    OBVIOUS
  <2>2. 1 \in 1..Len(r)
    BY <1>5, <2>1
  <2> QED
    BY <2>2, <1>1, <1>4
<1> QED
  BY <1>5, <1>6 DEF r

LEMMA OwnKeys ==
  ASSUME NEW env, IsList(env)
  PROVE  IsList(OwnEnv(env)) /\ Keys(OwnEnv(env)) \cap Reserved = {}
<1> DEFINE r == OwnEnv(env)
           all == ConvertStringSliceToMap(env)
           own == ConvertStringSliceToMap(r)
<1>1. IsList(r) /\ DOMAIN own = DOMAIN all \ Reserved
  BY OwnSays
<1>2. DOMAIN own = Keys(r)
  <2> HIDE DEF r
  <2> QED
    BY <1>1, MapSays
<1> QED
  BY <1>1, <1>2

\* Another list in front, or the same one behind both, changes nothing.
LEMMA EndsThen ==
  ASSUME NEW s, NEW t, NEW x, IsList(s), IsList(t), IsList(x), EndsWith(s, t)
  PROVE  EndsWith(x \o s, t) /\ EndsWith(s \o x, t \o x)
<1>1. Len(t) \in Nat /\ Len(s) \in Nat /\ Len(x) \in Nat /\ Len(t) <= Len(s)
  BY ListsThen DEF EndsWith
<1>2. \A i \in 1..Len(t) : Len(s) - Len(t) + i \in 1..Len(s) /\ s[Len(s) - Len(t) + i] = t[i]
  BY <1>1 DEF EndsWith
<1>3. EndsWith(x \o s, t)
  <2> DEFINE r == x \o s
  <2>1. /\ Len(r) = Len(x) + Len(s)
        /\ \A i \in 1..Len(s) : r[Len(x) + i] = s[i]
    BY ListsThen
  <2> HIDE DEF r
  <2>2. ASSUME NEW i \in 1..Len(t) PROVE r[Len(r) - Len(t) + i] = t[i]
    <3> DEFINE j == Len(s) - Len(t) + i
    <3>1. j \in 1..Len(s) /\ s[j] = t[i]
      BY <1>2
    <3>2. Len(r) - Len(t) + i = Len(x) + j
      BY <1>1, <2>1
    <3> QED
      BY <3>1, <3>2, <2>1
  <2> QED
    BY <1>1, <2>1, <2>2 DEF EndsWith, r
<1>4. EndsWith(s \o x, t \o x)
  <2> DEFINE r == s \o x
             q == t \o x
  <2>1. /\ Len(r) = Len(s) + Len(x)
        /\ \A i \in 1..Len(s) : r[i] = s[i]
        /\ \A i \in 1..Len(x) : r[Len(s) + i] = x[i]
    BY ListsThen
  <2>2. /\ Len(q) = Len(t) + Len(x)
        /\ \A i \in 1..Len(t) : q[i] = t[i]
        /\ \A i \in 1..Len(x) : q[Len(t) + i] = x[i]
    BY ListsThen
  <2> HIDE DEF r, q
  <2>3. ASSUME NEW i \in 1..Len(q) PROVE r[Len(r) - Len(q) + i] = q[i]
    <3> DEFINE j == Len(s) - Len(t) + i
    <3>1. Len(r) - Len(q) + i = j /\ i \in Nat
      BY <1>1, <2>1, <2>2
    <3>2. CASE i \in 1..Len(t)
      <4>1. j \in 1..Len(s) /\ s[j] = t[i]
        BY <3>2, <1>2
      <4> QED
        BY <3>1, <3>2, <4>1, <2>1, <2>2
    <3>3. CASE i \notin 1..Len(t)
      <4> DEFINE l == i - Len(t)
      <4>1. l \in 1..Len(x) /\ i = Len(t) + l /\ j = Len(s) + l
        BY <3>1, <3>3, <1>1, <2>2
      <4>2. r[j] = x[l] /\ q[i] = x[l]
        <5> HIDE DEF j, l
        <5> QED
          BY <4>1, <2>1, <2>2
      <4> QED
        BY <3>1, <4>2
    <3> QED
      BY <3>2, <3>3
  <2> QED
    BY <1>1, <2>1, <2>2, <2>3 DEF EndsWith, r, q
<1> QED
  BY <1>3, <1>4

\* What a list ends with gives its values.
LEMMA EndsSays ==
  ASSUME NEW s, NEW t, IsList(s), IsList(t), EndsWith(s, t), NEW ms, ms = ConvertStringSliceToMap(s),
         NEW mt, mt = ConvertStringSliceToMap(t), NEW k \in DOMAIN mt
  PROVE  k \in DOMAIN ms /\ ms[k] = mt[k]
<1>1. Len(t) \in Nat /\ Len(s) \in Nat /\ Len(t) <= Len(s)
  BY ListsThen DEF EndsWith
<1>2. k \in Keys(t)
  BY MapSays
<1>3. PICK i : LastAt(t, k, i)
  BY <1>2, LastExists
<1>4. i \in 1..Len(t) /\ t[i][1] = k /\ \A j \in (i + 1)..Len(t) : t[j][1] # k
  BY <1>3 DEF LastAt
<1> DEFINE d == Len(s) - Len(t)
<1>5. d \in Nat /\ d + Len(t) = Len(s) /\ \A j \in 1..Len(t) : s[d + j] = t[j]
  BY <1>1 DEF EndsWith
<1> HIDE DEF d
<1>6. ASSUME NEW j \in (d + i + 1)..Len(s) PROVE s[j][1] # k
  <2> DEFINE l == j - d
  <2>1. l \in (i + 1)..Len(t) /\ l \in 1..Len(t) /\ j = d + l
    BY <1>1, <1>4, <1>5
  <2> QED
    BY <2>1, <1>4, <1>5
<1>7. LastAt(s, k, d + i) /\ s[d + i] = t[i]
  BY <1>1, <1>4, <1>5, <1>6 DEF LastAt
<1>8. k \in Keys(s) /\ ms[k] = s[d + i][2] /\ mt[k] = t[i][2]
  BY <1>3, <1>7, MapSays
<1>9. DOMAIN ms = Keys(s)
  BY MapSays
<1> QED
  BY <1>7, <1>8, <1>9

------------------------------------------------------------------------------
(* Documents.                                                              *)

\* A document with the first master, plugins of its own and the values the user
\* gave, as it may be decoded.
Typable(c) ==
  /\ IsDoc(c) /\ Master0 \in c.M /\ Master0 \notin c.W
  /\ IsList(c.plugins) /\ \A i \in 1..Len(c.plugins) : c.plugins[i].src = "file"
  /\ c.app # None => IsApplication(c.app[1])
  /\ IsList(c.env) /\ IsList(c.want) /\ EndsWith(OwnEnv(c.env), c.want)

\* An environment has what sealer computed, or what -e gave for it.
Says(env, forced, computed) ==
  \A k \in DOMAIN computed :
    /\ k \in DOMAIN ConvertStringSliceToMap(env)
    /\ ConvertStringSliceToMap(env)[k] = Merge(forced, computed)[k]

SaysComputed(c) == Says(c.env, c.forced, Computed(c))

Fine(c) == Typable(c) /\ SaysComputed(c)

LEMMA FineSays ==
  ASSUME NEW c, Fine(c)
  PROVE  SaysWhatWasAsked(c)
  BY DEF Fine, Typable, SaysComputed, Says, SaysWhatWasAsked

\* An environment gives the values asked for.
Given(want, env) ==
  \A k \in DOMAIN want : k \in DOMAIN ConvertStringSliceToMap(env) /\ ConvertStringSliceToMap(env)[k] = want[k]

\* What the user wanted is what the environment says.
LEMMA WantGiven ==
  ASSUME NEW c, Typable(c)
  PROVE  IsList(c.want) /\ Given(Values(c.want), c.env)
<1> DEFINE e == c.env
           own == OwnEnv(e)
           w == c.want
           me == ConvertStringSliceToMap(e)
           mo == ConvertStringSliceToMap(own)
           mw == ConvertStringSliceToMap(w)
<1>1. IsList(e) /\ IsList(w) /\ EndsWith(own, w)
  BY DEF Typable
<1> HIDE DEF e, w
<1>2. IsList(own) /\ DOMAIN mo = DOMAIN me \ Reserved /\ \A k \in DOMAIN mo : mo[k] = me[k]
  BY <1>1, OwnSays
<1> HIDE DEF own
<1>3. \A k \in DOMAIN mw : k \in DOMAIN mo /\ mo[k] = mw[k]
  BY <1>1, <1>2, EndsSays
<1>4. Given(Values(w), e)
  BY <1>2, <1>3 DEF Given, Values
<1> QED
  BY <1>1, <1>4 DEF e, w

\* The empty list.
LEMMA NoPairs ==
  IsList(<<>>) /\ Keys(<<>>) = {} /\ DOMAIN ConvertStringSliceToMap(<<>>) = {}
<1>1. IsList(<<>>) /\ Keys(<<>>) = {}
  BY DEF IsList, Keys
<1> QED
  BY <1>1, MapSays

\* A list of one pair.
LEMMA OnePair ==
  ASSUME NEW k, NEW v, NEW map, map = ConvertStringSliceToMap(<<<<k, v>>>>)
  PROVE  IsList(<<<<k, v>>>>) /\ Keys(<<<<k, v>>>>) = {k} /\ DOMAIN map = {k} /\ map[k] = v
<1> DEFINE p == <<k, v>>
           s == <<p>>
<1>1. s \in Seq({p}) /\ Len(s) = 1 /\ s[1] = p /\ p[1] = k /\ p[2] = v
  OBVIOUS
<1>2. map = ConvertStringSliceToMap(s)
  OBVIOUS
<1> HIDE DEF p, s
<1>3. IsList(s)
  BY <1>1, SeqIsList
<1>4. Keys(s) = {k}
  BY <1>1 DEF Keys
<1> DEFINE one == 1
<1>5. LastAt(s, k, one) /\ s[one][2] = v
  BY <1>1 DEF LastAt
<1> HIDE DEF one
<1>6. DOMAIN map = {k} /\ map[k] = v
  BY <1>2, <1>3, <1>4, <1>5, MapSays
<1> QED
  BY <1>3, <1>4, <1>6 DEF s, p

\* Fields of a document that was changed.
LEMMA EnvChanged ==
  ASSUME NEW c, DOMAIN c = DocFields, NEW env, NEW d, d = [c EXCEPT !.env = env]
  PROVE  /\ DOMAIN d = DocFields /\ d.env = env /\ d.M = c.M /\ d.W = c.W /\ d.image = c.image
         /\ d.plugins = c.plugins /\ d.app = c.app /\ d.want = c.want /\ d.registry = c.registry
         /\ d.cmds = c.cmds /\ d.names = c.names /\ d.runtime = c.runtime /\ d.forced = c.forced
  BY DEF DocFields

\* decodeClusterFile computes the reserved variables again and drops no other.
LEMMA DecodeFine ==
  ASSUME NEW c, Typable(c), NEW d, d = decodeClusterFile(c).cf
  PROVE  /\ Fine(d) /\ d.M = c.M /\ d.W = c.W /\ d.image = c.image /\ d.plugins = c.plugins
         /\ d.cmds = c.cmds /\ d.names = c.names
<1> DEFINE reg == FilledRegistry(c.registry)
           own == OwnEnv(c.env)
           mo == ConvertStringSliceToMap(own)
           svc0 == IF "SvcCIDR" \in DOMAIN mo THEN FirstIP[mo["SvcCIDR"]] ELSE None
           ip == IF svc0 = None THEN <<>> ELSE <<<<"KubeSvcIP", svc0[1]>>>>
           url == <<<<"RegistryURL", RegistryURL(reg)>>>>
           run == RuntimeEnv(c)
           env == own \o ip \o url \o run
           app == IF c.app # None /\ c.app[1].kind = "Application" THEN c.app ELSE None
<1>0. DOMAIN c = DocFields /\ IsList(c.env) /\ IsList(c.want) /\ EndsWith(own, c.want)
  BY DEF Typable, IsDoc
<1>1. d = [[c EXCEPT !.registry = reg, !.forced = <<>>, !.env = env] EXCEPT !.app = app]
  BY DEF decodeClusterFile, checkAndFillCluster
<1>2. IsList(own) /\ OwnEnv(own) = own
  <2> DEFINE e == c.env
             o == OwnEnv(e)
  <2>1. IsList(e)
    BY <1>0
  <2> HIDE DEF e
  <2>2. IsList(o) /\ Keys(o) \cap Reserved = {}
    BY <2>1, OwnKeys
  <2> HIDE DEF o
  <2>3. OwnEnv(o) = o
    BY <2>2, OwnAll
  <2> QED
    BY <2>2, <2>3 DEF o, e
<1>3. IsList(ip) /\ Keys(ip) \subseteq {"KubeSvcIP"}
  <2> HIDE DEF svc0
  <2>1. CASE svc0 = None
    BY <2>1, NoPairs
  <2>2. CASE svc0 # None
    <3> DEFINE v == svc0[1]
               k == "KubeSvcIP"
    <3>1. ip = <<<<k, v>>>>
      BY <2>2
    <3> HIDE DEF v, k
    <3>2. IsList(<<<<k, v>>>>) /\ Keys(<<<<k, v>>>>) = {k}
      BY OnePair
    <3> HIDE DEF ip
    <3> QED
      BY <3>1, <3>2 DEF k
  <2> QED
    BY <2>1, <2>2
<1> DEFINE u == RegistryURL(reg)
           R == "RegistryURL"
           C == "ContainerRuntime"
           mu == ConvertStringSliceToMap(url)
           mr == ConvertStringSliceToMap(run)
<1>4. IsList(url) /\ Keys(url) = {R} /\ DOMAIN mu = {R} /\ mu[R] = u
  <2>1. url = <<<<R, u>>>>
    OBVIOUS
  <2> HIDE DEF u, R, url
  <2>2. IsList(<<<<R, u>>>>) /\ Keys(<<<<R, u>>>>) = {R} /\ DOMAIN ConvertStringSliceToMap(<<<<R, u>>>>) = {R}
                             /\ ConvertStringSliceToMap(<<<<R, u>>>>)[R] = u
    BY OnePair
  <2> QED
    BY <2>1, <2>2
<1>5. /\ IsList(run) /\ Keys(run) \subseteq {C} /\ DOMAIN mr = (IF c.runtime = "" THEN {} ELSE {C})
      /\ c.runtime # "" => mr[C] = c.runtime
  <2>1. CASE c.runtime = ""
    <3>1. run = <<>>
      BY <2>1 DEF RuntimeEnv
    <3> HIDE DEF run
    <3> QED
      BY <2>1, <3>1, NoPairs
  <2>2. CASE c.runtime # ""
    <3> DEFINE v == c.runtime
    <3>1. run = <<<<C, v>>>>
      BY <2>2 DEF RuntimeEnv
    <3> HIDE DEF v, C, run
    <3>2. IsList(<<<<C, v>>>>) /\ Keys(<<<<C, v>>>>) = {C} /\ DOMAIN ConvertStringSliceToMap(<<<<C, v>>>>) = {C}
                               /\ ConvertStringSliceToMap(<<<<C, v>>>>)[C] = v
      BY OnePair
    <3> QED
      BY <2>2, <3>1, <3>2 DEF v
  <2> QED
    BY <2>1, <2>2
<1> HIDE DEF own, ip, url, run, u
<1>6. /\ IsList(own \o ip) /\ IsList(own \o ip \o url) /\ IsList(env)
  <2>1. IsList(own \o ip)
    BY <1>2, <1>3, ListsThen
  <2>2. IsList(own \o ip \o url)
    BY <2>1, <1>4, ListsThen
  <2> QED
    BY <2>1, <2>2, <1>5, ListsThen
<1>7. OwnEnv(env) = own
  <2>1. OwnEnv(ip) = <<>> /\ OwnEnv(url) = <<>> /\ OwnEnv(run) = <<>>
    BY <1>3, <1>4, <1>5, OwnNone DEF Reserved
  <2>2. PICK P : own \in Seq(P)
    BY <1>2, ListSays
  <2>3. own \o <<>> = own
    BY <2>2
  <2>4. ASSUME NEW s, NEW t, IsList(s), IsList(t), OwnEnv(s) = own, OwnEnv(t) = <<>>
        PROVE  OwnEnv(s \o t) = own
    <3>1. OwnEnv(s \o t) = OwnEnv(s) \o OwnEnv(t)
      BY <2>4, OwnThen, Zenon
    <3> QED
      BY <3>1, <2>3, <2>4, Zenon
  <2>5. OwnEnv(own \o ip) = own
    BY <1>2, <1>3, <2>1, <2>4, Zenon
  <2>6. OwnEnv(own \o ip \o url) = own
    BY <1>4, <1>6, <2>1, <2>4, <2>5, Zenon
  <2> QED
    BY <1>5, <1>6, <2>1, <2>4, <2>6, Zenon
<1> DEFINE map == ConvertStringSliceToMap(env)
<1>8. R \in DOMAIN map /\ map[R] = u /\ (c.runtime # "" => C \in DOMAIN map /\ map[C] = c.runtime)
  <2> DEFINE most == own \o ip
             q == most \o url
             mq == ConvertStringSliceToMap(q)
             mm == ConvertStringSliceToMap(most)
  <2>1. IsList(most) /\ IsList(q) /\ env = q \o run
    BY <1>6
  <2> HIDE DEF most
  <2>2. DOMAIN mq = DOMAIN mm \cup DOMAIN mu /\ \A k \in DOMAIN mu : mq[k] = mu[k]
    BY <2>1, <1>4, MapOver
  <2> HIDE DEF q
  <2>3. /\ DOMAIN map = DOMAIN mq \cup DOMAIN mr /\ (\A k \in DOMAIN mr : map[k] = mr[k])
        /\ \A k \in DOMAIN mq : k \notin DOMAIN mr => map[k] = mq[k]
    <3> DEFINE both == ConvertStringSliceToMap(q \o run)
    <3>1. /\ DOMAIN both = DOMAIN mq \cup DOMAIN mr /\ (\A k \in DOMAIN mr : both[k] = mr[k])
          /\ \A k \in DOMAIN mq : k \notin DOMAIN mr => both[k] = mq[k]
      <4> HIDE DEF mr
      <4>1. IsList(q) /\ IsList(run)
        BY <2>1, <1>5
      <4> QED
        BY <4>1, MapOver DEF mr
    <3> QED
      BY <2>1, <3>1
  <2>4. R # C
    OBVIOUS
  <2> HIDE DEF map, mq, mm, mu, mr, R, C
  <2> QED
    BY <2>2, <2>3, <2>4, <1>4, <1>5
<1> HIDE DEF env
<1>9. /\ DOMAIN d = DocFields /\ d.env = env /\ d.registry = reg /\ d.app = app /\ d.want = c.want
      /\ d.M = c.M /\ d.W = c.W /\ d.image = c.image /\ d.plugins = c.plugins
      /\ d.cmds = c.cmds /\ d.names = c.names /\ d.runtime = c.runtime /\ d.forced = <<>>
  <2> DEFINE none == <<>>
  <2>1. d = [[c EXCEPT !.registry = reg, !.forced = none, !.env = env] EXCEPT !.app = app]
    BY <1>1
  <2> HIDE DEF reg, app, none
  <2>2. /\ DOMAIN d = DocFields /\ d.env = env /\ d.registry = reg /\ d.app = app /\ d.want = c.want
        /\ d.M = c.M /\ d.W = c.W /\ d.image = c.image /\ d.plugins = c.plugins
        /\ d.cmds = c.cmds /\ d.names = c.names /\ d.runtime = c.runtime /\ d.forced = none
    BY <1>0, <2>1 DEF DocFields
  <2> QED
    BY <2>2 DEF none
<1>10. app # None => IsApplication(app[1])
  BY DEF Typable
<1>11. Typable(d)
  <2> HIDE DEF app
  <2> QED
    BY <1>0, <1>6, <1>7, <1>9, <1>10 DEF Typable, IsDoc
<1>12. SaysComputed(d)
  <2> DEFINE comp == Computed(d)
             said == Merge(<<>>, comp)
  <2>1. /\ DOMAIN comp = {R} \cup (IF c.runtime = "" THEN {} ELSE {C})
        /\ comp[R] = u /\ (c.runtime # "" => comp[C] = c.runtime)
    BY <1>9 DEF Computed, u
  <2> HIDE DEF comp
  <2>2. DOMAIN said = DOMAIN comp /\ \A k \in DOMAIN comp : said[k] = comp[k]
    <3>1. DOMAIN <<>> = {}
      OBVIOUS
    <3> QED
      BY <3>1 DEF Merge
  <2> HIDE DEF said, map, R, C
  <2>3. \A k \in DOMAIN comp : k \in DOMAIN map /\ map[k] = said[k]
    BY <2>1, <2>2, <1>8
  <2> QED
    BY <2>3, <1>9 DEF SaysComputed, Says, comp, said, map
<1> QED
  BY <1>9, <1>11, <1>12 DEF Fine

\* Another environment in front changes no value that was asked for.
LEMMA ExtensionFine ==
  ASSUME NEW c, Fine(c), NEW ext, IsList(ext.env), NEW d, d = MergeClusterWithImageExtension(c, ext)
  PROVE  /\ Fine(d) /\ d.M = c.M /\ d.W = c.W /\ d.image = c.image /\ d.plugins = c.plugins
         /\ d.app = c.app /\ d.cmds = c.cmds /\ d.names = c.names /\ d.want = c.want
<1> DEFINE x == ext.env
           env == x \o c.env
           map == ConvertStringSliceToMap(env)
           old == ConvertStringSliceToMap(c.env)
<1>1. DOMAIN c = DocFields /\ IsList(c.env) /\ IsList(c.want) /\ EndsWith(OwnEnv(c.env), c.want)
  BY DEF Fine, Typable, IsDoc
<1>2. d = [c EXCEPT !.env = env]
  BY DEF MergeClusterWithImageExtension
<1>3. /\ IsList(env) /\ (\A k \in DOMAIN old : k \in DOMAIN map /\ map[k] = old[k])
      /\ EndsWith(OwnEnv(env), c.want)
  <2> DEFINE e == c.env
             w == c.want
  <2>1. IsList(x) /\ IsList(e) /\ IsList(w) /\ EndsWith(OwnEnv(e), w)
    BY <1>1
  <2> HIDE DEF x, e, w
  <2>2. IsList(x \o e)
    BY <2>1, ListsThen
  <2>4. EndsWith(OwnEnv(x \o e), w)
    <3>1. OwnEnv(x \o e) = OwnEnv(x) \o OwnEnv(e)
      BY <2>1, OwnThen
    <3>2. IsList(OwnEnv(x)) /\ IsList(OwnEnv(e))
      BY <2>1, OwnKeys
    <3> QED
      BY <2>1, <3>1, <3>2, EndsThen
  <2> DEFINE mx == ConvertStringSliceToMap(x)
             me == ConvertStringSliceToMap(e)
             both == ConvertStringSliceToMap(x \o e)
  <2>3. DOMAIN both = DOMAIN mx \cup DOMAIN me /\ \A k \in DOMAIN me : both[k] = me[k]
    BY <2>1, MapThen
  <2> QED
    BY <2>2, <2>3, <2>4 DEF e, w
<1> HIDE DEF env
<1>4. /\ DOMAIN d = DocFields /\ d.env = env /\ d.M = c.M /\ d.W = c.W /\ d.image = c.image
      /\ d.plugins = c.plugins /\ d.app = c.app /\ d.want = c.want /\ d.registry = c.registry
      /\ d.cmds = c.cmds /\ d.names = c.names /\ d.runtime = c.runtime /\ d.forced = c.forced
  BY <1>1, <1>2, EnvChanged
<1>5. map = ConvertStringSliceToMap(d.env) /\ Computed(d) = Computed(c)
  BY <1>4 DEF Computed
<1> HIDE DEF map
<1>6. Typable(d)
  BY <1>1, <1>3, <1>4 DEF Fine, Typable, IsDoc
<1>7. SaysComputed(d)
  <2>1. Says(c.env, c.forced, Computed(c))
    BY DEF Fine, SaysComputed
  <2> QED
    BY <2>1, <1>3, <1>4, <1>5 DEF SaysComputed, Says
<1> QED
  BY <1>4, <1>6, <1>7 DEF Fine

\* Flags are added behind.
LEMMA FlagsFine ==
  ASSUME NEW c, Fine(c), NEW flags \in FlagSets, NEW d, d = MergeClusterWithFlags(c, flags).cf
  PROVE  Fine(d) /\ d.image = c.image /\ d.app = c.app
<1> DEFINE e == c.env
           x == flags.env
           me == ConvertStringSliceToMap(e)
           mx == ConvertStringSliceToMap(x)
           both == ConvertStringSliceToMap(e \o x)
           want == c.want \o OwnEnv(x)
           forced == Merge(mx, c.forced)
<1>1. /\ DOMAIN c = DocFields /\ IsList(e) /\ Typable(c) /\ SaysComputed(c)
      /\ IsList(c.want) /\ EndsWith(OwnEnv(e), c.want)
  BY DEF Fine, Typable, IsDoc
<1>2. IsList(x) /\ Master0 \notin flags.W /\ flags.M \subseteq Hosts /\ flags.W \subseteq Hosts
  BY FlagsAssumption
<1>3. /\ DOMAIN d = DocFields /\ d.env = e \o x /\ d.want = want /\ d.forced = forced
      /\ d.M = c.M \cup flags.M /\ d.W = c.W \cup flags.W /\ d.image = c.image
      /\ d.plugins = c.plugins /\ d.app = c.app /\ d.registry = c.registry /\ d.runtime = c.runtime
  <2> DEFINE cmds == IF flags.cmds # <<>> THEN flags.cmds ELSE c.cmds
             names == IF flags.names \notin {None, Some(<<>>)} THEN flags.names ELSE c.names
             M == c.M \cup flags.M
             W == c.W \cup flags.W
             env == e \o x
  <2>1. d = [c EXCEPT !.env = env, !.cmds = cmds, !.names = names, !.M = M, !.W = W, !.want = want, !.forced = forced]
    BY DEF MergeClusterWithFlags
  <2> HIDE DEF cmds, names, M, W, env, want, forced
  <2>2. /\ DOMAIN d = DocFields /\ d.env = env /\ d.want = want /\ d.M = M /\ d.W = W /\ d.image = c.image
        /\ d.plugins = c.plugins /\ d.app = c.app /\ d.registry = c.registry
        /\ d.runtime = c.runtime /\ d.forced = forced
    BY <1>1, <2>1 DEF DocFields
  <2> QED
    BY <2>2 DEF M, W, env
<1> DEFINE w == c.want
           f == c.forced
           comp == Computed(c)
<1>4. Says(e, f, comp) /\ Computed(d) = comp
  BY <1>1, <1>3 DEF SaysComputed, Computed
<1> HIDE DEF e, x, w, f, comp
<1>5. /\ IsList(e \o x) /\ DOMAIN both = DOMAIN me \cup DOMAIN mx
      /\ \A k \in DOMAIN mx : both[k] = mx[k]
      /\ \A k \in DOMAIN me : k \notin DOMAIN mx => both[k] = me[k]
  <2>1. IsList(e \o x)
    BY <1>1, <1>2, ListsThen
  <2>2. IsList(e) /\ IsList(x)
    BY <1>1, <1>2
  <2>3. /\ DOMAIN both = DOMAIN me \cup DOMAIN mx
        /\ \A k \in DOMAIN mx : both[k] = mx[k]
        /\ \A k \in DOMAIN me : k \notin DOMAIN mx => both[k] = me[k]
    BY <2>2, MapThen
  <2> QED
    BY <2>1, <2>3
<1>6. IsList(want) /\ EndsWith(OwnEnv(e \o x), want)
  <2>1. IsList(e) /\ IsList(x) /\ IsList(w) /\ EndsWith(OwnEnv(e), w)
    BY <1>1, <1>2 DEF w
  <2>2. IsList(OwnEnv(e)) /\ IsList(OwnEnv(x))
    BY <2>1, OwnKeys
  <2>3. OwnEnv(e \o x) = OwnEnv(e) \o OwnEnv(x)
    BY <2>1, OwnThen
  <2>4. IsList(w \o OwnEnv(x)) /\ EndsWith(OwnEnv(e) \o OwnEnv(x), w \o OwnEnv(x))
    BY <2>1, <2>2, EndsThen, ListsThen
  <2> QED
    BY <2>3, <2>4 DEF w
<1>7. Typable(d)
  <2> HIDE DEF want
  <2> QED
    BY <1>1, <1>2, <1>3, <1>5, <1>6 DEF Typable, IsDoc
<1>8. SaysComputed(d)
  <2> DEFINE m2 == Merge(mx, f)
             old == Merge(f, comp)
             new == Merge(m2, comp)
  <2>1. \A k \in DOMAIN comp : k \in DOMAIN me /\ me[k] = old[k]
    BY <1>4 DEF Says
  <2> HIDE DEF me, mx, both
  <2>2. \A k \in DOMAIN comp : new[k] = IF k \in DOMAIN mx THEN mx[k] ELSE old[k]
    <3> SUFFICES ASSUME NEW k \in DOMAIN comp PROVE new[k] = IF k \in DOMAIN mx THEN mx[k] ELSE old[k]
      OBVIOUS
    <3>1. /\ DOMAIN m2 = DOMAIN mx \cup DOMAIN f
          /\ \A y \in DOMAIN m2 : m2[y] = IF y \in DOMAIN mx THEN mx[y] ELSE f[y]
      BY DEF Merge
    <3> HIDE DEF m2
    <3>2. /\ new[k] = IF k \in DOMAIN m2 THEN m2[k] ELSE comp[k]
          /\ old[k] = IF k \in DOMAIN f THEN f[k] ELSE comp[k]
      BY DEF Merge
    <3> QED
      BY <3>1, <3>2
  <2> HIDE DEF old, new
  <2>3. \A k \in DOMAIN comp : k \in DOMAIN both /\ both[k] = new[k]
    BY <1>5, <2>1, <2>2
  <2>4. d.forced = m2 /\ both = ConvertStringSliceToMap(d.env)
    BY <1>3 DEF f, both
  <2> HIDE DEF m2
  <2> QED
    BY <1>4, <2>3, <2>4 DEF SaysComputed, Says, new
<1> QED
  BY <1>3, <1>7, <1>8 DEF Fine

\* The application of a document may be replaced by another one.
LEMMA AppFine ==
  ASSUME NEW c, Fine(c), NEW app, app # None => IsApplication(app[1]), NEW d, d = [c EXCEPT !.app = app]
  PROVE  Fine(d) /\ d.M = c.M /\ d.W = c.W /\ d.image = c.image
<1>1. DOMAIN c = DocFields
  BY DEF Fine, Typable, IsDoc
<1>2. /\ DOMAIN d = DocFields /\ d.env = c.env /\ d.want = c.want /\ d.M = c.M /\ d.W = c.W /\ d.image = c.image
      /\ d.plugins = c.plugins /\ d.app = app /\ d.registry = c.registry
      /\ d.runtime = c.runtime /\ d.forced = c.forced
  BY <1>1 DEF DocFields
<1>3. Typable(d)
  BY <1>2 DEF Fine, Typable, IsDoc
<1>4. SaysComputed(d)
  BY <1>2 DEF Fine, SaysComputed, Computed
<1> QED
  BY <1>2, <1>3, <1>4 DEF Fine

\* The environment a config has after ConstructApplication.
LEMMA AppendedSays ==
  ASSUME NEW envs, IsList(envs), NEW configs, NEW i, IsList(configs[i].env), NEW free
  PROVE  /\ IsList(Appended(envs, configs, i, free))
         /\ free = 0 => Appended(envs, configs, i, free) = envs \o configs[i].env
<1> DEFINE own == configs[i].env
           Slot(s) == LET later == {j \in i..Len(configs) : Len(configs[j].env) <= free /\ Len(configs[j].env) >= s}
                      IN configs[CHOOSE j \in later : \A l \in later : l <= j].env[s]
           shared == [s \in 1..Len(own) |-> Slot(s)]
           tail == IF Len(own) <= free THEN shared ELSE own
<1>1. Appended(envs, configs, i, free) = envs \o tail
  BY DEF Appended
<1>2. Len(own) \in Nat
  BY ListSays, SeqIsList
<1> HIDE DEF Slot
<1>3. IsList(shared)
  <2>1. shared \in Seq({shared[j] : j \in 1..Len(own)})
    BY <1>2
  <2> HIDE DEF shared
  <2> QED
    BY <2>1, SeqIsList
<1>4. IsList(tail)
  BY <1>3
<1>5. free = 0 => tail = own
  <2> SUFFICES ASSUME free = 0, Len(own) <= free PROVE shared = own
    OBVIOUS
  <2>1. Len(own) = 0
    BY <1>2
  <2>2. PICK P : own \in Seq(P)
    BY ListSays
  <2>3. own = <<>>
    BY <2>1, <2>2
  <2>4. shared = <<>>
    BY <2>1
  <2> QED
    BY <2>3, <2>4
<1> HIDE DEF tail
<1>6. IsList(envs \o tail)
  BY <1>4, ListsThen
<1> QED
  BY <1>1, <1>5, <1>6

ConfigsIn(app) == IF app = None THEN <<>> ELSE app[1].configs

\* ConstructApplication: the configs keep their names, and get the cluster's
\* environment in front of their own.
Constructed(a, app, cmds, envs, free) ==
  /\ IsApplication(a) /\ (cmds # <<>> => a.cmds = cmds)
  /\ IsList(ConfigsIn(app)) /\ Len(a.configs) = Len(ConfigsIn(app))
  /\ \A i \in 1..Len(ConfigsIn(app)) :
       a.configs[i].name = ConfigsIn(app)[i].name /\ IsList(ConfigsIn(app)[i].env)
  /\ free = 0 => \A i \in 1..Len(ConfigsIn(app)) : a.configs[i].env = envs \o ConfigsIn(app)[i].env

LEMMA ConstructSays ==
  ASSUME NEW app, app # None => IsApplication(app[1]), NEW cmds, NEW names, NEW envs, IsList(envs), NEW free
  PROVE  Constructed(ConstructApplication(app, cmds, names, envs, free), app, cmds, envs, free)
<1> SUFFICES ASSUME NEW a, a = ConstructApplication(app, cmds, names, envs, free)
             PROVE  /\ IsApplication(a) /\ (cmds # <<>> => a.cmds = cmds)
                    /\ IsList(ConfigsIn(app)) /\ Len(a.configs) = Len(ConfigsIn(app))
                    /\ \A i \in 1..Len(ConfigsIn(app)) :
                         a.configs[i].name = ConfigsIn(app)[i].name /\ IsList(ConfigsIn(app)[i].env)
                    /\ free = 0 => \A i \in 1..Len(ConfigsIn(app)) : a.configs[i].env = envs \o ConfigsIn(app)[i].env
  BY Zenon DEF Constructed
<1> DEFINE configs == ConfigsIn(app)
           base == IF app # None THEN app[1] ELSE [kind |-> "v2", cmds |-> <<>>, names |-> None, configs |-> <<>>]
           c1 == IF cmds # <<>> THEN cmds ELSE base.cmds
           n1 == IF names # None THEN names ELSE base.names
           old == base.configs
           new == IF envs = <<>> THEN old
                  ELSE [i \in 1..Len(old) |-> [old[i] EXCEPT !.env = Appended(envs, old, i, free)]]
<1>1. a = [base EXCEPT !.cmds = c1, !.names = n1, !.configs = new]
  BY DEF ConstructApplication
<1>2. IsApplication(base) /\ configs = base.configs
  <2> USE DEF ConfigsIn
  <2>1. CASE app = None
    <3>1. base = [kind |-> "v2", cmds |-> <<>>, names |-> None, configs |-> <<>>]
      BY <2>1
    <3>2. IsList(<<>>) /\ Len(<<>>) = 0
      BY DEF IsList
    <3> HIDE DEF base
    <3> QED
      BY <2>1, <3>1, <3>2 DEF IsApplication
  <2>2. CASE app # None
    BY <2>2
  <2> QED
    BY <2>1, <2>2
<1> HIDE DEF base, configs
<1>3. /\ IsList(old) /\ old = configs
      /\ \A i \in 1..Len(old) : DOMAIN old[i] = {"name", "launch", "env"} /\ IsList(old[i].env)
      /\ DOMAIN base = {"kind", "cmds", "names", "configs"}
  BY <1>2 DEF IsApplication
<1>4. DOMAIN a = {"kind", "cmds", "names", "configs"} /\ a.cmds = c1 /\ a.configs = new
  <2> HIDE DEF c1, n1, new
  <2> QED
    BY <1>1, <1>3
<1> HIDE DEF old
<1>5. Len(old) \in Nat
  BY <1>3, ListSays, SeqIsList
<1>6. CASE envs # <<>>
  <2>1. new = [i \in 1..Len(old) |-> [old[i] EXCEPT !.env = Appended(envs, old, i, free)]]
    BY <1>6
  <2>2. Len(new) = Len(old) /\ IsList(new)
    <3>1. new \in Seq({new[i] : i \in 1..Len(old)}) /\ Len(new) = Len(old)
      BY <2>1, <1>5
    <3> HIDE DEF new
    <3> QED
      BY <3>1, SeqIsList
  <2>3. ASSUME NEW i \in 1..Len(old)
        PROVE  /\ DOMAIN new[i] = {"name", "launch", "env"} /\ IsList(new[i].env) /\ new[i].name = old[i].name
               /\ free = 0 => new[i].env = envs \o old[i].env
    <3> DEFINE e == Appended(envs, old, i, free)
    <3>1. new[i] = [old[i] EXCEPT !.env = e]
      BY <2>1
    <3>2. IsList(e) /\ (free = 0 => e = envs \o old[i].env)
      BY <1>3, AppendedSays
    <3> HIDE DEF e, new
    <3> QED
      BY <1>3, <3>1, <3>2
  <2> HIDE DEF new
  <2>4. IsApplication(a)
    BY <1>4, <2>2, <2>3 DEF IsApplication
  <2> QED
    BY <1>3, <1>4, <2>2, <2>3, <2>4 DEF configs
<1>7. CASE envs = <<>>
  <2>1. new = old
    BY <1>7
  <2>2. ASSUME NEW i \in 1..Len(old) PROVE old[i].env = envs \o old[i].env
    <3>1. PICK P : old[i].env \in Seq(P)
      BY <1>3, ListSays
    <3> QED
      BY <3>1, <1>7
  <2> HIDE DEF new
  <2>3. IsApplication(a)
    BY <1>3, <1>4, <2>1 DEF IsApplication
  <2> QED
    BY <1>3, <1>4, <2>1, <2>2, <2>3 DEF configs
<1> QED
  BY <1>6, <1>7 DEF configs

\* What scale-up, scale-down, upgrade and rollback make of a document.
LEMMA HostsFine ==
  ASSUME NEW c, Fine(c)
  PROVE  /\ \A M, W : M \subseteq Hosts /\ W \subseteq Hosts /\ Master0 \notin W => Fine(WithHosts(c, M, W))
         /\ \A hosts : Master0 \notin hosts => Fine(WithoutHosts(c, hosts))
<1>1. DOMAIN c = DocFields /\ Typable(c) /\ SaysComputed(c)
  BY DEF Fine, Typable, IsDoc
<1>2. ASSUME NEW M, NEW W, M \subseteq Hosts, W \subseteq Hosts, Master0 \notin W
      PROVE  Fine(WithHosts(c, M, W))
  <2> DEFINE d == WithHosts(c, M, W)
             M1 == c.M \cup M
             W1 == c.W \cup W
  <2>1. d = [c EXCEPT !.M = M1, !.W = W1]
    BY DEF WithHosts
  <2> HIDE DEF M1, W1, d
  <2>2. /\ DOMAIN d = DocFields /\ d.env = c.env /\ d.want = c.want /\ d.image = c.image
        /\ d.plugins = c.plugins /\ d.app = c.app /\ d.registry = c.registry
        /\ d.runtime = c.runtime /\ d.forced = c.forced /\ d.M = M1 /\ d.W = W1
    BY <1>1, <2>1 DEF DocFields
  <2>3. M1 \subseteq Hosts /\ W1 \subseteq Hosts /\ Master0 \in M1 /\ Master0 \notin W1
    BY <1>1, <1>2 DEF M1, W1, Typable, IsDoc
  <2>4. Typable(d) /\ SaysComputed(d)
    BY <1>1, <2>2, <2>3 DEF Typable, SaysComputed, Computed, IsDoc
  <2> QED
    BY <2>4 DEF Fine, d
<1>3. ASSUME NEW hosts, Master0 \notin hosts
      PROVE  Fine(WithoutHosts(c, hosts))
  <2> DEFINE d == WithoutHosts(c, hosts)
             M1 == c.M \ hosts
             W1 == c.W \ hosts
  <2>1. d = [c EXCEPT !.M = M1, !.W = W1]
    BY DEF WithoutHosts
  <2> HIDE DEF M1, W1, d
  <2>2. /\ DOMAIN d = DocFields /\ d.env = c.env /\ d.want = c.want /\ d.image = c.image
        /\ d.plugins = c.plugins /\ d.app = c.app /\ d.registry = c.registry
        /\ d.runtime = c.runtime /\ d.forced = c.forced /\ d.M = M1 /\ d.W = W1
    BY <1>1, <2>1 DEF DocFields
  <2>3. M1 \subseteq Hosts /\ W1 \subseteq Hosts /\ Master0 \in M1 /\ Master0 \notin W1
    BY <1>1, <1>3 DEF M1, W1, Typable, IsDoc
  <2>4. Typable(d) /\ SaysComputed(d)
    BY <1>1, <2>2, <2>3 DEF Typable, SaysComputed, Computed, IsDoc
  <2> QED
    BY <2>4 DEF Fine, d
<1> QED
  BY <1>2, <1>3

\* A list ends with itself.
LEMMA OwnEnds ==
  ASSUME NEW env, IsList(env)
  PROVE  IsList(OwnEnv(env)) /\ EndsWith(OwnEnv(env), OwnEnv(env))
<1> DEFINE r == OwnEnv(env)
<1>1. IsList(r)
  BY OwnKeys
<1> HIDE DEF r
<1>2. Len(r) \in Nat
  BY <1>1, ListSays, SeqIsList
<1>3. EndsWith(r, r)
  BY <1>2 DEF EndsWith
<1> QED
  BY <1>1, <1>3 DEF r

LEMMA TypedFine ==
  ASSUME NEW f \in Files, NEW c, c = Typed(f).cf
  PROVE  Fine(c) /\ c.image = f.image
<1> DEFINE want == OwnEnv(f.env)
           g == [f EXCEPT !.want = want]
<1>1. c = decodeClusterFile(g).cf
  BY DEF Typed
<1>2. /\ IsDoc(f) /\ f.M \cap f.W = {} /\ Master0 \in f.M
      /\ IsList(f.env) /\ IsList(f.plugins) /\ \A i \in 1..Len(f.plugins) : f.plugins[i].src = "file"
      /\ f.app # None => IsApplication(f.app[1])
  BY FilesAssumption
<1>3. IsList(want) /\ EndsWith(OwnEnv(f.env), want)
  BY <1>2, OwnEnds
<1> HIDE DEF want
<1>4. /\ DOMAIN g = DocFields /\ g.env = f.env /\ g.want = want /\ g.image = f.image
      /\ g.plugins = f.plugins /\ g.app = f.app /\ g.M = f.M /\ g.W = f.W
  BY <1>2 DEF DocFields, IsDoc
<1> HIDE DEF g
<1>5. Typable(g)
  BY <1>2, <1>3, <1>4 DEF Typable, IsDoc
<1> QED
  BY <1>1, <1>4, <1>5, DecodeFine

LEMMA RunFine ==
  ASSUME NEW args \in ArgSets, args[2].M # {},
         NEW c, c = decodeClusterFile(ConstructClusterForRun(args[1], args[2])).cf
  PROVE  Fine(c)
<1> DEFINE flags == args[2]
           image == args[1]
           g == ConstructClusterForRun(image, flags)
           want == OwnEnv(flags.env)
<1>1. /\ image \in DOMAIN Ext /\ flags.M \subseteq Hosts /\ flags.W \subseteq Hosts
      /\ IsList(flags.env) /\ Master0 \notin flags.W /\ Master0 \in flags.M
  BY FlagsAssumption
<1>2. IsList(want) /\ EndsWith(OwnEnv(flags.env), want)
  BY <1>1, OwnEnds
<1>3. c = decodeClusterFile(g).cf
  OBVIOUS
<1> HIDE DEF flags, image
<1>4. /\ DOMAIN g = DocFields /\ g.env = flags.env /\ g.want = want /\ g.image = image
      /\ g.plugins = <<>> /\ g.app = None /\ g.M = flags.M /\ g.W = flags.W
  BY DEF ConstructClusterForRun, DocFields
<1>5. IsList(<<>>) /\ Len(<<>>) = 0
  BY DEF IsList
<1> HIDE DEF g, want
<1>6. Typable(g)
  BY <1>1, <1>2, <1>4, <1>5 DEF Typable, IsDoc
<1> QED
  BY <1>3, <1>6, DecodeFine

\* The documents sealer keeps.
DocsFine == (disk # None => Fine(disk[1])) /\ (cm # None => Fine(cm[1]))

LEMMA ActualFine ==
  ASSUME DocsFine, GetActualClusterFile.ok
  PROVE  Fine(GetActualClusterFile.cf)
<1>1. \/ cm # None /\ GetActualClusterFile = decodeClusterFile(cm[1])
      \/ disk # None /\ GetActualClusterFile = decodeClusterFile(disk[1])
      \/ GetActualClusterFile = [ok |-> FALSE, cf |-> None]
  BY DEF GetActualClusterFile
<1>2. \A c : Fine(c) => Fine(decodeClusterFile(c).cf)
  BY DecodeFine DEF Fine
<1> QED
  BY <1>1, <1>2 DEF DocsFine

LEMMA AnotherFine ==
  ASSUME DocsFine, GetActualClusterFile.ok, NEW image \in DOMAIN Ext
  PROVE  Fine(Another(image).cf) /\ Another(image).cf.image = image
<1> DEFINE c == GetActualClusterFile.cf
           names == None
           g == WithImage(c, image, names)
<1>1. Typable(c)
  BY ActualFine DEF Fine
<1>2. Another(image) = decodeClusterFile(g)
  BY DEF Another
<1> HIDE DEF c
<1>3. g = [c EXCEPT !.image = image, !.names = names, !.app = None, !.plugins = <<>>]
  BY DEF WithImage
<1>4. IsList(<<>>) /\ Len(<<>>) = 0
  BY DEF IsList
<1> DEFINE app == None
           plugins == <<>>
<1>5. g = [c EXCEPT !.image = image, !.names = names, !.app = app, !.plugins = plugins]
  BY <1>3
<1> HIDE DEF names, g, app, plugins
<1>6. /\ DOMAIN g = DocFields /\ g.env = c.env /\ g.want = c.want /\ g.image = image
      /\ g.plugins = plugins /\ g.app = app /\ g.M = c.M /\ g.W = c.W
  BY <1>1, <1>5 DEF DocFields, Typable, IsDoc
<1>7. Typable(g)
  BY <1>1, <1>4, <1>6 DEF Typable, IsDoc, app, plugins
<1> QED
  BY <1>2, <1>6, <1>7, DecodeFine

------------------------------------------------------------------------------
(* Applications.                                                           *)

\* One step of EnvAfter.
After(configs, env, f, i) ==
  IF i = 0 THEN env ELSE Merge(ConvertStringSliceToMap(configs[i].env), f[i - 1])

LEMMA AfterExists ==
  ASSUME NEW configs, Len(configs) \in Nat, NEW env
  PROVE  \E f : f = [i \in 0..Len(configs) |-> After(configs, env, f, i)]
<1> DEFINE Good(k) == \E f : f = [i \in 0..k |-> After(configs, env, f, i)]
           S == {k \in 0..Len(configs) : ~Good(k)}
<1>1. SUFFICES ASSUME S # {} PROVE FALSE
  OBVIOUS
<1>2. PICK m \in S : \A k \in S : m <= k
  <2>1. S \subseteq Nat
    OBVIOUS
  <2> HIDE DEF S
  <2> QED
    BY <1>1, <2>1, Least
<1>3. Good(0)
  <2> DEFINE f == [i \in 0..0 |-> env]
  <2>1. f = [i \in 0..0 |-> After(configs, env, f, i)]
    BY DEF After
  <2> QED
    BY <2>1
<1>4. m # 0 /\ m - 1 \in 0..Len(configs) /\ m \in Nat
  <2>1. m \in 0..Len(configs) /\ ~Good(m)
    BY <1>2
  <2> HIDE DEF Good
  <2> QED
    BY <1>3, <2>1
<1>5. Good(m - 1)
  BY <1>2, <1>4
<1>6. PICK f : f = [i \in 0..(m - 1) |-> After(configs, env, f, i)]
  BY <1>5
<1> DEFINE g == [i \in 0..m |-> IF i = m THEN After(configs, env, f, m) ELSE f[i]]
<1>7. g = [i \in 0..m |-> After(configs, env, g, i)]
  <2>1. ASSUME NEW i \in 0..m PROVE g[i] = After(configs, env, g, i)
    <3>1. i # 0 => g[i - 1] = f[i - 1]
      BY <1>4
    <3>2. After(configs, env, g, i) = After(configs, env, f, i)
      BY <3>1 DEF After
    <3>3. i # m => f[i] = After(configs, env, f, i)
      BY <1>4, <1>6
    <3> QED
      BY <3>2, <3>3
  <2> QED
    BY <2>1
<1> QED
  BY <1>2, <1>7

\* The last config has the last word.
LEMMA LastConfigWins ==
  ASSUME NEW configs, IsList(configs), configs # <<>>, NEW env,
         NEW map, map = ConvertStringSliceToMap(configs[Len(configs)].env), NEW k \in DOMAIN map
  PROVE  k \in DOMAIN EnvAfter(configs, env) /\ EnvAfter(configs, env)[k] = map[k]
<1> DEFINE f == CHOOSE f : f = [i \in 0..Len(configs) |-> After(configs, env, f, i)]
<1>1. Len(configs) \in Nat /\ Len(configs) # 0
  <2>1. PICK P : configs \in Seq(P)
    BY ListSays
  <2> QED
    BY <2>1
<1>2. f = [i \in 0..Len(configs) |-> After(configs, env, f, i)]
  BY <1>1, AfterExists
<1>3. EnvAfter(configs, env) = f[Len(configs)]
  BY Zenon DEF EnvAfter, After
<1> HIDE DEF f
<1>4. f[Len(configs)] = Merge(map, f[Len(configs) - 1])
  <2> DEFINE N == Len(configs)
  <2>1. N \in 0..Len(configs)
    BY <1>1
  <2>2. f[N] = After(configs, env, f, N)
    <3> HIDE DEF N
    <3> QED
      BY <2>1, <1>2
  <2> QED
    BY <2>2, <1>1 DEF After
<1> DEFINE prev == f[Len(configs) - 1]
<1> HIDE DEF prev
<1>5. k \in DOMAIN Merge(map, prev) /\ Merge(map, prev)[k] = map[k]
  BY DEF Merge
<1> QED
  BY <1>3, <1>4, <1>5 DEF prev

\* What a list of configs and the cluster say of the variables of the
\* applications, and that the files are rendered with it.
Renders(configs, want, apps, rendered) ==
  \A i \in 1..Len(configs) :
    LET a == configs[i].name
        said == Merge(ConvertStringSliceToMap(configs[i].env), want)
    IN /\ \A j \in (i + 1)..Len(configs) : configs[j].name # a
       /\ IsInSlice(a, apps) /\ a \in DOMAIN rendered
       => \A k \in DOMAIN said : k \in DOMAIN rendered[a] /\ rendered[a][k] = said[k]

\* NewAppDriver on the application ConstructApplication makes.
LEMMA DriverSays ==
  ASSUME NEW app, app # None => IsApplication(app[1]), NEW cmds, NEW names, NEW envs, IsList(envs), NEW free,
         NEW ext, NEW a, a = ConstructApplication(app, cmds, names, envs, free),
         NEW d, d = NewAppDriver(a, ext)
  PROVE  /\ cmds # <<>> => d.globalCmds = Some(cmds)
         /\ \A want : (free = 0 /\ Given(want, envs)) =>
              Renders(ConfigsIn(app), want, d.launchApps, FileProcess(d))
<1> DEFINE configs == ConfigsIn(app)
<1>1. /\ IsApplication(a) /\ (cmds # <<>> => a.cmds = cmds)
      /\ IsList(configs) /\ Len(a.configs) = Len(configs)
      /\ \A i \in 1..Len(configs) : a.configs[i].name = configs[i].name /\ IsList(configs[i].env)
      /\ free = 0 => \A i \in 1..Len(configs) : a.configs[i].env = envs \o configs[i].env
  <2>1. Constructed(ConstructApplication(app, cmds, names, envs, free), app, cmds, envs, free)
    BY ConstructSays, Zenon
  <2>2. Constructed(a, app, cmds, envs, free)
    BY <2>1, Zenon
  <2> QED
    BY <2>2, Zenon DEF Constructed
<1> HIDE DEF configs
<1>2. cmds # <<>> => d.globalCmds = Some(cmds)
  BY <1>1 DEF NewAppDriver
<1>3. ASSUME NEW want, free = 0, Given(want, envs)
      PROVE  Renders(configs, want, d.launchApps, FileProcess(d))
  <2> DEFINE apps == d.launchApps
             rendered == FileProcess(d)
             first == formatImageExtension(ext).env
  <2>1. /\ DOMAIN rendered = DOMAIN first
        /\ \A x \in DOMAIN first : rendered[x] = EnvAfter(ConfigsOf(a, apps, x), first[x])
    BY DEF FileProcess, NewAppDriver
  <2> HIDE DEF apps, rendered, first
  <2>2. SUFFICES ASSUME NEW i \in 1..Len(configs), NEW x, x = configs[i].name,
                        \A j \in (i + 1)..Len(configs) : configs[j].name # x,
                        IsInSlice(x, apps), x \in DOMAIN rendered,
                        NEW own, own = ConvertStringSliceToMap(configs[i].env),
                        NEW k \in DOMAIN Merge(own, want)
                 PROVE  k \in DOMAIN rendered[x] /\ rendered[x][k] = Merge(own, want)[k]
    BY DEF Renders, apps, rendered
  <2> DEFINE places == {j \in 1..Len(a.configs) : a.configs[j].name = x /\ IsInSlice(x, apps)}
             r == ConfigsOf(a, apps, x)
  <2>3. IsList(a.configs)
    BY <1>1 DEF IsApplication
  <2>4. PICK g : Lists(r, g, a.configs, places, Len(a.configs))
    <3>1. r = Only(a.configs, places)
      BY DEF ConfigsOf
    <3> HIDE DEF places, r
    <3> QED
      BY <2>3, <3>1, OnlySays
  <2>5. i \in places /\ \A j \in places : j <= i
    <3>1. Len(configs) \in Nat
      BY <1>1, ListSays, SeqIsList
    <3>2. i \in places
      BY <1>1, <2>2
    <3>3. ASSUME NEW j \in places, i < j PROVE FALSE
      <4>1. j \in (i + 1)..Len(configs) /\ configs[j].name = x
        BY <3>1, <3>3, <1>1
      <4> QED
        BY <4>1, <2>2
    <3> QED
      BY <3>1, <3>2, <3>3, <1>1
  <2> HIDE DEF places, r
  <2>6. /\ IsList(r) /\ g \in [1..Len(r) -> 1..Len(a.configs)]
        /\ \A j \in 1..Len(r) : g[j] \in places /\ r[j] = a.configs[g[j]]
        /\ \A p, j \in 1..Len(r) : p < j => g[p] < g[j]
        /\ \A p \in places : p \in 1..Len(a.configs) => \E j \in 1..Len(r) : g[j] = p
    BY <2>4 DEF Lists
  <2>7. Len(r) \in Nat /\ Len(a.configs) \in Nat
    BY <2>3, <2>6, ListSays, SeqIsList
  <2>8. PICK j \in 1..Len(r) : g[j] = i
    BY <2>5, <2>6, <1>1, <2>2
  <2>9. j = Len(r)
    <3>1. SUFFICES ASSUME j < Len(r) PROVE FALSE
      BY <2>7, <2>8
    <3>2. Len(r) \in 1..Len(r)
      BY <3>1, <2>7, <2>8
    <3>3. g[j] < g[Len(r)] /\ g[Len(r)] \in places /\ g[Len(r)] \in Nat
      BY <3>1, <3>2, <2>6, <2>7, <2>8
    <3> QED
      BY <3>3, <2>5, <2>6, <2>8
  <2>10. r # <<>> /\ r[Len(r)] = a.configs[i]
    BY <2>6, <2>7, <2>8, <2>9
  <2> DEFINE ce == configs[i].env
             both == ConvertStringSliceToMap(envs \o ce)
             me == ConvertStringSliceToMap(envs)
  <2>11. r[Len(r)].env = envs \o ce
    BY <1>1, <1>3, <2>10
  <2>12. IsList(ce)
    BY <1>1
  <2>13. /\ DOMAIN both = DOMAIN me \cup DOMAIN own
         /\ \A y \in DOMAIN own : both[y] = own[y]
         /\ \A y \in DOMAIN me : y \notin DOMAIN own => both[y] = me[y]
    <3>1. own = ConvertStringSliceToMap(ce)
      BY <2>2
    <3> HIDE DEF ce
    <3>2. IsList(envs) /\ IsList(ce)
      BY <2>12
    <3> DEFINE mc == ConvertStringSliceToMap(ce)
    <3>3. /\ DOMAIN both = DOMAIN me \cup DOMAIN mc
          /\ \A y \in DOMAIN mc : both[y] = mc[y]
          /\ \A y \in DOMAIN me : y \notin DOMAIN mc => both[y] = me[y]
      BY <3>2, MapOver
    <3> QED
      BY <3>1, <3>3
  <2>14. k \in DOMAIN both /\ both[k] = Merge(own, want)[k]
    <3>1. \A y \in DOMAIN want : y \in DOMAIN me /\ me[y] = want[y]
      BY <1>3 DEF Given
    <3> HIDE DEF both, me
    <3>2. k \in DOMAIN own \cup DOMAIN want /\ Merge(own, want)[k] = IF k \in DOMAIN own THEN own[k] ELSE want[k]
      BY <2>2 DEF Merge
    <3> QED
      BY <3>1, <3>2, <2>13
  <2>15. k \in DOMAIN EnvAfter(r, first[x]) /\ EnvAfter(r, first[x])[k] = both[k]
    <3>1. both = ConvertStringSliceToMap(r[Len(r)].env)
      BY <2>11
    <3> DEFINE e == first[x]
    <3> HIDE DEF both, e
    <3>2. k \in DOMAIN EnvAfter(r, e) /\ EnvAfter(r, e)[k] = both[k]
      BY <2>6, <2>10, <2>14, <3>1, LastConfigWins
    <3> QED
      BY <3>2 DEF e
  <2>16. rendered[x] = EnvAfter(r, first[x])
    BY <2>1, <2>2 DEF r
  <2> QED
    BY <2>14, <2>15, <2>16
<1> QED
  BY <1>2, <1>3 DEF configs

------------------------------------------------------------------------------
(* The inductive invariant.                                                *)

Phases == HostPhases \cup ClusterPhases
NoPhase(todo) == \A i \in 1..Len(todo) : todo[i] \notin Phases

\* The plugins come from the file or from its image.
From(plugins, image) == \A i \in 1..Len(plugins) : plugins[i].src \in {"file", image}
OwnPlugins(o) == From(o.plugins, o.cf.image)

\* Hooks find the image of the file, or will after the hosts have it, or run
\* before they do and come from what is there, or there are none left.
HooksFit(o) ==
  \/ OwnPlugins(o) /\ \A h \in All(o.cf) : rootfs[h] \in {"none", o.cf.image}
  \/ /\ OwnPlugins(o) /\ All(o.cf) \subseteq o.touched
     /\ o.todo[1] = "distribute" \/ (o.todo[1] = "save" /\ o.todo[2] = "distribute")
  \/ /\ o.todo \in {RollbackSteps, Tail(RollbackSteps)}
     /\ \A i \in 1..Len(o.plugins) : o.plugins[i].src = rootfs[Master0]
  \/ NoPhase(o.todo)

HookOp(o) ==
  ~o.torn => HooksFit(o) /\ \A p \in o.hooked : p[1] = "file" \/ p[1] = p[2]

\* The documents of a command.
DocOp(o) ==
  /\ Fine(o.cf)
  /\ o.cmd = "scale-down" => Master0 \notin o.touched
  /\ ToDo(o.todo, "toApp") => Fine(o.spec[1])

\* The driver of its applications runs what was asked for.
Driven(o) ==
  /\ o.app # None
  /\ o.asked.cmds # <<>> => o.app[1].globalCmds = Some(o.asked.cmds)
  /\ (o.rendered # None /\ o.free = 0) =>
       Renders(o.asked.configs, o.asked.want, o.app[1].launchApps, o.rendered[1])
  /\ o.launched # None =>
       o.launched[1].cmds = GetImageLaunchCmds(o.app[1]) /\ o.launched[1].apps = o.app[1].launchApps

\* Its applications: an upgrade or a rollback has no driver until it launches.
AppOp(o) ==
  \/ /\ o.app = None /\ o.rendered = None /\ o.launched = None
     /\ o.asked.cmds = <<>> \/ o.asked.cmds = o.cf.cmds
  \/ Driven(o)

Sound(o) == DocOp(o) /\ HookOp(o) /\ AppOp(o)
DocInv == DocsFine /\ (~IsIdle => Sound(op))
------------------------------------------------------------------------------
(* The steps of the commands.                                              *)

LEMMA ToDoThen ==
  ASSUME NEW s, NEW t, IsList(s), IsList(t)
  PROVE  /\ IsList(s \o t)
         /\ \A x : ToDo(s \o t, x) <=> ToDo(s, x) \/ ToDo(t, x)
         /\ NoPhase(s) /\ NoPhase(t) => NoPhase(s \o t)
<1>1. /\ IsList(s \o t) /\ Len(s) \in Nat /\ Len(t) \in Nat /\ Len(s \o t) = Len(s) + Len(t)
      /\ \A i \in 1..Len(s) : i \in 1..Len(s \o t) /\ (s \o t)[i] = s[i]
      /\ \A i \in 1..Len(t) : Len(s) + i \in 1..Len(s \o t) /\ (s \o t)[Len(s) + i] = t[i]
      /\ \A i \in 1..Len(s \o t) :
           i \in 1..Len(s) \/ (i > Len(s) /\ i - Len(s) \in 1..Len(t) /\ (s \o t)[i] = t[i - Len(s)])
  BY ListsThen
<1> DEFINE r == s \o t
<1> HIDE DEF r
<1>2. ASSUME NEW x, ToDo(r, x) PROVE ToDo(s, x) \/ ToDo(t, x)
  <2>1. PICK i \in 1..Len(r) : r[i] = x
    BY <1>2 DEF ToDo
  <2> QED
    BY <2>1, <1>1 DEF ToDo, r
<1>3. ASSUME NEW x, ToDo(s, x) PROVE ToDo(r, x)
  BY <1>1, <1>3 DEF ToDo, r
<1>4. ASSUME NEW x, ToDo(t, x) PROVE ToDo(r, x)
  <2>1. PICK i \in 1..Len(t) : t[i] = x
    BY <1>4 DEF ToDo
  <2>2. Len(s) + i \in 1..Len(r) /\ r[Len(s) + i] = x
    BY <2>1, <1>1 DEF r
  <2> QED
    BY <2>2 DEF ToDo
<1>5. ASSUME NoPhase(s), NoPhase(t) PROVE NoPhase(r)
  <2> SUFFICES ASSUME NEW i \in 1..Len(r) PROVE r[i] \notin Phases
    BY DEF NoPhase
  <2> QED
    BY <1>1, <1>5 DEF NoPhase, r
<1> QED
  BY <1>1, <1>2, <1>3, <1>4, <1>5 DEF r

LEMMA TuplesAreLists ==
  /\ IsList(<<"save", "distribute", "pre-install", "pre-init-host">>)
  /\ IsList(<<"save", "distribute", "pre-scaleup", "pre-init-host">>)
  /\ IsList(<<"save", "distribute", "upgrade-host", "upgrade">>)
  /\ IsList(<<"post-init-host", "post-install", "roles">>)
  /\ IsList(<<"post-init-host", "post-scaleup", "roles", "commit">>)
  /\ IsList(RuntimeInstall) /\ IsList(RuntimeScaleUp) /\ IsList(AppSteps) /\ IsList(ScaleDownSteps)
  /\ IsList(UnInstallSteps) /\ IsList(<<"toApp">>) /\ IsList(<<"save", "rollback", "distribute">>)
  /\ IsList(<<>>)
<1> USE SeqIsList
<1>1. \A a, b, c, d : <<a, b, c, d>> \in Seq({a, b, c, d})
  OBVIOUS
<1>2. \A a, b, c : <<a, b, c>> \in Seq({a, b, c})
  OBVIOUS
<1>3. <<"toApp">> \in Seq({"toApp"}) /\ <<>> \in Seq({})
  OBVIOUS
<1>4. IsList(RuntimeInstall)
  <2>1. \A a, b, c, d, e, f : <<a, b, c, d, e, f>> \in Seq({a, b, c, d, e, f})
    OBVIOUS
  <2> QED
    BY <2>1 DEF RuntimeInstall
<1>5. IsList(RuntimeScaleUp)
  <2>1. \A a, b : <<a, b>> \in Seq({a, b})
    OBVIOUS
  <2> QED
    BY <1>1, <2>1 DEF RuntimeScaleUp
<1>6. IsList(ScaleDownSteps)
  <2>1. \A a, b, c, d, e : <<a, b, c, d, e>> \in Seq({a, b, c, d, e})
    OBVIOUS
  <2> QED
    BY <2>1 DEF ScaleDownSteps
<1>7. IsList(UnInstallSteps)
  <2>1. UnInstallSteps \in Seq(AnyStep)
    BY UninstallStarts DEF Starter, GoodSteps
  <2> QED
    BY <2>1
<1>8. IsList(AppSteps)
  BY <1>2 DEF AppSteps
<1> QED
  BY <1>1, <1>2, <1>3, <1>4, <1>5, <1>6, <1>7, <1>8
LEMMA StepsSay ==
  /\ \A s \in {InstallSteps, ScaleUpSteps, UpgradeSteps, RollbackSteps, ScaleDownSteps, UnInstallSteps, AppSteps,
               <<"update">>} : ~ToDo(s, "toApp")
  /\ \A s \in {InstallSteps, UpgradeSteps} : s[1] = "save" /\ s[2] = "distribute"
  /\ NoPhase(AppSteps) /\ NoPhase(<<"toApp">> \o AppSteps) /\ NoPhase(<<"update">>)
  /\ RollbackSteps[1] = "save" /\ Tail(RollbackSteps)[1] = "rollback" /\ NoPhase(Tail(Tail(RollbackSteps)))
  /\ Tail(RollbackSteps) # RollbackSteps
<1> DEFINE i1 == <<"save", "distribute", "pre-install", "pre-init-host">>
           i2 == <<"post-init-host", "post-install", "roles">>
           s1 == <<"save", "distribute", "pre-scaleup", "pre-init-host">>
           s2 == <<"post-init-host", "post-scaleup", "roles", "commit">>
           u1 == <<"save", "distribute", "upgrade-host", "upgrade">>
           x == "toApp"
<1>0. /\ IsList(i1) /\ IsList(i2) /\ IsList(s1) /\ IsList(s2) /\ IsList(u1)
      /\ IsList(RuntimeInstall) /\ IsList(RuntimeScaleUp) /\ IsList(AppSteps)
  BY TuplesAreLists
<1>1. ~ToDo(i1, x) /\ ~ToDo(i2, x) /\ ~ToDo(s1, x) /\ ~ToDo(s2, x) /\ ~ToDo(u1, x)
  BY DEF ToDo
<1>2. ~ToDo(RuntimeInstall, x)
  BY DEF ToDo, RuntimeInstall
<1>3. ~ToDo(RuntimeScaleUp, x)
  BY DEF ToDo, RuntimeScaleUp
<1>4. ~ToDo(AppSteps, x) /\ ~ToDo(ScaleDownSteps, x) /\ ~ToDo(<<"update">>, x)
  BY DEF ToDo, AppSteps, ScaleDownSteps
<1>5. ~ToDo(UnInstallSteps, x)
  BY DEF ToDo, UnInstallSteps
<1> DEFINE r1 == <<"save", "rollback", "distribute">>
<1>6. /\ RollbackSteps \in Seq(AnyStep) /\ Len(RollbackSteps) = 6
      /\ RollbackSteps[1] = "save" /\ RollbackSteps[2] = "rollback"
      /\ \A i \in 3..6 : RollbackSteps[i] \in {"distribute", "launch", "saveApp", "commit"}
  <2>1. RollbackSteps = r1 \o AppSteps /\ IsList(r1) /\ IsList(AppSteps)
    BY TuplesAreLists DEF RollbackSteps
  <2>2. Len(r1) = 3 /\ r1[1] = "save" /\ r1[2] = "rollback" /\ r1[3] = "distribute"
    OBVIOUS
  <2>3. Len(AppSteps) = 3 /\ \A i \in 1..3 : AppSteps[i] \in {"launch", "saveApp", "commit"}
    BY DEF AppSteps
  <2>4. RollbackSteps \in Seq(AnyStep)
    BY PlainCommandsStart DEF Starter, GoodSteps
  <2> HIDE DEF r1
  <2> DEFINE r == r1 \o AppSteps
  <2>5. /\ Len(r) = Len(r1) + Len(AppSteps)
        /\ \A i \in 1..Len(r1) : r[i] = r1[i]
        /\ \A i \in 1..Len(r) : i \in 1..Len(r1) \/ (i - Len(r1) \in 1..Len(AppSteps) /\ r[i] = AppSteps[i - Len(r1)])
    BY <2>1, ListsThen
  <2> HIDE DEF r
  <2>6. /\ Len(r) = 6 /\ r[1] = "save" /\ r[2] = "rollback" /\ r[3] = "distribute"
        /\ \A i \in 4..6 : r[i] = AppSteps[i - 3] /\ i - 3 \in 1..3
    BY <2>2, <2>3, <2>5
  <2>7. \A i \in 3..6 : r[i] \in {"distribute", "launch", "saveApp", "commit"}
    BY <2>3, <2>6
  <2> QED
    BY <2>1, <2>4, <2>6, <2>7 DEF r
<1>7. ~ToDo(RollbackSteps, x)
  BY <1>6 DEF ToDo
<1>8. /\ i1[1] = "save" /\ i1[2] = "distribute" /\ u1[1] = "save" /\ u1[2] = "distribute"
      /\ 1 \in 1..Len(i1) /\ 2 \in 1..Len(i1) /\ 1 \in 1..Len(u1) /\ 2 \in 1..Len(u1)
  OBVIOUS
<1>9. Tail(RollbackSteps)[1] = "rollback" /\ Tail(RollbackSteps) # RollbackSteps
  <2>1. Tail(RollbackSteps)[1] = RollbackSteps[2]
    BY <1>6
  <2> QED
    BY <2>1, <1>6
<1>10. NoPhase(Tail(Tail(RollbackSteps)))
  <2> DEFINE t == Tail(Tail(RollbackSteps))
  <2>1. Len(t) = 4 /\ \A i \in 1..4 : t[i] = RollbackSteps[i + 2] /\ i + 2 \in 3..6
    <3> DEFINE r == RollbackSteps
               u == Tail(r)
    <3>0. GoodSteps(r) /\ r # <<>> /\ Len(r) = 6
      BY <1>6, PlainCommandsStart DEF Starter
    <3> HIDE DEF r
    <3>a. GoodSteps(u) /\ Len(u) = Len(r) - 1 /\ \A i \in 1..Len(u) : u[i] = r[i + 1]
      BY <3>0, GoodTail
    <3>1. GoodSteps(u) /\ Len(u) = 5 /\ \A i \in 1..5 : u[i] = r[i + 1]
      <4> HIDE DEF u
      <4> QED
        BY <3>0, <3>a
    <3>2. u # <<>>
      BY <3>1
    <3> HIDE DEF u
    <3>b. Len(Tail(u)) = Len(u) - 1 /\ \A i \in 1..Len(Tail(u)) : Tail(u)[i] = u[i + 1]
      BY <3>1, <3>2, GoodTail
    <3>3. Len(Tail(u)) = 4 /\ \A i \in 1..4 : Tail(u)[i] = u[i + 1]
      <4> DEFINE v == Tail(u)
      <4>1. Len(v) = Len(u) - 1 /\ \A i \in 1..Len(v) : v[i] = u[i + 1]
        BY <3>b
      <4> HIDE DEF v
      <4>2. Len(v) = 4 /\ \A i \in 1..4 : v[i] = u[i + 1]
        BY <3>1, <4>1
      <4> QED
        BY <4>2 DEF v
    <3>4. \A i \in 1..4 : i + 1 \in 1..5 /\ i + 1 + 1 = i + 2 /\ i + 2 \in 3..6
      OBVIOUS
    <3>5. \A i \in 1..4 : Tail(u)[i] = r[i + 2]
      BY <3>1, <3>3, <3>4
    <3> QED
      BY <3>3, <3>4, <3>5 DEF u, r
  <2> HIDE DEF t
  <2>2. \A i \in 1..Len(t) : t[i] \in {"distribute", "launch", "saveApp", "commit"}
    BY <2>1, <1>6
  <2>3. \A y \in {"distribute", "launch", "saveApp", "commit"} : y \notin Phases
    BY DEF Phases, HostPhases, ClusterPhases
  <2> QED
    BY <2>2, <2>3 DEF NoPhase, t
<1>11. NoPhase(AppSteps)
  BY DEF NoPhase, Phases, HostPhases, ClusterPhases, AppSteps
<1>12. NoPhase(<<"update">>) /\ NoPhase(<<"toApp">>) /\ IsList(<<"toApp">>)
  BY TuplesAreLists DEF NoPhase, Phases, HostPhases, ClusterPhases
<1>13. NoPhase(<<"toApp">> \o AppSteps)
  BY <1>0, <1>11, <1>12, ToDoThen
<1> HIDE DEF i1, i2, s1, s2, u1, x
<1>14. ~ToDo(InstallSteps, x) /\ InstallSteps[1] = "save" /\ InstallSteps[2] = "distribute"
  <2> DEFINE a == i1 \o RuntimeInstall
             b == a \o i2
  <2>1. IsList(a) /\ ~ToDo(a, x) /\ \A i \in 1..Len(i1) : i \in 1..Len(a) /\ a[i] = i1[i]
    BY <1>0, <1>1, <1>2, ToDoThen, ListsThen
  <2> HIDE DEF a
  <2>2. IsList(b) /\ ~ToDo(b, x) /\ \A i \in 1..Len(a) : i \in 1..Len(b) /\ b[i] = a[i]
    BY <2>1, <1>0, <1>1, ToDoThen, ListsThen
  <2> HIDE DEF b
  <2>3. ~ToDo(b \o AppSteps, x) /\ \A i \in 1..Len(b) : (b \o AppSteps)[i] = b[i]
    BY <2>2, <1>0, <1>4, ToDoThen, ListsThen
  <2>4. InstallSteps = b \o AppSteps
    BY DEF InstallSteps, b, a, i1, i2
  <2> QED
    BY <2>1, <2>2, <2>3, <2>4, <1>8
<1>15. ~ToDo(ScaleUpSteps, x)
  <2> DEFINE a == s1 \o RuntimeScaleUp
  <2>1. IsList(a) /\ ~ToDo(a, x)
    BY <1>0, <1>1, <1>3, ToDoThen
  <2> HIDE DEF a
  <2>2. ~ToDo(a \o s2, x)
    BY <2>1, <1>0, <1>1, ToDoThen
  <2> QED
    BY <2>2 DEF ScaleUpSteps, a, s1, s2
<1>16. ~ToDo(UpgradeSteps, x) /\ UpgradeSteps[1] = "save" /\ UpgradeSteps[2] = "distribute"
  <2>1. ~ToDo(u1 \o AppSteps, x) /\ \A i \in 1..Len(u1) : (u1 \o AppSteps)[i] = u1[i]
    BY <1>0, <1>1, <1>4, ToDoThen, ListsThen
  <2>2. UpgradeSteps = u1 \o AppSteps
    BY DEF UpgradeSteps, u1
  <2> QED
    BY <2>1, <2>2, <1>8
<1> QED
  BY <1>4, <1>5, <1>6, <1>7, <1>9, <1>10, <1>11, <1>12, <1>13, <1>14, <1>15, <1>16 DEF x

------------------------------------------------------------------------------
(* Commands begin sound.                                                   *)

LEMMA OpIs ==
  ASSUME NEW cmd, NEW todo, NEW cf, NEW touched, NEW plugins, NEW o, o = Op(cmd, todo, cf, touched, plugins)
  PROVE  /\ DOMAIN o = OpFields
         /\ o.cmd = cmd /\ o.todo = todo /\ o.cf = cf /\ o.touched = touched /\ o.plugins = plugins
         /\ o.torn = (cmd \in {"scale-up", "scale-down", "delete"} /\ Torn(cf.image))
         /\ o.asked = Asked(<<>>, None, <<>>) /\ o.rendered = None /\ o.launched = None /\ o.hooked = {}
         /\ o.app = None
<1> DEFINE torn == (cmd \in {"scale-up", "scale-down", "delete"} /\ Torn(cf.image))
           asked == Asked(<<>>, None, <<>>)
<1>1. o = [cmd |-> cmd, todo |-> todo, cf |-> cf, touched |-> touched, plugins |-> plugins, torn |-> torn,
           app |-> None, spec |-> None, asked |-> asked, free |-> 0, alt |-> {}, left |-> {},
           rendered |-> None, launched |-> None, hooked |-> {}]
  BY DEF Op
<1> HIDE DEF torn, asked
<1>2. /\ DOMAIN o = OpFields
      /\ o.cmd = cmd /\ o.todo = todo /\ o.cf = cf /\ o.touched = touched /\ o.plugins = plugins
      /\ o.torn = torn /\ o.asked = asked /\ o.rendered = None /\ o.launched = None /\ o.hooked = {}
      /\ o.app = None
  BY <1>1 DEF OpFields
<1> QED
  BY <1>2 DEF torn, asked

LEMMA WithAppIs ==
  ASSUME NEW o, DOMAIN o = OpFields, NEW spec, NEW ext, NEW asked, NEW free, NEW rendered,
         NEW r, r = WithApp(o, spec, ext, asked, free, rendered)
  PROVE  \/ r = Idle
         \/ /\ DOMAIN r = OpFields
            /\ r.cmd = o.cmd /\ r.todo = o.todo /\ r.cf = o.cf /\ r.touched = o.touched /\ r.plugins = o.plugins
            /\ r.torn = o.torn /\ r.hooked = o.hooked /\ r.launched = o.launched
            /\ r.app = Some(NewAppDriver(spec, ext)) /\ r.asked = asked /\ r.free = free
            /\ r.rendered = IF rendered THEN Some(FileProcess(NewAppDriver(spec, ext))) ELSE None
<1> DEFINE d == NewAppDriver(spec, ext)
           files == IF rendered THEN Some(FileProcess(d)) ELSE None
<1>1. r = Idle \/ r = [o EXCEPT !.app = Some(d), !.spec = Some(spec), !.asked = asked, !.free = free,
                                !.rendered = files]
  BY DEF WithApp
<1> HIDE DEF d, files
<1>2. \/ r = Idle
      \/ /\ DOMAIN r = OpFields
         /\ r.cmd = o.cmd /\ r.todo = o.todo /\ r.cf = o.cf /\ r.touched = o.touched /\ r.plugins = o.plugins
         /\ r.torn = o.torn /\ r.hooked = o.hooked /\ r.launched = o.launched
         /\ r.app = Some(d) /\ r.asked = asked /\ r.free = free /\ r.rendered = files
  BY <1>1 DEF OpFields
<1> QED
  BY <1>2 DEF d, files
LEMMA PluginsOwn ==
  ASSUME NEW c, Fine(c)
  PROVE  From(Plugins[c.image] \o c.plugins, c.image)
<1> SUFFICES ASSUME NEW i \in 1..Len(Plugins[c.image] \o c.plugins)
             PROVE  (Plugins[c.image] \o c.plugins)[i].src \in {"file", c.image}
  BY DEF From
<1> DEFINE s == Plugins[c.image]
           t == c.plugins
<1>1. /\ IsList(s) /\ IsList(t)
      /\ \A j \in 1..Len(s) : s[j].src = c.image
      /\ \A j \in 1..Len(t) : t[j].src = "file"
  BY ImagesAssumption DEF Fine, Typable, IsDoc
<1>2. i \in 1..Len(s \o t)
  OBVIOUS
<1> HIDE DEF s, t
<1>3. /\ \A j \in 1..Len(s) : (s \o t)[j] = s[j]
      /\ i \in 1..Len(s) \/ (i - Len(s) \in 1..Len(t) /\ (s \o t)[i] = t[i - Len(s)])
  BY <1>1, <1>2, ListsThen
<1>4. (s \o t)[i].src \in {"file", c.image}
  BY <1>1, <1>3
<1> QED
  BY <1>4 DEF s, t

\* A document whose application was constructed is as fine as before.
WithSpec(c, spec) == [c EXCEPT !.app = IF @ = None THEN @ ELSE Some(spec)]

LEMMA ConstructFine ==
  ASSUME NEW c, Fine(c), NEW spec, IsApplication(spec), NEW d, d = WithSpec(c, spec)
  PROVE  Fine(d) /\ d.M = c.M /\ d.W = c.W /\ d.image = c.image
<1> DEFINE app == IF c.app = None THEN c.app ELSE Some(spec)
<1>1. d = [c EXCEPT !.app = app]
  BY DEF WithSpec
<1>2. c.app # None => IsApplication(c.app[1])
  BY DEF Fine, Typable
<1>3. app # None => IsApplication(app[1])
  BY <1>2 DEF Some, None
<1> HIDE DEF app
<1> QED
  BY <1>1, <1>3, AppFine

LEMMA ConstructApplies ==
  ASSUME NEW app, app # None => IsApplication(app[1]), NEW cmds, NEW names, NEW envs, IsList(envs), NEW free
  PROVE  IsApplication(ConstructApplication(app, cmds, names, envs, free))
  BY ConstructSays, Zenon DEF Constructed

\* The application of a command, as it begins.
LEMMA AppBegins ==
  ASSUME NEW app, app # None => IsApplication(app[1]), NEW cmds, NEW names, NEW envs, IsList(envs), NEW free,
         NEW ext, NEW want, Given(want, envs),
         NEW r, r.launched = None, r.asked = Asked(cmds, app, want), r.free = free,
         r.app = Some(NewAppDriver(ConstructApplication(app, cmds, names, envs, free), ext)),
         \/ r.rendered = None
         \/ r.rendered = Some(FileProcess(NewAppDriver(ConstructApplication(app, cmds, names, envs, free), ext)))
  PROVE  AppOp(r)
<1> DEFINE spec == ConstructApplication(app, cmds, names, envs, free)
           d == NewAppDriver(spec, ext)
<1>1. /\ cmds # <<>> => d.globalCmds = Some(cmds)
      /\ free = 0 => Renders(ConfigsIn(app), want, d.launchApps, FileProcess(d))
  <2>1. \A s, e : s = spec /\ e = NewAppDriver(s, ext) =>
          /\ cmds # <<>> => e.globalCmds = Some(cmds)
          /\ \A w : (free = 0 /\ Given(w, envs)) => Renders(ConfigsIn(app), w, e.launchApps, FileProcess(e))
    <3> TAKE s, e
    <3> HAVE s = spec /\ e = NewAppDriver(s, ext)
    <3> QED
      BY DriverSays
  <2> HIDE DEF spec
  <2> QED
    BY <2>1
<1>2. r.asked.cmds = cmds /\ r.asked.configs = ConfigsIn(app) /\ r.asked.want = want
  BY DEF Asked, ConfigsIn
<1>3. r.app # None /\ r.app[1] = d /\ (r.rendered # None => r.rendered[1] = FileProcess(d))
  BY DEF Some, None
<1> HIDE DEF d
<1> QED
  BY <1>1, <1>2, <1>3 DEF AppOp, Driven

LEMMA InstallSound ==
  ASSUME NEW cf0, Fine(cf0), NEW free, NEW r, r = KubeInstall(cf0, free)
  PROVE  r = Idle \/ Sound(r)
<1> DEFINE ext == Ext[cf0.image]
           cf == MergeClusterWithImageExtension(cf0, ext)
           spec == ConstructApplication(cf.app, cf.cmds, cf.names, cf.env, free)
           plugins == Plugins[cf.image] \o cf.plugins
           doc == WithSpec(cf, spec)
           cmd == "install"
           hosts == All(cf)
           o == Op(cmd, InstallSteps, doc, hosts, plugins)
           asked == Asked(cf.cmds, cf.app, Values(cf.want))
           rendered == TRUE
           w == WithApp(o, spec, ext, asked, free, rendered)
           files == FileProcess(NewAppDriver(spec, ext))
<1>1. r = Idle \/ r = w
  BY DEF KubeInstall, OrIdle, WithSpec
<1>2. /\ DOMAIN o = OpFields /\ o.cmd = cmd /\ o.todo = InstallSteps /\ o.cf = doc /\ o.touched = hosts
      /\ o.plugins = plugins /\ o.launched = None /\ o.hooked = {}
  <2> HIDE DEF cmd, doc, hosts, plugins
  <2> QED
    BY OpIs
<1>3. Fine(cf)
  <2>1. IsList(ext.env)
    BY ImagesAssumption DEF Fine, Typable, IsDoc
  <2> HIDE DEF ext
  <2> QED
    BY <2>1, ExtensionFine
<1>4. IsList(cf.env) /\ Given(Values(cf.want), cf.env) /\ (cf.app # None => IsApplication(cf.app[1]))
  BY <1>3, WantGiven DEF Fine, Typable
<1> HIDE DEF cf, ext
<1>5. Fine(doc) /\ doc.M = cf.M /\ doc.W = cf.W /\ doc.image = cf.image
  <2>1. IsApplication(spec)
    <3> DEFINE app == cf.app
               cmds == cf.cmds
               names == cf.names
               envs == cf.env
    <3>1. IsList(envs) /\ (app # None => IsApplication(app[1]))
      BY <1>4
    <3> HIDE DEF app, cmds, names, envs
    <3>2. IsApplication(ConstructApplication(app, cmds, names, envs, free))
      BY <3>1, ConstructApplies
    <3> QED
      BY <3>2 DEF app, cmds, names, envs
  <2> HIDE DEF spec
  <2> QED
    BY <2>1, <1>3, ConstructFine
<1> HIDE DEF o, doc, cmd, asked, rendered, hosts, plugins
<1>6. \/ w = Idle
      \/ /\ w.cmd = o.cmd /\ w.todo = o.todo /\ w.cf = o.cf /\ w.touched = o.touched /\ w.plugins = o.plugins
         /\ w.hooked = o.hooked /\ w.launched = o.launched
         /\ w.app = Some(NewAppDriver(spec, ext)) /\ w.asked = asked /\ w.free = free
         /\ w.rendered = IF rendered THEN Some(files) ELSE None
  <2> HIDE DEF spec
  <2> QED
    BY <1>2, WithAppIs
<1>7. SUFFICES ASSUME w # Idle PROVE Sound(w)
  BY <1>1
<1> HIDE DEF w
<1>8. DocOp(w)
  BY <1>2, <1>5, <1>6, <1>7, StepsSay DEF DocOp, cmd
<1>9. HookOp(w)
  <2>1. OwnPlugins(w)
    BY <1>2, <1>3, <1>5, <1>6, <1>7, PluginsOwn DEF OwnPlugins, plugins
  <2>2. All(w.cf) \subseteq w.touched
    BY <1>2, <1>5, <1>6, <1>7 DEF All, hosts
  <2>3. w.todo[1] = "save" /\ w.todo[2] = "distribute"
    BY <1>2, <1>6, <1>7, StepsSay
  <2> QED
    BY <2>1, <2>2, <2>3, <1>2, <1>6, <1>7 DEF HookOp, HooksFit
<1>10. AppOp(w)
  <2> DEFINE app == cf.app
             want == Values(cf.want)
             cmds == cf.cmds
             names == cf.names
             envs == cf.env
             s == ConstructApplication(app, cmds, names, envs, free)
             d == NewAppDriver(s, ext)
  <2>1. /\ w.launched = None /\ w.asked = Asked(cmds, app, want) /\ w.free = free
        /\ w.app = Some(d) /\ w.rendered = Some(FileProcess(d))
    BY <1>2, <1>6, <1>7 DEF asked, rendered
  <2>2. IsList(envs) /\ Given(want, envs) /\ (app # None => IsApplication(app[1]))
    BY <1>4
  <2> HIDE DEF app, want, cmds, names, envs
  <2> QED
    BY <2>1, <2>2, AppBegins
<1> QED
  BY <1>8, <1>9, <1>10 DEF Sound
LEMMA AppInstallSound ==
  ASSUME DocsFine, NEW image, NEW app, app # None => IsApplication(app[1]), NEW cmds, NEW names,
         NEW env, IsList(env), NEW free, NEW rendered \in BOOLEAN,
         NEW r, r = AppInstall(image, app, cmds, names, env, free, rendered)
  PROVE  r = Idle \/ (DOMAIN r = OpFields /\ DocOp(r) /\ AppOp(r) /\ r.hooked = {} /\ NoPhase(r.todo))
<1> DEFINE actual == GetActualClusterFile
           spec == ConstructApplication(app, cmds, names, env, free)
           one == Some(spec)
           c == actual.cf
           doc == [c EXCEPT !.app = one]
           cmd == IF IsApp(image) THEN "app" ELSE "apply"
           ext == Ext[image]
           want == Values(env)
           asked == Asked(cmds, app, want)
           none == <<>>
           nobody == {}
           o == Op(cmd, AppSteps, doc, nobody, none)
           w == WithApp(o, spec, ext, asked, free, rendered)
           files == FileProcess(NewAppDriver(spec, ext))
<1>1. r = Idle \/ (actual.ok /\ r = w)
  BY DEF AppInstall
<1>2. /\ DOMAIN o = OpFields /\ o.cmd = cmd /\ o.todo = AppSteps /\ o.cf = doc /\ o.launched = None /\ o.hooked = {}
  <2> HIDE DEF cmd, doc, nobody, none
  <2> QED
    BY OpIs
<1>3. actual.ok => Fine(doc)
  <2>1. actual.ok => Fine(c)
    BY ActualFine
  <2>2. IsApplication(spec)
    BY ConstructApplies
  <2> HIDE DEF actual, spec
  <2>3. one # None => IsApplication(one[1])
    BY <2>2 DEF Some
  <2> HIDE DEF one, c
  <2> QED
    BY <2>1, <2>3, AppFine
<1>4. cmd # "scale-down" /\ Given(want, env)
  BY DEF Given, Values
<1> HIDE DEF o, doc, asked, ext, want, actual, cmd
<1>5. \/ w = Idle
      \/ /\ DOMAIN w = OpFields /\ w.cmd = o.cmd /\ w.todo = o.todo /\ w.cf = o.cf
         /\ w.hooked = o.hooked /\ w.launched = o.launched
         /\ w.app = Some(NewAppDriver(spec, ext)) /\ w.asked = asked /\ w.free = free
         /\ w.rendered = IF rendered THEN Some(files) ELSE None
  <2> HIDE DEF spec
  <2> QED
    BY <1>2, WithAppIs
<1>6. SUFFICES ASSUME w # Idle, actual.ok
               PROVE  DOMAIN w = OpFields /\ DocOp(w) /\ AppOp(w) /\ w.hooked = {} /\ NoPhase(w.todo)
  BY <1>1
<1> HIDE DEF w
<1>7. DocOp(w)
  BY <1>2, <1>3, <1>4, <1>5, <1>6, StepsSay DEF DocOp
<1>8. AppOp(w)
  <2>1. /\ w.launched = None /\ w.asked = Asked(cmds, app, want) /\ w.free = free
        /\ w.app = Some(NewAppDriver(spec, ext))
        /\ w.rendered = None \/ w.rendered = Some(FileProcess(NewAppDriver(spec, ext)))
    BY <1>2, <1>5, <1>6 DEF asked
  <2> QED
    BY <2>1, <1>4, AppBegins
<1> QED
  BY <1>2, <1>5, <1>6, <1>7, <1>8, StepsSay

LEMMA NewImageSound ==
  ASSUME NEW cmd, cmd \in {"upgrade", "rollback"}, NEW todo, ~ToDo(todo, "toApp"), NEW cf, Fine(cf), NEW plugins,
         NEW r, r = NewImage(cmd, todo, cf, plugins)
  PROVE  \/ r = Idle
         \/ /\ DocOp(r) /\ AppOp(r) /\ r.hooked = {} /\ r.todo = todo /\ r.plugins = plugins
            /\ r.touched = All(r.cf) /\ r.cf.image = cf.image
<1> DEFINE hosts == All(cf)
           o == Op(cmd, todo, cf, hosts, plugins)
           asked == Asked(cf.cmds, cf.app, Values(cf.want))
<1>1. r = Idle \/ r = [o EXCEPT !.asked = asked]
  BY DEF NewImage, OrIdle
<1>2. /\ DOMAIN o = OpFields /\ o.cmd = cmd /\ o.todo = todo /\ o.cf = cf /\ o.touched = hosts
      /\ o.plugins = plugins /\ o.rendered = None /\ o.launched = None /\ o.hooked = {} /\ o.app = None
  <2> HIDE DEF hosts
  <2> QED
    BY OpIs
<1>3. SUFFICES ASSUME r # Idle
               PROVE  /\ DocOp(r) /\ AppOp(r) /\ r.hooked = {} /\ r.todo = todo /\ r.plugins = plugins
                      /\ r.touched = All(r.cf) /\ r.cf.image = cf.image
  OBVIOUS
<1>4. asked.cmds = cf.cmds
  BY DEF Asked
<1> HIDE DEF o, hosts, asked
<1>5. /\ r.cmd = cmd /\ r.todo = todo /\ r.cf = cf /\ r.touched = hosts /\ r.plugins = plugins
      /\ r.rendered = None /\ r.launched = None /\ r.hooked = {} /\ r.app = None /\ r.asked = asked
  BY <1>1, <1>2, <1>3 DEF OpFields
<1>6. DocOp(r)
  BY <1>5 DEF DocOp
<1>7. AppOp(r)
  BY <1>4, <1>5 DEF AppOp
<1> QED
  BY <1>5, <1>6, <1>7 DEF hosts

\* A command that takes the hosts of its file for granted.
Standing(r, cmd, todo) ==
  /\ DOMAIN r = OpFields /\ Sound(r) /\ r.todo = todo /\ r.cmd = cmd
  /\ r.app = None /\ r.rendered = None /\ r.launched = None
  /\ ~r.torn => OwnPlugins(r) /\ \A h \in All(r.cf) : rootfs[h] \in {"none", r.cf.image}

LEMMA StandingSound ==
  ASSUME NEW cmd, cmd \in {"scale-up", "scale-down", "delete"}, NEW todo, ~ToDo(todo, "toApp"), NEW cf, Fine(cf),
         NEW touched, cmd = "scale-down" => Master0 \notin touched, NEW plugins, From(plugins, cf.image)
  PROVE  Standing(Op(cmd, todo, cf, touched, plugins), cmd, todo)
<1> DEFINE r == Op(cmd, todo, cf, touched, plugins)
<1>1. /\ DOMAIN r = OpFields
      /\ r.cmd = cmd /\ r.todo = todo /\ r.cf = cf /\ r.touched = touched /\ r.plugins = plugins
      /\ r.torn = (cmd \in {"scale-up", "scale-down", "delete"} /\ Torn(cf.image))
      /\ r.asked = Asked(<<>>, None, <<>>) /\ r.rendered = None /\ r.launched = None /\ r.hooked = {}
      /\ r.app = None
  BY OpIs
<1> HIDE DEF r
<1>2. ~r.torn => OwnPlugins(r) /\ \A h \in All(r.cf) : rootfs[h] \in {"none", r.cf.image}
  <2>1. All(cf) \subseteq Hosts
    BY DEF All, Fine, Typable, IsDoc
  <2> QED
    BY <1>1, <2>1 DEF OwnPlugins, Torn
<1>3. DocOp(r)
  BY <1>1 DEF DocOp
<1>4. HookOp(r)
  BY <1>1, <1>2 DEF HookOp, HooksFit
<1>5. AppOp(r)
  BY <1>1 DEF AppOp, Asked
<1> QED
  BY <1>1, <1>2, <1>3, <1>4, <1>5 DEF Sound, Standing, r

LEMMA ScaleUpSound ==
  ASSUME NEW cf0, Fine(cf0), NEW added, NEW r, r = KubeScaleUp(cf0, added)
  PROVE  r = Idle \/ Standing(r, "scale-up", ScaleUpSteps)
<1> DEFINE ext == Ext[cf0.image]
           once == MergeClusterWithImageExtension(cf0, ext)
           cf == MergeClusterWithImageExtension(once, ext)
           plugins == Plugins[cf.image] \o cf.plugins
           cmd == "scale-up"
           o == Op(cmd, ScaleUpSteps, cf, added, plugins)
<1>1. r = Idle \/ r = o
  BY DEF KubeScaleUp, OrIdle
<1>2. IsList(ext.env)
  BY ImagesAssumption DEF Fine, Typable, IsDoc
<1> HIDE DEF ext
<1>3. Fine(once)
  BY <1>2, ExtensionFine
<1> HIDE DEF once
<1>4. Fine(cf)
  BY <1>2, <1>3, ExtensionFine
<1> HIDE DEF cf
<1>5. From(plugins, cf.image)
  BY <1>4, PluginsOwn
<1>6. cmd \in {"scale-up", "scale-down", "delete"} /\ cmd # "scale-down" /\ ~ToDo(ScaleUpSteps, "toApp")
  BY StepsSay
<1> HIDE DEF plugins, cmd
<1>7. Standing(o, cmd, ScaleUpSteps)
  BY <1>4, <1>5, <1>6, StandingSound
<1> QED
  BY <1>1, <1>7 DEF cmd

\* What a command typed leaves.
LEMMA StartsSound ==
  ASSUME DocInv, NEW o, Starts(o), o = Idle \/ Sound(o)
  PROVE  DocInv'
<1>1. op' = o /\ UNCHANGED <<disk, cm, rootfs>>
  BY DEF Starts, docVars, hostVars
<1>2. DocsFine'
  BY <1>1 DEF DocInv, DocsFine
<1>3. op' = Idle => IsIdle'
  BY DEF Idle, IsIdle
<1>4. ASSUME Sound(o) PROVE Sound(op)'
  BY <1>1, <1>4 DEF Sound, HookOp, HooksFit, DocOp, AppOp, Driven
<1> QED
  BY <1>1, <1>2, <1>3, <1>4 DEF DocInv
LEMMA RunFileSound ==
  ASSUME DocInv, runWithClusterfile
  PROVE  DocInv'
<1>1. PICK f \in Files, flags \in FlagSets :
        LET file == Typed(f)
            merged == MergeClusterWithFlags(file.cf, flags)
            cf == merged.cf
        IN IF ~file.ok \/ ~merged.ok THEN Starts(Idle)
           ELSE \E free \in Rooms(cf.app) :
                  Starts(IF IsApp(cf.image)
                         THEN AppInstall(cf.image, cf.app, cf.cmds, cf.names, flags.env, free, TRUE)
                         ELSE KubeInstall(cf, free))
  BY DEF runWithClusterfile
<1> DEFINE c == Typed(f).cf
           cf == MergeClusterWithFlags(c, flags).cf
           yes == TRUE
           App(free) == AppInstall(cf.image, cf.app, cf.cmds, cf.names, flags.env, free, yes)
           Kubes(free) == KubeInstall(cf, free)
<1>2. Starts(Idle) \/ \E free : Starts(App(free)) \/ Starts(Kubes(free))
  BY <1>1
<1>3. Fine(c)
  BY TypedFine
<1> HIDE DEF c
<1>4. Fine(cf)
  BY <1>3, FlagsFine
<1>5. IsList(flags.env) /\ yes \in BOOLEAN /\ DocsFine
  BY FlagsAssumption DEF DocInv
<1> HIDE DEF cf, yes
<1>6. ASSUME NEW free PROVE App(free) = Idle \/ Sound(App(free))
  <2> DEFINE image == cf.image
             app == cf.app
             cmds == cf.cmds
             names == cf.names
             env == flags.env
             r == AppInstall(image, app, cmds, names, env, free, yes)
  <2>1. IsList(env) /\ (app # None => IsApplication(app[1]))
    BY <1>4, <1>5 DEF Fine, Typable
  <2>2. r = App(free)
    OBVIOUS
  <2> HIDE DEF image, app, cmds, names, env
  <2>3. r = Idle \/ (DocOp(r) /\ AppOp(r) /\ r.hooked = {} /\ NoPhase(r.todo))
    BY <2>1, <1>5, AppInstallSound
  <2> HIDE DEF r, App
  <2> QED
    BY <2>2, <2>3 DEF Sound, HookOp, HooksFit
<1>7. ASSUME NEW free PROVE Kubes(free) = Idle \/ Sound(Kubes(free))
  BY <1>4, InstallSound
<1> HIDE DEF App, Kubes
<1> QED
  BY <1>2, <1>6, <1>7, StartsSound

LEMMA RunArgsSound ==
  ASSUME DocInv, runWithArgs
  PROVE  DocInv'
<1>1. PICK args \in ArgSets :
        LET image == args[1]
            flags == args[2]
            file == decodeClusterFile(ConstructClusterForRun(image, flags))
        IN Starts(IF IsApp(image) THEN AppInstall(image, None, flags.cmds, flags.names, flags.env, 0, TRUE)
                  ELSE OrIdle(file.ok /\ flags.M # {}, KubeInstall(file.cf, 0)))
  BY DEF runWithArgs
<1> DEFINE cf == decodeClusterFile(ConstructClusterForRun(args[1], args[2])).cf
           image == args[1]
           app == None
           cmds == args[2].cmds
           names == args[2].names
           env == args[2].env
           free == 0
           yes == TRUE
           r == AppInstall(image, app, cmds, names, env, free, yes)
           kube == KubeInstall(cf, free)
<1>2. Starts(Idle) \/ Starts(r) \/ (args[2].M # {} /\ Starts(kube))
  BY <1>1 DEF OrIdle
<1>3. args[2].M # {} => Fine(cf)
  BY RunFine
<1>4. IsList(env) /\ yes \in BOOLEAN /\ DocsFine /\ (app # None => IsApplication(app[1]))
  BY FlagsAssumption DEF DocInv
<1> HIDE DEF cf, image, app, cmds, names, env, free, yes
<1>5. args[2].M # {} => kube = Idle \/ Sound(kube)
  BY <1>3, InstallSound
<1>6. r = Idle \/ (DocOp(r) /\ AppOp(r) /\ r.hooked = {} /\ NoPhase(r.todo))
  BY <1>4, AppInstallSound
<1> HIDE DEF r, kube
<1>7. r = Idle \/ Sound(r)
  BY <1>6 DEF Sound, HookOp, HooksFit
<1> QED
  BY <1>2, <1>5, <1>7, StartsSound

LEMMA ScaleUpStartsSound ==
  ASSUME DocInv, ScaleUp
  PROVE  DocInv'
<1>1. PICK s \in ScaleSets :
        LET actual == GetActualClusterFile
            current == CurrentMasters \cup CurrentNodes
            mj == s.M \ current
            nj == s.W \ current
        IN Starts(IF ~actual.ok \/ ~kubeconfig \/ ~Up \/ mj \cup nj = {} \/ (mj \cup nj) \cap All(actual.cf) # {} THEN Idle
                  ELSE KubeScaleUp(WithHosts(actual.cf, mj, nj), mj \cup nj))
  BY DEF ScaleUp
<1> DEFINE c == GetActualClusterFile.cf
           current == CurrentMasters \cup CurrentNodes
           mj == s.M \ current
           nj == s.W \ current
           added == mj \cup nj
           cf == WithHosts(c, mj, nj)
           r == KubeScaleUp(cf, added)
<1>2. Starts(Idle) \/ (GetActualClusterFile.ok /\ (mj \cup nj) \cap All(c) = {} /\ Starts(r))
  BY <1>1
<1>3. mj \subseteq Hosts /\ nj \subseteq Hosts
  BY FlagsAssumption
<1>4. GetActualClusterFile.ok => Fine(c)
  BY ActualFine DEF DocInv
<1> HIDE DEF c, mj, nj
<1>5. ASSUME GetActualClusterFile.ok, (mj \cup nj) \cap All(c) = {}
      PROVE  r = Idle \/ Sound(r)
  <2>1. Master0 \notin nj
    BY <1>4, <1>5 DEF Fine, Typable, All
  <2>2. Fine(cf)
    BY <1>3, <1>4, <1>5, <2>1, HostsFine
  <2> HIDE DEF cf, added
  <2> QED
    BY <2>2, ScaleUpSound DEF Standing
<1> HIDE DEF r
<1> QED
  BY <1>2, <1>5, StartsSound

LEMMA DeleteSound ==
  ASSUME DocInv, Delete
  PROVE  DocInv'
<1> DEFINE c == GetActualClusterFile.cf
           ext == Ext[c.image]
           cf == MergeClusterWithImageExtension(c, ext)
           plugins == Plugins[cf.image] \o cf.plugins
           hosts == All(cf)
           cmd == "delete"
           r == Op(cmd, UnInstallSteps, cf, hosts, plugins)
<1>1. Starts(Idle) \/ (GetActualClusterFile.ok /\ Starts(r))
  BY DEF Delete, KubeDelete, OrIdle
<1>2. SUFFICES ASSUME GetActualClusterFile.ok PROVE Sound(r)
  BY <1>1, StartsSound
<1>3. Fine(c)
  BY <1>2, ActualFine DEF DocInv
<1> HIDE DEF c
<1>4. IsList(ext.env)
  BY <1>3, ImagesAssumption DEF Fine, Typable, IsDoc
<1> HIDE DEF ext
<1>5. Fine(cf)
  BY <1>3, <1>4, ExtensionFine
<1> HIDE DEF cf
<1>6. From(plugins, cf.image)
  BY <1>5, PluginsOwn
<1>7. cmd \in {"scale-up", "scale-down", "delete"} /\ cmd # "scale-down" /\ ~ToDo(UnInstallSteps, "toApp")
  BY StepsSay
<1> HIDE DEF cmd, plugins, hosts
<1>8. Standing(r, cmd, UnInstallSteps)
  BY <1>5, <1>6, <1>7, StandingSound
<1> QED
  BY <1>8 DEF Standing

LEMMA ScaleDownSound ==
  ASSUME DocInv, ScaleDown
  PROVE  DocInv'
<1>1. PICK s \in ScaleSets :
        LET actual == GetActualClusterFile
            cf == MergeClusterWithImageExtension(actual.cf, Ext[actual.cf.image])
            md == s.M \cap cf.M
            nd == s.W \cap cf.W
            plugins == (IF md = {} THEN <<>> ELSE Plugins[cf.image]) \o cf.plugins
        IN Starts(IF ~actual.ok \/ Master0 \in md \/ md \cup nd = {} \/ ~Transferable(plugins) \/ ~Up THEN Idle
                  ELSE Op("scale-down", ScaleDownSteps, cf, md \cup nd, plugins))
  BY DEF ScaleDown
<1> DEFINE c == GetActualClusterFile.cf
           ext == Ext[c.image]
           cf == MergeClusterWithImageExtension(c, ext)
           md == s.M \cap cf.M
           nd == s.W \cap cf.W
           touched == md \cup nd
           plugins == (IF md = {} THEN <<>> ELSE Plugins[cf.image]) \o cf.plugins
           cmd == "scale-down"
           r == Op(cmd, ScaleDownSteps, cf, touched, plugins)
<1>2. Starts(Idle) \/ (GetActualClusterFile.ok /\ Master0 \notin md /\ Starts(r))
  BY <1>1
<1>3. SUFFICES ASSUME GetActualClusterFile.ok, Master0 \notin md PROVE Sound(r)
  BY <1>2, StartsSound
<1>4. Fine(c)
  BY <1>3, ActualFine DEF DocInv
<1> HIDE DEF c
<1>5. IsList(ext.env)
  BY <1>4, ImagesAssumption DEF Fine, Typable, IsDoc
<1> HIDE DEF ext
<1>6. Fine(cf)
  BY <1>4, <1>5, ExtensionFine
<1> HIDE DEF cf
<1>7. Master0 \notin touched
  BY <1>3, <1>6 DEF Fine, Typable
<1>8. From(plugins, cf.image)
  <2>1. CASE md = {}
    <3>1. PICK P : cf.plugins \in Seq(P)
      BY <1>6, ListSays DEF Fine, Typable
    <3>2. plugins = cf.plugins
      BY <2>1, <3>1
    <3> QED
      BY <3>2, <1>6 DEF From, Fine, Typable
  <2>2. CASE md # {}
    <3>1. plugins = Plugins[cf.image] \o cf.plugins
      BY <2>2
    <3> QED
      BY <3>1, <1>6, PluginsOwn
  <2> QED
    BY <2>1, <2>2
<1>9. cmd \in {"scale-up", "scale-down", "delete"} /\ ~ToDo(ScaleDownSteps, "toApp")
  BY StepsSay
<1> HIDE DEF cmd, plugins, touched
<1>10. Standing(r, cmd, ScaleDownSteps)
  BY <1>6, <1>7, <1>8, <1>9, StandingSound
<1> QED
  BY <1>10 DEF Standing
\* apply, on a cluster that is up: the file is kept for the applications.
LEMMA ApplySound ==
  ASSUME DocInv, Apply
  PROVE  DocInv'
<1>1. PICK f \in {g \in Files : ~IsApp(g.image)} :
        LET file == Typed(f)
            cf == file.cf
            gone == (CurrentMasters \ cf.M) \cup (CurrentNodes \ cf.W)
            added == (cf.M \ CurrentMasters) \cup (cf.W \ CurrentNodes)
        IN IF ~file.ok \/ (kubeconfig /\ ~Up) THEN Starts(Idle)
           ELSE \E free \in Rooms(cf.app) :
                  IF ~kubeconfig
                  THEN Starts(KubeInstall(MergeClusterWithImageExtension(cf, Ext[cf.image]), free))
                  ELSE LET o == IF gone # {} \/ added = {} THEN Op("apply", <<>>, cf, {}, <<>>) ELSE KubeScaleUp(cf, added)
                       IN Starts(IF o = Idle THEN Idle
                                 ELSE [o EXCEPT !.todo = @ \o <<"toApp">> \o AppSteps, !.spec = Some(cf), !.free = free])
  BY DEF Apply
<1> DEFINE cf == Typed(f).cf
           added == (cf.M \ CurrentMasters) \cup (cf.W \ CurrentNodes)
           ext == Ext[cf.image]
           merged == MergeClusterWithImageExtension(cf, ext)
           nothing == <<>>
           nobody == {}
           cmd == "apply"
           bare == Op(cmd, nothing, cf, nobody, nothing)
           up == KubeScaleUp(cf, added)
           one == Some(cf)
           Longer(o, free) == [o EXCEPT !.todo = o.todo \o <<"toApp">> \o AppSteps, !.spec = one, !.free = free]
<1>2. \/ Starts(Idle)
      \/ \E free : \/ Starts(KubeInstall(merged, free))
                   \/ Starts(Longer(bare, free))
                   \/ up # Idle /\ Starts(Longer(up, free))
  BY <1>1
<1>3. Fine(cf)
  BY <1>1, TypedFine
<1>4. one[1] = cf
  BY DEF Some
<1> HIDE DEF cf, one, added
<1>5. Fine(merged)
  <2>1. IsList(ext.env)
    BY <1>3, ImagesAssumption DEF Fine, Typable, IsDoc
  <2> HIDE DEF ext
  <2> QED
    BY <2>1, <1>3, ExtensionFine
<1> HIDE DEF merged
<1>6. up = Idle \/ Standing(up, "scale-up", ScaleUpSteps)
  BY <1>3, ScaleUpSound
<1>7. /\ DOMAIN bare = OpFields /\ bare.cmd = cmd /\ bare.todo = nothing /\ bare.cf = cf
      /\ bare.asked = Asked(<<>>, None, <<>>) /\ bare.rendered = None /\ bare.launched = None /\ bare.hooked = {}
      /\ bare.app = None
  <2> HIDE DEF nothing, nobody, cmd
  <2> QED
    BY OpIs
<1> HIDE DEF bare, up
<1>8. ASSUME NEW o, NEW free, DOMAIN o = OpFields
      PROVE  LET l == Longer(o, free)
             IN /\ l.cmd = o.cmd /\ l.todo = o.todo \o <<"toApp">> \o AppSteps /\ l.cf = o.cf
                /\ l.touched = o.touched /\ l.plugins = o.plugins /\ l.torn = o.torn /\ l.app = o.app /\ l.spec = one
                /\ l.asked = o.asked /\ l.rendered = o.rendered /\ l.launched = o.launched /\ l.hooked = o.hooked
  <2> DEFINE todo == o.todo \o <<"toApp">> \o AppSteps
  <2> HIDE DEF todo
  <2>1. Longer(o, free) = [o EXCEPT !.todo = todo, !.spec = one, !.free = free]
    BY DEF todo
  <2> HIDE DEF Longer
  <2>2. LET l == Longer(o, free)
        IN /\ l.cmd = o.cmd /\ l.todo = todo /\ l.cf = o.cf
           /\ l.touched = o.touched /\ l.plugins = o.plugins /\ l.torn = o.torn /\ l.app = o.app /\ l.spec = one
           /\ l.asked = o.asked /\ l.rendered = o.rendered /\ l.launched = o.launched /\ l.hooked = o.hooked
    BY <1>8, <2>1 DEF OpFields
  <2> QED
    BY <2>2 DEF todo
<1> HIDE DEF Longer
<1>9. ASSUME NEW free PROVE Sound(Longer(bare, free))
  <2> DEFINE l == Longer(bare, free)
  <2>1. /\ l.cmd = cmd /\ l.todo = nothing \o <<"toApp">> \o AppSteps /\ l.cf = cf /\ l.spec = one
        /\ l.asked = Asked(<<>>, None, <<>>) /\ l.rendered = None /\ l.launched = None /\ l.hooked = {}
        /\ l.app = None
    <3>1. /\ l.cmd = bare.cmd /\ l.todo = bare.todo \o <<"toApp">> \o AppSteps /\ l.cf = bare.cf /\ l.spec = one
          /\ l.asked = bare.asked /\ l.rendered = bare.rendered /\ l.launched = bare.launched
          /\ l.hooked = bare.hooked /\ l.app = bare.app
      BY <1>7, <1>8
    <3> HIDE DEF l
    <3> QED
      BY <3>1, <1>7
  <2>2. l.todo = <<"toApp">> \o AppSteps
    <3>1. nothing \o <<"toApp">> = <<"toApp">>
      OBVIOUS
    <3> QED
      BY <2>1, <3>1
  <2> HIDE DEF l
  <2>3. DocOp(l)
    BY <1>3, <1>4, <2>1 DEF DocOp
  <2>4. HookOp(l)
    BY <2>1, <2>2, StepsSay DEF HookOp, HooksFit
  <2>5. AppOp(l)
    BY <2>1 DEF AppOp, Asked
  <2> QED
    BY <2>3, <2>4, <2>5 DEF Sound, l
<1>10. ASSUME NEW free, up # Idle PROVE Sound(Longer(up, free))
  <2> DEFINE l == Longer(up, free)
  <2>0. /\ DOMAIN up = OpFields /\ Sound(up) /\ up.cmd = "scale-up"
        /\ ~up.torn => OwnPlugins(up) /\ \A h \in All(up.cf) : rootfs[h] \in {"none", up.cf.image}
        /\ up.launched = None /\ up.rendered = None /\ up.app = None
    BY <1>6, <1>10 DEF Standing
  <2>1. /\ l.cmd = up.cmd /\ l.cf = up.cf /\ l.spec = one
        /\ l.touched = up.touched /\ l.plugins = up.plugins /\ l.torn = up.torn /\ l.app = up.app
        /\ l.asked = up.asked /\ l.rendered = up.rendered /\ l.launched = up.launched /\ l.hooked = up.hooked
    BY <1>8, <2>0
  <2> HIDE DEF l
  <2>2. DocOp(l)
    BY <1>3, <1>4, <2>0, <2>1 DEF DocOp, Sound
  <2>3. HookOp(l)
    BY <2>0, <2>1 DEF HookOp, HooksFit, OwnPlugins, Sound
  <2>4. AppOp(l)
    BY <2>0, <2>1 DEF AppOp, Driven, Sound
  <2> QED
    BY <2>2, <2>3, <2>4 DEF Sound, l
<1> QED
  BY <1>2, <1>5, <1>9, <1>10, InstallSound, StartsSound
LEMMA UpgradesSound ==
  ASSUME DocInv, upgradeWithArgs \/ upgradeWithClusterfile
  PROVE  DocInv'
<1> DEFINE cmd == "upgrade"
<1>1. cmd \in {"upgrade", "rollback"} /\ ~ToDo(UpgradeSteps, "toApp") /\ UpgradeSteps[1] = "save" /\ UpgradeSteps[2] = "distribute"
  BY StepsSay
<1>2. ASSUME NEW cf, Fine(cf), NEW plugins, From(plugins, cf.image), NEW r, r = NewImage(cmd, UpgradeSteps, cf, plugins)
      PROVE  r = Idle \/ Sound(r)
  <2> HIDE DEF cmd
  <2>1. \/ r = Idle
        \/ /\ DocOp(r) /\ AppOp(r) /\ r.hooked = {} /\ r.todo = UpgradeSteps /\ r.plugins = plugins
           /\ r.touched = All(r.cf) /\ r.cf.image = cf.image
    BY <1>1, <1>2, NewImageSound
  <2> QED
    BY <1>1, <1>2, <2>1 DEF Sound, HookOp, HooksFit, OwnPlugins
<1>3. CASE upgradeWithArgs
  <2>1. PICK image \in DOMAIN Ext :
          Starts(IF ~GetActualClusterFile.ok THEN Idle ELSE NewImage(cmd, UpgradeSteps, Another(image).cf, Plugins[image]))
    BY <1>3 DEF upgradeWithArgs
  <2> DEFINE cf == Another(image).cf
             plugins == Plugins[image]
             r == NewImage(cmd, UpgradeSteps, cf, plugins)
  <2>2. Starts(Idle) \/ (GetActualClusterFile.ok /\ Starts(r))
    BY <2>1
  <2>3. GetActualClusterFile.ok => Fine(cf) /\ cf.image = image
    BY AnotherFine DEF DocInv
  <2>4. From(plugins, image)
    BY ImagesAssumption DEF From
  <2> HIDE DEF cmd, cf, plugins
  <2>5. GetActualClusterFile.ok => r = Idle \/ Sound(r)
    BY <1>2, <2>3, <2>4
  <2> HIDE DEF r
  <2> QED
    BY <2>2, <2>5, StartsSound
<1>4. CASE upgradeWithClusterfile
  <2>1. PICK f \in Files :
          Starts(IF ~Typed(f).ok THEN Idle
                 ELSE NewImage(cmd, UpgradeSteps, Typed(f).cf, Plugins[Typed(f).cf.image] \o Typed(f).cf.plugins))
    BY <1>4 DEF upgradeWithClusterfile
  <2> DEFINE cf == Typed(f).cf
             plugins == Plugins[cf.image] \o cf.plugins
             r == NewImage(cmd, UpgradeSteps, cf, plugins)
  <2>2. Starts(Idle) \/ Starts(r)
    BY <2>1
  <2>3. Fine(cf)
    BY TypedFine
  <2> HIDE DEF cf
  <2>4. From(plugins, cf.image)
    BY <2>3, PluginsOwn
  <2> HIDE DEF cmd, plugins
  <2>5. r = Idle \/ Sound(r)
    BY <1>2, <2>3, <2>4
  <2> HIDE DEF r
  <2> QED
    BY <2>2, <2>5, StartsSound
<1> QED
  BY <1>3, <1>4

\* The plugins of the first master come from the image in its rootfs.
LEMMA RollbackSound ==
  ASSUME DocInv, PlainInv, Rollback
  PROVE  DocInv'
<1> DEFINE cmd == "rollback"
<1>1. PICK image \in DOMAIN Ext :
        Starts(IF ~GetActualClusterFile.ok THEN Idle ELSE NewImage(cmd, RollbackSteps, Another(image).cf, LocalPlugins))
  BY DEF Rollback
<1> DEFINE cf == Another(image).cf
           r == NewImage(cmd, RollbackSteps, cf, LocalPlugins)
<1>2. Starts(Idle) \/ (GetActualClusterFile.ok /\ Starts(r))
  BY <1>1
<1>3. GetActualClusterFile.ok => Fine(cf)
  BY AnotherFine DEF DocInv
<1>4. cmd \in {"upgrade", "rollback"} /\ ~ToDo(RollbackSteps, "toApp")
  BY StepsSay
<1>5. \A i \in 1..Len(LocalPlugins) : LocalPlugins[i].src = rootfs[Master0]
  <2>1. rootfs[Master0] \in {"none"} \cup DOMAIN Ext
    BY CommandsAssumption DEF PlainInv
  <2>2. CASE rootfs[Master0] = "none"
    BY <2>2 DEF LocalPlugins
  <2>3. CASE rootfs[Master0] # "none"
    BY <2>1, <2>3, ImagesAssumption DEF LocalPlugins
  <2> QED
    BY <2>2, <2>3
<1> HIDE DEF cmd, cf
<1>6. SUFFICES ASSUME GetActualClusterFile.ok, r # Idle PROVE Sound(r)
  BY <1>2, StartsSound
<1>7. /\ DocOp(r) /\ AppOp(r) /\ r.hooked = {} /\ r.todo = RollbackSteps /\ r.plugins = LocalPlugins
  BY <1>3, <1>4, <1>6, NewImageSound
<1> HIDE DEF r
<1> QED
  BY <1>5, <1>7 DEF Sound, HookOp, HooksFit

LEMMA CertSound ==
  ASSUME DocInv, Cert
  PROVE  DocInv'
<1> DEFINE c == GetActualClusterFile.cf
           nothing == <<>>
           steps == <<"update">>
           hosts == c.M
           cmd == "cert"
           o == Op(cmd, steps, c, hosts, nothing)
           Naming(alt) == [o EXCEPT !.alt = alt]
<1>1. PICK alt \in AltSets : Starts(IF ~GetActualClusterFile.ok THEN Idle ELSE Naming(alt))
  BY DEF Cert
<1> DEFINE r == Naming(alt)
<1>2. GetActualClusterFile.ok => Fine(c)
  BY ActualFine DEF DocInv
<1>3. cmd # "scale-down" /\ ~ToDo(steps, "toApp") /\ NoPhase(steps)
  BY StepsSay
<1>4. /\ DOMAIN o = OpFields /\ o.cmd = cmd /\ o.todo = steps /\ o.cf = c
      /\ o.asked = Asked(<<>>, None, <<>>) /\ o.rendered = None /\ o.launched = None /\ o.hooked = {} /\ o.app = None
  <2> HIDE DEF c, nothing, steps, hosts, cmd
  <2> QED
    BY OpIs
<1> HIDE DEF c, cmd, steps, o
<1>5. /\ r.cmd = cmd /\ r.todo = steps /\ r.cf = c /\ r.hooked = {}
      /\ r.asked = Asked(<<>>, None, <<>>) /\ r.rendered = None /\ r.launched = None /\ r.app = None
  BY <1>4 DEF OpFields
<1> HIDE DEF r
<1>6. GetActualClusterFile.ok => Sound(r)
  <2> SUFFICES ASSUME GetActualClusterFile.ok PROVE Sound(r)
    OBVIOUS
  <2>1. DocOp(r)
    BY <1>2, <1>3, <1>5 DEF DocOp
  <2>2. HookOp(r)
    BY <1>3, <1>5 DEF HookOp, HooksFit
  <2>3. AppOp(r)
    BY <1>5 DEF AppOp, Asked
  <2> QED
    BY <2>1, <2>2, <2>3 DEF Sound
<1>7. Starts(Idle) \/ (GetActualClusterFile.ok /\ Starts(r))
  BY <1>1 DEF r
<1> QED
  BY <1>6, <1>7, StartsSound

LEMMA CommandSound ==
  ASSUME DocInv, PlainInv, Command
  PROVE  DocInv'
  BY RunFileSound, RunArgsSound, ApplySound, ScaleUpStartsSound, ScaleDownSound, DeleteSound, UpgradesSound,
     RollbackSound, CertSound DEF Command
------------------------------------------------------------------------------
(* Steps keep commands sound.                                              *)

\* What no step but the change to the applications touches of a command.
Carries(o, p) ==
  /\ DOMAIN p = OpFields /\ p.cmd = o.cmd /\ p.cf = o.cf /\ p.plugins = o.plugins /\ (o.torn => p.torn)
  /\ p.app = o.app /\ p.spec = o.spec /\ p.asked = o.asked /\ p.free = o.free /\ p.rendered = o.rendered

\* The same hosts, image and plugins.
SameHosts(o, p) == p.cf.M = o.cf.M /\ p.cf.W = o.cf.W /\ p.cf.image = o.cf.image /\ p.plugins = o.plugins

\* The next step, or more of the same one, on the same hosts.
Proceeds ==
  \/ op'.todo = Tail(op.todo) /\ op'.touched = op.touched
  \/ op'.todo = op.todo /\ op'.touched \subseteq op.touched /\ (At("update") \/ At("joinM"))
Advances == ~IsIdle /\ Carries(op, op') /\ Proceeds

\* Hosts get the image of the file, unless the cache says they have it, or lose theirs.
Rootfs ==
  IF At("distribute")
  THEN \E copied : /\ rootfs' = Without(rootfs, copied, op.cf.image)
                   /\ ~op'.torn => \A h \in op.touched \ copied : rootfs[h] = op.cf.image
  ELSE rootfs' = rootfs \/ \E done : rootfs' = Without(rootfs, done, "none") /\ At("restore")

LEMMA FirstStep ==
  ASSUME OpInv, ~IsIdle
  PROVE  /\ GoodSteps(op.todo) /\ 1 \in 1..Len(op.todo) /\ \A x : At(x) <=> op.todo[1] = x
         /\ Tail(op.todo) # <<>> => 1 \in 1..Len(Tail(op.todo)) /\ Tail(op.todo)[1] = op.todo[2]
         /\ \A i \in 1..Len(Tail(op.todo)) : i + 1 \in 1..Len(op.todo) /\ Tail(op.todo)[i] = op.todo[i + 1]
         /\ \A x : ToDo(Tail(op.todo), x) => ToDo(op.todo, x)
<1> DEFINE s == op.todo
           t == Tail(s)
<1>1. GoodSteps(s) /\ s # <<>>
  BY DEF OpInv, IsIdle
<1>2. \A x : At(x) <=> Head(s) = x
  BY <1>1 DEF At, IsIdle
<1> HIDE DEF s
<1>3. /\ GoodSteps(t) /\ Head(s) = s[1] /\ Len(s) \in Nat /\ Len(s) > 0 /\ Len(t) = Len(s) - 1
      /\ \A i \in 1..Len(t) : i + 1 \in 1..Len(s) /\ t[i] = s[i + 1]
      /\ \A x : ToDo(s, x) <=> x = Head(s) \/ ToDo(t, x)
      /\ t # <<>> => 2 \in 1..Len(s)
  BY <1>1, GoodTail
<1> HIDE DEF t
<1>4. 1 \in 1..Len(s)
  BY <1>3
<1>5. t # <<>> => 1 \in 1..Len(t) /\ t[1] = s[2]
  <2> SUFFICES ASSUME t # <<>> PROVE 1 \in 1..Len(t) /\ t[1] = s[2]
    OBVIOUS
  <2>1. 1 \in 1..Len(t)
    BY <1>3
  <2>2. t[1] = s[1 + 1]
    BY <1>3, <2>1
  <2> QED
    BY <2>1, <2>2
<1> QED
  BY <1>1, <1>2, <1>3, <1>4, <1>5 DEF s, t

\* Hooks that fit still fit.
LEMMA FitKept ==
  ASSUME OpInv, PlainInv, Fine(op.cf), HooksFit(op), ~IsIdle, SameHosts(op, op'), Proceeds, op'.todo # <<>>,
         ~op'.torn, Rootfs
  PROVE  HooksFit(op)'
<1> DEFINE s == op.todo
<1>0. /\ 1 \in 1..Len(s) /\ \A x : At(x) <=> s[1] = x
      /\ Tail(s) # <<>> => 1 \in 1..Len(Tail(s)) /\ Tail(s)[1] = s[2]
      /\ \A i \in 1..Len(Tail(s)) : i + 1 \in 1..Len(s) /\ Tail(s)[i] = s[i + 1]
  BY FirstStep
<1>1. op'.cf.image = op.cf.image /\ op'.plugins = op.plugins /\ All(op'.cf) = All(op.cf) /\ All(op.cf) \subseteq Hosts
  BY DEF SameHosts, All, Fine, Typable, IsDoc
<1>2. \/ op'.todo = Tail(s) /\ op'.touched = op.touched
      \/ op'.todo = s /\ s[1] \in {"update", "joinM"}
  BY <1>0 DEF Proceeds
<1>3. rootfs \in [Hosts -> {"none"} \cup DOMAIN Ext]
  BY DEF PlainInv
<1> HIDE DEF s
<1>4. CASE OwnPlugins(op) /\ \A h \in All(op.cf) : rootfs[h] \in {"none", op.cf.image}
  <2>1. \A h \in All(op.cf) : rootfs'[h] \in {"none", op.cf.image}
    BY <1>1, <1>4 DEF Rootfs, Without
  <2> QED
    BY <1>1, <1>4, <2>1 DEF HooksFit, OwnPlugins
<1>5. CASE /\ OwnPlugins(op) /\ All(op.cf) \subseteq op.touched
           /\ s[1] = "distribute" \/ (s[1] = "save" /\ s[2] = "distribute")
  <2>1. CASE s[1] = "distribute"
    <3>1. \A h \in All(op.cf) : rootfs'[h] \in {"none", op.cf.image}
      BY <1>0, <1>1, <1>5, <2>1 DEF Rootfs, Without
    <3> QED
      BY <1>1, <1>5, <3>1 DEF HooksFit, OwnPlugins
  <2>2. CASE s[1] = "save" /\ s[2] = "distribute"
    <3>1. op'.todo = Tail(s) /\ op'.touched = op.touched /\ op'.todo[1] = "distribute"
      BY <1>0, <1>2, <2>2
    <3>2. OwnPlugins(op') /\ All(op'.cf) \subseteq op'.touched /\ op'.todo[1] = "distribute"
      BY <1>1, <1>5, <3>1 DEF OwnPlugins
    <3> QED
      BY <3>2 DEF HooksFit, OwnPlugins
  <2> QED
    BY <1>5, <2>1, <2>2
<1>6. CASE /\ s \in {RollbackSteps, Tail(RollbackSteps)}
           /\ \A i \in 1..Len(op.plugins) : op.plugins[i].src = rootfs[Master0]
  <2>1. op'.todo = Tail(s)
    BY <1>2, <1>6, StepsSay
  <2>2. CASE s = RollbackSteps
    <3>1. s[1] = "save" /\ op'.todo = Tail(RollbackSteps)
      BY <2>1, <2>2, StepsSay
    <3>2. ~At("distribute") /\ ~At("restore")
      BY <1>0, <3>1
    <3>3. rootfs' = rootfs
      BY <3>2 DEF Rootfs
    <3> QED
      BY <1>1, <1>6, <3>1, <3>3 DEF HooksFit
  <2>3. CASE s = Tail(RollbackSteps)
    <3>1. NoPhase(op'.todo)
      BY <2>1, <2>3, StepsSay
    <3> QED
      BY <3>1 DEF HooksFit, NoPhase
  <2> QED
    BY <1>6, <2>2, <2>3
<1>7. CASE NoPhase(s)
  <2>1. NoPhase(Tail(s))
    <3> DEFINE t == Tail(s)
    <3>1. \A i \in 1..Len(t) : i + 1 \in 1..Len(s) /\ t[i] = s[i + 1]
      BY <1>0
    <3> HIDE DEF t
    <3>2. NoPhase(t)
      BY <1>7, <3>1 DEF NoPhase
    <3> QED
      BY <3>2 DEF t
  <2>2. NoPhase(op'.todo)
    BY <1>2, <1>7, <2>1
  <2> QED
    BY <2>2 DEF HooksFit, NoPhase
<1> QED
  BY <1>4, <1>5, <1>6, <1>7 DEF HooksFit, s

\* The hooks of a phase run in the rootfs of their image.
LEMMA HooksMatch ==
  ASSUME OpInv, Fine(op.cf), HooksFit(op), NEW phase \in Phases, At(phase),
         NEW p \in RunHooks(op.plugins, phase, op.touched, op.cf, Master0, rootfs).ran
  PROVE  p[1] = "file" \/ p[1] = p[2]
<1> DEFINE s == op.todo
           plugins == op.plugins
           cf == op.cf
<1>1. 1 \in 1..Len(s) /\ s[1] = phase
  BY FirstStep DEF At
<1>2. PICK i, h : /\ i \in 1..Len(plugins) /\ h \in Targets(plugins[i], phase, op.touched, cf, Master0)
                  /\ p = <<plugins[i].src, rootfs[h]>> /\ rootfs[h] # "none"
  BY DEF RunHooks, HooksOf
<1>3. phase \notin {"save", "distribute"}
  BY DEF Phases, HostPhases, ClusterPhases
<1>4. CASE OwnPlugins(op) /\ \A g \in All(cf) : rootfs[g] \in {"none", cf.image}
  <2>1. h \in All(cf)
    BY <1>2 DEF Targets, getHostIPListByScope, All, Fine, Typable
  <2>2. rootfs[h] = cf.image /\ plugins[i].src \in {"file", cf.image}
    BY <1>2, <1>4, <2>1 DEF OwnPlugins, From
  <2> QED
    BY <1>2, <2>2
<1>5. CASE /\ s \in {RollbackSteps, Tail(RollbackSteps)}
           /\ \A j \in 1..Len(plugins) : plugins[j].src = rootfs[Master0]
  <2>1. phase = "rollback"
    BY <1>1, <1>3, <1>5, StepsSay
  <2>2. h = Master0
    BY <1>2, <2>1 DEF Targets, ClusterPhases
  <2> QED
    BY <1>2, <1>5, <2>2
<1>6. ~NoPhase(s)
  BY <1>1 DEF NoPhase
<1> QED
  BY <1>1, <1>3, <1>4, <1>5, <1>6 DEF HooksFit
LEMMA GoesOnCarries ==
  ASSUME ~IsIdle, NEW o, Carries(op, o), o.todo = op.todo, o.touched = op.touched, GoesOn(o)
  PROVE  op' = Idle \/ (Advances /\ op'.hooked = o.hooked /\ op'.launched = o.launched /\ op'.torn = o.torn)
<1>1. op' = Idle \/ op' = [o EXCEPT !.todo = Tail(@)]
  BY DEF GoesOn, Ends
<1>2. SUFFICES ASSUME op' # Idle
               PROVE  Advances /\ op'.hooked = o.hooked /\ op'.launched = o.launched /\ op'.torn = o.torn
  OBVIOUS
<1>3. /\ DOMAIN op' = OpFields /\ op'.cmd = o.cmd /\ op'.cf = o.cf /\ op'.plugins = o.plugins /\ op'.torn = o.torn
      /\ op'.app = o.app /\ op'.spec = o.spec /\ op'.asked = o.asked /\ op'.free = o.free
      /\ op'.rendered = o.rendered /\ op'.todo = Tail(op.todo) /\ op'.touched = o.touched
      /\ op'.hooked = o.hooked /\ op'.launched = o.launched
  BY <1>1, <1>2 DEF Carries, OpFields
<1> QED
  BY <1>3 DEF Advances, Proceeds, Carries

\* A step that runs no hook and launches nothing.
Plainly == op' = Idle \/ (Advances /\ Rootfs /\ op'.hooked = op.hooked /\ op'.launched = op.launched)

\* Every step ends the command, advances it, or goes over to the applications.
LEMMA StepAdvances ==
  ASSUME OpInv, CommandStep
  PROVE  RunHook \/ Launch \/ ToApp \/ Plainly
<1>0. ~IsIdle => DOMAIN op = OpFields /\ Carries(op, op)
  BY DEF OpInv, OpRecord, Carries
<1>a. \A x : At(x) => ~IsIdle
  BY DEF At
<1>b. ~IsIdle /\ GoesOn(op) => op' = Idle \/ (Advances /\ op'.hooked = op.hooked /\ op'.launched = op.launched)
  BY <1>0, GoesOnCarries
<1>c. Ends \/ Fault => op' = Idle
  BY DEF Ends, Fault
<1>d. \A complete : ~IsIdle /\ DoneOrFault(complete) =>
        op' = Idle \/ (complete /\ Advances /\ op'.hooked = op.hooked /\ op'.launched = op.launched)
  BY <1>b, <1>c DEF DoneOrFault
<1>e. \A x, y : At(x) /\ At(y) => x = y
  BY DEF At
<1>f. \A x : rootfs' = rootfs /\ At(x) /\ x # "distribute" => Rootfs
  BY <1>e DEF Rootfs
<1>1. CASE Save \/ SetRoles \/ InitKubeadmConfig \/ SaveApp \/ GenerateJoinToken \/ JoinNodes \/ JoinWorkers
  <2>1. PICK x : At(x) /\ x # "distribute" /\ rootfs' = rootfs /\ (GoesOn(op) \/ Ends)
    BY <1>1 DEF Save, SetRoles, InitKubeadmConfig, SaveApp, GenerateJoinToken, JoinNodes, JoinWorkers, hostVars
  <2> QED
    BY <2>1, <1>a, <1>b, <1>c, <1>f DEF Plainly
<1>2. CASE GenerateCert \/ CreateKubeConfig
  <2>1. PICK x : At(x) /\ x # "distribute" /\ rootfs' = rootfs /\ (GoesOn(op) \/ Ends \/ Fault)
    BY <1>2 DEF GenerateCert, CreateKubeConfig, Writes, hostVars
  <2> QED
    BY <2>1, <1>a, <1>b, <1>c, <1>f DEF Plainly
<1>3. CASE InitMaster0 \/ JoinMasters
  <2>1. PICK x : At(x) /\ x # "distribute" /\ rootfs' = rootfs /\ (GoesOn(op) \/ Ends \/ Fault)
    BY <1>3 DEF InitMaster0, JoinMasters
  <2> QED
    BY <2>1, <1>a, <1>b, <1>c, <1>f DEF Plainly
<1>4. CASE Bootstrap \/ Commit
  <2>1. PICK x : At(x) /\ x # "distribute" /\ rootfs' = rootfs /\ (GoesOn(op) \/ Ends \/ Fault)
    BY <1>4 DEF Bootstrap, Commit, hostVars
  <2> QED
    BY <2>1, <1>a, <1>b, <1>c, <1>f DEF Plainly
<1>5. CASE RemoveFiles
  <2>1. PICK x : At(x) /\ x # "distribute" /\ rootfs' = rootfs /\ (GoesOn(op) \/ Ends)
    BY <1>5 DEF RemoveFiles, hostVars
  <2> QED
    BY <2>1, <1>a, <1>b, <1>c, <1>f DEF Plainly
<1>6. CASE RemoveHosts
  <2>1. At("remove") /\ rootfs' = rootfs /\ (Ends \/ \E complete : DoneOrFault(complete))
    BY <1>6 DEF RemoveHosts
  <2> QED
    BY <2>1, <1>a, <1>c, <1>d, <1>f DEF Plainly
<1>7. CASE Reset
  <2>1. At("reset") /\ rootfs' = rootfs /\ \E complete : DoneOrFault(complete)
    BY <1>7 DEF Reset
  <2> QED
    BY <2>1, <1>a, <1>d, <1>f DEF Plainly
<1>8. CASE Restore
  <2>1. /\ At("restore")
        /\ \/ GoesOn(op) /\ rootfs' = rootfs
           \/ \E done, complete : rootfs' = Without(rootfs, done, "none") /\ DoneOrFault(complete)
    BY <1>8 DEF Restore
  <2>2. ~At("distribute")
    BY <2>1, <1>e
  <2>3. Rootfs
    BY <2>1, <2>2 DEF Rootfs
  <2> QED
    BY <2>1, <2>3, <1>a, <1>b, <1>d DEF Plainly
<1>9. CASE Distribute
  <2>1. At("distribute") /\ ~IsIdle
    BY <1>9, <1>a DEF Distribute
  <2>2. PICK ignoreCache \in BOOLEAN :
          LET hits == {h \in op.touched : ~ignoreCache /\ op.cf.image \in cached[h]}
              stale == \E h \in hits : rootfs[h] # op.cf.image
          IN \E copied \in SUBSET (op.touched \ hits) : \E flagged \in SUBSET copied :
               /\ rootfs' = Without(rootfs, copied, op.cf.image)
               /\ \/ flagged = op.touched \ hits /\ GoesOn([op EXCEPT !.torn = @ \/ stale])
                  \/ Fault
    BY <1>9 DEF Distribute
  <2> DEFINE hits == {h \in op.touched : ~ignoreCache /\ op.cf.image \in cached[h]}
             stale == \E h \in hits : rootfs[h] # op.cf.image
             torn == op.torn \/ stale
             o == [op EXCEPT !.torn = torn]
  <2>3. PICK copied \in SUBSET (op.touched \ hits) :
          \/ op.touched \ copied \subseteq hits /\ rootfs' = Without(rootfs, copied, op.cf.image) /\ GoesOn(o)
          \/ Fault
    <3>1. PICK some \in SUBSET (op.touched \ hits) : \E flagged \in SUBSET some :
            /\ rootfs' = Without(rootfs, some, op.cf.image)
            /\ \/ flagged = op.touched \ hits /\ GoesOn(o)
               \/ Fault
      BY <2>2
    <3> HIDE DEF hits, o
    <3> QED
      BY <3>1
  <2>4. op' # Idle => op.touched \ copied \subseteq hits /\ rootfs' = Without(rootfs, copied, op.cf.image) /\ GoesOn(o)
    BY <2>3, <1>c
  <2>5. (op.torn => torn) /\ (~torn => \A h \in hits : rootfs[h] = op.cf.image)
    OBVIOUS
  <2> HIDE DEF hits, torn
  <2>6. /\ Carries(op, o) /\ o.todo = op.todo /\ o.touched = op.touched /\ o.torn = torn
        /\ o.hooked = op.hooked /\ o.launched = op.launched
    BY <1>0, <2>1, <2>5 DEF Carries, OpFields
  <2> HIDE DEF o
  <2>7. op' # Idle => Advances /\ op'.hooked = op.hooked /\ op'.launched = op.launched /\ op'.torn = torn
    BY <2>1, <2>4, <2>6, GoesOnCarries
  <2>8. op' # Idle => Rootfs
    BY <2>1, <2>4, <2>5, <2>7 DEF Rootfs
  <2> QED
    BY <2>7, <2>8 DEF Plainly
<1>10. CASE StartCopies
  <2>1. PICK x, left : /\ At(x) /\ x # "distribute" /\ rootfs' = rootfs
                       /\ op' = [op EXCEPT !.todo = Tail(@), !.left = left] \/ op' = [op EXCEPT !.todo = Tail(@)]
    BY <1>10 DEF StartCopies, hostVars
  <2>2. ~IsIdle /\ DOMAIN op = OpFields
    BY <2>1, <1>0, <1>a
  <2>3. /\ Carries(op, op') /\ op'.todo = Tail(op.todo) /\ op'.touched = op.touched
        /\ op'.hooked = op.hooked /\ op'.launched = op.launched
    BY <2>1, <2>2 DEF Carries, OpFields
  <2> QED
    BY <2>1, <2>2, <2>3, <1>f DEF Plainly, Advances, Proceeds
<1>11. CASE JoinControllers
  <2>1. At("joinM") /\ rootfs' = rootfs /\ (GoesOn(op) \/ Ends \/ \E left : op' = [op EXCEPT !.left = left])
    BY <1>11 DEF JoinControllers
  <2>2. ~IsIdle /\ DOMAIN op = OpFields /\ Rootfs
    BY <2>1, <1>0, <1>a, <1>f
  <2>3. ASSUME NEW left, op' = [op EXCEPT !.left = left] PROVE Plainly
    <3>1. /\ Carries(op, op') /\ op'.todo = op.todo /\ op'.touched = op.touched
          /\ op'.hooked = op.hooked /\ op'.launched = op.launched
      BY <2>2, <2>3 DEF Carries, OpFields
    <3> QED
      BY <2>1, <2>2, <3>1 DEF Plainly, Advances, Proceeds
  <2> QED
    BY <2>1, <2>2, <2>3, <1>b, <1>c DEF Plainly
<1>12. CASE UpdateCert
  <2>1. At("update") /\ rootfs' = rootfs
        /\ (Ends \/ Fault \/ \E h : op' = [op EXCEPT !.touched = op.touched \ {h}])
    BY <1>12 DEF UpdateCert, hostVars
  <2>2. ~IsIdle /\ DOMAIN op = OpFields /\ Rootfs
    BY <2>1, <1>0, <1>a, <1>f
  <2>3. ASSUME NEW h, op' = [op EXCEPT !.touched = op.touched \ {h}] PROVE Plainly
    <3>1. /\ Carries(op, op') /\ op'.todo = op.todo /\ op'.touched \subseteq op.touched
          /\ op'.hooked = op.hooked /\ op'.launched = op.launched
      BY <2>2, <2>3 DEF Carries, OpFields
    <3> QED
      BY <2>1, <2>2, <3>1 DEF Plainly, Advances, Proceeds
  <2> QED
    BY <2>1, <2>3, <1>c DEF Plainly
<1>13. CASE StepFails
  BY <1>13, <1>c DEF StepFails, Plainly
<1> QED
  BY <1>1, <1>2, <1>3, <1>4, <1>5, <1>6, <1>7, <1>8, <1>9, <1>10, <1>11, <1>12, <1>13 DEF CommandStep
\* An advancing command keeps its documents, and what it did to its
\* applications but for the launch.
LEMMA AdvancesKeeps ==
  ASSUME OpInv, PlainInv, Sound(op), Advances, op'.todo # <<>>, Rootfs
  PROVE  /\ DocOp(op') /\ (~op'.torn => HooksFit(op)')
         /\ (op'.launched = op.launched => AppOp(op'))
<1>1. ~IsIdle /\ Carries(op, op') /\ DocOp(op) /\ HookOp(op) /\ AppOp(op)
  BY DEF Advances, Sound
<1>2. ToDo(op'.todo, "toApp") => ToDo(op.todo, "toApp")
  BY <1>1, FirstStep DEF Advances, Proceeds
<1>3. op'.touched \subseteq op.touched
  BY DEF Advances, Proceeds
<1>4. DocOp(op')
  BY <1>1, <1>2, <1>3 DEF DocOp, Carries
<1>5. ~op'.torn => HooksFit(op)'
  BY <1>1, FitKept DEF Advances, Carries, SameHosts, HookOp, DocOp
<1>6. op'.launched = op.launched => AppOp(op')
  BY <1>1 DEF AppOp, Driven, Carries
<1> QED
  BY <1>4, <1>5, <1>6

LEMMA PlainlySound ==
  ASSUME OpInv, PlainInv, ~IsIdle => Sound(op), Plainly, ~IsIdle'
  PROVE  Sound(op)'
<1>1. Advances /\ Rootfs /\ op'.hooked = op.hooked /\ op'.launched = op.launched /\ op'.todo # <<>>
  BY IdleSays DEF Plainly, IsIdle
<1>2. Sound(op)
  BY <1>1 DEF Advances
<1>3. DocOp(op') /\ (~op'.torn => HooksFit(op)') /\ AppOp(op')
  BY <1>1, <1>2, AdvancesKeeps
<1>4. op.torn => op'.torn
  BY <1>1 DEF Advances, Carries
<1>5. HookOp(op)'
  BY <1>1, <1>2, <1>3, <1>4 DEF Sound, HookOp
<1>6. DocOp(op)' /\ AppOp(op)'
  BY <1>3 DEF DocOp, AppOp, Driven
<1> QED
  BY <1>5, <1>6 DEF Sound

LEMMA HookSound ==
  ASSUME OpInv, PlainInv, ~IsIdle => Sound(op), RunHook, ~IsIdle'
  PROVE  Sound(op)'
<1>1. PICK phase \in Phases :
        /\ At(phase) /\ rootfs' = rootfs
        /\ LET r == RunHooks(op.plugins, phase, op.touched, op.cf, Master0, rootfs)
           IN IF r.ok THEN GoesOn([op EXCEPT !.hooked = r.ran]) ELSE Ends
  BY DEF RunHook, Phases, hostVars
<1> DEFINE ran == RunHooks(op.plugins, phase, op.touched, op.cf, Master0, rootfs).ran
           o == [op EXCEPT !.hooked = ran]
<1>2. ~IsIdle /\ op' # Idle /\ op'.todo # <<>> /\ Sound(op)
  BY <1>1, IdleSays DEF At, IsIdle
<1>3. GoesOn(o)
  BY <1>1, <1>2 DEF Ends
<1>4. DOMAIN op = OpFields
  BY <1>2 DEF OpInv, OpRecord
<1>5. HooksFit(op) /\ Fine(op.cf) => \A p \in ran : p[1] = "file" \/ p[1] = p[2]
  BY <1>1, HooksMatch
<1> HIDE DEF ran
<1>6. Carries(op, o) /\ o.todo = op.todo /\ o.touched = op.touched /\ o.hooked = ran /\ o.launched = op.launched
  BY <1>4 DEF Carries, OpFields
<1> HIDE DEF o
<1>7. Advances /\ op'.hooked = ran /\ op'.launched = op.launched
  BY <1>2, <1>3, <1>6, GoesOnCarries
<1>8. Rootfs
  <2>1. ~At("distribute")
    BY <1>1 DEF At, Phases, HostPhases, ClusterPhases
  <2> QED
    BY <1>1, <2>1 DEF Rootfs
<1>9. DocOp(op') /\ (~op'.torn => HooksFit(op)') /\ AppOp(op')
  BY <1>2, <1>7, <1>8, AdvancesKeeps
<1>10. op.torn => op'.torn
  BY <1>7 DEF Advances, Carries
<1>11. HookOp(op)'
  BY <1>2, <1>5, <1>7, <1>9, <1>10 DEF Sound, HookOp, DocOp
<1>12. DocOp(op)' /\ AppOp(op)'
  BY <1>9 DEF DocOp, AppOp, Driven
<1> QED
  BY <1>11, <1>12 DEF Sound

\* The driver upgrade and rollback make once the cluster has the image runs what
\* was asked for too, and the document stays fine.
LEMMA LateAppSound ==
  ASSUME DOMAIN op = OpFields, Sound(op), op.app = None, NEW o, o = WithLateApp(op)
  PROVE  /\ DOMAIN o = OpFields /\ Fine(o.cf) /\ SameHosts(op, o) /\ Driven(o)
         /\ o.cmd = op.cmd /\ o.todo = op.todo /\ o.touched = op.touched /\ o.torn = op.torn
         /\ o.spec = op.spec /\ o.hooked = op.hooked
<1> DEFINE cf == op.cf
           ext == Ext[cf.image]
           merged == MergeClusterWithImageExtension(cf, ext)
           env == merged.env
           zero == 0
           spec == ConstructApplication(cf.app, cf.cmds, cf.names, env, zero)
           doc == WithSpec(cf, spec)
           driver == Some(NewAppDriver(spec, ext))
<1>1. o = [op EXCEPT !.app = driver, !.cf = doc]
  <2>1. o = [op EXCEPT !.app = driver, !.cf = [cf EXCEPT !.app = IF @ = None THEN @ ELSE Some(spec)]]
    BY Zenon DEF WithLateApp
  <2>2. doc = [cf EXCEPT !.app = IF @ = None THEN @ ELSE Some(spec)]
    BY Zenon DEF WithSpec
  <2> HIDE DEF driver, spec, doc, cf
  <2> QED
    BY <2>1, <2>2, Zenon
<1>2. Fine(cf) /\ op.rendered = None /\ op.launched = None /\ (op.asked.cmds = <<>> \/ op.asked.cmds = cf.cmds)
  BY DEF Sound, DocOp, AppOp, Driven
<1>3. IsList(env)
  <2>1. IsList(ext.env)
    BY <1>2, ImagesAssumption DEF Fine, Typable, IsDoc
  <2> HIDE DEF ext, cf
  <2>2. Fine(merged)
    BY <1>2, <2>1, ExtensionFine
  <2> QED
    BY <2>2 DEF Fine, Typable
<1>4. cf.app # None => IsApplication(cf.app[1])
  BY <1>2 DEF Fine, Typable
<1> HIDE DEF env, ext, zero
<1> DEFINE app == cf.app
           cmds == cf.cmds
           names == cf.names
           s == ConstructApplication(app, cmds, names, env, zero)
           d == NewAppDriver(s, ext)
<1>5. IsApplication(s) /\ (cmds # <<>> => d.globalCmds = Some(cmds))
  <2>1. app # None => IsApplication(app[1])
    BY <1>4
  <2> HIDE DEF app, cmds, names
  <2>2. IsApplication(s)
    BY <1>3, <2>1, ConstructApplies
  <2>3. \A a, e : a = s /\ e = NewAppDriver(a, ext) => (cmds # <<>> => e.globalCmds = Some(cmds))
    <3> TAKE a, e
    <3> HAVE a = s /\ e = NewAppDriver(a, ext)
    <3> QED
      BY <1>3, <2>1, DriverSays
  <2> HIDE DEF s
  <2> QED
    BY <2>2, <2>3
<1>6. Fine(doc) /\ doc.M = cf.M /\ doc.W = cf.W /\ doc.image = cf.image
  <2>1. IsApplication(spec)
    BY <1>5
  <2> HIDE DEF spec, cf
  <2> QED
    BY <1>2, <2>1, ConstructFine
<1>7. driver = Some(d) /\ cmds = cf.cmds
  OBVIOUS
<1> HIDE DEF d, driver, doc, cmds
<1>8. driver # None /\ driver[1] = d
  BY <1>7 DEF Some, None
<1>9. /\ DOMAIN o = OpFields /\ o.cf = doc /\ o.app = driver
      /\ o.cmd = op.cmd /\ o.todo = op.todo /\ o.touched = op.touched /\ o.torn = op.torn
      /\ o.spec = op.spec /\ o.hooked = op.hooked /\ o.plugins = op.plugins /\ o.asked = op.asked
      /\ o.rendered = op.rendered /\ o.launched = op.launched
  BY <1>1 DEF OpFields
<1>10. SameHosts(op, o)
  BY <1>6, <1>9 DEF SameHosts
<1>11. Driven(o)
  BY <1>2, <1>5, <1>7, <1>8, <1>9 DEF Driven
<1> QED
  BY <1>6, <1>9, <1>10, <1>11

LEMMA LaunchSound ==
  ASSUME OpInv, PlainInv, ~IsIdle => Sound(op), Launch, ~IsIdle'
  PROVE  Sound(op)'
<1> DEFINE o == IF op.app = None THEN WithLateApp(op) ELSE op
           d == o.app[1]
           done == [cmds |-> GetImageLaunchCmds(d), apps |-> d.launchApps]
           one == Some(done)
           p == [o EXCEPT !.launched = one]
<1>1. At("launch") /\ rootfs' = rootfs /\ (GoesOn(p) \/ Ends)
  BY DEF Launch, hostVars
<1>2. ~IsIdle /\ op' # Idle /\ op'.todo # <<>> /\ Sound(op)
  BY <1>1, IdleSays DEF At, IsIdle
<1>3. op' = [p EXCEPT !.todo = Tail(@)]
  BY <1>1, <1>2 DEF GoesOn, Ends
<1>4. DOMAIN op = OpFields
  BY <1>2 DEF OpInv, OpRecord
<1>5. /\ DOMAIN o = OpFields /\ Fine(o.cf) /\ SameHosts(op, o) /\ Driven(o)
      /\ o.cmd = op.cmd /\ o.todo = op.todo /\ o.touched = op.touched /\ o.torn = op.torn
      /\ o.spec = op.spec /\ o.hooked = op.hooked
  <2>1. CASE op.app = None
    <3>1. o = WithLateApp(op)
      BY <2>1
    <3> HIDE DEF o
    <3> QED
      BY <1>2, <1>4, <2>1, <3>1, LateAppSound
  <2>2. CASE op.app # None
    BY <1>2, <1>4, <2>2 DEF Sound, DocOp, AppOp, SameHosts
  <2> QED
    BY <2>1, <2>2
<1>6. one[1].cmds = GetImageLaunchCmds(o.app[1]) /\ one[1].apps = o.app[1].launchApps
  BY DEF Some
<1> HIDE DEF one, o
<1>7. /\ op'.cmd = op.cmd /\ op'.todo = Tail(op.todo) /\ op'.touched = op.touched /\ op'.torn = op.torn
      /\ op'.spec = op.spec /\ op'.hooked = op.hooked /\ op'.cf = o.cf /\ op'.plugins = o.plugins
      /\ op'.app = o.app /\ op'.asked = o.asked /\ op'.free = o.free /\ op'.rendered = o.rendered
      /\ op'.launched = one
  BY <1>3, <1>5 DEF OpFields
<1>8. Rootfs
  <2>1. ~At("distribute")
    BY <1>1 DEF At
  <2> QED
    BY <1>1, <2>1 DEF Rootfs
<1>9. DocOp(op)'
  <2>1. ToDo(op'.todo, "toApp") => ToDo(op.todo, "toApp")
    BY <1>2, <1>7, FirstStep
  <2> QED
    BY <1>2, <1>5, <1>7, <2>1 DEF Sound, DocOp
<1>10. HookOp(op)'
  <2>1. SameHosts(op, op') /\ Proceeds
    BY <1>5, <1>7 DEF SameHosts, Proceeds
  <2>2. ~op'.torn => HooksFit(op)'
    BY <1>2, <1>7, <1>8, <2>1, FitKept DEF Sound, HookOp, DocOp
  <2> QED
    BY <1>2, <1>7, <2>2 DEF Sound, HookOp
<1>11. Driven(op')
  BY <1>5, <1>6, <1>7 DEF Driven
<1>12. AppOp(op)'
  BY <1>11 DEF AppOp, Driven
<1> QED
  BY <1>9, <1>10, <1>12 DEF Sound

LEMMA ToAppSound ==
  ASSUME OpInv, DocsFine, ~IsIdle => Sound(op), ToApp, ~IsIdle'
  PROVE  Sound(op)'
<1> DEFINE f == op.spec[1]
           image == f.image
           app == f.app
           cmds == f.cmds
           names == f.names
           env == f.env
           free == op.free
           yes == (op.cmd = "apply")
           torn == op.torn
           o == AppInstall(image, app, cmds, names, env, free, yes)
<1>1. At("toApp") /\ (Ends \/ (o # Idle /\ op' = [o EXCEPT !.torn = torn]))
  BY DEF ToApp
<1>2. ~IsIdle /\ op' # Idle /\ Sound(op)
  BY <1>1, IdleSays DEF At, IsIdle
<1>3. o # Idle /\ op' = [o EXCEPT !.torn = torn]
  BY <1>1, <1>2 DEF Ends
<1>4. Fine(f)
  BY <1>1, <1>2, AtSays DEF Sound, DocOp
<1> HIDE DEF f
<1>5. IsList(env) /\ (app # None => IsApplication(app[1])) /\ yes \in BOOLEAN
  BY <1>4 DEF Fine, Typable
<1> HIDE DEF image, app, cmds, names, env, free, yes, torn
<1>6. DOMAIN o = OpFields /\ DocOp(o) /\ AppOp(o) /\ o.hooked = {} /\ NoPhase(o.todo)
  BY <1>3, <1>5, AppInstallSound
<1> HIDE DEF o
<1>7. /\ op'.cmd = o.cmd /\ op'.cf = o.cf /\ op'.app = o.app /\ op'.spec = o.spec /\ op'.asked = o.asked
      /\ op'.free = o.free /\ op'.rendered = o.rendered /\ op'.launched = o.launched
      /\ op'.todo = o.todo /\ op'.touched = o.touched /\ op'.hooked = o.hooked
  BY <1>3, <1>6 DEF OpFields
<1>8. DocOp(op') /\ AppOp(op') /\ op'.hooked = {} /\ NoPhase(op'.todo)
  BY <1>6, <1>7 DEF DocOp, AppOp, Driven
<1>9. HookOp(op)'
  BY <1>8 DEF HookOp, HooksFit, NoPhase
<1>10. DocOp(op)' /\ AppOp(op)'
  BY <1>8 DEF DocOp, AppOp, Driven
<1> QED
  BY <1>9, <1>10 DEF Sound
\* Only Save and Commit write a document, and it is the command's.
LEMMA DocsKept ==
  ASSUME OpInv, DocInv, CommandStep
  PROVE  DocsFine'
<1> USE DEF docVars
<1>1. DocsFine /\ (~IsIdle => Fine(op.cf) /\ (op.cmd = "scale-down" => Master0 \notin op.touched))
  BY DEF DocInv, Sound, DocOp
<1>2. disk' \in {disk, None} /\ cm' \in {cm, None} => DocsFine'
  BY <1>1 DEF DocsFine
<1>3. CASE Save
  <2>1. ~IsIdle /\ disk' = Some(op.cf) /\ cm' = cm
    BY <1>3 DEF Save, At
  <2>2. disk'[1] = op.cf
    BY <2>1 DEF Some
  <2> QED
    BY <1>1, <2>1, <2>2 DEF DocsFine
<1>4. CASE Commit
  <2>1. ~IsIdle /\ disk' = Some(Committed) /\ cm' \in {cm, Some(Committed)}
    BY <1>4 DEF Commit, At
  <2>2. Fine(Committed)
    BY <1>1, <2>1, HostsFine DEF Committed
  <2> HIDE DEF Committed
  <2>3. Some(Committed)[1] = Committed
    BY DEF Some
  <2> QED
    BY <1>1, <2>1, <2>2, <2>3 DEF DocsFine
<1>5. CASE Distribute \/ RunHook \/ SetRoles \/ InitKubeadmConfig \/ GenerateCert \/ CreateKubeConfig \/ JoinMasters
             \/ JoinNodes \/ GenerateJoinToken \/ StartCopies \/ JoinControllers \/ JoinWorkers
  <2>1. disk' = disk /\ cm' = cm
    BY <1>5 DEF Distribute, RunHook, SetRoles, InitKubeadmConfig, GenerateCert, CreateKubeConfig, JoinMasters,
                JoinNodes, GenerateJoinToken, StartCopies, JoinControllers, JoinWorkers
  <2> QED
    BY <2>1, <1>2
<1>6. CASE Launch \/ SaveApp \/ ToApp \/ RemoveHosts \/ Restore \/ UpdateCert \/ StepFails
  <2>1. disk' = disk /\ cm' = cm
    BY <1>6 DEF Launch, SaveApp, ToApp, RemoveHosts, Restore, UpdateCert, StepFails
  <2> QED
    BY <2>1, <1>2
<1>7. CASE InitMaster0 \/ Bootstrap \/ Reset
  <2>1. disk' = disk /\ cm' \in {cm, None}
    BY <1>7 DEF InitMaster0, Bootstrap, Reset
  <2> QED
    BY <2>1, <1>2
<1>8. CASE RemoveFiles
  <2>1. disk' \in {disk, None} /\ cm' = cm
    BY <1>8 DEF RemoveFiles
  <2> QED
    BY <2>1, <1>2
<1> QED
  BY <1>3, <1>4, <1>5, <1>6, <1>7, <1>8 DEF CommandStep

LEMMA NextSound ==
  ASSUME Types, DocInv, [Next]_vars
  PROVE  DocInv'
<1>0. OpInv /\ PlainInv /\ DocsFine /\ (~IsIdle => Sound(op))
  BY DEF Types, Inv, DocInv
<1>1. CASE Command
  BY <1>0, <1>1, CommandSound
<1>2. CASE CommandStep
  <2>1. DocsFine'
    BY <1>0, <1>2, DocsKept
  <2>2. ~IsIdle' => Sound(op)'
    BY <1>0, <1>2, StepAdvances, PlainlySound, HookSound, LaunchSound, ToAppSound
  <2> QED
    BY <2>1, <2>2 DEF DocInv
<1>3. CASE CopyEnds \/ (\E h \in Hosts : WorkerJoins(h)) \/ UNCHANGED vars
  <2>1. UNCHANGED <<op, disk, cm, rootfs>>
    BY <1>3 DEF CopyEnds, WorkerJoins, vars, docVars, hostVars
  <2>2. DocsFine'
    BY <1>0, <2>1 DEF DocsFine
  <2>3. Sound(op) => Sound(op)'
    BY <2>1 DEF Sound, DocOp, HookOp, HooksFit, AppOp, Driven
  <2> QED
    BY <1>0, <2>1, <2>2, <2>3 DEF DocInv, IsIdle
<1> QED
  BY <1>1, <1>2, <1>3 DEF Next, Rests

LEMMA DocInvHolds == Spec => []DocInv
<1>1. Init => DocInv
  BY IdleSays DEF Init, DocInv, DocsFine, IsIdle
<1>2. Types /\ DocInv /\ [Next]_vars => DocInv'
  BY NextSound
<1> QED
  BY <1>1, <1>2, TypesHold, PTL DEF Spec

\* The Clusterfile on the disk and the one in the cluster end with the pairs the
\* user wrote, all and in their order, and give the computed variables the values
\* of the file or those of a later -e (EnvKept), however often decodeClusterFile,
\* the merges with images and flags, SaveAll and the commands that change hosts or
\* images went over it.  Not claimed of names that begin with that of a computed
\* variable: checkAndFillCluster drops them.
THEOREM EnvIsAlwaysKept == Spec => []EnvKept
<1>1. DocInv => EnvKept
  BY FineSays DEF DocInv, DocsFine, EnvKept
<1> QED
  BY <1>1, DocInvHolds, PTL

\* Hooks run in the rootfs of the image they come from (HookMatchesRootfs): those
\* of rollback before the hosts get the old image, those of install and upgrade
\* after they got the new one, and those of scale-up, scale-down and delete on
\* hosts that no failure left with another image.  Not claimed of a command without
\* --ignore-cache that skips a host which has the flag of the image and the files of
\* another one (op.torn, set by Distribute).
THEOREM HooksAlwaysMatch == Spec => []HookMatchesRootfs
<1>1. DocInv => HookMatchesRootfs
  BY DEF DocInv, Sound, HookOp, HookMatchesRootfs
<1> QED
  BY <1>1, DocInvHolds, PTL

\* Applications are launched as asked (AppAsAsked): the commands of the file or
\* the flags hide those of the image, and files are rendered with the last config
\* of the application over the cluster's environment, whether run, apply or the
\* second half of an apply that scaled up launches them.
THEOREM AppsAreAsAsked == Spec => []AppAsAsked
<1>1. DocInv => AppAsAsked
  <2> SUFFICES ASSUME DocInv, ~IsIdle, op.launched # None PROVE AppAsAsked
    BY DEF AppAsAsked
  <2>1. AppOp(op)
    BY DEF DocInv, Sound
  <2>2. /\ op.launched[1].cmds = GetImageLaunchCmds(op.app[1]) /\ op.launched[1].apps = op.app[1].launchApps
        /\ op.asked.cmds # <<>> => op.app[1].globalCmds = Some(op.asked.cmds)
    BY <2>1 DEF AppOp, Driven
  <2>3. op.asked.cmds # <<>> => op.launched[1].cmds = op.asked.cmds
    <3> DEFINE cmds == op.asked.cmds
    <3> HIDE DEF cmds
    <3>1. Some(cmds) # None /\ Some(cmds)[1] = cmds
      BY DEF Some, None
    <3> QED
      BY <2>2, <3>1 DEF GetImageLaunchCmds, cmds
  <2>4. op.rendered # None /\ op.free = 0 =>
          Renders(op.asked.configs, op.asked.want, op.launched[1].apps, op.rendered[1])
    BY <2>1, <2>2 DEF AppOp, Driven
  <2> QED
    BY <2>3, <2>4, Zenon DEF AppAsAsked, Renders
<1> QED
  BY <1>1, DocInvHolds, PTL
==============================================================================
