-------------------------- MODULE RuntimeModelProofs --------------------------
(***************************************************************************)
(* What the explorer's model keeps for any objects, scenes and queues.     *)
(*                                                                         *)
(* The argument has three parts.  Queues are taken apart into the set of   *)
(* what waits in them and the order it stands in: every operation on one   *)
(* leaves a part of the set (and every lifecycle event, or one of a burst) *)
(* in the order it had.  A command is new behind everything that waits,    *)
(* and what a recovery could not keep is numbered up to cut.  A tree or a  *)
(* census is stale only while something leads to another census: an event, *)
(* a fault, the debounce or a refresh; for an object that Unity destroys   *)
(* only at the end of the frame it must be one that cannot fall due in it. *)
(***************************************************************************)
EXTENDS RuntimeModel, FiniteSetTheorems, TLAPS

-----------------------------------------------------------------------------
(* Queues *)

Elems(q) == {q[i] : i \in DOMAIN q}

\* The user's commands stand in the order they were given.
Sorted(q) == \A i, j \in DOMAIN q :
  i < j /\ q[i].seq # 0 /\ q[j].seq # 0 => q[i].seq < q[j].seq

Behind(p, q) == \A c \in Elems(p), d \in Elems(q) :
  c.seq # 0 /\ d.seq # 0 => c.seq < d.seq

LEMMA ElemsTyped ==
  ASSUME NEW S, NEW q \in Seq(S)
  PROVE  Elems(q) \subseteq S
  BY DEF Elems

LEMMA ElemsEmpty == Elems(<<>>) = {} /\ Sorted(<<>>)
  BY DEF Elems, Sorted

LEMMA ElemsConcat ==
  ASSUME NEW S, NEW p \in Seq(S), NEW q \in Seq(S)
  PROVE  p \o q \in Seq(S) /\ Elems(p \o q) = Elems(p) \cup Elems(q)
  <1>1. p \o q \in Seq(S) /\ Len(p \o q) = Len(p) + Len(q) /\ DOMAIN (p \o q) = 1 .. Len(p) + Len(q)
    OBVIOUS
  <1>2. \A i \in 1 .. Len(p) + Len(q) : (p \o q)[i] = IF i <= Len(p) THEN p[i] ELSE q[i - Len(p)]
    OBVIOUS
  <1>3. ASSUME NEW i \in DOMAIN (p \o q) PROVE (p \o q)[i] \in Elems(p) \cup Elems(q)
    <2>1. CASE i <= Len(p)
      BY <2>1, <1>1, <1>2 DEF Elems
    <2>2. CASE i > Len(p)
      <3>1. i - Len(p) \in DOMAIN q
        BY <2>2, <1>1
      <3>2. (p \o q)[i] = q[i - Len(p)]
        BY <2>2, <1>1, <1>2
      <3> QED BY <3>1, <3>2 DEF Elems
    <2> QED BY <2>1, <2>2, <1>1
  <1>4. ASSUME NEW i \in DOMAIN p PROVE p[i] \in Elems(p \o q)
    <2>1. i \in DOMAIN (p \o q) /\ (p \o q)[i] = p[i]
      BY <1>1, <1>2
    <2> QED BY <2>1 DEF Elems
  <1>5. ASSUME NEW i \in DOMAIN q PROVE q[i] \in Elems(p \o q)
    <2>1. i + Len(p) \in DOMAIN (p \o q) /\ (p \o q)[i + Len(p)] = q[i]
      BY <1>1, <1>2
    <2> QED BY <2>1 DEF Elems
  <1> QED BY <1>1, <1>3, <1>4, <1>5 DEF Elems

LEMMA SortedConcat ==
  ASSUME NEW S, NEW p \in Seq(S), NEW q \in Seq(S)
  PROVE  Sorted(p \o q) <=> Sorted(p) /\ Sorted(q) /\ Behind(p, q)
  <1>1. p \o q \in Seq(S) /\ DOMAIN (p \o q) = 1 .. Len(p) + Len(q)
    OBVIOUS
  <1>2. \A i \in 1 .. Len(p) + Len(q) : (p \o q)[i] = IF i <= Len(p) THEN p[i] ELSE q[i - Len(p)]
    OBVIOUS
  <1>3. ASSUME Sorted(p), Sorted(q), Behind(p, q) PROVE Sorted(p \o q)
    <2>1. SUFFICES ASSUME NEW i \in DOMAIN (p \o q), NEW j \in DOMAIN (p \o q), i < j,
                          (p \o q)[i].seq # 0, (p \o q)[j].seq # 0
                   PROVE  (p \o q)[i].seq < (p \o q)[j].seq
      BY DEF Sorted
    <2>2. CASE j <= Len(p)
      <3>1. i \in DOMAIN p /\ j \in DOMAIN p /\ (p \o q)[i] = p[i] /\ (p \o q)[j] = p[j]
        BY <2>1, <2>2, <1>1, <1>2
      <3> QED BY <3>1, <2>1, <1>3 DEF Sorted
    <2>3. CASE i > Len(p)
      <3>1. i - Len(p) \in DOMAIN q /\ j - Len(p) \in DOMAIN q /\ i - Len(p) < j - Len(p)
        BY <2>1, <2>3, <1>1
      <3>2. (p \o q)[i] = q[i - Len(p)] /\ (p \o q)[j] = q[j - Len(p)]
        BY <2>1, <2>3, <1>1, <1>2
      <3> QED BY <3>1, <3>2, <2>1, <1>3 DEF Sorted
    <2>4. CASE i <= Len(p) /\ j > Len(p)
      <3>1. i \in DOMAIN p /\ j - Len(p) \in DOMAIN q
        BY <2>1, <2>4, <1>1
      <3>2. (p \o q)[i] = p[i] /\ (p \o q)[j] = q[j - Len(p)]
        BY <2>1, <2>4, <1>1, <1>2
      <3>3. p[i] \in Elems(p) /\ q[j - Len(p)] \in Elems(q)
        BY <3>1 DEF Elems
      <3> QED BY <3>2, <3>3, <2>1, <1>3 DEF Behind
    <2> QED BY <2>2, <2>3, <2>4, <1>1
  <1>4. ASSUME Sorted(p \o q) PROVE Sorted(p)
    <2>1. SUFFICES ASSUME NEW i \in DOMAIN p, NEW j \in DOMAIN p, i < j, p[i].seq # 0, p[j].seq # 0
                   PROVE  p[i].seq < p[j].seq
      BY DEF Sorted
    <2>2. i \in DOMAIN (p \o q) /\ j \in DOMAIN (p \o q) /\ (p \o q)[i] = p[i] /\ (p \o q)[j] = p[j]
      BY <1>1, <1>2
    <2> QED BY <2>1, <2>2, <1>4 DEF Sorted
  <1>5. ASSUME Sorted(p \o q) PROVE Sorted(q)
    <2>1. SUFFICES ASSUME NEW i \in DOMAIN q, NEW j \in DOMAIN q, i < j, q[i].seq # 0, q[j].seq # 0
                   PROVE  q[i].seq < q[j].seq
      BY DEF Sorted
    <2>2. i + Len(p) \in DOMAIN (p \o q) /\ j + Len(p) \in DOMAIN (p \o q) /\ i + Len(p) < j + Len(p)
      BY <2>1, <1>1
    <2>3. (p \o q)[i + Len(p)] = q[i] /\ (p \o q)[j + Len(p)] = q[j]
      BY <1>1, <1>2
    <2> QED BY <2>1, <2>2, <2>3, <1>5 DEF Sorted
  <1>6. ASSUME Sorted(p \o q) PROVE Behind(p, q)
    <2>1. SUFFICES ASSUME NEW i \in DOMAIN p, NEW j \in DOMAIN q, p[i].seq # 0, q[j].seq # 0
                   PROVE  p[i].seq < q[j].seq
      BY DEF Behind, Elems
    <2>2. i \in DOMAIN (p \o q) /\ j + Len(p) \in DOMAIN (p \o q) /\ i < j + Len(p)
      BY <1>1
    <2>3. (p \o q)[i] = p[i] /\ (p \o q)[j + Len(p)] = q[j]
      BY <1>1, <1>2
    <2> QED BY <2>1, <2>2, <2>3, <1>6 DEF Sorted
  <1> QED BY <1>3, <1>4, <1>5, <1>6

LEMMA TailFacts ==
  ASSUME NEW S, NEW q \in Seq(S), q # <<>>
  PROVE  /\ Tail(q) \in Seq(S)
         /\ Head(q) \in S
         /\ Elems(q) = Elems(Tail(q)) \cup {Head(q)}
         /\ Sorted(q) => Sorted(Tail(q)) /\ Behind(<<Head(q)>>, Tail(q))
  <1>1. Tail(q) \in Seq(S) /\ Head(q) \in S /\ <<Head(q)>> \in Seq(S)
    OBVIOUS
  <1>2. q = <<Head(q)>> \o Tail(q)
    OBVIOUS
  <1>3. Elems(<<Head(q)>>) = {Head(q)}
    BY DEF Elems
  <1>4. Elems(q) = {Head(q)} \cup Elems(Tail(q))
    <2>1. Elems(<<Head(q)>> \o Tail(q)) = Elems(<<Head(q)>>) \cup Elems(Tail(q))
      BY <1>1, ElemsConcat
    <2> QED BY <2>1, <1>2, <1>3
  <1>5. Sorted(q) => Sorted(Tail(q)) /\ Behind(<<Head(q)>>, Tail(q))
    BY <1>1, <1>2, SortedConcat
  <1> QED BY <1>1, <1>4, <1>5

\* The k-th of the kept places is where it should be: no place is lost, none is
\* taken twice, and the order stays.
LEMMA KeptPlaces ==
  ASSUME NEW S, NEW q \in Seq(S), NEW K \in SUBSET DOMAIN q
  PROVE  /\ Kept(q, K) \in Seq(S)
         /\ \E e \in [DOMAIN Kept(q, K) -> K] :
              /\ \A k \in DOMAIN e : Kept(q, K)[k] = q[e[k]]
              /\ \A k, l \in DOMAIN e : k < l => e[k] < e[l]
              /\ \A i \in K : \E k \in DOMAIN e : e[k] = i
  <1> DEFINE Rank(i) == Cardinality({j \in K : j <= i})
             n == Cardinality(K)
             Place(k) == CHOOSE i \in K : Rank(i) = k
  <1>1. K \subseteq 1 .. Len(q) /\ K \subseteq Nat /\ Len(q) \in Nat
    OBVIOUS
  <1>2. IsFiniteSet(K) /\ n \in Nat
    <2>1. IsFiniteSet(1 .. Len(q)) /\ K \in SUBSET (1 .. Len(q))
      BY <1>1, FS_Interval
    <2>2. IsFiniteSet(K)
      BY <2>1, FS_Subset
    <2> QED BY <2>2, FS_CardinalityType
  <1>3. ASSUME NEW i \in K PROVE Rank(i) \in 1 .. n
    <2>1. {j \in K : j <= i} \in SUBSET K /\ i \in {j \in K : j <= i}
      BY <1>1
    <2>2. IsFiniteSet({j \in K : j <= i}) /\ Rank(i) <= n /\ Rank(i) \in Nat
      BY <2>1, <1>2, FS_Subset, FS_CardinalityType
    <2>3. Rank(i) # 0
      BY <2>1, <2>2, FS_EmptySet
    <2> QED BY <2>2, <2>3, <1>2
  <1>4. ASSUME NEW i \in K, NEW j \in K, i < j PROVE Rank(i) < Rank(j)
    <2> DEFINE A == {m \in K : m <= i}
               B == {m \in K : m <= j}
    <2>1. A \in SUBSET B /\ j \in B /\ j \notin A /\ B \in SUBSET K
      BY <1>1, <1>4
    <2>2. IsFiniteSet(B) /\ Cardinality(A) <= Cardinality(B) /\ Cardinality(A) # Cardinality(B)
      BY <2>1, <1>2, FS_Subset
    <2>3. Cardinality(A) \in Nat /\ Cardinality(B) \in Nat
      BY <1>3
    <2> QED BY <2>2, <2>3
  <1>5. ASSUME NEW k \in 1 .. n PROVE \E i \in K : Rank(i) = k
    <2> DEFINE f == [i \in K |-> Rank(i)]
               T == (1 .. n) \ {k}
    <2>1. SUFFICES ASSUME \A i \in K : Rank(i) # k PROVE FALSE
      OBVIOUS
    <2>2. f \in [K -> T]
      BY <2>1, <1>3
    <2>3. IsFiniteSet(1 .. n) /\ Cardinality(1 .. n) = n
      BY <1>2, FS_Interval
    <2>4. IsFiniteSet(T) /\ Cardinality(T) = n - 1
      BY <2>3, FS_RemoveElement
    <2>5. Cardinality(T) < Cardinality(K)
      BY <2>4, <1>2
    <2> HIDE DEF T
    <2>6. \E x, y \in K : x # y /\ f[x] = f[y]
      <3> HIDE DEF f
      <3> QED BY <2>2, <2>4, <2>5, <1>2, FS_PigeonHole
    <2>7. PICK x \in K, y \in K : x # y /\ Rank(x) = Rank(y)
      BY <2>6
    <2>8. x < y \/ y < x
      BY <2>7, <1>1
    <2>9. Rank(x) \in Nat /\ Rank(y) \in Nat
      BY <1>3
    <2> HIDE DEF Rank
    <2> QED BY <2>7, <2>8, <2>9, <1>4
  <1>6. Kept(q, K) = [k \in 1 .. n |-> q[Place(k)]]
    BY DEF Kept
  <1> HIDE DEF n, Rank
  <1>7. \A k \in 1 .. n : Place(k) \in K /\ Rank(Place(k)) = k
    BY <1>5
  <1> HIDE DEF Place
  <1>8. Kept(q, K) \in Seq(S) /\ DOMAIN Kept(q, K) = 1 .. n
    <2>1. \A k \in 1 .. n : q[Place(k)] \in S
      BY <1>7, <1>1
    <2> QED BY <2>1, <1>6, <1>2
  <1> DEFINE e == [k \in 1 .. n |-> Place(k)]
  <1>9. e \in [DOMAIN Kept(q, K) -> K] /\ DOMAIN e = 1 .. n
    BY <1>7, <1>8
  <1>10. \A k \in DOMAIN e : Kept(q, K)[k] = q[e[k]]
    BY <1>6
  <1>11. \A k, l \in DOMAIN e : k < l => e[k] < e[l]
    <2>1. SUFFICES ASSUME NEW k \in 1 .. n, NEW l \in 1 .. n, k < l
                   PROVE  Place(k) < Place(l)
      OBVIOUS
    <2>2. Place(k) \in K /\ Place(l) \in K /\ Rank(Place(k)) = k /\ Rank(Place(l)) = l
      BY <1>7
    <2>3. Place(k) \in Nat /\ Place(l) \in Nat /\ k \in Nat /\ l \in Nat
      BY <2>2, <1>1, <1>2
    <2>4. Place(k) # Place(l)
      BY <2>1, <2>2, <2>3
    <2>5. Place(l) < Place(k) => l < k
      BY <2>2, <1>4
    <2> QED BY <2>1, <2>3, <2>4, <2>5
  <1>12. \A i \in K : \E k \in DOMAIN e : e[k] = i
    <2>1. SUFFICES ASSUME NEW i \in K PROVE Place(Rank(i)) = i
      BY <1>3, <1>9
    <2>2. Rank(i) \in 1 .. n
      BY <1>3
    <2>3. Place(Rank(i)) \in K /\ Rank(Place(Rank(i))) = Rank(i)
      BY <2>2, <1>7
    <2>4. Rank(i) \in Nat /\ i \in Nat /\ Place(Rank(i)) \in Nat
      BY <2>2, <2>3, <1>1, <1>2
    <2> DEFINE p == Place(Rank(i))
    <2>5. p < i => Rank(p) < Rank(i)
      BY <2>3, <1>4
    <2>6. i < p => Rank(i) < Rank(p)
      BY <2>3, <1>4
    <2> HIDE DEF p
    <2> QED BY <2>3, <2>4, <2>5, <2>6 DEF p
  <1> HIDE DEF e
  <1> QED BY <1>8, <1>9, <1>10, <1>11, <1>12

\* The first and the last of some places.
LEMMA MinOfPlaces ==
  ASSUME NEW S, NEW q \in Seq(S), NEW T \in SUBSET DOMAIN q
  PROVE  T # {} => Min(T) \in T /\ Max(T) \in T
  <1> DEFINE r == Kept(q, T)
             m == Len(r)
  <1>1. T \subseteq Nat
    OBVIOUS
  <1>0. SUFFICES ASSUME T # {} PROVE Min(T) \in T /\ Max(T) \in T
    OBVIOUS
  <1>2. r \in Seq(S)
    BY KeptPlaces
  <1>3. PICK e \in [DOMAIN r -> T] :
          /\ \A k \in DOMAIN e : r[k] = q[e[k]]
          /\ \A k, l \in DOMAIN e : k < l => e[k] < e[l]
          /\ \A i \in T : \E k \in DOMAIN e : e[k] = i
    BY KeptPlaces
  <1> HIDE DEF r
  <1>4. m \in Nat /\ DOMAIN e = 1 .. m
    BY <1>2
  <1> HIDE DEF m
  <1>5. m # 0
    <2>1. PICK i \in T : TRUE
      BY <1>0
    <2>2. \E k \in 1 .. m : e[k] = i
      BY <2>1, <1>3, <1>4
    <2> QED BY <2>2, <1>4
  <1>6. 1 \in DOMAIN e /\ m \in DOMAIN e /\ e[1] \in T /\ e[m] \in T
    BY <1>4, <1>5
  <1>7. ASSUME NEW i \in T PROVE e[1] <= i /\ e[m] >= i
    <2>1. PICK k \in 1 .. m : e[k] = i
      BY <1>3, <1>4
    <2>2. e[1] \in Nat /\ e[m] \in Nat /\ i \in Nat
      BY <1>1, <1>6, <1>7
    <2>3. k = 1 \/ e[1] < e[k]
      BY <1>3, <1>4, <1>6
    <2>4. k = m \/ e[k] < e[m]
      BY <1>3, <1>4, <1>6
    <2> QED BY <2>1, <2>2, <2>3, <2>4
  <1> QED BY <1>6, <1>7 DEF Min, Max

LEMMA KeptElems ==
  ASSUME NEW S, NEW q \in Seq(S), NEW K \in SUBSET DOMAIN q
  PROVE  /\ Kept(q, K) \in Seq(S)
         /\ Elems(Kept(q, K)) = {q[i] : i \in K}
         /\ Sorted(q) => Sorted(Kept(q, K))
  <1> DEFINE r == Kept(q, K)
  <1>1. r \in Seq(S)
    BY KeptPlaces
  <1>2. PICK e \in [DOMAIN r -> K] :
          /\ \A k \in DOMAIN e : r[k] = q[e[k]]
          /\ \A k, l \in DOMAIN e : k < l => e[k] < e[l]
          /\ \A i \in K : \E k \in DOMAIN e : e[k] = i
    BY KeptPlaces
  <1> HIDE DEF r
  <1>3. DOMAIN e = DOMAIN r
    BY <1>2
  <1>4. Elems(r) = {q[i] : i \in K}
    BY <1>2, <1>3 DEF Elems
  <1>5. Sorted(q) => Sorted(r)
    BY <1>2, <1>3 DEF Sorted
  <1> QED BY <1>1, <1>4, <1>5 DEF r

LEMMA WithoutElems ==
  ASSUME NEW S, NEW q \in Seq(S), NEW kinds
  PROVE  /\ Without(q, kinds) \in Seq(S)
         /\ Elems(Without(q, kinds)) = {c \in Elems(q) : c.kind \notin kinds}
         /\ Sorted(q) => Sorted(Without(q, kinds))
  <1> DEFINE K == {i \in DOMAIN q : q[i].kind \notin kinds}
  <1>1. K \in SUBSET DOMAIN q
    OBVIOUS
  <1>2. {q[i] : i \in K} = {c \in Elems(q) : c.kind \notin kinds}
    BY DEF Elems
  <1>3. Without(q, kinds) = Kept(q, K)
    BY DEF Without
  <1> HIDE DEF K
  <1> QED BY <1>1, <1>2, <1>3, KeptElems

\* A command that is new behind all of a queue goes to its end.
LEMMA EnqueuedElems ==
  ASSUME NEW q \in Seq(CommandSet), NEW c \in CommandSet
  PROVE  /\ Enqueued(q, c) \in Seq(CommandSet)
         /\ Elems(Enqueued(q, c)) \subseteq Elems(q) \cup {c}
         /\ \A d \in Elems(q) \cup {c} : d.kind \in Lifecycle => d \in Elems(Enqueued(q, c))
         /\ Sorted(q) /\ (c.seq = 0 \/ \A d \in Elems(q) : d.seq < c.seq) => Sorted(Enqueued(q, c))
  <1>1. CASE c.kind = "metadata" /\ \E i \in DOMAIN q : q[i].kind = c.kind /\ q[i].obj = c.obj
    <2>1. Enqueued(q, c) = q
      BY <1>1 DEF Enqueued
    <2> QED BY <2>1, <1>1 DEF Lifecycle
  <1>2. CASE ~(c.kind = "metadata" /\ \E i \in DOMAIN q : q[i].kind = c.kind /\ q[i].obj = c.obj)
    <2> DEFINE r == Without(q, Replaced(c.kind))
    <2>1. Enqueued(q, c) = r \o <<c>>
      <3>1. Enqueued(q, c) = Append(r, c)
        BY <1>2 DEF Enqueued
      <3>2. r \in Seq(CommandSet)
        BY WithoutElems
      <3>3. \A t \in Seq(CommandSet) : Append(t, c) = t \o <<c>>
        OBVIOUS
      <3> HIDE DEF r
      <3> QED BY <3>1, <3>2, <3>3
    <2>2. /\ r \in Seq(CommandSet)
          /\ Elems(r) = {d \in Elems(q) : d.kind \notin Replaced(c.kind)}
          /\ Sorted(q) => Sorted(r)
      BY WithoutElems
    <2>3. <<c>> \in Seq(CommandSet) /\ Elems(<<c>>) = {c}
      BY DEF Elems
    <2>4. Sorted(<<c>>)
      BY DEF Sorted
    <2>5. \A k \in Lifecycle : k \notin Replaced(c.kind)
      BY DEF Lifecycle, Replaced
    <2> HIDE DEF r
    <2>6. Elems(Enqueued(q, c)) = Elems(r) \cup {c} /\ Enqueued(q, c) \in Seq(CommandSet)
      <3>1. r \o <<c>> \in Seq(CommandSet) /\ Elems(r \o <<c>>) = Elems(r) \cup Elems(<<c>>)
        BY <2>2, <2>3, ElemsConcat
      <3> QED BY <2>1, <2>3, <3>1
    <2>7. Sorted(q) /\ (c.seq = 0 \/ \A d \in Elems(q) : d.seq < c.seq) => Sorted(Enqueued(q, c))
      BY <2>1, <2>2, <2>3, <2>4, SortedConcat DEF Behind
    <2> QED BY <2>2, <2>5, <2>6, <2>7
  <1> QED BY <1>1, <1>2

\* Of a burst of destructions at least one stays, in the order of the rest.
LEMMA CoalescedElems ==
  ASSUME NEW q \in Seq(CommandSet)
  PROVE  /\ Coalesced(q) \in Seq(CommandSet)
         /\ Elems(Coalesced(q)) \subseteq Elems(q)
         /\ (\E c \in Elems(q) : c.kind \in Lifecycle) => \E c \in Elems(Coalesced(q)) : c.kind \in Lifecycle
         /\ Sorted(q) /\ (\A c \in Elems(q) : c.kind \in Lifecycle => c.seq = 0) => Sorted(Coalesced(q))
  <1> DEFINE Bursts == {i \in DOMAIN q : q[i].kind = "destroyed"}
             first == Min(Bursts)
             Hits == {i \in Bursts \ {first} : q[i].obj = selected}
             kept == IF Hits = {} THEN first ELSE Max(Hits)
             K == {first} \cup (DOMAIN q \ Bursts)
             r == [q EXCEPT ![first] = q[kept]]
  <1>1. CASE Bursts = {}
    <2>1. Coalesced(q) = q
      BY <1>1 DEF Coalesced
    <2> QED BY <2>1
  <1>2. CASE Bursts # {}
    <2>1. Coalesced(q) = Kept(r, K)
      BY <1>2 DEF Coalesced
    <2>2. Bursts \in SUBSET DOMAIN q
      OBVIOUS
    <2> HIDE DEF Bursts
    <2>3. first \in Bursts
      BY <1>2, <2>2, MinOfPlaces
    <2>4. kept \in Bursts
      <3>1. CASE Hits = {}
        BY <3>1, <2>3
      <3>2. CASE Hits # {}
        <4>1. Hits \in SUBSET DOMAIN q /\ Hits \subseteq Bursts
          BY <2>2
        <4> HIDE DEF Hits
        <4>2. Max(Hits) \in Hits
          BY <4>1, <2>2, <3>2, MinOfPlaces
        <4> QED BY <4>1, <4>2, <3>2
      <3> QED BY <3>1, <3>2
    <2> HIDE DEF first, kept
    <2> USE DEF Bursts
    <2>5. q[kept] \in CommandSet /\ q[kept].kind = "destroyed" /\ first \in DOMAIN q /\ kept \in DOMAIN q
      BY <2>3, <2>4
    <2>6. r \in Seq(CommandSet) /\ DOMAIN r = DOMAIN q /\ K \in SUBSET DOMAIN r
      BY <2>5
    <2>7. \A i \in DOMAIN q : r[i] = IF i = first THEN q[kept] ELSE q[i]
      BY <2>5
    <2>8. (\A c \in Elems(q) : c.kind \in Lifecycle => c.seq = 0) => q[kept].seq = 0
      BY <2>5 DEF Elems, Lifecycle
    <2> HIDE DEF r, K
    <2>9. Sorted(q) /\ (\A c \in Elems(q) : c.kind \in Lifecycle => c.seq = 0) => Sorted(r)
      BY <2>6, <2>7, <2>8 DEF Sorted
    <2>10. /\ Coalesced(q) \in Seq(CommandSet)
           /\ Elems(Coalesced(q)) = {r[i] : i \in K}
           /\ Sorted(r) => Sorted(Coalesced(q))
      BY <2>1, <2>6, KeptElems
    <2>11. {r[i] : i \in K} \subseteq Elems(q)
      BY <2>5, <2>6, <2>7 DEF Elems
    <2>12. q[kept] \in {r[i] : i \in K} /\ q[kept].kind \in Lifecycle
      BY <2>5, <2>7 DEF K, Lifecycle
    <2> QED BY <2>9, <2>10, <2>11, <2>12
  <1> QED BY <1>1, <1>2

-----------------------------------------------------------------------------
(* The inductive invariant *)

Waiting == Elems(pending) \cup Elems(commands)
EventWaits == \E c \in Waiting : c.kind \in Lifecycle

Untagged(c) == c.kind \in Lifecycle => c.seq = 0 /\ c.rev = 0

QueueInv ==
  /\ \A c \in Waiting : c.seq <= given /\ Untagged(c)
  /\ Sorted(pending) /\ Sorted(commands) /\ Behind(pending, commands)
  /\ cut <= given
  /\ ~faulted => \A c \in Waiting : c.seq \in 1 .. cut => c.kind \in Safe

\* What will lead to another census.
CensusComes == EventWaits \/ faulted \/ eventPending \/ refresh

\* The same for an object that Unity destroys at the end of the frame: the census
\* must not be one that starts before it.
CensusComesLater ==
  \/ EventWaits
  \/ faulted
  \/ eventPending /\ (pc = "late" \/ (pc \in {"commands", "rest", "read"} /\ ~settled))

Gone(o) == life[o] \in {"doomed", "dead"}

TreeInv ==
  /\ published = hierarchy
  /\ \A o \in Objects : life[o] = "doomed" => CensusComesLater
  /\ \A o \in hierarchy.ids :
       Gone(o) => hierarchy.late \/ CensusComes \/ census # None
  /\ census # None =>
       \A o \in census.left \cup census.flat : Gone(o) => census.late \/ CensusComes

RuntimeInv == TypeOK /\ QueueInv /\ TreeInv /\ FocusOnSelection

-----------------------------------------------------------------------------
(* The focus *)

LEMMA FocusCommand ==
  ASSUME FocusOnSelection, NEW c, Runs(c)
  PROVE  FocusOnSelection'
  <1> USE DEF FocusOnSelection, ClearSelection
  <1>1. CASE Refused(c)
    BY <1>1 DEF Refused, choice
  <1>2. CASE ChangesSelection(c)
    <2>1. CASE c.kind = "select" /\ SelectObject(c.obj)
      BY <2>1 DEF SelectObject
    <2>2. CASE c.kind = "focus" /\ selected' = c.obj
                 /\ focus' \in {IF c.obj = selected THEN focus ELSE NoObject, NoObject}
                       \cup {o \in {c.obj} : Exists(o)}
      BY <2>2
    <2>3. CASE c.kind = "camera" /\ focus' = FocusUpdated /\ UNCHANGED selected
      BY <2>3 DEF FocusUpdated
    <2> QED BY <1>2, <2>1, <2>2, <2>3 DEF ChangesSelection
  <1>3. CASE EditsObject(c)
    BY <1>3 DEF EditsObject
  <1>4. CASE AsksRefresh(c) \/ DuplicatesObject(c) \/ LoadsScene(c)
    BY <1>4 DEF AsksRefresh, DuplicatesObject, LoadsScene, choice
  <1>5. CASE DeletesObject(c)
    BY <1>5 DEF DeletesObject
  <1>6. CASE SetsOption(c)
    BY <1>6 DEF SetsOption
  <1>7. CASE SceneHint(c)
    BY <1>7 DEF SceneHint
  <1>8. CASE DestroyRequested(c)
    BY <1>8 DEF DestroyRequested
  <1> QED BY <1>1, <1>2, <1>3, <1>4, <1>5, <1>6, <1>7, <1>8 DEF Runs

LEMMA FocusStep == FocusOnSelection /\ [Next]_vars => FocusOnSelection'
  <1> SUFFICES ASSUME FocusOnSelection, [Next]_vars PROVE FocusOnSelection'
    OBVIOUS
  <1> USE DEF FocusOnSelection
  <1>1. FocusAfter = NoObject \/ FocusAfter = focus
    BY DEF FocusAfter, FocusUpdated
  <1>2. CASE RunsCommand
    BY <1>2, FocusCommand DEF RunsCommand
  <1>3. CASE Recovers
    BY <1>3 DEF Recovers, ClearSelection
  <1>4. CASE SkipsCensus \/ CensusSlice
    BY <1>4, <1>1 DEF SkipsCensus, CensusSlice
  <1>5. CASE CensusDone
    BY <1>5, <1>1 DEF CensusDone, ClearSelection
  <1>6. CASE Reads
    BY <1>6 DEF Reads, ClearSelection
  <1>7. CASE FrameBegins \/ Drains \/ CommandsDone \/ FrameEnds
    BY <1>7 DEF FrameBegins, Drains, CommandsDone, FrameEnds, choice
  <1>8. CASE Faults \/ Settles
    BY <1>8 DEF Faults, FrameFaults, CommandFaults, MetadataFaults, Settles, choice
  <1>9. CASE Game
    BY <1>9 DEF Game, GameLoadsScene, GameDestroys, choice
  <1>10. CASE UiDraws \/ UiCommands
    BY <1>10 DEF UiDraws, UiCommands, UiGives, choice
  <1>11. CASE UNCHANGED vars
    BY <1>11 DEF vars, choice
  <1> QED BY <1>2, <1>3, <1>4, <1>5, <1>6, <1>7, <1>8, <1>9, <1>10, <1>11 DEF Next, Frame

-----------------------------------------------------------------------------
(* Types *)

\* The parts of TypeOK a command can touch.
CommandTypes ==
  /\ life \in [Objects -> {"none", "live", "doomed", "dead"}]
  /\ commands \in Seq(CommandSet)
  /\ refresh \in BOOLEAN /\ liveData \in BOOLEAN
  /\ eventPending \in BOOLEAN /\ settled \in BOOLEAN /\ sceneLoad \in BOOLEAN
  /\ scene \in Nat /\ generation \in Nat /\ nextRevision \in Nat
  /\ census = None \/ census \in [rev : Nat, gen : Nat, left : SUBSET Objects,
                                  flat : SUBSET Objects, late : BOOLEAN]
  /\ selected \in Objects \cup {NoObject} /\ focus \in Objects \cup {NoObject}

LEMMA EventTyped ==
  ASSUME NEW kind \in Lifecycle, NEW o \in Objects \cup {NoObject}
  PROVE  /\ Event(kind, o) \in CommandSet /\ Event(kind, o).kind = kind
         /\ Event(kind, o).seq = 0 /\ Event(kind, o).rev = 0
  BY DEF Event, CommandSet, Kinds, Lifecycle

LEMMA CommandTyped ==
  ASSUME CommandTypes, NEW c \in CommandSet, Runs(c)
  PROVE  CommandTypes'
  <1>0. c.obj \in Objects \cup {NoObject} /\ c.kind \in Kinds
    BY DEF CommandSet
  <1> USE DEF CommandTypes, ClearSelection, Debounce, RequestRefresh
  <1>1. CASE Refused(c)
    BY <1>1 DEF Refused, choice, world, work
  <1>2. CASE ChangesSelection(c)
    BY <1>2, <1>0 DEF ChangesSelection, SelectObject, FocusUpdated, world, work
  <1>3. CASE EditsObject(c)
    BY <1>3 DEF EditsObject, world, work
  <1>4. CASE AsksRefresh(c)
    BY <1>4 DEF AsksRefresh, choice, world
  <1>5. CASE DeletesObject(c)
    <2>1. Doomed(c.obj) \in [Objects -> {"none", "live", "doomed", "dead"}]
      BY DEF Doomed
    <2>2. Enqueued(commands, Event("destroyed", c.obj)) \in Seq(CommandSet)
      BY <1>0, EventTyped, EnqueuedElems DEF Lifecycle
    <2> QED BY <1>5, <2>1, <2>2 DEF DeletesObject
  <1>6. CASE DuplicatesObject(c)
    <2>1. life' \in [Objects -> {"none", "live", "doomed", "dead"}]
      BY <1>6 DEF DuplicatesObject
    <2> QED BY <1>6, <2>1 DEF DuplicatesObject, choice
  <1>7. CASE LoadsScene(c)
    BY <1>7 DEF LoadsScene, choice, world
  <1>8. CASE SetsOption(c)
    BY <1>8 DEF SetsOption, world, work
  <1>9. CASE SceneHint(c)
    <2>1. sceneLoad' \in BOOLEAN
      BY <1>9 DEF SceneHint, NewGeneration
    <2>2. generation' \in Nat /\ census' = None
      BY <1>9 DEF SceneHint, NewGeneration
    <2> QED BY <1>9, <2>1, <2>2 DEF SceneHint, world
  <1>10. CASE DestroyRequested(c)
    BY <1>10 DEF DestroyRequested, world
  <1> QED BY <1>1, <1>2, <1>3, <1>4, <1>5, <1>6, <1>7, <1>8, <1>9, <1>10 DEF Runs

CensusSet == [rev : Nat, gen : Nat, left : SUBSET Objects, flat : SUBSET Objects, late : BOOLEAN]

LEMMA StartedTyped ==
  ASSUME TypeOK
  PROVE  Started \in CensusSet
  <1>1. CASE census = None
    BY <1>1 DEF Started, NewCensus, CensusSet, TypeOK
  <1>2. CASE census # None
    <2>1. census \in CensusSet
      BY <1>2 DEF TypeOK, CensusSet
    <2>2. Started = [census EXCEPT !.late = census.late \/ refresh \/ Due]
      BY <1>2 DEF Started
    <2>3. (census.late \/ refresh \/ Due) \in BOOLEAN
      OBVIOUS
    <2> HIDE DEF Due
    <2> QED BY <2>1, <2>2, <2>3 DEF CensusSet
  <1> QED BY <1>1, <1>2

LEMMA VisitedTyped ==
  ASSUME TypeOK, NEW part \in SUBSET Started.left
  PROVE  /\ Visited(part) \in CensusSet
         /\ Tree(Visited(part)) \in TreeSet
  <1>1. Started \in CensusSet
    BY StartedTyped
  <1>2. part \in SUBSET Objects
    BY <1>1 DEF CensusSet
  <1>3. Visited(part) \in CensusSet
    BY <1>1, <1>2 DEF Visited, CensusSet
  <1>4. ASSUME NEW v \in CensusSet PROVE Tree(v) \in TreeSet
    BY <1>4 DEF Tree, TreeSet, CensusSet
  <1> QED BY <1>3, <1>4

LEMMA FocusTyped ==
  TypeOK => FocusAfter \in Objects \cup {NoObject}
  BY DEF TypeOK, FocusAfter, FocusUpdated

LEMMA TypeStep == TypeOK /\ [Next]_vars => TypeOK'
  <1> SUFFICES ASSUME TypeOK, [Next]_vars PROVE TypeOK'
    OBVIOUS
  <1>c. CommandTypes
    BY DEF TypeOK, CommandTypes
  <1>1. CASE FrameBegins
    BY <1>1 DEF FrameBegins, TypeOK, world, queue, work, trees, choice, fault
  <1>2. CASE Recovers
    <2>1. commands' \in Seq(CommandSet)
      BY <1>2, WithoutElems DEF Recovers, Recovered, TypeOK
    <2> QED BY <1>2, <2>1 DEF Recovers, RefreshLater, Debounce, ClearSelection, TypeOK, world
  <1>3. CASE Drains
    <2>1. Coalesced(commands) \in Seq(CommandSet)
      BY CoalescedElems DEF TypeOK
    <2>2. pending' \in Seq(CommandSet) /\ commands' \in Seq(CommandSet) /\ pc' = "commands"
      BY <1>3, <2>1 DEF Drains
    <2> QED BY <1>3, <2>2 DEF Drains, TypeOK, world, work, trees, choice, fault
  <1>4. CASE RunsCommand
    <2>1. /\ pending \in Seq(CommandSet) /\ pending # <<>> /\ pc = "commands"
          /\ Runs(Head(pending)) /\ pending' = Tail(pending)
      BY <1>4 DEF RunsCommand, TypeOK
    <2>2. Tail(pending) \in Seq(CommandSet) /\ Head(pending) \in CommandSet
      BY <2>1, TailFacts
    <2>3. CommandTypes'
      BY <1>c, <2>1, <2>2, CommandTyped
    <2>4. UNCHANGED <<pc, given, trees, fault>>
      BY <1>4 DEF RunsCommand
    <2> QED BY <2>1, <2>2, <2>3, <2>4 DEF CommandTypes, TypeOK, trees, fault
  <1>5. CASE CommandsDone
    BY <1>5 DEF CommandsDone, TypeOK, world, queue, work, trees, choice, fault
  <1>6. CASE SkipsCensus
    <2>1. sceneLoad' \in BOOLEAN /\ refresh' \in BOOLEAN /\ eventPending' \in BOOLEAN
      BY <1>6 DEF SkipsCensus, BeforeCensus, TypeOK
    <2>2. focus' \in Objects \cup {NoObject}
      BY <1>6, FocusTyped DEF SkipsCensus
    <2>3. UNCHANGED <<settled, generation>>
      BY <1>6 DEF SkipsCensus, BeforeCensus
    <2> QED BY <1>6, <2>1, <2>2, <2>3 DEF SkipsCensus, TypeOK, world, queue, trees, fault
  <1>7. CASE CensusSlice
    <2>1. sceneLoad' \in BOOLEAN /\ refresh' \in BOOLEAN /\ eventPending' \in BOOLEAN
      BY <1>7 DEF CensusSlice, BeforeCensus, TypeOK
    <2>2. focus' \in Objects \cup {NoObject}
      BY <1>7, FocusTyped DEF CensusSlice
    <2>3. UNCHANGED <<settled, generation>>
      BY <1>7 DEF CensusSlice, BeforeCensus
    <2>4. census' \in CensusSet
      BY <1>7, VisitedTyped DEF CensusSlice
    <2>5. nextRevision' \in Nat
      BY <1>7 DEF CensusSlice, TypeOK
    <2>6. pc = "rest" /\ pc' = "read" /\ UNCHANGED <<world, queue, trees, selected, liveData, fault>>
      BY <1>7 DEF CensusSlice
    <2> QED BY <2>1, <2>2, <2>3, <2>4, <2>5, <2>6 DEF TypeOK, CensusSet, world, queue, trees, fault
  <1>8. CASE CensusDone
    <2>1. sceneLoad' \in BOOLEAN /\ refresh' \in BOOLEAN /\ eventPending' \in BOOLEAN
      BY <1>8 DEF CensusDone, BeforeCensus, TypeOK
    <2>2. focus' \in Objects \cup {NoObject} /\ selected' \in Objects \cup {NoObject}
      BY <1>8, FocusTyped DEF CensusDone, ClearSelection, TypeOK
    <2>3. UNCHANGED <<settled, generation>>
      BY <1>8 DEF CensusDone, BeforeCensus
    <2>4. hierarchy' \in TreeSet /\ published' = hierarchy'
      BY <1>8, VisitedTyped DEF CensusDone
    <2>5. nextRevision' \in Nat /\ census' = None
      BY <1>8 DEF CensusDone, TypeOK
    <2>6. pc = "rest" /\ pc' = "late" /\ UNCHANGED <<world, queue, shown, liveData, fault>>
      BY <1>8 DEF CensusDone
    <2> QED BY <2>1, <2>2, <2>3, <2>4, <2>5, <2>6 DEF TypeOK, world, queue, fault
  <1>9. CASE Reads
    BY <1>9 DEF Reads, ClearSelection, TypeOK, world, queue, work, trees, fault
  <1>10. CASE FrameEnds
    <2>1. life' \in [Objects -> {"none", "live", "doomed", "dead"}]
      BY <1>10 DEF FrameEnds, TypeOK
    <2> QED BY <1>10, <2>1 DEF FrameEnds, TypeOK, queue, work, trees, choice, fault
  <1>11. CASE FrameFaults
    BY <1>11 DEF FrameFaults, RaisesFault, TypeOK, world, queue, work, trees, choice
  <1>12. CASE CommandFaults
    <2>1. /\ pending \in Seq(CommandSet) /\ pending # <<>> /\ commands \in Seq(CommandSet)
      BY <1>12 DEF CommandFaults, TypeOK
    <2>2. Without(Tail(pending), Kinds \ Safe) \in Seq(CommandSet)
      BY <2>1, TailFacts, WithoutElems
    <2>3. commands' \in Seq(CommandSet) /\ pending' = <<>>
      <3>1. Requeued \in Seq(CommandSet)
        BY <2>1, <2>2, ElemsConcat DEF Requeued
      <3> QED BY <1>12, <3>1 DEF CommandFaults, BatchAbandoned
    <2>4. sceneLoad' \in BOOLEAN /\ generation' \in Nat
      <3>1. CASE UNCHANGED <<generation, census, sceneLoad>>
        BY <3>1 DEF TypeOK
      <3>2. CASE NewGeneration
        <4>1. generation' = generation + 1 /\ (sceneLoad' = sceneLoad \/ sceneLoad' = FALSE)
          BY <3>2 DEF NewGeneration
        <4>2. generation' \in Nat
          BY <4>1 DEF TypeOK
        <4>3. sceneLoad' \in BOOLEAN
          BY <4>1, Zenon DEF TypeOK
        <4> QED BY <4>2, <4>3
      <3> QED BY <1>12, <3>1, <3>2 DEF CommandFaults
    <2>5. census' = census \/ census' = None
      BY <1>12 DEF CommandFaults, NewGeneration
    <2>6. /\ pc' = "late" /\ faulted' = TRUE /\ faults' = faults + 1
          /\ UNCHANGED <<cut, world, given, refresh, eventPending, settled, nextRevision, trees, choice>>
      BY <1>12 DEF CommandFaults, RaisesFault
    <2> QED BY <2>3, <2>4, <2>5, <2>6 DEF TypeOK, world, trees, choice
  <1>13. CASE MetadataFaults
    <2>1. /\ pending \in Seq(CommandSet) /\ pending # <<>> /\ pending' = Tail(pending) /\ pc = "commands"
      BY <1>13 DEF MetadataFaults, TypeOK
    <2>2. pending' \in Seq(CommandSet)
      BY <2>1, TailFacts
    <2> QED BY <1>13, <2>1, <2>2 DEF MetadataFaults, TypeOK, world, work, choice
  <1>14. CASE GameLoadsScene
    <2>1. life' \in [Objects -> {"none", "live", "doomed", "dead"}]
      BY <1>14 DEF GameLoadsScene, TypeOK
    <2>2. commands' \in Seq(CommandSet)
      BY <1>14, EventTyped, EnqueuedElems DEF GameLoadsScene, TypeOK, Lifecycle
    <2> QED BY <1>14, <2>1, <2>2 DEF GameLoadsScene, TypeOK, work, trees, choice, fault
  <1>15. ASSUME NEW o \in Objects, GameDestroys(o) PROVE TypeOK'
    <2>1. life' \in [Objects -> {"none", "live", "doomed", "dead"}]
      BY <1>15 DEF GameDestroys, Doomed, TypeOK
    <2>2. commands' \in Seq(CommandSet)
      BY <1>15, EventTyped, EnqueuedElems DEF GameDestroys, TypeOK, Lifecycle
    <2> QED BY <1>15, <2>1, <2>2 DEF GameDestroys, TypeOK, work, trees, choice, fault
  <1>16. CASE Settles
    BY <1>16 DEF Settles, TypeOK, world, queue, trees, choice, fault
  <1>17. CASE UiDraws
    BY <1>17 DEF UiDraws, TypeOK, world, queue, work, choice, fault
  <1>18. ASSUME NEW kind \in UiKinds, NEW o \in Objects \cup {NoObject}, UiGives(kind, o) PROVE TypeOK'
    <2>1. given' \in Nat /\ given' = given + 1
      BY <1>18 DEF UiGives, TypeOK
    <2>2. [kind |-> kind, obj |-> o, gen |-> published.gen,
           rev |-> IF kind \in Revised THEN shown.rev ELSE 0, seq |-> given'] \in CommandSet
      BY <2>1, UiAssumption DEF CommandSet, TypeOK, TreeSet
    <2>3. commands' \in Seq(CommandSet)
      BY <1>18, <2>2, EnqueuedElems DEF UiGives, TypeOK
    <2> QED BY <1>18, <2>1, <2>3 DEF UiGives, TypeOK, world, work, trees, choice, fault
  <1>19. CASE UiCommands
    <2>1. shown.ids \in SUBSET Objects
      BY DEF TypeOK, TreeSet
    <2> QED BY <1>19, <1>18, <2>1 DEF UiCommands
  <1>20. CASE UNCHANGED vars
    BY <1>20 DEF vars, TypeOK, world, queue, work, trees, choice, fault
  <1> QED
    BY <1>1, <1>2, <1>3, <1>4, <1>5, <1>6, <1>7, <1>8, <1>9, <1>10, <1>11, <1>12, <1>13, <1>14,
       <1>15, <1>16, <1>17, <1>19, <1>20 DEF Next, Frame, Faults, Game

-----------------------------------------------------------------------------
(* The queue *)

\* What a command leaves of the queue: at most a new event at its end.
LEMMA CommandQueue ==
  ASSUME commands \in Seq(CommandSet), NEW c \in CommandSet, Runs(c)
  PROVE  \/ commands' = commands
         \/ \E e \in CommandSet : /\ e.kind \in Lifecycle /\ e.seq = 0 /\ e.rev = 0
                                  /\ commands' = Enqueued(commands, e)
  <1>1. CASE DeletesObject(c)
    <2>1. c.obj \in Objects \cup {NoObject}
      BY DEF CommandSet
    <2>2. commands' = Enqueued(commands, Event("destroyed", c.obj))
      BY <1>1 DEF DeletesObject
    <2>3. "destroyed" \in Lifecycle
      BY DEF Lifecycle
    <2> QED BY <2>1, <2>2, <2>3, EventTyped
  <1>2. CASE Refused(c)
    BY <1>2 DEF Refused
  <1>3. CASE ChangesSelection(c) \/ EditsObject(c) \/ AsksRefresh(c) \/ DuplicatesObject(c)
    BY <1>3 DEF ChangesSelection, EditsObject, AsksRefresh, DuplicatesObject
  <1>4. CASE LoadsScene(c) \/ SetsOption(c) \/ SceneHint(c) \/ DestroyRequested(c)
    BY <1>4 DEF LoadsScene, SetsOption, SceneHint, DestroyRequested
  <1> QED BY <1>1, <1>2, <1>3, <1>4 DEF Runs

\* A new command behind the two queues.
LEMMA EnqueueStep ==
  ASSUME TypeOK, QueueInv, NEW c \in CommandSet, Untagged(c),
         given' \in Nat, given' >= given,
         c.seq = 0 \/ (c.seq = given' /\ given' > given),
         commands' = Enqueued(commands, c), pending' = pending,
         UNCHANGED <<cut, faulted>>
  PROVE  QueueInv'
  <1>0. /\ commands \in Seq(CommandSet) /\ pending \in Seq(CommandSet)
        /\ given \in Nat /\ cut \in Nat
    BY DEF TypeOK
  <1>1. Elems(commands) \subseteq CommandSet /\ Elems(pending) \subseteq CommandSet
    BY <1>0, ElemsTyped
  <1>2. \A d \in CommandSet : d.seq \in Nat
    BY DEF CommandSet
  <1>3. Elems(commands') \subseteq Elems(commands) \cup {c}
    BY <1>0, EnqueuedElems
  <1>4. \A d \in Elems(pending) \cup Elems(commands) : d.seq <= given /\ Untagged(d)
    BY DEF QueueInv, Waiting
  <1>5. Sorted(commands')
    <2>1. c.seq = 0 \/ \A d \in Elems(commands) : d.seq < c.seq
      BY <1>0, <1>1, <1>2, <1>4
    <2> QED BY <2>1, <1>0, EnqueuedElems DEF QueueInv
  <1>6. Behind(pending', commands')
    <2>1. SUFFICES ASSUME NEW p \in Elems(pending), NEW d \in Elems(commands'), p.seq # 0, d.seq # 0
                   PROVE  p.seq < d.seq
      BY DEF Behind
    <2>2. CASE d \in Elems(commands)
      BY <2>1, <2>2 DEF QueueInv, Behind
    <2>3. CASE d = c
      BY <2>1, <2>3, <1>0, <1>1, <1>2, <1>4
    <2> QED BY <2>2, <2>3, <1>3
  <1>7. \A d \in Waiting' : d.seq <= given' /\ Untagged(d)
    <2>1. SUFFICES ASSUME NEW d \in Elems(pending) \cup Elems(commands) \cup {c}
                   PROVE  d.seq <= given' /\ Untagged(d)
      BY <1>3 DEF Waiting
    <2> QED BY <1>0, <1>1, <1>2, <1>4
  <1>8. ~faulted' => \A d \in Waiting' : d.seq \in 1 .. cut' => d.kind \in Safe
    <2>1. c.seq \notin 1 .. cut
      BY <1>0 DEF QueueInv
    <2> QED BY <2>1, <1>3 DEF QueueInv, Waiting
  <1>9. cut' <= given'
    BY <1>0 DEF QueueInv
  <1>10. Sorted(pending')
    BY DEF QueueInv
  <1> QED BY <1>5, <1>6, <1>7, <1>8, <1>9, <1>10 DEF QueueInv, Untagged

\* Commands that leave the queues.
LEMMA DequeueStep ==
  ASSUME QueueInv,
         Elems(pending') \subseteq Waiting, Elems(commands') \subseteq Waiting,
         Sorted(pending'), Sorted(commands'), Behind(pending', commands'),
         given' = given, cut' = cut, ~faulted' => ~faulted
  PROVE  QueueInv'
  BY DEF QueueInv, Waiting, Untagged

LEMMA QueueStep == RuntimeInv /\ [Next]_vars => QueueInv'
  <1> SUFFICES ASSUME TypeOK, QueueInv, [Next]_vars PROVE QueueInv'
    BY DEF RuntimeInv
  <1>0. commands \in Seq(CommandSet) /\ pending \in Seq(CommandSet) /\ given \in Nat /\ cut \in Nat
    BY DEF TypeOK
  <1>a. Sorted(pending) /\ Sorted(commands) /\ Behind(pending, commands) /\ cut <= given
    BY DEF QueueInv
  <1>q. ASSUME UNCHANGED <<queue, cut>>, ~faulted' => ~faulted PROVE QueueInv'
    BY <1>q, <1>a, DequeueStep DEF queue, Waiting
  <1>1. CASE FrameBegins \/ CommandsDone \/ SkipsCensus \/ CensusSlice \/ CensusDone \/ Reads \/ FrameEnds
    <2>1. UNCHANGED <<queue, fault>>
      <3>1. CASE FrameBegins \/ CommandsDone \/ Reads \/ FrameEnds
        BY <3>1 DEF FrameBegins, CommandsDone, Reads, FrameEnds
      <3>2. CASE SkipsCensus
        BY <3>2 DEF SkipsCensus
      <3>3. CASE CensusSlice
        BY <3>3 DEF CensusSlice
      <3>4. CASE CensusDone
        BY <3>4 DEF CensusDone
      <3> QED BY <1>1, <3>1, <3>2, <3>3, <3>4
    <2> QED BY <2>1, <1>q DEF fault
  <1>2. CASE FrameFaults \/ Settles \/ UiDraws
    BY <1>2, <1>q DEF FrameFaults, RaisesFault, Settles, UiDraws, fault
  <1>3. CASE UNCHANGED vars
    BY <1>3, <1>q DEF vars, fault
  <1>4. CASE Recovers
    <2>1. /\ pc = "tick" /\ commands' = Without(commands, Kinds \ Safe) /\ pending' = pending
          /\ given' = given /\ cut' = given
      BY <1>4 DEF Recovers, Recovered
    <2>2. pending = <<>>
      BY <2>1 DEF TypeOK
    <2>3. Elems(commands') = {c \in Elems(commands) : c.kind \notin Kinds \ Safe} /\ Sorted(commands')
      BY <2>1, <1>0, <1>a, WithoutElems
    <2>4. Elems(pending') = {} /\ Sorted(pending')
      BY <2>1, <2>2, ElemsEmpty
    <2>5. \A c \in Elems(commands) : c.kind \in Kinds
      BY <1>0, ElemsTyped DEF CommandSet
    <2>6. \A c \in Waiting' : c \in Waiting /\ c.kind \in Safe
      BY <2>3, <2>4, <2>5 DEF Waiting
    <2>7. Behind(pending', commands')
      BY <2>4 DEF Behind
    <2>8. \A c \in Waiting' : c.seq <= given' /\ Untagged(c)
      BY <2>1, <2>6 DEF QueueInv
    <2>9. cut' <= given'
      BY <2>1, <1>0
    <2> QED BY <2>3, <2>4, <2>6, <2>7, <2>8, <2>9 DEF QueueInv, Untagged
  <1>5. CASE Drains
    <2>1. /\ pc = "tick" /\ pending' = Coalesced(commands) /\ commands' = <<>>
          /\ UNCHANGED <<given, faulted, cut>>
      BY <1>5 DEF Drains, fault
    <2>2. \A c \in Elems(commands) : c.kind \in Lifecycle => c.seq = 0
      BY DEF QueueInv, Waiting, Untagged
    <2>3. Elems(pending') \subseteq Elems(commands) /\ Sorted(pending')
      BY <2>1, <2>2, <1>0, <1>a, CoalescedElems
    <2>4. Elems(commands') = {} /\ Sorted(commands')
      BY <2>1, ElemsEmpty
    <2>5. Behind(pending', commands')
      BY <2>4 DEF Behind
    <2> QED BY <2>1, <2>3, <2>4, <2>5, DequeueStep DEF Waiting
  <1>6. CASE RunsCommand
    <2>1. /\ pending # <<>> /\ Runs(Head(pending)) /\ pending' = Tail(pending)
          /\ UNCHANGED <<given, faulted, cut>>
      BY <1>6 DEF RunsCommand, fault
    <2>2. /\ Tail(pending) \in Seq(CommandSet) /\ Head(pending) \in CommandSet
          /\ Elems(Tail(pending)) \subseteq Elems(pending) /\ Sorted(Tail(pending))
      BY <2>1, <1>0, <1>a, TailFacts
    <2>3. Behind(Tail(pending), commands)
      BY <2>2, <1>a DEF Behind
    <2>4. CASE commands' = commands
      BY <2>1, <2>2, <2>3, <2>4, <1>a, DequeueStep DEF Waiting
    <2>5. ASSUME NEW e \in CommandSet, e.kind \in Lifecycle, e.seq = 0, e.rev = 0,
                 commands' = Enqueued(commands, e)
          PROVE  QueueInv'
      <3>1. Elems(commands') \subseteq Elems(commands) \cup {e} /\ Sorted(commands')
        BY <2>5, <1>0, <1>a, EnqueuedElems
      <3>2. Behind(pending', commands')
        BY <2>1, <2>3, <2>5, <3>1 DEF Behind
      <3>3. \A c \in Waiting' : c \in Waiting \/ c = e
        BY <2>1, <2>2, <3>1 DEF Waiting
      <3>4. \A c \in Waiting' : c.seq <= given' /\ Untagged(c)
        BY <2>1, <2>5, <3>3, <1>0 DEF QueueInv, Untagged
      <3>5. e.seq \notin 1 .. cut
        BY <2>5
      <3>6. ~faulted' => \A c \in Waiting' : c.seq \in 1 .. cut' => c.kind \in Safe
        BY <2>1, <3>3, <3>5 DEF QueueInv
      <3> QED BY <2>1, <2>2, <3>1, <3>2, <3>4, <3>6, <1>a DEF QueueInv, Untagged
    <2> QED BY <2>1, <2>2, <2>4, <2>5, <1>0, CommandQueue
  <1>7. CASE CommandFaults
    <2> DEFINE tail == Tail(pending)
               rest == Without(tail, Kinds \ Safe)
    <2>1. /\ pending # <<>> /\ commands' = rest \o commands /\ pending' = <<>>
          /\ given' = given /\ cut' = cut /\ faulted' = TRUE
      BY <1>7 DEF CommandFaults, RaisesFault, Requeued, BatchAbandoned
    <2>2. /\ tail \in Seq(CommandSet) /\ Elems(tail) \subseteq Elems(pending)
          /\ Sorted(tail)
      BY <2>1, <1>0, <1>a, TailFacts
    <2> HIDE DEF tail
    <2>3. rest \in Seq(CommandSet) /\ Elems(rest) \subseteq Elems(pending) /\ Sorted(rest)
      <3>1. /\ rest \in Seq(CommandSet)
            /\ Elems(rest) = {c \in Elems(tail) : c.kind \notin Kinds \ Safe}
            /\ Sorted(rest)
        BY <2>2, WithoutElems
      <3> QED BY <3>1, <2>2
    <2> HIDE DEF rest
    <2>4. Behind(rest, commands)
      BY <2>3, <1>a DEF Behind
    <2>5. Elems(rest \o commands) = Elems(rest) \cup Elems(commands) /\ Sorted(rest \o commands)
      BY <2>3, <2>4, <1>0, <1>a, ElemsConcat, SortedConcat
    <2>6. Elems(pending') = {} /\ Sorted(pending')
      BY <2>1, ElemsEmpty
    <2>7. Behind(pending', commands')
      BY <2>6 DEF Behind
    <2>8. Elems(commands') \subseteq Waiting /\ Sorted(commands')
      BY <2>1, <2>3, <2>5 DEF Waiting
    <2> QED BY <2>1, <2>6, <2>7, <2>8, DequeueStep
  <1>8. CASE MetadataFaults
    <2>1. /\ pending # <<>> /\ pending' = Tail(pending) /\ commands' = commands
          /\ UNCHANGED <<given, faulted, cut>>
      BY <1>8 DEF MetadataFaults
    <2>2. Elems(Tail(pending)) \subseteq Elems(pending) /\ Sorted(Tail(pending))
      BY <2>1, <1>0, <1>a, TailFacts
    <2>3. Behind(pending', commands')
      BY <2>1, <2>2, <1>a DEF Behind
    <2> QED BY <2>1, <2>2, <2>3, <1>a, DequeueStep DEF Waiting
  <1>9. CASE GameLoadsScene
    <2>1. "scene" \in Lifecycle /\ NoObject \in Objects \cup {NoObject}
      BY DEF Lifecycle
    <2>2. /\ commands' = Enqueued(commands, Event("scene", NoObject))
          /\ UNCHANGED <<pending, given, faulted, cut>>
      BY <1>9 DEF GameLoadsScene, fault
    <2>3. Untagged(Event("scene", NoObject))
      BY <2>1, EventTyped DEF Untagged
    <2> QED BY <2>1, <2>2, <2>3, <1>0, EventTyped, EnqueueStep
  <1>10. ASSUME NEW o \in Objects, GameDestroys(o) PROVE QueueInv'
    <2>1. "destroyed" \in Lifecycle
      BY DEF Lifecycle
    <2>2. /\ commands' = Enqueued(commands, Event("destroyed", o))
          /\ UNCHANGED <<pending, given, faulted, cut>>
      BY <1>10 DEF GameDestroys, fault
    <2>3. Untagged(Event("destroyed", o))
      BY <2>1, EventTyped DEF Untagged
    <2> QED BY <2>1, <2>2, <2>3, <1>0, EventTyped, EnqueueStep
  <1>11. ASSUME NEW kind \in UiKinds, NEW o \in Objects \cup {NoObject}, UiGives(kind, o)
         PROVE  QueueInv'
    <2> DEFINE c == [kind |-> kind, obj |-> o, gen |-> published.gen,
                     rev |-> IF kind \in Revised THEN shown.rev ELSE 0, seq |-> given']
    <2>1. given' = given + 1 /\ given' \in Nat
      BY <1>11, <1>0 DEF UiGives
    <2>2. /\ commands' = Enqueued(commands, c)
          /\ UNCHANGED <<pending, faulted, cut>>
      BY <1>11 DEF UiGives, fault
    <2>3. c \in CommandSet /\ c.seq = given' /\ c.kind = kind
      BY <2>1, UiAssumption DEF CommandSet, TypeOK, TreeSet
    <2>4. kind \notin Lifecycle
      BY UiAssumption
    <2> HIDE DEF c
    <2>5. Untagged(c)
      BY <2>3, <2>4 DEF Untagged
    <2>6. given' >= given /\ given' > given
      BY <2>1, <1>0
    <2> QED BY <2>1, <2>2, <2>3, <2>5, <2>6, EnqueueStep
  <1>12. CASE UiCommands
    <2>1. shown.ids \in SUBSET Objects
      BY DEF TypeOK, TreeSet
    <2> QED BY <1>12, <1>11, <2>1 DEF UiCommands
  <1> QED
    BY <1>1, <1>2, <1>3, <1>4, <1>5, <1>6, <1>7, <1>8, <1>9, <1>10, <1>12
    DEF Next, Frame, Faults, Game

-----------------------------------------------------------------------------
(* The tree *)

\* Nothing about the tree can be stale while the census comes after the frame.
LEMMA ToldStep ==
  ASSUME CensusComesLater', published' = hierarchy'
  PROVE  TreeInv'
  BY DEF TreeInv, CensusComesLater, CensusComes

\* A step that leaves the trees and the census, makes no object go and keeps what
\* leads to the next census.
LEMMA TreeKept ==
  ASSUME TreeInv, hierarchy' = hierarchy, published' = hierarchy, census' = census,
         \A o \in Objects : life'[o] = "doomed" => life[o] = "doomed",
         \A o : Gone(o)' => Gone(o),
         CensusComes => CensusComes', CensusComesLater => CensusComesLater'
  PROVE  TreeInv'
  <1>1. \A o \in Objects : life'[o] = "doomed" => CensusComesLater'
    BY DEF TreeInv
  <1>2. \A o \in hierarchy'.ids : Gone(o)' => hierarchy'.late \/ CensusComes' \/ census' # None
    BY DEF TreeInv
  <1>3. census' # None =>
          \A o \in census'.left \cup census'.flat : Gone(o)' => census'.late \/ CensusComes'
    BY DEF TreeInv
  <1> QED BY <1>1, <1>2, <1>3 DEF TreeInv

\* A command asks for a census behind what it did, or changes nothing a tree shows.
LEMMA CommandTree ==
  ASSUME NEW c, Untagged(c), Runs(c)
  PROVE  \/ eventPending' = TRUE /\ settled' = FALSE
         \/ /\ c.kind \notin Lifecycle
            /\ UNCHANGED <<life, census, eventPending, settled>>
            /\ refresh => refresh'
  <1>1. CASE Refused(c)
    <2>1. c.kind \notin Lifecycle
      BY <1>1 DEF Refused, Expired, Outdated, Untagged, Lifecycle, NeedObject
    <2> QED BY <1>1, <2>1 DEF Refused, RequestRefresh, world, work
  <1>2. CASE ChangesSelection(c) \/ EditsObject(c) \/ SetsOption(c)
    <2>1. c.kind \notin Lifecycle
      BY <1>2 DEF ChangesSelection, EditsObject, SetsOption, Lifecycle
    <2> QED BY <1>2, <2>1 DEF ChangesSelection, EditsObject, SetsOption, world, work
  <1>3. CASE AsksRefresh(c)
    BY <1>3 DEF AsksRefresh, RequestRefresh, Lifecycle, world
  <1>4. CASE LoadsScene(c)
    BY <1>4 DEF LoadsScene, Lifecycle, world
  <1>5. CASE DeletesObject(c) \/ DuplicatesObject(c)
    BY <1>5 DEF DeletesObject, DuplicatesObject, Debounce
  <1>6. CASE SceneHint(c) \/ DestroyRequested(c)
    BY <1>6 DEF SceneHint, DestroyRequested, Debounce
  <1> QED BY <1>1, <1>2, <1>3, <1>4, <1>5, <1>6 DEF Runs

\* What is left to lead to a census when one starts or goes on.
ComesAfter == EventWaits \/ faulted \/ (eventPending /\ ~Due)

LEMMA StartedTold ==
  ASSUME TypeOK, TreeInv, pc = "rest"
  PROVE  /\ \A o \in Started.left \cup Started.flat : Gone(o) => Started.late \/ ComesAfter
         /\ \A o \in Objects : life[o] = "doomed" => ComesAfter
  <1>1. ASSUME NEW o \in Objects, life[o] = "doomed" PROVE ComesAfter
    <2>1. CensusComesLater
      BY <1>1 DEF TreeInv
    <2> QED BY <2>1 DEF CensusComesLater, ComesAfter, Due
  <1>2. CASE census = None
    <2>1. Started.left = {o \in Objects : Exists(o)} /\ Started.flat = {}
      BY <1>2 DEF Started, NewCensus
    <2> QED BY <2>1, <1>1 DEF Exists, Gone
  <1>3. CASE census # None
    <2>1. census \in CensusSet
      BY <1>3 DEF TypeOK, CensusSet
    <2>2. Started = [census EXCEPT !.late = census.late \/ refresh \/ Due]
      BY <1>3 DEF Started
    <2>3. Started.left = census.left /\ Started.flat = census.flat
      BY <2>1, <2>2 DEF CensusSet
    <2>4. Started.late = (census.late \/ refresh \/ Due)
      BY <2>1, <2>2 DEF CensusSet
    <2>5. ASSUME NEW o \in Started.left \cup Started.flat, Gone(o) PROVE Started.late \/ ComesAfter
      <3>1. census.late \/ CensusComes
        BY <2>3, <2>5, <1>3 DEF TreeInv
      <3> QED BY <3>1, <2>4 DEF CensusComes, ComesAfter
    <2> QED BY <2>5, <1>1
  <1> QED BY <1>2, <1>3

\* What BeforeCensus leaves of it.
LEMMA AfterCensus ==
  ASSUME NEW asked, BeforeCensus(asked), UNCHANGED <<queue, fault>>, ComesAfter,
         pc' \in {"read", "late"}
  PROVE  CensusComesLater'
  <1>1. CASE EventWaits
    BY <1>1 DEF EventWaits, Waiting, queue, CensusComesLater
  <1>2. CASE faulted
    BY <1>2 DEF fault, CensusComesLater
  <1>3. CASE eventPending /\ ~Due
    BY <1>3 DEF BeforeCensus, Due, CensusComesLater
  <1> QED BY <1>1, <1>2, <1>3 DEF ComesAfter

LEMMA TreeStep == RuntimeInv /\ [Next]_vars => TreeInv'
  <1> SUFFICES ASSUME TypeOK, QueueInv, TreeInv, [Next]_vars PROVE TreeInv'
    BY DEF RuntimeInv
  <1>0. commands \in Seq(CommandSet) /\ pending \in Seq(CommandSet)
    BY DEF TypeOK
  <1>h. published = hierarchy
    BY DEF TreeInv
  <1>1. CASE FrameBegins
    <2>1. UNCHANGED <<life, queue, faulted, refresh, eventPending, census, hierarchy, published>>
      BY <1>1 DEF FrameBegins, world, work, trees, fault
    <2>2. EventWaits' <=> EventWaits
      BY <2>1 DEF EventWaits, Waiting, queue
    <2>3. CensusComesLater => CensusComesLater'
      BY <1>1, <2>1, <2>2 DEF CensusComesLater, FrameBegins
    <2> QED BY <2>1, <2>2, <2>3, <1>h, TreeKept DEF CensusComes, Gone
  <1>2. CASE Recovers
    <2>1. eventPending' = TRUE /\ pc' = "late" /\ hierarchy' = hierarchy /\ published' = hierarchy
      BY <1>2 DEF Recovers, RefreshLater, Debounce
    <2> QED BY <2>1, ToldStep DEF CensusComesLater
  <1>3. CASE Drains
    <2>1. /\ pc = "tick" /\ pending' = Coalesced(commands) /\ ~faulted
          /\ UNCHANGED <<life, faulted, refresh, eventPending, census, hierarchy, published>>
      BY <1>3 DEF Drains, world, work, trees, fault
    <2>2. pending = <<>>
      BY <2>1 DEF TypeOK
    <2>3. Elems(pending) = {}
      BY <2>2, ElemsEmpty
    <2>4. EventWaits => EventWaits'
      <3>1. EventWaits => \E c \in Elems(commands) : c.kind \in Lifecycle
        BY <2>3 DEF EventWaits, Waiting
      <3>2. (\E c \in Elems(commands) : c.kind \in Lifecycle) => \E c \in Elems(pending') : c.kind \in Lifecycle
        BY <2>1, <1>0, CoalescedElems
      <3> QED BY <3>1, <3>2 DEF EventWaits, Waiting
    <2>5. CensusComesLater => CensusComesLater'
      BY <2>1, <2>4 DEF CensusComesLater
    <2> QED BY <2>1, <2>4, <2>5, <1>h, TreeKept DEF CensusComes, Gone
  <1>4. CASE RunsCommand
    <2>1. /\ pc = "commands" /\ pc' = "commands" /\ pending # <<>>
          /\ Runs(Head(pending)) /\ pending' = Tail(pending)
          /\ UNCHANGED <<faulted, hierarchy, published>>
      BY <1>4 DEF RunsCommand, trees, fault
    <2>2. /\ Head(pending) \in CommandSet
          /\ Elems(pending) = Elems(Tail(pending)) \cup {Head(pending)}
      BY <2>1, <1>0, TailFacts
    <2>3. Untagged(Head(pending))
      BY <2>2 DEF QueueInv, Waiting
    <2>4. CASE eventPending' = TRUE /\ settled' = FALSE
      <3>1. CensusComesLater'
        BY <2>1, <2>4 DEF CensusComesLater
      <3> QED BY <3>1, <2>1, <1>h, ToldStep
    <2>5. CASE /\ Head(pending).kind \notin Lifecycle
               /\ UNCHANGED <<life, census, eventPending, settled>>
               /\ refresh => refresh'
      <3>1. \A c \in Waiting : c.kind \in Lifecycle => c \in Waiting'
        <4>1. \A c \in Elems(commands) : c.kind \in Lifecycle => c \in Elems(commands')
          <5>1. CASE commands' = commands
            BY <5>1
          <5>2. ASSUME NEW e \in CommandSet, commands' = Enqueued(commands, e)
                PROVE  \A c \in Elems(commands) : c.kind \in Lifecycle => c \in Elems(commands')
            BY <5>2, <1>0, EnqueuedElems
          <5> QED BY <5>1, <5>2, <1>0, <2>1, <2>2, CommandQueue
        <4> QED BY <4>1, <2>1, <2>2, <2>5 DEF Waiting
      <3>2. EventWaits => EventWaits'
        BY <3>1 DEF EventWaits
      <3>3. CensusComesLater => CensusComesLater'
        BY <2>1, <2>5, <3>2 DEF CensusComesLater
      <3> QED BY <2>1, <2>5, <3>2, <3>3, <1>h, TreeKept DEF CensusComes, Gone
    <2> QED BY <2>1, <2>3, <2>4, <2>5, CommandTree
  <1>5. CASE CommandsDone
    <2>1. UNCHANGED <<life, queue, faulted, refresh, eventPending, settled, census, hierarchy, published>>
      BY <1>5 DEF CommandsDone, world, work, trees, fault
    <2>2. EventWaits' <=> EventWaits
      BY <2>1 DEF EventWaits, Waiting, queue
    <2>3. CensusComesLater => CensusComesLater'
      BY <1>5, <2>1, <2>2 DEF CensusComesLater, CommandsDone
    <2> QED BY <2>1, <2>2, <2>3, <1>h, TreeKept DEF CensusComes, Gone
  <1>6. CASE SkipsCensus
    <2>1. /\ UNCHANGED <<life, queue, fault, settled, census, hierarchy, published>>
          /\ ~refresh /\ ~Due /\ eventPending' = (eventPending /\ ~Due)
          /\ pc = "rest" /\ pc' = "read"
      BY <1>6 DEF SkipsCensus, BeforeCensus, Asked, world, trees
    <2>2. EventWaits' <=> EventWaits
      BY <2>1 DEF EventWaits, Waiting, queue
    <2>3. faulted' = faulted /\ eventPending' = eventPending
      BY <2>1 DEF fault, TypeOK
    <2>4. CensusComesLater => CensusComesLater'
      BY <2>1, <2>2, <2>3 DEF CensusComesLater
    <2>5. CensusComes => CensusComes'
      BY <2>1, <2>2, <2>3 DEF CensusComes
    <2> QED BY <2>1, <2>4, <2>5, <1>h, TreeKept DEF Gone
  <1>7. CASE CensusSlice
    <2>1. /\ UNCHANGED <<life, queue, fault, hierarchy, published>>
          /\ pc = "rest" /\ pc' = "read"
          /\ \E asked \in BOOLEAN : BeforeCensus(asked)
      BY <1>7 DEF CensusSlice, world, trees
    <2>2. ComesAfter => CensusComesLater'
      BY <2>1, AfterCensus
    <2>3. PICK part \in SUBSET Started.left : census' = Visited(part)
      BY <1>7 DEF CensusSlice
    <2>4. Started \in CensusSet
      BY StartedTyped
    <2>5. /\ census'.left \subseteq Started.left
          /\ census'.flat \subseteq Started.flat \cup Started.left
          /\ census'.late = Started.late
      BY <2>3, <2>4 DEF Visited, CensusSet
    <2>6. census' \in CensusSet
      BY <2>3, VisitedTyped
    <2>7. census' # None
      BY <2>6 DEF CensusSet, None
    <2>8. \A o \in census'.left \cup census'.flat : Gone(o)' => census'.late \/ CensusComes'
      <3>1. SUFFICES ASSUME NEW o \in Started.left \cup Started.flat, Gone(o)
                     PROVE  Started.late \/ CensusComes'
        BY <2>1, <2>5 DEF Gone
      <3>2. Started.late \/ ComesAfter
        BY <2>1, <3>1, StartedTold
      <3> QED BY <3>2, <2>2 DEF CensusComesLater, CensusComes
    <2>9. \A o \in Objects : life'[o] = "doomed" => CensusComesLater'
      BY <2>1, <2>2, StartedTold
    <2> QED BY <2>1, <2>7, <2>8, <2>9, <1>h DEF TreeInv
  <1>8. CASE CensusDone
    <2>1. /\ UNCHANGED <<life, queue, fault>>
          /\ pc = "rest" /\ pc' = "late" /\ census' = None
          /\ hierarchy' = Tree(Visited(Started.left)) /\ published' = hierarchy'
          /\ \E asked \in BOOLEAN : BeforeCensus(asked)
      BY <1>8 DEF CensusDone, world
    <2>2. ComesAfter => CensusComesLater'
      BY <2>1, AfterCensus
    <2>3. Started \in CensusSet
      BY StartedTyped
    <2>4. /\ hierarchy'.ids \subseteq Started.flat \cup Started.left
          /\ hierarchy'.late = Started.late
      <3>1. /\ Visited(Started.left).flat \subseteq Started.flat \cup Started.left
            /\ Visited(Started.left).late = Started.late
        BY <2>3 DEF Visited, CensusSet
      <3> QED BY <3>1, <2>1 DEF Tree
    <2>5. \A o \in hierarchy'.ids : Gone(o)' => hierarchy'.late \/ CensusComes'
      <3>1. SUFFICES ASSUME NEW o \in Started.left \cup Started.flat, Gone(o)
                     PROVE  Started.late \/ CensusComes'
        BY <2>1, <2>4 DEF Gone
      <3>2. Started.late \/ ComesAfter
        BY <2>1, <3>1, StartedTold
      <3> QED BY <3>2, <2>2 DEF CensusComesLater, CensusComes
    <2>6. \A o \in Objects : life'[o] = "doomed" => CensusComesLater'
      BY <2>1, <2>2, StartedTold
    <2> QED BY <2>1, <2>5, <2>6 DEF TreeInv
  <1>9. CASE Reads
    <2>1. UNCHANGED <<life, queue, faulted, refresh, eventPending, census, hierarchy, published>>
      BY <1>9 DEF Reads, world, work, trees, fault
    <2>2. EventWaits' <=> EventWaits
      BY <2>1 DEF EventWaits, Waiting, queue
    <2>3. CensusComesLater => CensusComesLater'
      BY <1>9, <2>1, <2>2 DEF CensusComesLater, Reads
    <2> QED BY <2>1, <2>2, <2>3, <1>h, TreeKept DEF CensusComes, Gone
  <1>10. CASE FrameEnds
    <2>1. /\ UNCHANGED <<queue, faulted, refresh, eventPending, census, hierarchy, published>>
          /\ life' = [o \in Objects |-> IF life[o] = "doomed" THEN "dead" ELSE life[o]]
      BY <1>10 DEF FrameEnds, work, trees, fault
    <2>2. EventWaits' <=> EventWaits
      BY <2>1 DEF EventWaits, Waiting, queue
    <2>3. CensusComes' <=> CensusComes
      BY <2>1, <2>2 DEF CensusComes
    <2>4. \A o \in Objects : life'[o] # "doomed" /\ (Gone(o)' => Gone(o))
      BY <2>1 DEF Gone
    <2>5. hierarchy.ids \subseteq Objects
      BY DEF TypeOK, TreeSet
    <2>6. census # None => census.left \cup census.flat \subseteq Objects
      BY DEF TypeOK
    <2>7. \A o \in hierarchy'.ids : Gone(o)' => hierarchy'.late \/ CensusComes' \/ census' # None
      BY <2>1, <2>3, <2>4, <2>5 DEF TreeInv
    <2>8. census' # None =>
            \A o \in census'.left \cup census'.flat : Gone(o)' => census'.late \/ CensusComes'
      BY <2>1, <2>3, <2>4, <2>6 DEF TreeInv
    <2> QED BY <2>1, <2>4, <2>7, <2>8, <1>h DEF TreeInv
  <1>11. CASE FrameFaults \/ CommandFaults
    <2>1. faulted' = TRUE /\ hierarchy' = hierarchy /\ published' = published
      BY <1>11 DEF FrameFaults, CommandFaults, RaisesFault, trees
    <2> QED BY <2>1, <1>h, ToldStep DEF CensusComesLater
  <1>12. CASE MetadataFaults
    <2>1. /\ pending # <<>> /\ pending' = Tail(pending) /\ Head(pending).kind = "metadata"
          /\ UNCHANGED <<life, commands, pc, faulted, refresh, eventPending, settled, census, hierarchy>>
          /\ published' = hierarchy
      BY <1>12 DEF MetadataFaults, world, work
    <2>2. Elems(pending) = Elems(Tail(pending)) \cup {Head(pending)}
      BY <2>1, <1>0, TailFacts
    <2>3. EventWaits => EventWaits'
      BY <2>1, <2>2 DEF EventWaits, Waiting, Lifecycle
    <2>4. CensusComesLater => CensusComesLater'
      BY <2>1, <2>3 DEF CensusComesLater
    <2> QED BY <2>1, <2>3, <2>4, TreeKept DEF CensusComes, Gone
  <1>13. ASSUME NEW kind \in Lifecycle, NEW o \in Objects \cup {NoObject},
                commands' = Enqueued(commands, Event(kind, o)), UNCHANGED trees
         PROVE  TreeInv'
    <2>1. Event(kind, o) \in Elems(commands') /\ Event(kind, o).kind \in Lifecycle
      BY <1>13, <1>0, EventTyped, EnqueuedElems
    <2>2. EventWaits'
      BY <2>1 DEF EventWaits, Waiting
    <2> QED BY <2>2, <1>13, <1>h, ToldStep DEF CensusComesLater, trees
  <1>14. CASE Game
    <2>1. "scene" \in Lifecycle /\ "destroyed" \in Lifecycle
      BY DEF Lifecycle
    <2> QED BY <1>14, <1>13, <2>1 DEF Game, GameLoadsScene, GameDestroys
  <1>15. CASE Settles
    <2>1. /\ pc \in {"game", "late"}
          /\ UNCHANGED <<life, queue, pc, faulted, refresh, eventPending, census, hierarchy, published>>
      BY <1>15 DEF Settles, world, trees, fault
    <2>2. EventWaits' <=> EventWaits
      BY <2>1 DEF EventWaits, Waiting, queue
    <2>3. CensusComesLater => CensusComesLater'
      BY <2>1, <2>2 DEF CensusComesLater
    <2> QED BY <2>1, <2>2, <2>3, <1>h, TreeKept DEF CensusComes, Gone
  <1>16. CASE UiDraws \/ UiCommands
    <2>1. UNCHANGED <<life, pc, faulted, refresh, eventPending, settled, census, hierarchy, published, pending>>
      BY <1>16 DEF UiDraws, UiCommands, UiGives, world, queue, work, trees, fault
    <2>2. \A c \in Elems(commands) : c.kind \in Lifecycle => c \in Elems(commands')
      <3>1. CASE UiDraws
        BY <3>1 DEF UiDraws, queue
      <3>2. ASSUME NEW kind \in UiKinds, NEW o \in Objects \cup {NoObject}, UiGives(kind, o)
            PROVE  \A c \in Elems(commands) : c.kind \in Lifecycle => c \in Elems(commands')
        <4> DEFINE new == [kind |-> kind, obj |-> o, gen |-> published.gen,
                           rev |-> IF kind \in Revised THEN shown.rev ELSE 0, seq |-> given']
        <4>1. new \in CommandSet
          BY <3>2, UiAssumption DEF UiGives, CommandSet, TypeOK, TreeSet
        <4>2. commands' = Enqueued(commands, new)
          BY <3>2 DEF UiGives
        <4> HIDE DEF new
        <4> QED BY <4>1, <4>2, <1>0, EnqueuedElems
      <3>3. shown.ids \in SUBSET Objects
        BY DEF TypeOK, TreeSet
      <3> QED BY <1>16, <3>1, <3>2, <3>3 DEF UiCommands
    <2>3. EventWaits => EventWaits'
      BY <2>1, <2>2 DEF EventWaits, Waiting
    <2>4. CensusComesLater => CensusComesLater'
      BY <2>1, <2>3 DEF CensusComesLater
    <2> QED BY <2>1, <2>3, <2>4, <1>h, TreeKept DEF CensusComes, Gone
  <1>17. CASE UNCHANGED vars
    <2>1. UNCHANGED <<life, queue, pc, faulted, refresh, eventPending, settled, census, hierarchy, published>>
      BY <1>17 DEF vars, world, work, trees, fault
    <2>2. EventWaits' <=> EventWaits
      BY <2>1 DEF EventWaits, Waiting, queue
    <2>3. CensusComesLater => CensusComesLater'
      BY <2>1, <2>2 DEF CensusComesLater
    <2> QED BY <2>1, <2>2, <2>3, <1>h, TreeKept DEF CensusComes, Gone
  <1> QED
    BY <1>1, <1>2, <1>3, <1>4, <1>5, <1>6, <1>7, <1>8, <1>9, <1>10, <1>11, <1>12, <1>14, <1>15,
       <1>16, <1>17 DEF Next, Frame, Faults

-----------------------------------------------------------------------------
(* The theorems *)

LEMMA InitStep == Init => RuntimeInv
  <1> SUFFICES ASSUME Init PROVE RuntimeInv
    OBVIOUS
  <1>1. TypeOK
    <2>1. life \in [Objects -> {"none", "live", "doomed", "dead"}]
      BY DEF Init
    <2>2. EmptyTree \in TreeSet
      BY DEF EmptyTree, TreeSet
    <2>3. commands \in Seq(CommandSet) /\ pending \in Seq(CommandSet) /\ pending = <<>>
      BY DEF Init
    <2>4. /\ hierarchy \in TreeSet /\ published \in TreeSet /\ shown \in TreeSet
          /\ pc \in {"game", "tick", "commands", "rest", "read", "late"}
          /\ selected \in Objects \cup {NoObject} /\ focus \in Objects \cup {NoObject}
          /\ census = None
      BY <2>2 DEF Init
    <2>5. /\ faulted \in BOOLEAN /\ refresh \in BOOLEAN /\ liveData \in BOOLEAN
          /\ eventPending \in BOOLEAN /\ settled \in BOOLEAN /\ sceneLoad \in BOOLEAN
      BY Zenon DEF Init
    <2>6. /\ scene \in Nat /\ generation \in Nat /\ nextRevision \in Nat
          /\ given \in Nat /\ faults \in Nat /\ cut \in Nat
      BY DEF Init
    <2> QED BY <2>1, <2>3, <2>4, <2>5, <2>6 DEF TypeOK
  <1>2. Elems(pending) = {} /\ Elems(commands) = {} /\ Sorted(pending) /\ Sorted(commands)
    BY ElemsEmpty DEF Init
  <1>3. QueueInv
    BY <1>2 DEF QueueInv, Waiting, Behind, Init
  <1>4. TreeInv
    <2>1. \A o \in Objects : life[o] # "doomed"
      BY DEF Init
    <2> QED BY <2>1 DEF TreeInv, Init, EmptyTree
  <1>5. FocusOnSelection
    BY DEF FocusOnSelection, Init
  <1> QED BY <1>1, <1>3, <1>4, <1>5 DEF RuntimeInv

\* Every reachable state is well typed, the queues hold the commands in order and
\* nothing a recovery dropped, the camera is on the selection, and a tree or a
\* census that shows an object on its way out has a census coming behind it.
THEOREM ModelKeeps == Spec => []RuntimeInv
  <1>1. RuntimeInv /\ [Next]_vars => RuntimeInv'
    BY TypeStep, QueueStep, TreeStep, FocusStep DEF RuntimeInv
  <1> QED BY InitStep, <1>1, PTL DEF Spec

\* Every way of losing or changing the selection gives the camera back first
\* (process_command, refresh_hierarchy and the recovery of explorer_model.cpp).
THEOREM CameraOnSelection == Spec => []FocusOnSelection
  <1>1. RuntimeInv => FocusOnSelection
    BY DEF RuntimeInv
  <1> QED BY ModelKeeps, <1>1, PTL

\* The swap, the coalescing of destructions, the requeue after a fault and the
\* replacement of stale commands never change the order the user asked in.
THEOREM CommandsInOrder == Spec => []OrderKept
  <1>1. RuntimeInv => OrderKept
    <2> SUFFICES ASSUME RuntimeInv PROVE OrderKept
      OBVIOUS
    <2>1. commands \in Seq(CommandSet) /\ pending \in Seq(CommandSet)
      BY DEF RuntimeInv, TypeOK
    <2>2. Sorted(pending \o commands)
      BY <2>1, SortedConcat DEF RuntimeInv, QueueInv
    <2> QED BY <2>2 DEF Sorted, OrderKept
  <1> QED BY ModelKeeps, <1>1, PTL

\* What was queued before a native fault and does not look its target up again is
\* not run after the recovery (discard_managed_state_after_native_fault).
THEOREM UnsafeDropped == Spec => []DropsUnsafe
  <1>1. RuntimeInv => DropsUnsafe
    <2> SUFFICES ASSUME RuntimeInv, ~faulted, NEW i \in DOMAIN (pending \o commands),
                        (pending \o commands)[i].seq \in 1 .. cut
                 PROVE  (pending \o commands)[i].kind \in Safe
      BY DEF DropsUnsafe
    <2>1. commands \in Seq(CommandSet) /\ pending \in Seq(CommandSet)
      BY DEF RuntimeInv, TypeOK
    <2>2. Elems(pending \o commands) = Waiting
      BY <2>1, ElemsConcat DEF Waiting
    <2>3. (pending \o commands)[i] \in Waiting
      BY <2>2 DEF Elems
    <2> QED BY <2>3 DEF RuntimeInv, QueueInv
  <1> QED BY ModelKeeps, <1>1, PTL

\* With no work left the tree shows no destroyed object, but for the case the code
\* leaves open (the debounce of explorer_model.cpp and refresh_hierarchy).
THEOREM TreeIsFresh == Spec => []TreeFresh
  <1>1. RuntimeInv => TreeFresh
    <2> SUFFICES ASSUME RuntimeInv, Quiet, ~published.late, NEW o \in published.ids
                 PROVE  life[o] # "dead"
      BY DEF TreeFresh
    <2>1. Waiting = {}
      BY ElemsEmpty DEF Quiet, Waiting
    <2>2. ~CensusComes
      BY <2>1 DEF CensusComes, EventWaits, Quiet
    <2> QED BY <2>2 DEF RuntimeInv, TreeInv, Quiet, Gone
  <1> QED BY ModelKeeps, <1>1, PTL

===============================================================================
