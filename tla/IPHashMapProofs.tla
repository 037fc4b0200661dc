---------------------------- MODULE IPHashMapProofs ----------------------------
(***************************************************************************)
(* Proofs about the hash map, for any set of addresses (a finite one),      *)
(* hash function and number of buckets: its chains are sound, its count is   *)
(* exact, and it is a dictionary.                                            *)
(***************************************************************************)
EXTENDS IPHashMap, FiniteSetTheorems, TLAPS

Inv == TypeOK /\ ChainsSound /\ CountExact

LEMMA IndexInBucket == ASSUME NEW k \in Key PROVE Index(k) \in Bucket
  BY MapAssumption DEF Index, Bucket

LEMMA EmptyBuckets == Empty \in [Bucket -> Seq(Entry)]
  BY DEF Empty

\* An entry behind a sound chain, of a key that is not in it, or a chain without
\* one of its entries, is a sound chain.
LEMMA AppendOk ==
  ASSUME NEW b \in Bucket, NEW q \in Seq(Entry), ChainOk(b, q),
         NEW e \in Entry, Index(e.key) = b,
         \A i \in DOMAIN q : q[i].key # e.key
  PROVE  /\ Append(q, e) \in Seq(Entry) /\ ChainOk(b, Append(q, e))
         /\ {Append(q, e)[i].key : i \in DOMAIN Append(q, e)}
              = {q[i].key : i \in DOMAIN q} \cup {e.key}
  BY DEF ChainOk, Entry

LEMMA UnlinkOk ==
  ASSUME NEW b \in Bucket, NEW q \in Seq(Entry), ChainOk(b, q),
         NEW i \in DOMAIN q
  PROVE  /\ Unlink(q, i) \in Seq(Entry) /\ ChainOk(b, Unlink(q, i))
         /\ \A j \in DOMAIN Unlink(q, i) :
              \E m \in DOMAIN q \ {i} : Unlink(q, i)[j] = q[m]
         /\ \A m \in DOMAIN q \ {i} :
              \E j \in DOMAIN Unlink(q, i) : Unlink(q, i)[j] = q[m]
  <1> DEFINE u == Unlink(q, i)
  <1>1. /\ Len(q) \in Nat /\ DOMAIN q = 1 .. Len(q) /\ i \in 1 .. Len(q)
        /\ \A j \in 1 .. Len(q) : q[j] \in Entry
    OBVIOUS
  <1>2. DOMAIN u = 1 .. Len(q) - 1
    BY <1>1 DEF Unlink
  <1>3. \A j \in DOMAIN u : /\ j < i => u[j] = q[j]
                            /\ j >= i => u[j] = q[j + 1]
    BY <1>1, <1>2 DEF Unlink
  <1>4. u \in Seq(Entry)
    BY <1>1 DEF Unlink
  <1>5. \A m \in DOMAIN q \ {i} :
          \/ m \in DOMAIN u /\ u[m] = q[m]
          \/ m - 1 \in DOMAIN u /\ u[m - 1] = q[m]
    BY <1>1, <1>2, <1>3
  <1>6. \A j \in DOMAIN u : \/ j < i /\ u[j] = q[j] /\ j \in DOMAIN q
                            \/ j >= i /\ u[j] = q[j + 1] /\ j + 1 \in DOMAIN q
    BY <1>1, <1>2, <1>3
  <1>7. \A j \in DOMAIN u : \E m \in DOMAIN q \ {i} : u[j] = q[m]
    BY <1>1, <1>2, <1>6
  <1>8. ChainOk(b, u)
    <2>1. \A j \in DOMAIN u : Index(u[j].key) = b
      BY <1>7 DEF ChainOk
    <2>2. ASSUME NEW j \in DOMAIN u, NEW m \in DOMAIN u, u[j].key = u[m].key
          PROVE  j = m
      <3>1. \A x, y \in DOMAIN q : q[x].key = q[y].key => x = y
        BY DEF ChainOk
      <3> QED
        BY <1>1, <1>2, <1>6, <2>2, <3>1
    <2> QED
      BY <2>1, <2>2 DEF ChainOk
  <1> HIDE DEF u
  <1> QED
    BY <1>4, <1>5, <1>7, <1>8 DEF u

\* What can be read of a key in a sound map.
LEMMA ValueAt ==
  ASSUME NEW B, Typed(B), Sound(B), B # NULL,
         NEW k \in Key, NEW i \in DOMAIN Chain(B, k), At(B, k, i)
  PROVE  Has(B, k) /\ ValueOf(B, k) = Chain(B, k)[i].data /\ ValueOf(B, k) \in Data
  <1>1. Chain(B, k) \in Seq(Entry) /\ ChainOk(Index(k), Chain(B, k))
    BY IndexInBucket DEF Typed, Sound, Chain
  <1>2. Has(B, k)
    BY DEF Has
  <1>3. (CHOOSE j \in DOMAIN Chain(B, k) : At(B, k, j)) = i
    BY <1>1 DEF At, ChainOk
  <1>4. Chain(B, k)[i].data \in Data
    <2>1. \A q \in Seq(Entry) : \A j \in DOMAIN q : q[j] \in Entry
      OBVIOUS
    <2>2. Chain(B, k)[i] \in Entry
      BY <1>1, <2>1
    <2> QED
      BY <2>2 DEF Entry
  <1> QED
    BY <1>1, <1>2, <1>3, <1>4 DEF ValueOf

LEMMA ValueIn ==
  ASSUME NEW B, Typed(B), Sound(B), NEW k \in Key
  PROVE  /\ Has(B, k) => ValueOf(B, k) \in Data
         /\ ~Has(B, k) => ValueOf(B, k) = None
         /\ ValueOf(B, k) \in Data \cup {None}
  BY ValueAt DEF Has, ValueOf

\* A map with one chain replaced: the keys of other chains are not disturbed.
LEMMA Elsewhere ==
  ASSUME NEW B, NEW C, B \in [Bucket -> Seq(Entry)], C \in [Bucket -> Seq(Entry)],
         NEW j \in Key, C[Index(j)] = B[Index(j)]
  PROVE  (Has(C, j) <=> Has(B, j)) /\ ValueOf(C, j) = ValueOf(B, j)
  BY NullAssumption DEF Has, ValueOf, At, Chain

\* ft_iphashmap_add_int_: the map with one more entry.
With(B, k, d) == [B EXCEPT ![Index(k)] = Append(@, [key |-> k, data |-> d])]
LEMMA Added ==
  ASSUME NEW B, B \in [Bucket -> Seq(Entry)], Sound(B),
         NEW k \in Key, ~Has(B, k), NEW d \in Data, NEW C,
         C = With(B, k, d)
  PROVE  /\ C # NULL /\ Typed(C) /\ Sound(C)
         /\ \A j \in Key : /\ Has(C, j) <=> Has(B, j) \/ j = k
                           /\ ValueOf(C, j) = IF j = k THEN d ELSE ValueOf(B, j)
  <1> DEFINE q == B[Index(k)]  e == [key |-> k, data |-> d]  r == Append(q, e)
  <1>1. /\ Index(k) \in Bucket /\ q \in Seq(Entry) /\ e \in Entry /\ ChainOk(Index(k), q)
    BY IndexInBucket, NullAssumption DEF Sound, Entry
  <1>2. \A i \in DOMAIN q : q[i].key # k
    BY NullAssumption DEF Has, At, Chain
  <1>3. r \in Seq(Entry) /\ ChainOk(Index(k), r)
    BY <1>1, <1>2, AppendOk
  <1>4. /\ C \in [Bucket -> Seq(Entry)] /\ C[Index(k)] = r
        /\ \A b \in Bucket \ {Index(k)} : C[b] = B[b]
    BY <1>1, <1>3 DEF With
  <1>5. C # NULL /\ Typed(C) /\ Sound(C)
    BY <1>3, <1>4, NullAssumption DEF Typed, Sound
  <1>6. /\ DOMAIN r = 1 .. Len(q) + 1 /\ r[Len(q) + 1] = e /\ Len(q) \in Nat
        /\ DOMAIN q = 1 .. Len(q) /\ \A i \in DOMAIN q : r[i] = q[i]
    BY <1>1
  <1>7. Has(C, k) /\ ValueOf(C, k) = d
    <2>1. Len(q) + 1 \in DOMAIN Chain(C, k) /\ At(C, k, Len(q) + 1)
      BY <1>4, <1>6 DEF Chain, At
    <2>2. Chain(C, k)[Len(q) + 1].data = d
      BY <1>4, <1>6 DEF Chain
    <2> QED
      BY <1>5, <2>1, <2>2, ValueAt
  <1>8. ASSUME NEW j \in Key, j # k
        PROVE  (Has(C, j) <=> Has(B, j)) /\ ValueOf(C, j) = ValueOf(B, j)
    <2>1. CASE Index(j) # Index(k)
      BY <1>4, <2>1, IndexInBucket, Elsewhere
    <2>2. CASE Index(j) = Index(k)
      <3>1. \A i : At(C, j, i) <=> At(B, j, i)
        <4>1. Chain(C, j) = r /\ Chain(B, j) = q
          BY <1>4, <2>2 DEF Chain
        <4>2. r[Len(q) + 1].key = k
          BY <1>6
        <4>3. \A i : (i \in DOMAIN r /\ r[i].key = j) <=> (i \in DOMAIN q /\ q[i].key = j)
          BY <1>6, <1>8, <4>2
        <4> QED
          BY <4>1, <4>3 DEF At
      <3>2. Has(C, j) <=> Has(B, j)
        BY <1>5, <3>1, NullAssumption DEF Has, At
      <3>3. ASSUME Has(B, j) PROVE ValueOf(C, j) = ValueOf(B, j)
        <4>1. PICK i \in DOMAIN Chain(B, j) : At(B, j, i)
          BY <3>3 DEF Has
        <4>2. /\ i \in DOMAIN Chain(C, j) /\ At(C, j, i)
              /\ Chain(C, j)[i] = Chain(B, j)[i]
          BY <1>4, <1>6, <2>2, <3>1, <4>1 DEF At, Chain
        <4>3. Typed(B) /\ B # NULL
          BY NullAssumption DEF Typed
        <4>4. ValueOf(B, j) = Chain(B, j)[i].data
          BY <4>1, <4>3, ValueAt
        <4>5. ValueOf(C, j) = Chain(C, j)[i].data
          BY <1>5, <4>2, ValueAt
        <4> QED
          BY <4>2, <4>4, <4>5
      <3> QED
        BY <3>2, <3>3 DEF ValueOf
    <2> QED
      BY <2>1, <2>2
  <1> QED
    BY <1>5, <1>7, <1>8

\* ft_iphashmap_pop_int_: the map with one entry less.
Without(B, k, i) == [B EXCEPT ![Index(k)] = Unlink(@, i)]
LEMMA Popped ==
  ASSUME NEW B, B \in [Bucket -> Seq(Entry)], Sound(B),
         NEW k \in Key, NEW i \in DOMAIN Chain(B, k), At(B, k, i), NEW C,
         C = Without(B, k, i)
  PROVE  /\ C # NULL /\ Typed(C) /\ Sound(C)
         /\ \A j \in Key : /\ Has(C, j) <=> Has(B, j) /\ j # k
                           /\ j # k => ValueOf(C, j) = ValueOf(B, j)
  <1> DEFINE q == B[Index(k)]  u == Unlink(q, i)
  <1>1. /\ Index(k) \in Bucket /\ q \in Seq(Entry) /\ ChainOk(Index(k), q)
        /\ i \in DOMAIN q /\ q[i].key = k
    BY IndexInBucket, NullAssumption DEF Sound, Chain, At
  <1>2. /\ u \in Seq(Entry) /\ ChainOk(Index(k), u)
        /\ \A j \in DOMAIN u : \E m \in DOMAIN q \ {i} : u[j] = q[m]
        /\ \A m \in DOMAIN q \ {i} : \E j \in DOMAIN u : u[j] = q[m]
    BY <1>1, UnlinkOk
  <1>3. /\ C \in [Bucket -> Seq(Entry)] /\ C[Index(k)] = u
        /\ \A b \in Bucket \ {Index(k)} : C[b] = B[b]
    BY <1>1, <1>2 DEF Without
  <1>4. C # NULL /\ Typed(C) /\ Sound(C) /\ B # NULL /\ Typed(B)
    BY <1>2, <1>3, NullAssumption DEF Typed, Sound
  <1>5. ~Has(C, k)
    <2>1. \A m \in DOMAIN q \ {i} : q[m].key # k
      BY <1>1 DEF ChainOk
    <2>2. \A j \in DOMAIN u : u[j].key # k
      BY <1>2, <2>1
    <2> QED
      BY <1>3, <2>2 DEF Has, At, Chain
  <1>6. ASSUME NEW j \in Key, j # k
        PROVE  (Has(C, j) <=> Has(B, j)) /\ ValueOf(C, j) = ValueOf(B, j)
    <2>1. CASE Index(j) # Index(k)
      BY <1>3, <2>1, IndexInBucket, Elsewhere
    <2>2. CASE Index(j) = Index(k)
      <3>1. Chain(C, j) = u /\ Chain(B, j) = q
        BY <1>3, <2>2 DEF Chain
      <3>2. ASSUME Has(C, j) PROVE Has(B, j)
        BY <1>2, <1>4, <3>1, <3>2 DEF Has, At
      <3>3. ASSUME Has(B, j)
            PROVE  Has(C, j) /\ ValueOf(C, j) = ValueOf(B, j)
        <4>1. PICK m \in DOMAIN Chain(B, j) : At(B, j, m)
          BY <3>3 DEF Has
        <4>2. m \in DOMAIN q \ {i} /\ q[m].key = j
          BY <1>1, <1>6, <3>1, <4>1 DEF At
        <4>3. PICK n \in DOMAIN u : u[n] = q[m]
          BY <1>2, <4>2
        <4>4. n \in DOMAIN Chain(C, j) /\ At(C, j, n)
          BY <3>1, <4>2, <4>3 DEF At
        <4>5. Has(C, j) /\ ValueOf(C, j) = Chain(C, j)[n].data
          BY <1>4, <4>4, ValueAt
        <4>6. ValueOf(B, j) = Chain(B, j)[m].data
          BY <1>4, <4>1, ValueAt
        <4> QED
          BY <3>1, <4>3, <4>5, <4>6
      <3> QED
        BY <3>2, <3>3 DEF ValueOf
    <2> QED
      BY <2>1, <2>2
  <1> QED
    BY <1>4, <1>5, <1>6

\* An entry with other data.
Changed(B, k, i, d) == [B EXCEPT ![Index(k)][i].data = d]
LEMMA SetOne ==
  ASSUME NEW B, B \in [Bucket -> Seq(Entry)], Sound(B), NEW d \in Data,
         NEW k \in Key, NEW i \in DOMAIN Chain(B, k), At(B, k, i), NEW C,
         C = Changed(B, k, i, d)
  PROVE  /\ C # NULL /\ Typed(C) /\ Sound(C)
         /\ \A j \in Key : /\ Has(C, j) <=> Has(B, j)
                           /\ ValueOf(C, j) = IF j = k THEN d ELSE ValueOf(B, j)
  <1> DEFINE q == B[Index(k)]  u == [q EXCEPT ![i].data = d]
  <1>1. /\ Index(k) \in Bucket /\ q \in Seq(Entry) /\ ChainOk(Index(k), q)
        /\ i \in DOMAIN q /\ q[i].key = k
    BY IndexInBucket, NullAssumption DEF Sound, Chain, At
  <1>2. /\ DOMAIN q = 1 .. Len(q) /\ Len(q) \in Nat
        /\ \A m \in DOMAIN q : q[m] \in Entry
    BY <1>1
  <1>3. /\ DOMAIN u = DOMAIN q /\ \A m \in DOMAIN q \ {i} : u[m] = q[m]
        /\ u[i] \in Entry /\ u[i].key = k /\ u[i].data = d
    BY <1>1, <1>2 DEF Entry
  <1>4. u \in Seq(Entry)
    <2>1. \A m \in 1 .. Len(q) : u[m] \in Entry
      BY <1>2, <1>3
    <2>2. u \in [1 .. Len(q) -> Entry]
      BY <1>2, <2>1
    <2>3. \A n \in Nat : \A v \in [1 .. n -> Entry] : v \in Seq(Entry)
      OBVIOUS
    <2> QED
      BY <1>2, <2>2, <2>3
  <1>5. \A m \in DOMAIN u : u[m].key = q[m].key
    BY <1>1, <1>3
  <1>6. ChainOk(Index(k), u)
    BY <1>1, <1>3, <1>5 DEF ChainOk
  <1>7. /\ C \in [Bucket -> Seq(Entry)] /\ C[Index(k)] = u
        /\ \A b \in Bucket \ {Index(k)} : C[b] = B[b]
    BY <1>1, <1>4 DEF Changed
  <1> HIDE DEF u
  <1>8. C # NULL /\ Typed(C) /\ Sound(C) /\ B # NULL /\ Typed(B)
    BY <1>6, <1>7, NullAssumption DEF Typed, Sound
  <1>9. ASSUME NEW j \in Key
        PROVE  /\ Has(C, j) <=> Has(B, j)
               /\ ValueOf(C, j) = IF j = k THEN d ELSE ValueOf(B, j)
    <2>1. CASE Index(j) # Index(k)
      BY <1>7, <2>1, IndexInBucket, Elsewhere
    <2>2. CASE Index(j) = Index(k)
      <3>1. Chain(C, j) = u /\ Chain(B, j) = q
        BY <1>7, <2>2 DEF Chain
      <3>2. \A m : At(C, j, m) <=> At(B, j, m)
        BY <1>3, <1>5, <3>1 DEF At
      <3>3. Has(C, j) <=> Has(B, j)
        BY <1>8, <3>2 DEF Has, At
      <3>4. ASSUME Has(B, j)
            PROVE  ValueOf(C, j) = IF j = k THEN d ELSE ValueOf(B, j)
        <4>1. PICK m \in DOMAIN Chain(B, j) : At(B, j, m)
          BY <3>4 DEF Has
        <4>2. m \in DOMAIN Chain(C, j) /\ At(C, j, m)
          BY <3>2, <4>1 DEF At
        <4>3. ValueOf(B, j) = Chain(B, j)[m].data
          BY <1>8, <4>1, ValueAt
        <4>4. ValueOf(C, j) = Chain(C, j)[m].data
          BY <1>8, <4>2, ValueAt
        <4>5. (m = i) <=> (j = k)
          BY <1>1, <3>1, <4>1 DEF At, ChainOk
        <4> QED
          BY <1>3, <3>1, <4>1, <4>3, <4>4, <4>5
      <3>5. j = k => Has(B, j)
        BY <1>8 DEF Has
      <3> QED
        BY <3>3, <3>4, <3>5 DEF ValueOf
    <2> QED
      BY <2>1, <2>2
  <1> QED
    BY <1>8, <1>9
-----------------------------------------------------------------------------
LEMMA Allocating ==
  ASSUME Typed(buckets), Sound(buckets)
  PROVE  /\ Allocated \in [Bucket -> Seq(Entry)]
         /\ Sound(Allocated)
         /\ \A j \in Key : /\ Has(Allocated, j) <=> Has(buckets, j)
                           /\ ValueOf(Allocated, j) = ValueOf(buckets, j)
  <1>1. CASE buckets = NULL
    <2>1. Empty \in [Bucket -> Seq(Entry)] /\ Sound(Empty)
      BY EmptyBuckets DEF Sound, ChainOk, Empty
    <2>2. \A j \in Key : ~Has(Empty, j)
      BY IndexInBucket DEF Has, Empty, Chain
    <2> QED
      BY <1>1, <2>1, <2>2 DEF Allocated, Has, ValueOf
  <1>2. CASE buckets # NULL
    BY <1>2 DEF Allocated, Typed
  <1> QED
    BY <1>1, <1>2

LEMMA HeldFinite == ASSUME NEW B
                    PROVE  IsFiniteSet(Held(B)) /\ Cardinality(Held(B)) \in Nat
  <1>1. Held(B) \subseteq Key
    BY DEF Held
  <1> QED
    BY <1>1, MapAssumption, FS_Subset, FS_CardinalityType

\* The dictionary a map stands for changes only where the entries do.
DictOf(B) == [k \in Held(B) |-> ValueOf(B, k)]

LEMMA SameDict ==
  ASSUME NEW B, NEW C,
         \A j \in Key : /\ Has(C, j) <=> Has(B, j)
                        /\ ValueOf(C, j) = ValueOf(B, j)
  PROVE  Held(C) = Held(B) /\ DictOf(C) = DictOf(B)
  BY DEF Held, DictOf


\* What each operation does keeps the invariant and is one of the dictionary.
LEMMA AddKeyStep ==
  ASSUME Inv, NEW k \in Key, AddKey(k)
  PROVE  Inv' /\ Dict!Add(k)
  <1> USE DEF Inv, TypeOK, ChainsSound
  <1>1. /\ Allocated \in [Bucket -> Seq(Entry)] /\ Sound(Allocated)
        /\ \A j \in Key : /\ Has(Allocated, j) <=> Has(buckets, j)
                          /\ ValueOf(Allocated, j) = ValueOf(buckets, j)
    BY Allocating
  <1>2. CASE AddThere(k)
    <2>1. ValueOf(buckets, k) \in Data
      BY <1>2, ValueIn DEF AddThere
    <2>2. k \in Held(buckets) /\ DictOf(buckets)[k] = ValueOf(buckets, k)
      BY <1>2 DEF AddThere, Held, DictOf
    <2> QED
      BY <1>2, <2>1, <2>2
      DEF AddThere, CountExact, Dict!Add, Dict!Held, DictOf
  <1>3. CASE AddFails(k)
    <2>1. /\ Typed(buckets') /\ Sound(buckets')
          /\ \A j \in Key : /\ Has(buckets', j) <=> Has(buckets, j)
                            /\ ValueOf(buckets', j) = ValueOf(buckets, j)
      BY <1>1, <1>3 DEF AddFails, Typed
    <2>2. /\ Held(buckets') = Held(buckets)
          /\ DictOf(buckets') = DictOf(buckets)
      BY <2>1, SameDict
    <2>3. k \notin Held(buckets)
      BY <1>3 DEF AddFails, Held
    <2>4. TypeOK' /\ ChainsSound' /\ CountExact'
      BY <1>3, <2>1, <2>2 DEF AddFails, CountExact
    <2> QED
      BY <1>3, <2>2, <2>3, <2>4 DEF AddFails, Dict!Add, Dict!Held, DictOf
  <1>4. CASE AddNew(k)
    <2>1. PICK d \in Data :
            /\ ~Has(buckets, k)
            /\ buckets' = [Allocated EXCEPT
                             ![Index(k)] = Append(@, [key |-> k, data |-> d])]
            /\ count' = count + 1 /\ answer' = d
      BY <1>4 DEF AddNew
    <2>2. /\ buckets' # NULL /\ Typed(buckets') /\ Sound(buckets')
          /\ \A j \in Key :
               /\ Has(buckets', j) <=> Has(buckets, j) \/ j = k
               /\ ValueOf(buckets', j) = IF j = k THEN d ELSE ValueOf(buckets, j)
      <3>1. ~Has(Allocated, k)
        BY <1>1, <2>1
      <3>2. /\ buckets' # NULL /\ Typed(buckets') /\ Sound(buckets')
            /\ \A j \in Key :
                 /\ Has(buckets', j) <=> Has(Allocated, j) \/ j = k
                 /\ ValueOf(buckets', j) = IF j = k THEN d ELSE ValueOf(Allocated, j)
        <4>1. buckets' = With(Allocated, k, d)
          BY <2>1 DEF With
        <4> QED
          BY <1>1, <3>1, <4>1, Added
      <3> QED
        BY <1>1, <3>2
    <2>3. Held(buckets') = Held(buckets) \cup {k} /\ k \notin Held(buckets)
      BY <2>1, <2>2 DEF Held
    <2>4. Cardinality(Held(buckets')) = Cardinality(Held(buckets)) + 1
      BY <2>3, HeldFinite, FS_AddElement
    <2>5. TypeOK' /\ ChainsSound' /\ CountExact'
      BY <2>1, <2>2, <2>4 DEF CountExact
    <2>6. DictOf(buckets') = [j \in Held(buckets) \cup {k} |->
                               IF j = k THEN d ELSE DictOf(buckets)[j]]
      BY <2>2, <2>3 DEF DictOf, Held
    <2> QED
      BY <2>1, <2>3, <2>5, <2>6 DEF Dict!Add, Dict!Held, DictOf
  <1> QED
    BY <1>2, <1>3, <1>4 DEF AddKey

LEMMA PopKeyStep ==
  ASSUME Inv, NEW k \in Key, PopKey(k)
  PROVE  Inv' /\ Dict!Pop(k)
  <1> USE DEF Inv, TypeOK, ChainsSound
  <1>1. CASE PopNot(k)
    <2>1. k \notin Held(buckets)
      BY <1>1 DEF PopNot, Held
    <2>2. DictOf(buckets) = [j \in Held(buckets) \ {k} |-> DictOf(buckets)[j]]
      BY <2>1 DEF DictOf
    <2> QED
      BY <1>1, <2>1, <2>2
      DEF PopNot, CountExact, Dict!Pop, Dict!Value, Dict!Held, DictOf
  <1>2. CASE buckets # NULL /\ PopThere(k)
    <2>1. PICK i \in DOMAIN Chain(buckets, k) :
            /\ At(buckets, k, i)
            /\ answer' = Chain(buckets, k)[i].data
            /\ count' = count - 1
            /\ buckets' = IF Freed(count - 1) THEN NULL
                          ELSE [buckets EXCEPT ![Index(k)] = Unlink(@, i)]
      BY <1>2 DEF PopThere
    <2>2. /\ Has(buckets, k) /\ answer' = ValueOf(buckets, k)
          /\ ValueOf(buckets, k) \in Data
      BY <1>2, <2>1, ValueAt
    <2>3. k \in Held(buckets)
      BY <2>2 DEF Held
    <2>4. Cardinality(Held(buckets) \ {k}) = count - 1
      BY <2>3, HeldFinite, FS_RemoveElement DEF CountExact
    <2>5. count - 1 \in Nat
      <3>1. IsFiniteSet(Held(buckets) \ {k})
        BY HeldFinite, FS_Subset, Held(buckets) \ {k} \subseteq Held(buckets)
      <3> QED
        BY <2>4, <3>1, FS_CardinalityType
    <2>6. /\ Typed(buckets') /\ Sound(buckets')
          /\ Held(buckets') = Held(buckets) \ {k}
          /\ \A j \in Held(buckets') : ValueOf(buckets', j) = ValueOf(buckets, j)
      <3>1. CASE Freed(count - 1)
        <4>1. Held(buckets) \ {k} = {}
          <5>1. IsFiniteSet(Held(buckets) \ {k})
            BY HeldFinite, FS_Subset, Held(buckets) \ {k} \subseteq Held(buckets)
          <5> QED
            BY <2>4, <3>1, <5>1, FS_EmptySet DEF Freed
        <4> QED
          BY <2>1, <3>1, <4>1 DEF Typed, Sound, Held, Has
      <3>2. CASE ~Freed(count - 1)
        <4>1. buckets \in [Bucket -> Seq(Entry)]
          BY <1>2 DEF Typed
        <4>2. /\ Typed(buckets') /\ Sound(buckets')
              /\ \A j \in Key :
                   /\ Has(buckets', j) <=> Has(buckets, j) /\ j # k
                   /\ j # k => ValueOf(buckets', j) = ValueOf(buckets, j)
          <5>1. buckets' = Without(buckets, k, i)
            BY <2>1, <3>2 DEF Without
          <5> QED
            BY <2>1, <4>1, <5>1, Popped
        <4> QED
          BY <4>2 DEF Held
      <3> QED
        BY <3>1, <3>2
    <2>7. TypeOK' /\ ChainsSound' /\ CountExact'
      BY <2>1, <2>2, <2>4, <2>5, <2>6 DEF CountExact
    <2>8. DictOf(buckets') = [j \in Held(buckets) \ {k} |-> DictOf(buckets)[j]]
      BY <2>6 DEF DictOf
    <2> QED
      BY <2>2, <2>3, <2>7, <2>8 DEF Dict!Pop, Dict!Value, Dict!Held, DictOf
  <1> QED
    BY <1>1, <1>2 DEF PopKey

LEMMA GetKeyStep ==
  ASSUME Inv, NEW k \in Key, GetKey(k)
  PROVE  Inv' /\ Dict!Get(k)
  <1>1. ValueOf(buckets, k) \in Data \cup {None}
    BY ValueIn DEF Inv, TypeOK, ChainsSound
  <1>2. ValueOf(buckets, k) = Dict!Value(k)
    BY DEF Dict!Value, Dict!Held, Held, ValueOf
  <1> QED
    BY <1>1, <1>2
    DEF Inv, TypeOK, ChainsSound, CountExact, GetKey, Dict!Get

LEMMA NothingStep == ASSUME Inv, Nothing PROVE Inv' /\ Dict!Refuse
  BY DEF Inv, TypeOK, ChainsSound, CountExact, Nothing, Dict!Refuse

LEMMA SetDataStep ==
  ASSUME Inv, SetData
  PROVE  Inv' /\ \E k \in Key, d \in Data : Dict!Set(k, d)
  <1> USE DEF Inv, TypeOK, ChainsSound
  <1>1. PICK k \in Key, d \in Data : \E i \in DOMAIN Chain(buckets, k) :
          /\ Has(buckets, k) /\ At(buckets, k, i)
          /\ buckets' = Changed(buckets, k, i, d)
          /\ UNCHANGED <<count, answer>>
    BY DEF SetData, Changed
  <1>2. buckets \in [Bucket -> Seq(Entry)]
    BY <1>1 DEF Has, Typed
  <1>3. /\ Typed(buckets') /\ Sound(buckets')
        /\ \A j \in Key :
             /\ Has(buckets', j) <=> Has(buckets, j)
             /\ ValueOf(buckets', j) = IF j = k THEN d ELSE ValueOf(buckets, j)
    BY <1>1, <1>2, SetOne
  <1>4. Held(buckets') = Held(buckets) /\ k \in Held(buckets)
    BY <1>1, <1>3 DEF Held
  <1>5. TypeOK' /\ ChainsSound' /\ CountExact'
    BY <1>1, <1>3, <1>4 DEF CountExact
  <1>6. DictOf(buckets') = [DictOf(buckets) EXCEPT ![k] = d]
    BY <1>3, <1>4 DEF DictOf, Held
  <1> QED
    BY <1>1, <1>4, <1>5, <1>6 DEF Dict!Set, Dict!Held, DictOf

LEMMA ClearStep ==
  ASSUME Inv, buckets' = NULL, count' = 0, UNCHANGED answer
  PROVE  Inv' /\ Dict!Clear
  <1>1. Held(buckets') = {}
    BY DEF Held, Has
  <1> QED
    BY <1>1, FS_EmptySet
    DEF Inv, TypeOK, ChainsSound, CountExact, Typed, Sound, Dict!Clear

LEMMA StutterStep ==
  ASSUME Inv, UNCHANGED <<buckets, count, answer>>
  PROVE  Inv' /\ UNCHANGED <<DictOf(buckets), answer>>
  BY DEF Inv, TypeOK, ChainsSound, CountExact, DictOf, Held
-----------------------------------------------------------------------------
FilesOk == file \in Seq(Texts \cup {None})

LEMMA ParsedIsKey ==
  ASSUME NEW f, NEW t \in Texts PROVE Parsed(f, t) \in Key \cup {None}
  BY TextAssumption DEF Parsed

LEMMA InitInv == Init => Inv /\ FilesOk /\ Dict!Init
  <1> SUFFICES ASSUME Init PROVE Inv /\ FilesOk /\ Dict!Init
    OBVIOUS
  <1>1. Held(buckets) = {}
    BY DEF Init, Held, Has
  <1> QED
    BY <1>1, FS_EmptySet
    DEF Init, Inv, FilesOk, TypeOK, ChainsSound, CountExact, Typed, Sound, Dict!Init

LEMMA AddParsedStep ==
  ASSUME Inv, NEW k \in Key \cup {None}, AddParsed(k)
  PROVE  Inv' /\ Dict!Next
  BY AddKeyStep, NothingStep DEF AddParsed, Dict!Next

\* One step of the map is a step of the dictionary, or none.
LEMMA NextStep ==
  ASSUME Inv, FilesOk, [Next]_vars
  PROVE  Inv' /\ FilesOk' /\ [Dict!Next]_<<DictOf(buckets), answer>>
  <1>1. CASE Add
    BY <1>1, AddParsedStep, ParsedIsKey DEF Add, Idle, FilesOk
  <1>2. CASE AddAddr
    BY <1>2, AddKeyStep DEF AddAddr, Idle, FilesOk, Dict!Next
  <1>3. CASE GetSa
    BY <1>3, GetKeyStep, NothingStep DEF GetSa, Idle, FilesOk, Dict!Next
  <1>4. CASE Pop
    BY <1>4, PopKeyStep, NothingStep, ParsedIsKey DEF Pop, Idle, FilesOk, Dict!Next
  <1>5. CASE PopAddr
    BY <1>5, PopKeyStep DEF PopAddr, Idle, FilesOk, Dict!Next
  <1>6. CASE SetData
    <2>1. Inv' /\ Dict!Next
      BY <1>6, SetDataStep DEF Dict!Next
    <2> QED
      BY <1>6, <2>1 DEF SetData, Idle, FilesOk
  <1>7. CASE Clear
    BY <1>7, ClearStep DEF Clear, Idle, FilesOk, Dict!Next
  <1>8. CASE LoadStart
    <2>1. FilesOk'
      BY <1>8, TextAssumption DEF LoadStart, FilesOk
    <2> QED
      BY <1>8, <2>1, StutterStep DEF LoadStart
  <1>9. CASE LoadLine
    <2>1. FilesOk' /\ Head(file) \in Texts \cup {None}
      BY <1>9 DEF LoadLine, FilesOk
    <2>2. CASE Head(file) = None
      BY <1>9, <2>1, <2>2, StutterStep DEF LoadLine
    <2>3. CASE Head(file) # None
      BY <1>9, <2>1, <2>3, AddParsedStep, ParsedIsKey DEF LoadLine
    <2> QED
      BY <2>2, <2>3
  <1>10. CASE UNCHANGED vars
    BY <1>10, StutterStep DEF vars, FilesOk
  <1> QED
    BY <1>1, <1>2, <1>3, <1>4, <1>5, <1>6, <1>7, <1>8, <1>9, <1>10 DEF Next

\* Every entry is in the chain its hash says, and once: ft_iphashmap_add_int_,
\* ft_iphashmap_pop_int_ and ft_iphashmap_clear keep the chains sound.
THEOREM MapChainsSound == Spec => []ChainsSound
  <1>1. Inv /\ FilesOk /\ [Next]_vars => (Inv /\ FilesOk)'
    BY NextStep
  <1>2. Inv => ChainsSound
    BY DEF Inv
  <1> QED
    BY <1>1, <1>2, InitInv, PTL DEF Spec

\* "count" is the number of addresses that can be found, so that the buckets are
\* freed with the last entry and never before.
THEOREM MapCountExact == Spec => []CountExact
  <1>1. Inv /\ FilesOk /\ [Next]_vars => (Inv /\ FilesOk)'
    BY NextStep
  <1>2. Inv => CountExact
    BY DEF Inv
  <1> QED
    BY <1>1, <1>2, InitInv, PTL DEF Spec

\* The map with its buckets and chains is a dictionary.
THEOREM MapIsDictionary == Spec => DictSpec
  <1>1. Inv /\ FilesOk /\ [Next]_vars => (Inv /\ FilesOk)'
    BY NextStep
  <1>2. Inv /\ FilesOk /\ [Next]_vars
          => [Dict!Next]_<<[k \in Held(buckets) |-> ValueOf(buckets, k)], answer>>
    BY NextStep DEF DictOf
  <1>3. Init => Dict!Init
    BY InitInv
  <1> QED
    BY <1>1, <1>2, <1>3, InitInv, PTL DEF Spec, DictSpec, Dict!Spec
=============================================================================
