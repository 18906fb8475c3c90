------------------------- MODULE PubkeyHashMapProofs -------------------------
(***************************************************************************)
(* PubkeyHashMap implements the map for every set of keys and values and   *)
(* every hash function, collisions included.                               *)
(***************************************************************************)
EXTENDS PubkeyHashMap, FiniteSetTheorems, TLAPS

\* The inductive invariant: the counter is right only together with the
\* soundness of the buckets, which decides what one entry more or less means.
keysHeld == {k \in Key : contentBar[k] # undefined}

IInv ==
  /\ TypeOK
  /\ BucketsSound
  /\ IsFiniteSet(keysHeld)
  /\ SizeCounts

-----------------------------------------------------------------------------
\* The entry find returns: findIndex is a position of the key, and the only one.
LEMMA FindIndex ==
  ASSUME TypeOK, BucketsSound, NEW k \in Key, Found(k)
  PROVE  /\ findIndex(k) \in 1..Len(buckets[HashOf[k]])
         /\ buckets[HashOf[k]][findIndex(k)].key = k
         /\ \A j \in 1..Len(buckets[HashOf[k]]) :
              buckets[HashOf[k]][j].key = k => j = findIndex(k)
<1> DEFINE b == buckets[HashOf[k]]
<1>1. HashOf[k] \in DOMAIN buckets /\ b \in Seq(Entry)
  BY DEF Found, HasBucket, TypeOK
<1>2. PICK i \in positions(k) : TRUE
  BY DEF Found
<1>3. i \in 1..Len(b) /\ b[i].key = k
  BY <1>2 DEF positions
<1>4. \A j \in positions(k) : j = i
  BY <1>1, <1>3 DEF positions, BucketsSound
<1>5. findIndex(k) = i
  <2>1. \E n \in positions(k) : \A j \in positions(k) : n <= j
    BY <1>2, <1>3, <1>4
  <2>2. findIndex(k) \in positions(k)
    BY <2>1 DEF findIndex
  <2> QED BY <2>2, <1>4
<1> QED BY <1>3, <1>4, <1>5 DEF positions

\* Found says whether some entry, in whatever bucket, binds the key.
LEMMA FoundBound ==
  TypeOK /\ BucketsSound =>
    \A k \in Key :
      /\ Found(k) => Bound(k, buckets[HashOf[k]][findIndex(k)].value)
                     /\ buckets[HashOf[k]][findIndex(k)].value \in Value
      /\ \A v \in Value : Bound(k, v) =>
           Found(k) /\ v = buckets[HashOf[k]][findIndex(k)].value
<1> SUFFICES ASSUME TypeOK, BucketsSound, NEW k \in Key
             PROVE  /\ Found(k) => Bound(k, buckets[HashOf[k]][findIndex(k)].value)
                                   /\ buckets[HashOf[k]][findIndex(k)].value \in Value
                    /\ \A v \in Value : Bound(k, v) =>
                         Found(k) /\ v = buckets[HashOf[k]][findIndex(k)].value
  OBVIOUS
<1> DEFINE b == buckets[HashOf[k]]
<1>1. ASSUME Found(k)
      PROVE  Bound(k, b[findIndex(k)].value) /\ b[findIndex(k)].value \in Value
  <2>1. findIndex(k) \in 1..Len(b) /\ b[findIndex(k)].key = k
    BY <1>1, FindIndex
  <2>2. HashOf[k] \in DOMAIN buckets /\ b \in Seq(Entry)
    BY <1>1 DEF Found, HasBucket, TypeOK
  <2>3. b[findIndex(k)] \in Entry
    BY <2>1, <2>2
  <2>4. b[findIndex(k)] = [key |-> k, value |-> b[findIndex(k)].value]
    BY <2>1, <2>3 DEF Entry
  <2> QED BY <2>1, <2>2, <2>3, <2>4 DEF Bound, Entry
<1>2. ASSUME NEW v \in Value, Bound(k, v)
      PROVE  Found(k) /\ v = b[findIndex(k)].value
  <2>0. PICK h \in DOMAIN buckets :
          \E i \in 1..Len(buckets[h]) : buckets[h][i] = [key |-> k, value |-> v]
    BY <1>2 DEF Bound
  <2>1. PICK i \in 1..Len(buckets[h]) : buckets[h][i] = [key |-> k, value |-> v]
    BY <2>0
  <2>2. buckets[h][i].key = k /\ buckets[h][i].value = v
    BY <2>1
  <2>3. h = HashOf[k]
    BY <2>2 DEF BucketsSound
  <2>4. i \in positions(k)
    BY <2>2, <2>3 DEF positions
  <2>5. Found(k)
    BY <2>3, <2>4 DEF Found, HasBucket
  <2>6. i = findIndex(k)
    BY <2>2, <2>3, <2>5, FindIndex
  <2> QED BY <2>2, <2>3, <2>5, <2>6
<1> QED BY <1>1, <1>2

\* The content of the map is what its buckets bind.
LEMMA LookupBound ==
  TypeOK /\ BucketsSound =>
    \A k \in Key :
      /\ \A v \in Value : Bound(k, v) => Lookup(k) = v
      /\ (\A v \in Value : ~Bound(k, v)) => Lookup(k) = undefined
      /\ Lookup(k) \in Value \union {undefined}
      /\ Found(k) <=> Lookup(k) # undefined
      /\ Found(k) => Lookup(k) = buckets[HashOf[k]][findIndex(k)].value
<1> SUFFICES ASSUME TypeOK, BucketsSound, NEW k \in Key
             PROVE  /\ \A v \in Value : Bound(k, v) => Lookup(k) = v
                    /\ (\A v \in Value : ~Bound(k, v)) => Lookup(k) = undefined
                    /\ Lookup(k) \in Value \union {undefined}
                    /\ Found(k) <=> Lookup(k) # undefined
                    /\ Found(k) => Lookup(k) = buckets[HashOf[k]][findIndex(k)].value
  OBVIOUS
<1>1. ASSUME \E v \in Value : Bound(k, v)
      PROVE  Lookup(k) \in Value /\ Bound(k, Lookup(k))
  BY <1>1 DEF Lookup
<1>2. ASSUME \A v \in Value : ~Bound(k, v)
      PROVE  Lookup(k) = undefined
  BY <1>2 DEF Lookup
<1>3. \A v, w \in Value : Bound(k, v) /\ Bound(k, w) => v = w
  BY FoundBound
<1> QED BY <1>1, <1>2, <1>3, FoundBound, HashAssumption

-----------------------------------------------------------------------------
(***************************************************************************)
(* What each change of the buckets does to the bindings.                   *)
(***************************************************************************)
\* WithBucket replaces one bucket, or adds it.
LEMMA WithBucketValue ==
  ASSUME TypeOK, NEW h \in Hash, NEW bucket \in Seq(Entry)
  PROVE  /\ DOMAIN WithBucket(h, bucket) = DOMAIN buckets \union {h}
         /\ WithBucket(h, bucket) \in [DOMAIN WithBucket(h, bucket) -> Seq(Entry)]
         /\ WithBucket(h, bucket)[h] = bucket
         /\ \A g \in DOMAIN buckets : g # h => WithBucket(h, bucket)[g] = buckets[g]
BY DEF WithBucket, TypeOK

\* Splice removes one element and keeps the others, in order.
LEMMA SpliceElements ==
  ASSUME NEW S, NEW bucket \in Seq(S), NEW n \in 1..Len(bucket)
  PROVE  /\ Splice(bucket, n) \in Seq(S)
         /\ Len(Splice(bucket, n)) = Len(bucket) - 1
         /\ \A i \in 1..(Len(bucket) - 1) :
              Splice(bucket, n)[i] = bucket[IF i < n THEN i ELSE i + 1]
         /\ \A j \in 1..Len(bucket) : j # n =>
              \E i \in 1..(Len(bucket) - 1) : Splice(bucket, n)[i] = bucket[j]
<1> DEFINE s == Splice(bucket, n)
<1>1. Len(bucket) - 1 \in Nat /\ DOMAIN s = 1..(Len(bucket) - 1)
  BY DEF Splice
<1>2. \A i \in 1..(Len(bucket) - 1) :
        s[i] = bucket[IF i < n THEN i ELSE i + 1] /\ s[i] \in S
  BY DEF Splice
<1>3. s \in Seq(S) /\ Len(s) = Len(bucket) - 1
  BY <1>1, <1>2 DEF Splice
<1>4. ASSUME NEW j \in 1..Len(bucket), j # n
      PROVE  \E i \in 1..(Len(bucket) - 1) : s[i] = bucket[j]
  <2>1. CASE j < n
    <3>1. j \in 1..(Len(bucket) - 1) /\ s[j] = bucket[j]
      BY <2>1, <1>2
    <3> QED BY <3>1
  <2>2. CASE n < j
    <3>1. j - 1 \in 1..(Len(bucket) - 1) /\ s[j - 1] = bucket[j]
      BY <2>2, <1>2
    <3> QED BY <3>1
  <2> QED BY <1>4, <2>1, <2>2
<1> QED BY <1>2, <1>3, <1>4

\* A binding of a key is an entry of the bucket its hash names.
LEMMA BoundLocal ==
  ASSUME TypeOK, BucketsSound, NEW x \in Key, NEW w \in Value
  PROVE  Bound(x, w) <=>
           /\ HasBucket(x)
           /\ \E i \in 1..Len(buckets[HashOf[x]]) :
                buckets[HashOf[x]][i] = [key |-> x, value |-> w]
BY DEF Bound, HasBucket, BucketsSound

\* The same of the next state.
LEMMA BoundLocalNext ==
  ASSUME BucketsSound', NEW x \in Key, NEW w \in Value
  PROVE  Bound(x, w)' <=>
           /\ HashOf[x] \in DOMAIN buckets'
           /\ \E i \in 1..Len(buckets'[HashOf[x]]) :
                buckets'[HashOf[x]][i] = [key |-> x, value |-> w]
BY DEF Bound, BucketsSound

\* A sound bucket for h: what BucketsSound asks of one bucket.
SoundBucket(h, bucket) ==
  /\ bucket \in Seq(Entry)
  /\ bucket # <<>>
  /\ \A i \in 1..Len(bucket) :
       /\ HashOf[bucket[i].key] = h
       /\ \A j \in 1..Len(bucket) : bucket[i].key = bucket[j].key => i = j

\* Splicing one entry out of a sound bucket of several leaves a sound bucket
\* of the others.
LEMMA SpliceSound ==
  ASSUME NEW h, NEW bucket, SoundBucket(h, bucket), NEW n \in 1..Len(bucket),
         Len(bucket) # 1
  PROVE  /\ SoundBucket(h, Splice(bucket, n))
         /\ \A e \in Entry :
              (\E i \in 1..Len(Splice(bucket, n)) : Splice(bucket, n)[i] = e)
              <=> \E j \in 1..Len(bucket) : j # n /\ bucket[j] = e
<1> DEFINE s == Splice(bucket, n)
           at(i) == IF i < n THEN i ELSE i + 1
<1>1. bucket \in Seq(Entry)
  BY DEF SoundBucket
<1>2. /\ s \in Seq(Entry)
      /\ Len(s) = Len(bucket) - 1
      /\ \A i \in 1..(Len(bucket) - 1) : s[i] = bucket[at(i)]
      /\ \A j \in 1..Len(bucket) : j # n =>
           \E i \in 1..(Len(bucket) - 1) : s[i] = bucket[j]
  BY <1>1, SpliceElements
<1>3. Len(bucket) \in Nat /\ Len(bucket) > 1
  <2>1. Len(bucket) \in Nat
    BY <1>1
  <2>2. n \in Nat /\ 1 <= n /\ n <= Len(bucket) /\ Len(bucket) # 1
    BY <2>1
  <2>3. \A l, m \in Nat : 1 <= m /\ m <= l /\ l # 1 => l > 1
    OBVIOUS
  <2> QED BY <2>1, <2>2, <2>3
<1>4. \A i \in 1..Len(s) : at(i) \in 1..Len(bucket) /\ at(i) # n /\ s[i] = bucket[at(i)]
  BY <1>2, <1>3
<1>5. \A i, j \in 1..Len(s) : at(i) = at(j) => i = j
  BY <1>2, <1>3
<1> HIDE DEF s, at
<1>6. s # <<>>
  BY <1>2, <1>3
<1>7. SoundBucket(h, s)
  BY <1>2, <1>4, <1>5, <1>6 DEF SoundBucket
<1>8. ASSUME NEW e \in Entry
      PROVE  (\E i \in 1..Len(s) : s[i] = e) <=> \E j \in 1..Len(bucket) : j # n /\ bucket[j] = e
  BY <1>2, <1>4
<1> QED BY <1>7, <1>8 DEF s

\* Replacing the bucket of a hash by a sound one changes the bindings of the
\* keys with that hash only.
LEMMA ReplaceBucket ==
  ASSUME TypeOK, BucketsSound, NEW h \in Hash, NEW bucket, SoundBucket(h, bucket),
         buckets' = WithBucket(h, bucket)
  PROVE  /\ BucketsSound'
         /\ DOMAIN buckets' \subseteq Hash
         /\ buckets' \in [DOMAIN buckets' -> Seq(Entry)]
         /\ \A x \in Key, w \in Value : Bound(x, w)' <=>
              IF HashOf[x] = h
              THEN \E i \in 1..Len(bucket) : bucket[i] = [key |-> x, value |-> w]
              ELSE Bound(x, w)
<1>1. /\ DOMAIN buckets' = DOMAIN buckets \union {h}
      /\ buckets' \in [DOMAIN buckets' -> Seq(Entry)]
      /\ buckets'[h] = bucket
      /\ \A g \in DOMAIN buckets : g # h => buckets'[g] = buckets[g]
  <2>1. bucket \in Seq(Entry)
    BY DEF SoundBucket
  <2> QED BY <2>1, WithBucketValue
<1>2. DOMAIN buckets' \subseteq Hash
  BY <1>1 DEF TypeOK
<1>3. BucketsSound'
  <2> SUFFICES ASSUME NEW g \in DOMAIN buckets'
               PROVE  /\ buckets'[g] # <<>>
                      /\ \A i \in 1..Len(buckets'[g]) :
                           /\ HashOf[buckets'[g][i].key] = g
                           /\ \A j \in 1..Len(buckets'[g]) :
                                buckets'[g][i].key = buckets'[g][j].key => i = j
    BY DEF BucketsSound
  <2>1. CASE g = h
    BY <1>1, <2>1 DEF SoundBucket
  <2>2. CASE g # h
    BY <1>1, <2>2 DEF BucketsSound
  <2> QED BY <2>1, <2>2
<1>4. ASSUME NEW x \in Key, NEW w \in Value
      PROVE  Bound(x, w)' <=>
               IF HashOf[x] = h
               THEN \E i \in 1..Len(bucket) : bucket[i] = [key |-> x, value |-> w]
               ELSE Bound(x, w)
  <2>1. Bound(x, w)' <=>
          /\ HashOf[x] \in DOMAIN buckets'
          /\ \E i \in 1..Len(buckets'[HashOf[x]]) :
               buckets'[HashOf[x]][i] = [key |-> x, value |-> w]
    BY <1>3, BoundLocalNext
  <2>2. CASE HashOf[x] = h
    BY <1>1, <2>1, <2>2
  <2>3. CASE HashOf[x] # h
    <3>1. HashOf[x] \in DOMAIN buckets' <=> HasBucket(x)
      BY <1>1, <2>3 DEF HasBucket
    <3>2. HasBucket(x) => buckets'[HashOf[x]] = buckets[HashOf[x]]
      BY <1>1, <2>3 DEF HasBucket
    <3> QED BY <2>1, <2>3, <3>1, <3>2, BoundLocal
  <2> QED BY <2>2, <2>3
<1> QED BY <1>1, <1>2, <1>3, <1>4

\* Removing a bucket unbinds the keys with its hash, and no other.
LEMMA RemoveBucket ==
  ASSUME TypeOK, BucketsSound, NEW h \in Hash,
         buckets' = [g \in DOMAIN buckets \ {h} |-> buckets[g]]
  PROVE  /\ BucketsSound'
         /\ DOMAIN buckets' \subseteq Hash
         /\ buckets' \in [DOMAIN buckets' -> Seq(Entry)]
         /\ \A x \in Key, w \in Value : Bound(x, w)' <=> HashOf[x] # h /\ Bound(x, w)
<1>1. DOMAIN buckets' = DOMAIN buckets \ {h}
  OBVIOUS
<1>2. \A g \in DOMAIN buckets' : buckets'[g] = buckets[g]
  OBVIOUS
<1>3. DOMAIN buckets' \subseteq Hash /\ buckets' \in [DOMAIN buckets' -> Seq(Entry)]
  BY <1>1, <1>2 DEF TypeOK
<1>4. BucketsSound'
  BY <1>1, <1>2 DEF BucketsSound
<1>5. ASSUME NEW x \in Key, NEW w \in Value
      PROVE  Bound(x, w)' <=> HashOf[x] # h /\ Bound(x, w)
  <2>1. Bound(x, w)' <=>
          /\ HashOf[x] \in DOMAIN buckets'
          /\ \E i \in 1..Len(buckets'[HashOf[x]]) :
               buckets'[HashOf[x]][i] = [key |-> x, value |-> w]
    BY <1>4, BoundLocalNext
  <2> QED BY <1>1, <1>2, <2>1, BoundLocal DEF HasBucket
<1> QED BY <1>3, <1>4, <1>5

\* set binds the key to the value, and touches no other key.
LEMMA SetBinds ==
  ASSUME TypeOK, BucketsSound, NEW k \in Key, NEW v \in Value, Set(k, v)
  PROVE  /\ BucketsSound'
         /\ DOMAIN buckets' \subseteq Hash
         /\ buckets' \in [DOMAIN buckets' -> Seq(Entry)]
         /\ \A x \in Key, w \in Value :
              Bound(x, w)' <=> IF x = k THEN w = v ELSE Bound(x, w)
<1> DEFINE h == HashOf[k]
           b == buckets[h]
           entry == [key |-> k, value |-> v]
<1>h. h \in Hash /\ entry \in Entry
  BY HashAssumption DEF Entry
<1>1. CASE ~HasBucket(k)
  <2>1. buckets' = WithBucket(h, <<entry>>)
    BY <1>1 DEF Set
  <2>2. SoundBucket(h, <<entry>>)
    BY <1>h DEF SoundBucket
  <2>3. \A x \in Key, w \in Value : HashOf[x] = h => ~Bound(x, w)
    BY <1>1, BoundLocal DEF HasBucket
  <2>4. \A x \in Key, w \in Value :
          (\E i \in 1..Len(<<entry>>) : <<entry>>[i] = [key |-> x, value |-> w])
          <=> x = k /\ w = v
    OBVIOUS
  <2>5. /\ BucketsSound'
        /\ DOMAIN buckets' \subseteq Hash
        /\ buckets' \in [DOMAIN buckets' -> Seq(Entry)]
        /\ \A x \in Key, w \in Value : Bound(x, w)' <=>
             IF HashOf[x] = h
             THEN \E i \in 1..Len(<<entry>>) : <<entry>>[i] = [key |-> x, value |-> w]
             ELSE Bound(x, w)
    BY <1>h, <2>1, <2>2, ReplaceBucket
  <2>6. ASSUME NEW x \in Key, NEW w \in Value
        PROVE  Bound(x, w)' <=> IF x = k THEN w = v ELSE Bound(x, w)
    <3>1. CASE x = k
      BY <2>4, <2>5, <3>1
    <3>2. CASE x # k
      BY <2>3, <2>4, <2>5, <3>2
    <3> QED BY <3>1, <3>2
  <2> QED BY <2>5, <2>6
<1>2. CASE HasBucket(k) /\ Found(k)
  <2> DEFINE n == findIndex(k)
             nb == [b EXCEPT ![n] = entry]
  <2>1. buckets' = WithBucket(h, nb)
    BY <1>2 DEF Set
  <2>2. b \in Seq(Entry) /\ h \in DOMAIN buckets
    BY <1>2 DEF HasBucket, TypeOK
  <2>3. /\ n \in 1..Len(b)
        /\ b[n].key = k
        /\ \A j \in 1..Len(b) : b[j].key = k => j = n
    BY <1>2, FindIndex
  <2>4. nb \in Seq(Entry) /\ Len(nb) = Len(b)
    BY <1>h, <2>2, <2>3
  <2>5. \A i \in 1..Len(b) : nb[i] = IF i = n THEN entry ELSE b[i]
    BY <2>2, <2>3
  <2>6. \A i \in 1..Len(b) : nb[i].key = b[i].key
    BY <2>3, <2>5
  <2>7. SoundBucket(h, nb)
    <3>1. nb # <<>>
      BY <2>2, <2>3, <2>4
    <3> QED BY <2>2, <2>4, <2>6, <3>1 DEF SoundBucket, BucketsSound
  <2>8. ASSUME NEW x \in Key, NEW w \in Value, HashOf[x] = h
        PROVE  (\E i \in 1..Len(nb) : nb[i] = [key |-> x, value |-> w])
               <=> IF x = k THEN w = v ELSE Bound(x, w)
    <3>1. CASE x = k
      BY <2>3, <2>4, <2>5, <3>1
    <3>2. CASE x # k
      <4>1. \A i \in 1..Len(b) : nb[i] = [key |-> x, value |-> w]
                                 <=> b[i] = [key |-> x, value |-> w]
        BY <2>3, <2>5, <3>2
      <4> QED BY <2>2, <2>4, <2>8, <3>2, <4>1, BoundLocal DEF HasBucket
    <3> QED BY <3>1, <3>2
  <2>9. /\ BucketsSound'
        /\ DOMAIN buckets' \subseteq Hash
        /\ buckets' \in [DOMAIN buckets' -> Seq(Entry)]
        /\ \A x \in Key, w \in Value : Bound(x, w)' <=>
             IF HashOf[x] = h
             THEN \E i \in 1..Len(nb) : nb[i] = [key |-> x, value |-> w]
             ELSE Bound(x, w)
    <3> HIDE DEF nb
    <3> QED BY <1>h, <2>1, <2>7, ReplaceBucket
  <2> HIDE DEF nb
  <2>10. ASSUME NEW x \in Key, NEW w \in Value
        PROVE  Bound(x, w)' <=> IF x = k THEN w = v ELSE Bound(x, w)
    <3>1. CASE HashOf[x] = h
      BY <2>8, <2>9, <3>1
    <3>2. CASE HashOf[x] # h
      BY <2>9, <3>2
    <3> QED BY <3>1, <3>2
  <2> QED BY <2>9, <2>10
<1>3. CASE HasBucket(k) /\ ~Found(k)
  <2> DEFINE nb == Append(b, entry)
  <2>1. buckets' = WithBucket(h, nb)
    BY <1>3 DEF Set
  <2>2. b \in Seq(Entry) /\ h \in DOMAIN buckets
    BY <1>3 DEF HasBucket, TypeOK
  <2>3. \A i \in 1..Len(b) : b[i].key # k
    BY <1>3 DEF Found, positions
  <2>4. /\ nb \in Seq(Entry) /\ Len(nb) = Len(b) + 1 /\ nb # <<>>
        /\ nb[Len(b) + 1] = entry
        /\ \A i \in 1..Len(b) : nb[i] = b[i]
    BY <1>h, <2>2
  <2>5. SoundBucket(h, nb)
    BY <2>2, <2>3, <2>4 DEF SoundBucket, BucketsSound
  <2>6. ASSUME NEW x \in Key, NEW w \in Value, HashOf[x] = h
        PROVE  (\E i \in 1..Len(nb) : nb[i] = [key |-> x, value |-> w])
               <=> IF x = k THEN w = v ELSE Bound(x, w)
    <3>1. Len(b) \in Nat /\ 1..Len(nb) = 1..Len(b) \union {Len(b) + 1}
      BY <2>2, <2>4
    <3>2. (\E i \in 1..Len(nb) : nb[i] = [key |-> x, value |-> w])
          <=> \/ \E i \in 1..Len(b) : b[i] = [key |-> x, value |-> w]
              \/ x = k /\ w = v
      BY <2>4, <3>1
    <3>3. x = k => ~\E i \in 1..Len(b) : b[i] = [key |-> x, value |-> w]
      BY <2>3
    <3> QED BY <2>2, <2>6, <3>2, <3>3, BoundLocal DEF HasBucket
  <2>7. /\ BucketsSound'
        /\ DOMAIN buckets' \subseteq Hash
        /\ buckets' \in [DOMAIN buckets' -> Seq(Entry)]
        /\ \A x \in Key, w \in Value : Bound(x, w)' <=>
             IF HashOf[x] = h
             THEN \E i \in 1..Len(nb) : nb[i] = [key |-> x, value |-> w]
             ELSE Bound(x, w)
    <3> HIDE DEF nb
    <3> QED BY <1>h, <2>1, <2>5, ReplaceBucket
  <2> HIDE DEF nb
  <2>8. ASSUME NEW x \in Key, NEW w \in Value
        PROVE  Bound(x, w)' <=> IF x = k THEN w = v ELSE Bound(x, w)
    <3>1. CASE HashOf[x] = h
      BY <2>6, <2>7, <3>1
    <3>2. CASE HashOf[x] # h
      BY <2>7, <3>2
    <3> QED BY <3>1, <3>2
  <2> QED BY <2>7, <2>8
<1> QED BY <1>1, <1>2, <1>3

\* delete removes the entry find returned, and unbinds no other key.
LEMMA DeleteUnbinds ==
  ASSUME TypeOK, BucketsSound, NEW k \in Key, Found(k),
         buckets' = WithoutEntry(HashOf[k], findIndex(k))
  PROVE  /\ BucketsSound'
         /\ DOMAIN buckets' \subseteq Hash
         /\ buckets' \in [DOMAIN buckets' -> Seq(Entry)]
         /\ \A x \in Key, w \in Value : Bound(x, w)' <=> x # k /\ Bound(x, w)
<1> DEFINE h == HashOf[k]
           b == buckets[h]
           n == findIndex(k)
           nb == Splice(b, n)
<1>h. h \in Hash
  BY HashAssumption
<1>1. b \in Seq(Entry) /\ h \in DOMAIN buckets
  BY DEF Found, HasBucket, TypeOK
<1>2. /\ n \in 1..Len(b)
      /\ b[n].key = k
      /\ \A j \in 1..Len(b) : b[j].key = k => j = n
  BY FindIndex
<1>3. ASSUME NEW x \in Key, NEW w \in Value, HashOf[x] = h
      PROVE  Bound(x, w) <=> \E i \in 1..Len(b) : b[i] = [key |-> x, value |-> w]
  BY <1>1, <1>3, BoundLocal DEF HasBucket
<1>6. /\ Len(b) \in Nat
      /\ \A i \in 1..Len(b) : HashOf[b[i].key] = h
      /\ \A i, j \in 1..Len(b) : b[i].key = b[j].key => i = j
  BY <1>1 DEF BucketsSound
<1>4. CASE Len(b) = 1
  <2>1. buckets' = [g \in DOMAIN buckets \ {h} |-> buckets[g]]
    BY <1>4 DEF WithoutEntry
  <2>2. /\ BucketsSound'
        /\ DOMAIN buckets' \subseteq Hash
        /\ buckets' \in [DOMAIN buckets' -> Seq(Entry)]
        /\ \A x \in Key, w \in Value : Bound(x, w)' <=> HashOf[x] # h /\ Bound(x, w)
    BY <1>h, <2>1, RemoveBucket
  <2>3. ASSUME NEW x \in Key, NEW w \in Value, HashOf[x] = h, x # k
        PROVE  ~Bound(x, w)
    <3>1. \A i \in 1..Len(b) : b[i].key = k
      BY <1>2, <1>4
    <3>2. \A i \in 1..Len(b) : b[i] # [key |-> x, value |-> w]
      BY <2>3, <3>1
    <3> QED BY <1>3, <2>3, <3>2
  <2>4. ASSUME NEW x \in Key, NEW w \in Value
        PROVE  Bound(x, w)' <=> x # k /\ Bound(x, w)
    <3>1. Bound(x, w)' <=> HashOf[x] # h /\ Bound(x, w)
      BY <2>2
    <3> QED BY <3>1, <2>3
  <2> QED BY <2>2, <2>4
<1>5. CASE Len(b) # 1
  <2>1. buckets' = WithBucket(h, nb)
    BY <1>5 DEF WithoutEntry
  <2>2. SoundBucket(h, b)
    BY <1>1, <1>2, <1>6 DEF SoundBucket
  <2>3. /\ SoundBucket(h, nb)
        /\ \A e \in Entry : (\E i \in 1..Len(nb) : nb[i] = e)
                            <=> \E j \in 1..Len(b) : j # n /\ b[j] = e
    <3> HIDE DEF b, n
    <3> QED BY <1>2, <1>5, <2>2, SpliceSound
  <2>4. /\ BucketsSound'
        /\ DOMAIN buckets' \subseteq Hash
        /\ buckets' \in [DOMAIN buckets' -> Seq(Entry)]
        /\ \A x \in Key, w \in Value : Bound(x, w)' <=>
             IF HashOf[x] = h
             THEN \E i \in 1..Len(nb) : nb[i] = [key |-> x, value |-> w]
             ELSE Bound(x, w)
    <3> HIDE DEF nb
    <3> QED BY <1>h, <2>1, <2>3, ReplaceBucket
  <2>5. ASSUME NEW x \in Key, NEW w \in Value, HashOf[x] = h
        PROVE  (\E i \in 1..Len(nb) : nb[i] = [key |-> x, value |-> w])
               <=> x # k /\ Bound(x, w)
    <3> DEFINE e == [key |-> x, value |-> w]
    <3>1. e \in Entry /\ e.key = x
      BY DEF Entry
    <3>2. (\E i \in 1..Len(nb) : nb[i] = e) <=> \E j \in 1..Len(b) : j # n /\ b[j] = e
      BY <2>3, <3>1
    <3>3. \A j \in 1..Len(b) : b[j] = e => (j = n <=> x = k)
      BY <1>2, <3>1
    <3>4. Bound(x, w) <=> \E j \in 1..Len(b) : b[j] = e
      BY <1>3, <2>5
    <3> HIDE DEF e, b, n, nb
    <3>5. (\E i \in 1..Len(nb) : nb[i] = e) <=> x # k /\ Bound(x, w)
      BY <3>2, <3>3, <3>4
    <3> QED BY <3>5 DEF e
  <2>6. ASSUME NEW x \in Key, NEW w \in Value
        PROVE  Bound(x, w)' <=> x # k /\ Bound(x, w)
    <3>1. CASE HashOf[x] = h
      BY <2>4, <2>5, <3>1
    <3>2. CASE HashOf[x] # h
      BY <2>4, <3>2
    <3> QED BY <3>1, <3>2
  <2> QED BY <2>4, <2>6
<1> QED BY <1>4, <1>5

-----------------------------------------------------------------------------
(***************************************************************************)
(* What each operation does to the content, and to the counter.            *)
(***************************************************************************)
LookupAll ==
  \A k \in Key :
    /\ \A v \in Value : Bound(k, v) => Lookup(k) = v
    /\ (\A v \in Value : ~Bound(k, v)) => Lookup(k) = undefined
    /\ Lookup(k) \in Value \union {undefined}
    /\ Found(k) <=> Lookup(k) # undefined
    /\ Found(k) => Lookup(k) = buckets[HashOf[k]][findIndex(k)].value

LEMMA LookupInv == TypeOK /\ BucketsSound => LookupAll
BY LookupBound DEF LookupAll

LEMMA BucketsOnly ==
  ASSUME TypeOK, BucketsSound
  PROVE  LookupAll /\ contentBar \in [Key -> Value \union {undefined}]
BY LookupInv DEF LookupAll, contentBar

\* The same of the next state, for any size.
LEMMA LookupInvNext ==
  (TypeOK /\ BucketsSound)' => LookupAll'
BY LookupInv, PTL

LEMMA SetContent ==
  ASSUME TypeOK, BucketsSound, NEW k \in Key, NEW v \in Value, Set(k, v)
  PROVE  /\ TypeOK' /\ BucketsSound'
         /\ contentBar' = [contentBar EXCEPT ![k] = v]
         /\ size' = IF contentBar[k] = undefined THEN size + 1 ELSE size
<1>1. /\ BucketsSound'
      /\ DOMAIN buckets' \subseteq Hash
      /\ buckets' \in [DOMAIN buckets' -> Seq(Entry)]
      /\ \A x \in Key, w \in Value :
           Bound(x, w)' <=> IF x = k THEN w = v ELSE Bound(x, w)
  BY SetBinds
<1>2. LookupAll
  BY BucketsOnly
<1>3. size' = IF contentBar[k] = undefined THEN size + 1 ELSE size
  BY <1>2 DEF Set, countsNew, LookupAll, contentBar, TypeOK
<1>4. TypeOK'
  BY <1>1, <1>3 DEF TypeOK
<1>5. LookupAll'
  BY <1>1, <1>4, LookupInvNext
<1>6. ASSUME NEW x \in Key
      PROVE  Lookup(x)' = IF x = k THEN v ELSE Lookup(x)
  <2>1. CASE x = k
    BY <1>1, <1>5, <2>1 DEF LookupAll
  <2>2. CASE x # k /\ \E w \in Value : Bound(x, w)
    BY <1>1, <1>2, <1>5, <2>2 DEF LookupAll
  <2>3. CASE x # k /\ \A w \in Value : ~Bound(x, w)
    BY <1>1, <1>2, <1>5, <2>3 DEF LookupAll
  <2> QED BY <2>1, <2>2, <2>3
<1>7. contentBar' = [contentBar EXCEPT ![k] = v]
  BY <1>6 DEF contentBar
<1> QED BY <1>1, <1>3, <1>4, <1>7

LEMMA DeleteContent ==
  ASSUME TypeOK, BucketsSound, NEW k \in Key, Found(k),
         buckets' = WithoutEntry(HashOf[k], findIndex(k))
  PROVE  /\ BucketsSound'
         /\ DOMAIN buckets' \subseteq Hash
         /\ buckets' \in [DOMAIN buckets' -> Seq(Entry)]
         /\ size' \in Nat => contentBar' = [contentBar EXCEPT ![k] = undefined]
<1>1. /\ BucketsSound'
      /\ DOMAIN buckets' \subseteq Hash
      /\ buckets' \in [DOMAIN buckets' -> Seq(Entry)]
      /\ \A x \in Key, w \in Value : Bound(x, w)' <=> x # k /\ Bound(x, w)
  BY DeleteUnbinds
<1>2. LookupAll
  BY BucketsOnly
<1>3. ASSUME size' \in Nat
      PROVE  contentBar' = [contentBar EXCEPT ![k] = undefined]
  <2>1. TypeOK'
    BY <1>1, <1>3 DEF TypeOK
  <2>2. LookupAll'
    BY <1>1, <2>1, LookupInvNext
  <2>3. ASSUME NEW x \in Key
        PROVE  Lookup(x)' = IF x = k THEN undefined ELSE Lookup(x)
    <3>1. CASE x = k
      BY <1>1, <2>2, <3>1 DEF LookupAll
    <3>2. CASE x # k /\ \E w \in Value : Bound(x, w)
      BY <1>1, <1>2, <2>2, <3>2 DEF LookupAll
    <3>3. CASE x # k /\ \A w \in Value : ~Bound(x, w)
      BY <1>1, <1>2, <2>2, <3>3 DEF LookupAll
    <3> QED BY <3>1, <3>2, <3>3
  <2> QED BY <2>3 DEF contentBar
<1> QED BY <1>1, <1>3

\* A map without buckets binds nothing.
LEMMA EmptyContent ==
  buckets = EmptyBuckets =>
    /\ BucketsSound
    /\ DOMAIN buckets \subseteq Hash
    /\ buckets \in [DOMAIN buckets -> Seq(Entry)]
    /\ contentBar = [k \in Key |-> undefined]
<1> SUFFICES ASSUME buckets = EmptyBuckets
             PROVE  /\ BucketsSound
                    /\ DOMAIN buckets \subseteq Hash
                    /\ buckets \in [DOMAIN buckets -> Seq(Entry)]
                    /\ contentBar = [k \in Key |-> undefined]
  OBVIOUS
<1>1. DOMAIN buckets = {}
  BY DEF EmptyBuckets
<1>2. \A k \in Key : Lookup(k) = undefined
  BY <1>1 DEF Lookup, Bound
<1> QED BY <1>1, <1>2 DEF BucketsSound, contentBar, EmptyBuckets

LEMMA EmptyContentNext ==
  (buckets = EmptyBuckets)' =>
    (/\ BucketsSound
     /\ DOMAIN buckets \subseteq Hash
     /\ buckets \in [DOMAIN buckets -> Seq(Entry)]
     /\ contentBar = [k \in Key |-> undefined])'
BY EmptyContent, PTL

\* Reading the counter and the buckets changes neither.
LEMMA ReadOnly ==
  ASSUME IInv, UNCHANGED <<buckets, size>>
  PROVE  IInv' /\ UNCHANGED contentBar
BY DEF IInv, TypeOK, BucketsSound, keysHeld, SizeCounts, contentBar, Lookup, Bound

-----------------------------------------------------------------------------
LEMMA InitIInv == Init => IInv
<1> SUFFICES ASSUME Init PROVE IInv
  OBVIOUS
<1>1. /\ BucketsSound
      /\ DOMAIN buckets \subseteq Hash
      /\ buckets \in [DOMAIN buckets -> Seq(Entry)]
      /\ contentBar = [k \in Key |-> undefined]
  BY EmptyContent DEF Init
<1>2. keysHeld = {}
  BY <1>1 DEF keysHeld
<1> QED BY <1>1, <1>2, FS_EmptySet DEF IInv, Init, TypeOK, SizeCounts, keysHeld

\* set, delete and clear keep the counter in step with the keys held.
LEMMA NextIInv == IInv /\ [Next]_vars => IInv'
<1> SUFFICES ASSUME IInv, [Next]_vars PROVE IInv'
  OBVIOUS
<1> USE DEF IInv
<1>1. ASSUME NEW k \in Key, NEW v \in Value, Set(k, v)
      PROVE  IInv'
  <2>1. /\ TypeOK' /\ BucketsSound'
        /\ contentBar' = [contentBar EXCEPT ![k] = v]
        /\ size' = IF contentBar[k] = undefined THEN size + 1 ELSE size
    BY <1>1, SetContent
  <2>2. contentBar \in [Key -> Value \union {undefined}]
    BY BucketsOnly
  <2>3. keysHeld' = keysHeld \union {k}
    BY <2>1, <2>2, HashAssumption DEF keysHeld
  <2>4. IsFiniteSet(keysHeld') /\ Cardinality(keysHeld') =
          IF k \in keysHeld THEN Cardinality(keysHeld) ELSE Cardinality(keysHeld) + 1
    BY <2>3, FS_AddElement
  <2>5. size' = Cardinality(keysHeld')
    BY <2>1, <2>4 DEF keysHeld, SizeCounts
  <2> QED BY <2>1, <2>4, <2>5 DEF keysHeld, SizeCounts
<1>2. ASSUME NEW k \in Key, Delete(k), Found(k)
      PROVE  IInv'
  <2>1. buckets' = WithoutEntry(HashOf[k], findIndex(k)) /\ size' = size - 1
    BY <1>2 DEF Delete
  <2>2. /\ BucketsSound'
        /\ DOMAIN buckets' \subseteq Hash
        /\ buckets' \in [DOMAIN buckets' -> Seq(Entry)]
        /\ size' \in Nat => contentBar' = [contentBar EXCEPT ![k] = undefined]
    BY <1>2, <2>1, DeleteContent
  <2>3. contentBar \in [Key -> Value \union {undefined}] /\ k \in keysHeld
    BY <1>2, BucketsOnly DEF LookupAll, keysHeld, contentBar
  <2>4. IsFiniteSet(keysHeld \ {k}) /\ Cardinality(keysHeld \ {k}) = Cardinality(keysHeld) - 1
    BY <2>3, FS_RemoveElement
  <2>5. size' \in Nat
    BY <2>1, <2>4, FS_CardinalityType DEF SizeCounts, keysHeld
  <2>6. keysHeld' = keysHeld \ {k}
    BY <2>2, <2>3, <2>5 DEF keysHeld
  <2> QED BY <2>1, <2>2, <2>4, <2>5, <2>6 DEF TypeOK, SizeCounts, keysHeld
<1>3. ASSUME NEW k \in Key, Delete(k), ~Found(k)
      PROVE  IInv'
  BY <1>3, ReadOnly DEF Delete
<1>4. ASSUME Clear
      PROVE  IInv'
  <2>1. /\ BucketsSound'
        /\ DOMAIN buckets' \subseteq Hash
        /\ buckets' \in [DOMAIN buckets' -> Seq(Entry)]
        /\ contentBar' = [k \in Key |-> undefined]
    BY <1>4, EmptyContentNext DEF Clear
  <2>2. keysHeld' = {}
    BY <2>1 DEF keysHeld
  <2> QED BY <1>4, <2>1, <2>2, FS_EmptySet DEF Clear, TypeOK, SizeCounts, keysHeld
<1>5. CASE \/ \E k \in Key : Get(k) \/ Has(k)
           \/ Size \/ IsEmpty \/ UNCHANGED vars
  BY <1>5, ReadOnly DEF Get, Has, Size, IsEmpty, vars
<1> QED BY <1>1, <1>2, <1>3, <1>4, <1>5 DEF Next

\* IInv holds after every sequence of calls: the three facts below need one
\* another, since a key held twice would be counted twice.
THEOREM Invariance == Spec => []IInv
BY InitIInv, NextIInv, PTL DEF Spec

\* The state of the map and the answers of its methods keep their shape.
THEOREM TypeCorrect == Spec => []TypeOK
<1>1. IInv => TypeOK
  BY DEF IInv
<1> QED BY <1>1, Invariance, PTL

\* Every entry stays in the bucket of its key's hash, once, and no bucket is
\* left empty (PubkeyHashMap, src/utils/pubkey.ts), along every sequence of calls.
THEOREM BucketsStaySound == Spec => []BucketsSound
<1>1. IInv => BucketsSound
  BY DEF IInv
<1> QED BY <1>1, Invariance, PTL

\* The counter that is kept beside the buckets never drifts from the number of
\* keys that are held, whichever keys collide, repeat or are missing.
THEOREM SizeAlwaysCounts == Spec => []SizeCounts
<1>1. IInv => SizeCounts
  BY DEF IInv
<1> QED BY <1>1, Invariance, PTL

\* Whatever the calls and the collisions, PubkeyHashMap answers what the map
\* of its entries answers.
THEOREM HashMapImplementsMap == Spec => MapSpec
<1>1. Init => Map!Init
  BY EmptyContent DEF Init, Map!Init
<1>2. ASSUME IInv, [Next]_vars
      PROVE  [Map!Next]_Map!mapVars
  <2> USE <1>2 DEF IInv
  <2>0. /\ LookupAll
        /\ contentBar \in [Key -> Value \union {undefined}]
        /\ Map!present = keysHeld
        /\ \A k \in Key : Found(k) <=> k \in keysHeld
    BY BucketsOnly DEF LookupAll, Map!present, keysHeld, contentBar
  <2>1. ASSUME NEW k \in Key, NEW v \in Value, Set(k, v)
        PROVE  Map!Set(k, v)
    BY <2>1, SetContent DEF Set, Map!Set
  <2>2. ASSUME NEW k \in Key, Get(k)
        PROVE  Map!Get(k)
    <3>1. UNCHANGED contentBar
      BY <2>2, ReadOnly DEF Get
    <3>2. contentBar[k] = IF Found(k) THEN buckets[HashOf[k]][findIndex(k)].value
                          ELSE undefined
      BY <2>0 DEF LookupAll, contentBar
    <3> QED BY <2>2, <3>1, <3>2 DEF Get, Map!Get
  <2>3. ASSUME NEW k \in Key, Has(k)
        PROVE  Map!Has(k)
    <3>1. UNCHANGED contentBar
      BY <2>3, ReadOnly DEF Has
    <3>2. Found(k) = (k \in keysHeld)
      <4>1. Found(k) \in BOOLEAN /\ (k \in keysHeld) \in BOOLEAN
        BY DEF Found
      <4>2. Found(k) <=> k \in keysHeld
        BY <2>0
      <4> QED BY <4>1, <4>2
    <3> QED BY <2>0, <2>3, <3>1, <3>2 DEF Has, Map!Has
  <2>4. ASSUME NEW k \in Key, Delete(k)
        PROVE  Map!Delete(k)
    <3>1. CASE Found(k)
      <4>1. IInv'
        BY NextIInv, <2>4 DEF Next
      <4>2. contentBar' = [contentBar EXCEPT ![k] = undefined]
        BY <2>4, <3>1, <4>1, DeleteContent DEF Delete, TypeOK
      <4>3. (k \in keysHeld) = TRUE
        BY <2>0, <3>1
      <4> QED BY <2>0, <2>4, <3>1, <4>2, <4>3 DEF Delete, Map!Delete
    <3>2. CASE ~Found(k)
      <4>1. UNCHANGED contentBar
        BY <2>4, <3>2, ReadOnly DEF Delete
      <4>2. (k \in keysHeld) = FALSE /\ contentBar[k] = undefined
        BY <2>0, <3>2 DEF keysHeld
      <4>3. contentBar = [contentBar EXCEPT ![k] = undefined]
        BY <2>0, <4>2
      <4> QED BY <2>0, <2>4, <3>2, <4>1, <4>2, <4>3 DEF Delete, Map!Delete
    <3> QED BY <3>1, <3>2
  <2>5. ASSUME Clear
        PROVE  Map!Clear
    BY <2>5, EmptyContentNext DEF Clear, Map!Clear
  <2>6. ASSUME Size
        PROVE  Map!Size
    <3>1. UNCHANGED contentBar
      BY <2>6, ReadOnly DEF Size
    <3>2. \A S : Map!Cardinality(S) = Cardinality(S)
      BY DEF Map!Cardinality, Cardinality
    <3> QED BY <2>0, <2>6, <3>1, <3>2 DEF Size, Map!Size, SizeCounts, keysHeld
  <2>7. ASSUME IsEmpty
        PROVE  Map!IsEmpty
    <3>1. UNCHANGED contentBar
      BY <2>7, ReadOnly DEF IsEmpty
    <3>2. (size = 0) = (keysHeld = {})
      BY FS_EmptySet DEF SizeCounts, keysHeld
    <3> QED BY <2>0, <2>7, <3>1, <3>2 DEF IsEmpty, Map!IsEmpty
  <2>8. ASSUME UNCHANGED vars
        PROVE  UNCHANGED Map!mapVars
    BY <2>8, ReadOnly DEF vars, Map!mapVars
  <2> QED BY <2>1, <2>2, <2>3, <2>4, <2>5, <2>6, <2>7, <2>8 DEF Next, Map!Next
<1> QED BY <1>1, <1>2, Invariance, PTL DEF Spec, MapSpec, Map!Spec

===============================================================================
