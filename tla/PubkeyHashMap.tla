---------------------------- MODULE PubkeyHashMap ----------------------------
(***************************************************************************)
(* PubkeyHashMap of src/utils/pubkey.ts: buckets of entries by the hash of *)
(* the last 32 bits of the key, and a counter kept beside them.  Keys that *)
(* share those bits share a bucket, so HashOf is any function.             *)
(***************************************************************************)
EXTENDS Integers, Sequences, FiniteSets

CONSTANTS
  Key, Value, undefined,
  Hash,
  HashOf        \* HashablePublicKey.hashCode

ASSUME HashAssumption ==
  /\ undefined \notin Value
  /\ HashOf \in [Key -> Hash]

VARIABLES
  buckets,      \* a function on the hashes that have a bucket
  size,
  reply

vars == <<buckets, size, reply>>

Entry == [key : Key, value : Value]

TypeOK ==
  /\ DOMAIN buckets \subseteq Hash
  /\ buckets \in [DOMAIN buckets -> Seq(Entry)]
  /\ size \in Nat

EmptyBuckets == [h \in {} |-> <<>>]

Init ==
  /\ buckets = EmptyBuckets
  /\ size = 0
  /\ reply = <<"constructor", undefined>>

-----------------------------------------------------------------------------
HasBucket(k) == HashOf[k] \in DOMAIN buckets

positions(k) ==
  LET bucket == buckets[HashOf[k]]
  IN  {i \in 1..Len(bucket) : bucket[i].key = k}

\* bucket.find and bucket.findIndex: the first entry whose key equals k.
Found(k) == HasBucket(k) /\ positions(k) # {}
findIndex(k) == CHOOSE i \in positions(k) : \A j \in positions(k) : i <= j

WithBucket(h, bucket) ==
  [g \in DOMAIN buckets \union {h} |-> IF g = h THEN bucket ELSE buckets[g]]

\* Mutant: a key whose bucket exists is taken for a known key.
countsOnlyBuckets(k) == IF HasBucket(k) THEN 0 ELSE 1

\* 1 for a key that was not in the map.
countsNew(k) == IF Found(k) THEN 0 ELSE 1

Set(k, v) ==
  LET h == HashOf[k]
      entry == [key |-> k, value |-> v]
  IN  /\ buckets' = IF ~HasBucket(k) THEN WithBucket(h, <<entry>>)
                    ELSE IF Found(k) THEN WithBucket(h, [buckets[h] EXCEPT ![findIndex(k)] = entry])
                    ELSE WithBucket(h, Append(buckets[h], entry))
      /\ size' = size + countsNew(k)
      /\ reply' = <<"set", undefined>>

Get(k) ==
  /\ reply' = <<"get", IF Found(k) THEN buckets[HashOf[k]][findIndex(k)].value
                       ELSE undefined>>
  /\ UNCHANGED <<buckets, size>>

Has(k) ==
  /\ reply' = <<"has", Found(k)>>
  /\ UNCHANGED <<buckets, size>>

\* Array.splice(n, 1)
Splice(bucket, n) ==
  [i \in 1..(Len(bucket) - 1) |-> IF i < n THEN bucket[i] ELSE bucket[i + 1]]

\* Mutant: the emptied bucket stays, and an emptied map too.
WithoutEntryOnly(h, n) == WithBucket(h, Splice(buckets[h], n))

\* Mutant: the whole bucket goes with its first entry.
WithoutBucket(h, n) == [g \in DOMAIN buckets \ {h} |-> buckets[g]]

\* An emptied bucket is removed.
WithoutEntry(h, n) ==
  IF Len(buckets[h]) = 1 THEN [g \in DOMAIN buckets \ {h} |-> buckets[g]]
  ELSE WithBucket(h, Splice(buckets[h], n))

Delete(k) ==
  IF Found(k)
  THEN /\ buckets' = WithoutEntry(HashOf[k], findIndex(k))
       /\ size' = size - 1
       /\ reply' = <<"delete", TRUE>>
  ELSE /\ reply' = <<"delete", FALSE>>
       /\ UNCHANGED <<buckets, size>>

Clear ==
  /\ buckets' = EmptyBuckets
  /\ size' = 0
  /\ reply' = <<"clear", undefined>>

Size ==
  /\ reply' = <<"size", size>>
  /\ UNCHANGED <<buckets, size>>

IsEmpty ==
  /\ reply' = <<"isEmpty", size = 0>>
  /\ UNCHANGED <<buckets, size>>

Next ==
  \/ \E k \in Key, v \in Value : Set(k, v)
  \/ \E k \in Key : Get(k) \/ Has(k) \/ Delete(k)
  \/ Clear
  \/ Size
  \/ IsEmpty

Spec == Init /\ [][Next]_vars

-----------------------------------------------------------------------------
\* Every entry is in the bucket its key hashes to, at one place only, and no
\* bucket is empty: what makes find and the removal of one entry correct.
BucketsSound ==
  \A h \in DOMAIN buckets :
    /\ buckets[h] # <<>>
    /\ \A i \in 1..Len(buckets[h]) :
         /\ HashOf[buckets[h][i].key] = h
         /\ \A j \in 1..Len(buckets[h]) : buckets[h][i].key = buckets[h][j].key => i = j

\* k is bound to v by some entry, wherever it is.
Bound(k, v) ==
  \E h \in DOMAIN buckets : \E i \in 1..Len(buckets[h]) :
    buckets[h][i] = [key |-> k, value |-> v]

Lookup(k) ==
  IF \E v \in Value : Bound(k, v) THEN CHOOSE v \in Value : Bound(k, v) ELSE undefined

contentBar == [k \in Key |-> Lookup(k)]

\* The counter is the number of keys, however they collide and however often
\* they were set, deleted and set again: size and isEmpty are read from it.
SizeCounts == size = Cardinality({k \in Key : contentBar[k] # undefined})

\* The buckets and the counter implement the map: each operation answers what
\* a map with the entries of all the buckets answers.
Map == INSTANCE PubkeyMap WITH content <- contentBar

MapSpec == Map!Spec

==============================================================================
