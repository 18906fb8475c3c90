------------------------------ MODULE PubkeyMap ------------------------------
(***************************************************************************)
(* What PubkeyHashMap of src/utils/pubkey.ts promises by implementing      *)
(* Map<K, V>: a finite map from public keys, compared by equals, whose     *)
(* every reply is determined by its content.                               *)
(***************************************************************************)
EXTENDS Integers, FiniteSets

CONSTANTS
  Key,
  Value,
  undefined   \* not a value, as PubkeyHashMap assumes

VARIABLES
  content,   \* the value of each key, undefined for a key not in the map
  reply      \* the last operation and what it returned

mapVars == <<content, reply>>

present == {k \in Key : content[k] # undefined}

Init ==
  /\ content = [k \in Key |-> undefined]
  /\ reply = <<"constructor", undefined>>

Set(k, v) ==
  /\ content' = [content EXCEPT ![k] = v]
  /\ reply' = <<"set", undefined>>

Get(k) ==
  /\ reply' = <<"get", content[k]>>
  /\ UNCHANGED content

Has(k) ==
  /\ reply' = <<"has", k \in present>>
  /\ UNCHANGED content

Delete(k) ==
  /\ reply' = <<"delete", k \in present>>
  /\ content' = [content EXCEPT ![k] = undefined]

Clear ==
  /\ content' = [k \in Key |-> undefined]
  /\ reply' = <<"clear", undefined>>

Size ==
  /\ reply' = <<"size", Cardinality(present)>>
  /\ UNCHANGED content

IsEmpty ==
  /\ reply' = <<"isEmpty", present = {}>>
  /\ UNCHANGED content

Next ==
  \/ \E k \in Key, v \in Value : Set(k, v)
  \/ \E k \in Key : Get(k) \/ Has(k) \/ Delete(k)
  \/ Clear
  \/ Size
  \/ IsEmpty

Spec == Init /\ [][Next]_mapVars

==============================================================================
