-------------------------------- MODULE Lists --------------------------------
(***************************************************************************)
(* Lists that are built by walking another list.                           *)
(***************************************************************************)
EXTENDS Integers, SequencesExt

\* The elements of s at the positions in I, in their order.
pick(s, I) == FlattenSeq([i \in DOMAIN s |-> IF i \in I THEN <<s[i]>> ELSE <<>>])

\* PublicKeySet: the positions where an element occurs first.
firsts(s) == {i \in DOMAIN s : \A j \in 1..(i - 1) : s[j] # s[i]}
distinct(s) == pick(s, firsts(s))

==============================================================================
