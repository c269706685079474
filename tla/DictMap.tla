------------------------------ MODULE DictMap -------------------------------
(***************************************************************************)
(* What an object of include/dict.h promises its users: a finite map from  *)
(* keys to values that changes one key at a time.                          *)
(***************************************************************************)
CONSTANTS Keys, Values

VARIABLE map   \* a function from the keys present to their values

Init == map = [k \in {} |-> k]

Put(k, v) == map' = [x \in DOMAIN map \cup {k} |-> IF x = k THEN v ELSE map[x]]

Delete(k) == map' = [x \in DOMAIN map \ {k} |-> map[x]]

Clear == map' = [k \in {} |-> k]

Next ==
  \/ \E k \in Keys, v \in Values : Put(k, v)
  \/ \E k \in Keys : Delete(k)
  \/ Clear

Spec == Init /\ [][Next]_map
=============================================================================
