----------------------------- MODULE DictObject -----------------------------
(***************************************************************************)
(* The object of include/dict.h: an unordered array of key/value pairs     *)
(* with a capacity that grows by doubling.  An object value is             *)
(*   [type |-> "object", pairs |-> <<[key, value], ...>>, capacity |-> n]  *)
(* and every key is a sequence of characters.  malloc and realloc may fail:*)
(* an operation is given the number of allocations that still succeed      *)
(* (fuel) and returns what is left of it.                                  *)
(***************************************************************************)
EXTENDS Integers, Sequences

CONSTANTS
  InitCap,    \* pairs a new object has room for (4 in dict_object_init)
  MaxKeyLen   \* keys this long are refused (MAX_KEY_LEN)

ASSUME DictAssumption == InitCap \in Nat \ {0} /\ MaxKeyLen \in Nat

Larger(a, b) == IF a < b THEN b ELSE a

EmptyObject == [type |-> "object", pairs |-> <<>>, capacity |-> InitCap]

(* dict_object_find_key: the index of the pair, 0 for (size_t)-1. *)
dict_object_find_key(o, key) ==
  IF \E i \in DOMAIN o.pairs : o.pairs[i].key = key
  THEN CHOOSE i \in DOMAIN o.pairs :
         /\ o.pairs[i].key = key
         /\ \A j \in 1 .. i - 1 : o.pairs[j].key # key
  ELSE 0

dict_object_ensure_capacity(o, n, fuel) ==
  IF n <= o.capacity THEN [ok |-> TRUE, obj |-> o, fuel |-> fuel]
  ELSE IF fuel = 0   THEN [ok |-> FALSE, obj |-> o, fuel |-> 0]
  ELSE [ok   |-> TRUE,
        obj  |-> [o EXCEPT !.capacity = Larger(2 * @, n)],
        fuel |-> fuel - 1]

(* Mutant: the pair is written before the array is grown. *)
InsertPairNoRoom(o, key, val, fuel) ==
  IF fuel = 0 THEN [ok |-> FALSE, obj |-> o, fuel |-> 0]
  ELSE [ok   |-> TRUE,
        obj  |-> [o EXCEPT !.pairs = Append(@, [key |-> key, value |-> val])],
        fuel |-> fuel - 1]

(* What a new pair needs: room for it, then a copy of its key. *)
InsertPair(o, key, val, fuel) ==
  LET room == dict_object_ensure_capacity(o, Len(o.pairs) + 1, fuel)
  IN  IF room.ok /\ room.fuel > 0
      THEN [ok   |-> TRUE,
            obj  |-> [room.obj EXCEPT !.pairs = Append(@, [key |-> key, value |-> val])],
            fuel |-> room.fuel - 1]
      ELSE [ok |-> FALSE, obj |-> room.obj, fuel |-> 0]

(* dict_object_set: an empty or oversized key is refused, an existing key   *)
(* keeps its place and gets the new value, the old one being released.      *)
dict_object_set(o, key, val, fuel) ==
  LET idx == dict_object_find_key(o, key)
  IN  IF Len(key) = 0 \/ Len(key) >= MaxKeyLen
      THEN [ok |-> FALSE, obj |-> o, fuel |-> fuel]
      ELSE IF idx # 0
      THEN [ok |-> TRUE, obj |-> [o EXCEPT !.pairs[idx].value = val], fuel |-> fuel]
      ELSE InsertPair(o, key, val, fuel)

(* dict_object_get; found is FALSE for NULL. *)
dict_object_get(o, key) ==
  LET idx == dict_object_find_key(o, key)
  IN  IF idx = 0 THEN [found |-> FALSE]
      ELSE [found |-> TRUE, value |-> o.pairs[idx].value]

(* Mutant: the gap is closed by forgetting the last pair. *)
RemoveLast(o, key) ==
  IF dict_object_find_key(o, key) = 0 THEN o
  ELSE [o EXCEPT !.pairs = SubSeq(@, 1, Len(@) - 1)]

(* dict_object_remove: the last pair moves into the gap. *)
dict_object_remove(o, key) ==
  LET idx  == dict_object_find_key(o, key)
      last == Len(o.pairs)
  IN  IF idx = 0 THEN o
      ELSE [o EXCEPT !.pairs = [i \in 1 .. last - 1 |->
                                  IF i = idx THEN @[last] ELSE @[i]]]

Slash == 47   \* separates the keys of a path

(* Mutant: the next segment starts at the slash. *)
SegmentFromSlash(path, i) ==
  LET ends == {1} \cup {j \in 1 .. i - 1 : path[j] = Slash}
  IN  SubSeq(path, CHOOSE j \in ends : \A k \in ends : k <= j, i - 1)

(* The segment of a path that ends before position i. *)
Segment(path, i) ==
  LET ends == {0} \cup {j \in 1 .. i - 1 : path[j] = Slash}
      last == CHOOSE j \in ends : \A k \in ends : k <= j
  IN  SubSeq(path, last + 1, i - 1)

(* One segment of a path, in what the segments before it have led to: an   *)
(* empty segment names nothing, and only an object has pairs.              *)
Enter(at, segment) ==
  IF ~at.found \/ segment = <<>> \/ at.value.type # "object" THEN [found |-> FALSE]
  ELSE dict_object_get(at.value, segment)

(* dict_find_path: the segments one after the other, each up to a slash or *)
(* to the end; at[i] is where those that end at position i or before lead. *)
dict_find_path(root, path) ==
  LET at[i \in 0 .. Len(path)] ==
        IF i = 0 THEN [found |-> TRUE, value |-> root]
        ELSE IF path[i] = Slash THEN Enter(at[i - 1], Segment(path, i))
        ELSE at[i - 1]
  IN  Enter(at[Len(path)], Segment(path, Len(path) + 1))

(* dict_array_ensure_capacity: the array keeps no capacity, its length      *)
(* stands for it, so that every append reallocates.                         *)
dict_array_room(length) ==
  Larger(IF length = 0 THEN 4 ELSE 2 * length, length + 1)
=============================================================================
