-------------------------------- MODULE Dict --------------------------------
(***************************************************************************)
(* One object of include/dict.h under every sequence of calls, with        *)
(* allocations that fail at any point.                                     *)
(***************************************************************************)
EXTENDS DictObject

CONSTANTS
  Keys,     \* keys the caller uses
  Values    \* values the caller stores

ASSUME KeysAssumption == Keys \subseteq Seq(Nat)

(* Every object is made by dict_object_set, which refuses the empty key. *)
ASSUME ValuesAssumption ==
  \A v \in Values : v.type = "object" => \A i \in DOMAIN v.pairs : v.pairs[i].key # <<>>

VARIABLE obj   \* the object

KeysOf(o) == {o.pairs[i].key : i \in DOMAIN o.pairs}

Init == obj = EmptyObject

SetKey(k, v) == \E fuel \in 0 .. 2 : obj' = dict_object_set(obj, k, v, fuel).obj

RemoveKey(k) == obj' = dict_object_remove(obj, k)

(* strcmp on keys: the first difference decides, a prefix comes first. *)
Before(a, b) ==
  \E n \in DOMAIN b :
    /\ \A i \in 1 .. n - 1 : i \in DOMAIN a /\ a[i] = b[i]
    /\ n \in DOMAIN a => a[n] < b[n]

(* Mutant: the keys are ordered and the values stay behind. *)
SortKeysOnly ==
  \E s \in [DOMAIN obj.pairs -> {obj.pairs[i] : i \in DOMAIN obj.pairs}] :
    /\ \A i, j \in DOMAIN s : i < j => Before(s[i].key, s[j].key)
    /\ obj' = [obj EXCEPT !.pairs =
                 [i \in DOMAIN s |-> [key |-> s[i].key, value |-> @[i].value]]]

(* dict_object_sort_keys: qsort leaves a permutation ordered by key. *)
SortKeys ==
  \E s \in [DOMAIN obj.pairs -> {obj.pairs[i] : i \in DOMAIN obj.pairs}] :
    /\ \A i, j \in DOMAIN s : i < j => Before(s[i].key, s[j].key)
    /\ obj' = [obj EXCEPT !.pairs = s]

(* dict_destroy of the object, and dict_create_object for the next one. *)
Recreate == obj' = EmptyObject

DictNext ==
  \/ \E k \in Keys, v \in Values : SetKey(k, v)
  \/ \E k \in Keys : RemoveKey(k)
  \/ SortKeys
  \/ Recreate

DictSpec == Init /\ [][DictNext]_obj

-----------------------------------------------------------------------------
(* The object as the map its user sees. *)
MapOf(o) == [k \in KeysOf(o) |-> dict_object_get(o, k).value]

M == INSTANCE DictMap WITH map <- MapOf(obj)

(***************************************************************************)
(* The pair array implements a map: whatever the order of sets, removals   *)
(* and sorts, and whichever allocation fails, a call changes at most its   *)
(* own key, and a failed one changes none (dict_object_set,                *)
(* dict_object_remove, dict_object_sort_keys).                             *)
(***************************************************************************)
RefinesMap == M!Spec

(***************************************************************************)
(* Each call is the operation its name says: a set puts its value under    *)
(* its key or fails without effect, a removal takes away its own key and   *)
(* no other although the last pair moves, sorting loses nothing.           *)
(***************************************************************************)
CallsRefine ==
  [][ /\ \A k \in Keys, v \in Values : SetKey(k, v) => M!Put(k, v) \/ UNCHANGED MapOf(obj)
      /\ \A k \in Keys : RemoveKey(k) => M!Delete(k)
      /\ SortKeys => UNCHANGED MapOf(obj) ]_obj

(***************************************************************************)
(* No key occurs twice, so that find_key, remove and the serialisers agree *)
(* on the pair they mean, and no pair is written past the allocation       *)
(* (dict_object_ensure_capacity before every insertion).                   *)
(***************************************************************************)
PairsInRoom ==
  /\ Len(obj.pairs) <= obj.capacity
  /\ \A i, j \in DOMAIN obj.pairs : obj.pairs[i].key = obj.pairs[j].key => i = j

(***************************************************************************)
(* A path names what its keys name one after the other (dict_find_path),   *)
(* unless a key contains the separator.                                    *)
(***************************************************************************)
PathsResolve ==
  \A k1, k2 \in Keys :
    /\ Slash \notin {k1[i] : i \in DOMAIN k1} =>
         dict_find_path(obj, k1) = dict_object_get(obj, k1)
    /\ Slash \notin {k1[i] : i \in DOMAIN k1} \cup {k2[i] : i \in DOMAIN k2} =>
         LET v == dict_object_get(obj, k1)
         IN  dict_find_path(obj, k1 \o <<Slash>> \o k2)
             = IF v.found /\ v.value.type = "object" THEN dict_object_get(v.value, k2)
               ELSE [found |-> FALSE]
=============================================================================
