---------------------------- MODULE DictDocument ----------------------------
(***************************************************************************)
(* A client of include/dict.h: an object that is built, saved as JSON or   *)
(* BSON, and read again after the file was edited.  In the repository      *)
(* config.h reads JSON, from a file people edit; the writers, BSON,        *)
(* removal, sorting and paths are offered by dict.h and called nowhere.    *)
(***************************************************************************)
EXTENDS Dict, Bson

CONSTANTS
  BufLen,      \* a buffer every text of the instance fits in
  EditChars,   \* characters an edit puts into the file
  MaxEditLen   \* bound: length of the files that get a first, a second edit...

VARIABLES
  file,   \* what was saved: form and bytes
  edits   \* edits made to it so far

vars == <<obj, file, edits>>

DocInit ==
  /\ Init
  /\ file = [form |-> "none", bytes |-> <<>>]
  /\ edits = 0

Build ==
  /\ file.form = "none"
  /\ DictNext
  /\ UNCHANGED <<file, edits>>

SaveJson(pretty) ==
  /\ file.form = "none"
  /\ file' = [form  |-> IF pretty THEN "pretty" ELSE "json",
              bytes |-> dict_serialize_json(obj, BufLen, pretty).text]
  /\ UNCHANGED <<obj, edits>>

SaveBson ==
  /\ file.form = "none"
  /\ file' = [form |-> "bson", bytes |-> dict_serialize_bson(obj, BufLen).out]
  /\ UNCHANGED <<obj, edits>>

(* Someone changes, adds or deletes one character of the file. *)
Edit ==
  /\ file.form \in {"json", "bson"}
  /\ edits < Len(MaxEditLen)
  /\ Len(file.bytes) <= MaxEditLen[edits + 1]
  /\ \E i \in DOMAIN file.bytes :
       \/ \E c \in EditChars :
            file' = [file EXCEPT !.bytes = ReplaceAt(@, i, c)]
       \/ \E c \in EditChars :
            file' = [file EXCEPT !.bytes = InsertAt(@, i, c)]
       \/ file' = [file EXCEPT !.bytes = RemoveAt(@, i)]
  /\ edits' = edits + 1
  /\ UNCHANGED obj

DocNext ==
  \/ Build
  \/ \E pretty \in BOOLEAN : SaveJson(pretty)
  \/ SaveBson
  \/ Edit

Spec == DocInit /\ [][DocNext]_vars

-----------------------------------------------------------------------------
(* What a value becomes in JSON: an int64 is read back as a number, or as a *)
(* string when it is too large; capacities are not part of a value.         *)
RECURSIVE Canon(_)
Canon(v) ==
  CASE v.type = "int64"  -> IF -SafeInt <= v.int /\ v.int <= SafeInt
                            THEN Number(Double(v.int < 0, IF v.int < 0 THEN -v.int ELSE v.int, 0))
                            ELSE Str(FormatInt(v.int))
    [] v.type = "array"  -> Arr([i \in DOMAIN v.items |-> Canon(v.items[i])])
    [] v.type = "object" -> [type |-> "object", pairs |->
                              [i \in DOMAIN v.pairs |->
                                [key |-> v.pairs[i].key, value |-> Canon(v.pairs[i].value)]]]
    [] OTHER -> v

(* The value itself, without the capacities of its objects. *)
RECURSIVE Bare(_)
Bare(v) ==
  CASE v.type = "array"  -> Arr([i \in DOMAIN v.items |-> Bare(v.items[i])])
    [] v.type = "object" -> [type |-> "object", pairs |->
                              [i \in DOMAIN v.pairs |->
                                [key |-> v.pairs[i].key, value |-> Bare(v.pairs[i].value)]]]
    [] OTHER -> v

(* No number in the value is infinite or NaN. *)
RECURSIVE Finite(_)
Finite(v) ==
  CASE v.type = "number" -> IsFinite(v.num)
    [] v.type = "array"  -> \A i \in DOMAIN v.items : Finite(v.items[i])
    [] v.type = "object" -> \A i \in DOMAIN v.pairs : Finite(v.pairs[i].value)
    [] OTHER -> TRUE

Enough == 100   \* more allocations than any read of the instance makes

Fuels == (0 .. 16) \cup {Enough}   \* bound: allocations that succeed before one fails

ReadFile(fuel) ==
  IF file.form = "bson" THEN dict_deserialize_bson(file.bytes, fuel)
  ELSE dict_deserialize_json(file.bytes, fuel)

Saved == file.form # "none"

(***************************************************************************)
(* What was saved is read back, with the same keys in the same order,      *)
(* through escapes, nesting, layout and binary lengths.  A BSON document   *)
(* gives the same values (dict_serialize_bson / dict_deserialize_bson).  A *)
(* JSON text gives what JSON can say of them: an int64 comes back as a     *)
(* number, or as a string beyond SafeInt; and it is read at all exactly    *)
(* when every number is finite, because the writer prints inf and nan,     *)
(* which the reader refuses (dict_serialize_json / dict_deserialize_json). *)
(***************************************************************************)
RoundTrip ==
  Saved /\ edits = 0 =>
    LET r == ReadFile(Enough)
    IN  IF file.form = "bson" THEN r.ok /\ Bare(r.val) = Bare(obj)
        ELSE /\ r.ok <=> Finite(obj)
             /\ r.ok => Bare(r.val) = Canon(obj)

(***************************************************************************)
(* A buffer is refused exactly when the text and its NUL, or the BSON      *)
(* document, do not fit: no byte is written past it and none is wasted.    *)
(***************************************************************************)
FitsExactly ==
  Saved /\ edits = 0 =>
    LET n == Len(file.bytes)
    IN  \A len \in 0 .. n + 2 :
          IF file.form = "bson"
          THEN LET w == dict_serialize_bson(obj, len)
               IN  w.ok <=> len >= n
          ELSE LET w == dict_serialize_json(obj, len, file.form = "pretty")
               IN  /\ w.ok <=> len > n
                   /\ Len(w.text) < Larger(len, 1)

(***************************************************************************)
(* Whatever the file holds and whichever allocation fails, a read that     *)
(* fails gives back every block it took, one that succeeds holds exactly   *)
(* the blocks dict_destroy will free, and nothing is written past a block. *)
(***************************************************************************)
NoLeak ==
  Saved => \A fuel \in Fuels :
    LET r == ReadFile(fuel)
    IN  /\ r.p.live = (IF r.ok THEN Blocks(r.val) ELSE 0)
        /\ ~r.p.over
=============================================================================
