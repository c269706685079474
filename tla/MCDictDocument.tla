--------------------------- MODULE MCDictDocument ---------------------------
(* Keys "a", b", the empty key and one that is too long; values of every   *)
(* type, with escapes, nesting, a number in each notation and an infinite  *)
(* one, and the int64s SafeInt and -SafeInt - 1.                           *)
EXTENDS DictDocument

MCKeys == {<<97>>, <<98, 34>>, <<>>, <<97, 97, 97, 97>>}

Nested == [type |-> "object", pairs |-> <<[key |-> <<97>>, value |-> Bool(TRUE)]>>, capacity |-> 1]

MCValues ==
  { Number([neg |-> FALSE, m |-> 1, e |-> 1]),
    Number([neg |-> TRUE, m |-> 1, e |-> -5]),
    Str(<<10, 92, 97>>),
    Str(<<1>>),
    Arr(<<Null, Int64(SafeInt), Int64(-SafeInt - 1),
          Number([neg |-> FALSE, m |-> 1, e |-> -2]), Arr(<<>>)>>),
    Arr(<<Number(Inf(TRUE))>>),
    Nested }

MCMaxEditLen == <<18, 7>>

(* { } ] " \ , / * - . e u 0 1, and two bytes for BSON *)
MCEditChars == {123, 125, 93, 34, 92, 44, 47, 42, 45, 46, 101, 117, 48, 49, 0, 2}
=============================================================================
