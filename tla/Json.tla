-------------------------------- MODULE Json --------------------------------
(***************************************************************************)
(* The JSON writer and reader of include/dict.h, as functions of what they *)
(* are given.  A text is a sequence of characters (their codes), a value   *)
(* is a record with its type: null, bool, number, int64, string, array,    *)
(* object.  Positions count from 1.                                        *)
(*                                                                         *)
(* The reader works on p == [pos, fuel, live, over]: where it is, how many *)
(* more allocations succeed, how many heap blocks are held, and whether it *)
(* ever wrote past a block.  A call returns [ok, val, p].                  *)
(***************************************************************************)
EXTENDS DictObject, SequencesExt

CONSTANTS
  SafeInt,      \* largest int64 written as a number (2^53 - 1)
  StrCap,       \* first size of the reader's string buffer (64)
  ItemsCap,     \* first size of the reader's item buffer (4)
  NumBuf,       \* size of the reader's number buffer (64)
  MaxExp,       \* largest decimal exponent of a finite double (308)
  MaxValueLen   \* strings this long are refused (MAX_VALUE_LEN)

Quote == 34
Backslash == 92
Star == 42
Space == {9, 10, 11, 12, 13, 32}
Digit == 48 .. 57
TrueText == <<116, 114, 117, 101>>
FalseText == <<102, 97, 108, 115, 101>>
NullText == <<110, 117, 108, 108>>

Null == [type |-> "null"]
Bool(b) == [type |-> "bool", b |-> b]
Number(n) == [type |-> "number", num |-> n]
Int64(n) == [type |-> "int64", int |-> n]
Str(s) == [type |-> "string", str |-> s]
Arr(items) == [type |-> "array", items |-> items]

(* F(v), with v evaluated once. *)
With(v, F(_)) == CHOOSE r \in {F(x) : x \in {v}} : TRUE

(* strlen and strdup stop at the first NUL. *)
CString(s) ==
  LET nul == {i \in DOMAIN s : s[i] = 0}
  IN  IF nul = {} THEN s ELSE SubSeq(s, 1, (CHOOSE i \in nul : \A j \in nul : i <= j) - 1)

-----------------------------------------------------------------------------
(* The C library: decimal digits, printf and strtod.  A finite double is   *)
(* [neg, m, e], (-1)^neg * m * 10^e, with m no multiple of 10 unless 0;    *)
(* an infinite one or a NaN is [neg, name].  A finite double is taken as   *)
(* its 17 digits, which strtod turns into the same double again.           *)

RECURSIVE Digits(_)
Digits(n) == IF n < 10 THEN <<48 + n>> ELSE Append(Digits(n \div 10), 48 + (n % 10))

RECURSIVE FromDigits(_)
FromDigits(s) == IF s = <<>> THEN 0 ELSE 10 * FromDigits(Front(s)) + Last(s) - 48

Inf(neg) == [neg |-> neg, name |-> <<105, 110, 102>>]
NaN(neg) == [neg |-> neg, name |-> <<110, 97, 110>>]

IsFinite(d) == "m" \in DOMAIN d

RECURSIVE Double(_, _, _)
Double(neg, m, e) ==
  IF m = 0 THEN [neg |-> neg, m |-> 0, e |-> 0]
  ELSE IF m % 10 = 0 THEN Double(neg, m \div 10, e + 1)
  ELSE [neg |-> neg, m |-> m, e |-> e]

(* strtod of a decimal: beyond MaxExp it answers an infinity. *)
strtod(neg, m, e) ==
  LET d == Double(neg, m, e)
  IN  IF m # 0 /\ Len(Digits(d.m)) - 1 + d.e > MaxExp THEN Inf(neg) ELSE d

Repeat(c, n) == [i \in 1 .. n |-> c]

(* printf("%.17g") of a finite double: plain notation while the exponent   *)
(* is between -5 and 17.                                                   *)
FormatDecimal(d) ==
  LET s   == Digits(d.m)
      x   == Len(s) - 1 + d.e
      pad == Repeat(48, Larger(-x, 0)) \o s
  IN  IF x < -4 \/ x >= 17
      THEN <<s[1]>> \o (IF Len(s) > 1 THEN <<46>> \o Tail(s) ELSE <<>>)
           \o <<101, IF x < 0 THEN 45 ELSE 43>>
           \o (LET dx == Digits(IF x < 0 THEN -x ELSE x)
               IN  IF Len(dx) = 1 THEN <<48>> \o dx ELSE dx)
      ELSE IF d.e >= 0 THEN s \o Repeat(48, d.e)
      ELSE SubSeq(pad, 1, Len(pad) + d.e) \o <<46>>
           \o SubSeq(pad, Len(pad) + d.e + 1, Len(pad))

(* Without its sign a double that is not finite is "inf" or "nan". *)
FormatDouble(d) ==
  (IF d.neg THEN <<45>> ELSE <<>>) \o (IF IsFinite(d) THEN FormatDecimal(d) ELSE d.name)

FormatInt(n) == IF n < 0 THEN <<45>> \o Digits(-n) ELSE Digits(n)

-----------------------------------------------------------------------------
(* The writer.  w == [out, rem, ok]: the text so far, the bytes left of the *)
(* caller's buffer, and whether everything fitted.                          *)

(* Mutant: the place of the final NUL is given away. *)
PutLast(w, s) ==
  With(w, LAMBDA x :
    IF x.ok /\ x.rem >= Len(s)
    THEN [out |-> x.out \o s, rem |-> x.rem - Len(s), ok |-> TRUE]
    ELSE [x EXCEPT !.ok = FALSE])

(* dict_append_to_buffer and dict_append_char: one byte is kept for NUL. *)
Put(w, s) ==
  With(w, LAMBDA x :
    IF x.ok /\ x.rem > Len(s)
    THEN [out |-> x.out \o s, rem |-> x.rem - Len(s), ok |-> TRUE]
    ELSE [x EXCEPT !.ok = FALSE])

HexDigit(n) == IF n < 10 THEN 48 + n ELSE 87 + n

(* Mutant: backslashes are copied as they are. *)
EscapeQuoteOnly(c) == IF c = Quote THEN <<Backslash, c>> ELSE <<c>>

EscapeChar(c) ==
  CASE c \in {Quote, Backslash} -> <<Backslash, c>>
    [] c = 8  -> <<Backslash, 98>>
    [] c = 12 -> <<Backslash, 102>>
    [] c = 10 -> <<Backslash, 110>>
    [] c = 13 -> <<Backslash, 114>>
    [] c = 9  -> <<Backslash, 116>>
    [] c < 32 /\ c \notin {8, 9, 10, 12, 13} ->
         <<Backslash, 117, 48, 48, HexDigit(c \div 16), HexDigit(c % 16)>>
    [] OTHER -> <<c>>

dict_append_escaped_string(w, s) ==
  Put(FoldLeft(LAMBDA acc, c : Put(acc, EscapeChar(c)), Put(w, <<Quote>>), s), <<Quote>>)

(* APPEND_NEWLINE_AND_INDENT *)
NewLine(w, level, pretty) == IF pretty THEN Put(w, <<10>> \o Repeat(32, 2 * level)) ELSE w

(* What arrays and objects share: n elements between two brackets. *)
Bracketed(w, open, n, Element(_, _), close, level, pretty) ==
  LET start == IF n = 0 THEN Put(w, open) ELSE NewLine(Put(w, open), level, pretty)
      body  == FoldLeft(LAMBDA acc, i :
                 Element(IF i = 1 THEN acc ELSE NewLine(Put(acc, <<44>>), level, pretty), i),
                 start, [i \in 1 .. n |-> i])
  IN  Put(IF n = 0 THEN body ELSE NewLine(body, level, pretty), close)

RECURSIVE dict_serialize_value_pretty(_, _, _, _)
dict_serialize_value_pretty(v, w, level, pretty) ==
  CASE v.type = "null"   -> Put(w, NullText)
    [] v.type = "bool"   -> Put(w, IF v.b THEN TrueText ELSE FalseText)
    [] v.type = "number" -> Put(w, FormatDouble(v.num))
    [] v.type = "int64"  -> IF -SafeInt <= v.int /\ v.int <= SafeInt
                            THEN Put(w, FormatInt(v.int))
                            ELSE dict_append_escaped_string(w, FormatInt(v.int))
    [] v.type = "string" -> dict_append_escaped_string(w, v.str)
    [] v.type = "array"  ->
         Bracketed(w, <<91>>, Len(v.items),
                   LAMBDA acc, i : dict_serialize_value_pretty(v.items[i], acc, level + 1, pretty),
                   <<93>>, level, pretty)
    [] v.type = "object" ->
         Bracketed(w, <<123>>, Len(v.pairs),
                   LAMBDA acc, i : dict_serialize_value_pretty(v.pairs[i].value,
                     Put(dict_append_escaped_string(acc, v.pairs[i].key),
                         IF pretty THEN <<58, 32>> ELSE <<58>>), level + 1, pretty),
                   <<125>>, level, pretty)

(* dict_serialize_json into a buffer of buf_len bytes; ok is FALSE for NULL. *)
dict_serialize_json(v, buf_len, pretty) ==
  With(dict_serialize_value_pretty(v, [out |-> <<>>, rem |-> buf_len, ok |-> TRUE], 0, pretty),
       LAMBDA w : [ok |-> buf_len > 0 /\ w.ok /\ w.rem > 0, text |-> w.out])

-----------------------------------------------------------------------------
(* The heap blocks a value owns: what dict_destroy gives back. *)
RECURSIVE Blocks(_)
Blocks(v) ==
  CASE v.type = "string" -> 2
    [] v.type = "array"  -> FoldLeft(LAMBDA n, x : n + Blocks(x),
                                     IF v.items = <<>> THEN 1 ELSE 2, v.items)
    [] v.type = "object" -> FoldLeft(LAMBDA n, x : n + 1 + Blocks(x.value), 2, v.pairs)
    [] OTHER -> 1

Good(val, p) == [ok |-> TRUE, val |-> val, p |-> p]
Fail(p) == [ok |-> FALSE, val |-> Null, p |-> p]

Release(p, n) == [p EXCEPT !.live = @ - n]

(* A call that takes n blocks, or gives back what it got and fails. *)
Create(val, n, p0) ==
  With(p0, LAMBDA p :
    IF p.fuel >= n THEN Good(val, [p EXCEPT !.fuel = @ - n, !.live = @ + n])
    ELSE Fail([p EXCEPT !.fuel = 0]))

dict_create_string(s, p) ==
  IF Len(CString(s)) = 0 \/ Len(CString(s)) >= MaxValueLen THEN Fail(p)
  ELSE Create(Str(CString(s)), 2, p)

(* dict_object_set on the reader's heap: a key is one block more, or the   *)
(* old value is released.                                                  *)
SetPair(o, key, val, p) ==
  LET k   == CString(key)
      old == dict_object_get(o, k)
      r   == dict_object_set(o, k, val, p.fuel)
  IN  [ok  |-> r.ok,
       val |-> r.obj,
       p   |-> [p EXCEPT !.fuel = r.fuel,
                         !.live = IF ~r.ok THEN @
                                  ELSE IF old.found THEN @ - Blocks(old.value) ELSE @ + 1,
                         !.over = @ \/ Len(r.obj.pairs) > r.obj.capacity]]

-----------------------------------------------------------------------------
(* The first position from i on whose character is outside S. *)
SkipIn(t, i, S) ==
  LET stop == {j \in i .. Len(t) : t[j] \notin S}
  IN  IF stop = {} THEN Larger(i, Len(t) + 1) ELSE CHOOSE j \in stop : \A k \in stop : j <= k

(* dict_parser_skip_whitespace: blanks, line comments and block comments.  *)
(* A block comment that is not closed ends before the last character.      *)
RECURSIVE SkipSpace(_, _)
SkipSpace(t, i) ==
  LET Is(j, c) == j <= Len(t) /\ t[j] = c
      close    == {j \in i + 2 .. Len(t) - 1 : t[j] = Star /\ t[j + 1] = Slash}
  IN  IF i <= Len(t) /\ t[i] \in Space THEN SkipSpace(t, i + 1)
      ELSE IF Is(i, Slash) /\ Is(i + 1, Slash)
      THEN SkipSpace(t, SkipIn(t, i + 2, (0 .. 255) \ {10, 13}))
      ELSE IF Is(i, Slash) /\ Is(i + 1, Star)
      THEN SkipSpace(t, IF close = {} THEN Larger(i + 2, Len(t))
                        ELSE (CHOOSE j \in close : \A k \in close : j <= k) + 2)
      ELSE i

dict_parser_skip_whitespace(t, p) == [p EXCEPT !.pos = SkipSpace(t, @)]

Peek(t, p, c) == p.pos <= Len(t) /\ t[p.pos] = c

Advance(p) == [p EXCEPT !.pos = @ + 1]

HexVal(c) ==
  CASE c \in Digit     -> c - 48
    [] c \in 97 .. 102 -> c - 87
    [] c \in 65 .. 70  -> c - 55
    [] OTHER           -> 16

(* An escape sequence whose letter is at i, and where it ends. *)
Escape(t, i) ==
  LET plain == [c \in {Quote, Backslash, Slash} |-> c]
      named == [c \in {98, 102, 110, 114, 116} |->
                  CASE c = 98 -> 8 [] c = 102 -> 12 [] c = 110 -> 10 [] c = 114 -> 13 [] OTHER -> 9]
      code  == 4096 * HexVal(t[i + 1]) + 256 * HexVal(t[i + 2])
               + 16 * HexVal(t[i + 3]) + HexVal(t[i + 4])
  IN  IF i > Len(t) THEN [ok |-> FALSE]
      ELSE IF t[i] \in DOMAIN plain THEN [ok |-> TRUE, c |-> plain[t[i]], next |-> i + 1]
      ELSE IF t[i] \in DOMAIN named THEN [ok |-> TRUE, c |-> named[t[i]], next |-> i + 1]
      ELSE IF t[i] = 117 /\ i + 4 <= Len(t) /\ \A j \in i + 1 .. i + 4 : HexVal(t[j]) < 16
      THEN [ok |-> TRUE, c |-> IF code <= 127 THEN code ELSE 63, next |-> i + 5]
      ELSE [ok |-> FALSE]

(* One character of a string, at i. *)
StringChar(t, i) ==
  IF t[i] = Backslash THEN Escape(t, i + 1)
  ELSE IF t[i] < 32 THEN [ok |-> FALSE]
  ELSE [ok |-> TRUE, c |-> t[i], next |-> i + 1]

Grows(length, cap) == length + 1 >= cap

(* The loop of dict_parse_json_string over the rest of the string. *)
RECURSIVE StringRest(_, _, _, _)
StringRest(t, p, out, cap) ==
  IF p.pos > Len(t) THEN Fail(Release(p, 1))
  ELSE IF t[p.pos] = Quote
  THEN IF Len(out) < cap THEN Good(out, Advance(p))
       ELSE IF p.fuel = 0 THEN Fail(Release(p, 1))
       ELSE Good(out, [Advance(p) EXCEPT !.fuel = @ - 1])
  ELSE LET c    == StringChar(t, p.pos)
           grow == Grows(Len(out), cap)
           room == IF grow THEN 2 * cap ELSE cap
       IN  IF ~c.ok \/ (grow /\ p.fuel = 0) THEN Fail(Release(p, 1))
           ELSE With([p |-> [p EXCEPT !.pos = c.next,
                                      !.fuel = IF grow THEN @ - 1 ELSE @,
                                      !.over = @ \/ Len(out) >= room],
                      out |-> Append(out, c.c), cap |-> room],
                     LAMBDA x : StringRest(t, x.p, x.out, x.cap))

dict_parse_json_string(t, p) ==
  IF ~Peek(t, p, Quote) THEN Fail(p)
  ELSE With(Create(<<>>, 1, Advance(p)),
            LAMBDA r : IF r.ok THEN StringRest(t, r.p, <<>>, StrCap) ELSE r)

(* dict_parse_number: the longest prefix of the number pattern, then strtod. *)
dict_parse_number(t, p) ==
  LET At(i, S)  == i <= Len(t) /\ t[i] \in S
      i1 == IF At(p.pos, {45}) THEN p.pos + 1 ELSE p.pos
      i2 == IF At(i1, {48}) THEN i1 + 1 ELSE SkipIn(t, i1, Digit)
      point == At(i2, {46})
      i3 == IF point THEN SkipIn(t, i2 + 1, Digit) ELSE i2
      expo  == At(i3, {69, 101})
      sign  == expo /\ At(i3 + 1, {43, 45})
      i4 == IF expo THEN IF sign THEN i3 + 2 ELSE i3 + 1 ELSE i3
      i5 == IF expo THEN SkipIn(t, i4, Digit) ELSE i3
      frac  == IF point THEN SubSeq(t, i2 + 1, i3 - 1) ELSE <<>>
      exp   == FromDigits(SubSeq(t, i4, i5 - 1))
      value == strtod(At(p.pos, {45}), FromDigits(SubSeq(t, i1, i2 - 1) \o frac),
                      (IF ~expo THEN 0 ELSE IF At(i3 + 1, {45}) THEN -exp ELSE exp) - Len(frac))
  IN  IF \/ ~At(i1, Digit)
         \/ point /\ ~At(i2 + 1, Digit)
         \/ expo /\ ~At(i4, Digit)
         \/ i5 - p.pos >= NumBuf
      THEN Fail(p)
      ELSE Good(value, [p EXCEPT !.pos = i5])

Literal(t, p, text) ==
  p.pos + Len(text) - 1 <= Len(t) /\ SubSeq(t, p.pos, p.pos + Len(text) - 1) = text

(* Mutant: items already read are forgotten when a later one is refused. *)
ItemsLeaked(items) == 2

(* What a failed array gives back: its items, their buffer and itself. *)
ItemsHeld(items) == FoldLeft(LAMBDA n, x : n + Blocks(x), 2, items)

RECURSIVE dict_parse_value(_, _), ItemsRest(_, _, _, _), PairsRest(_, _, _)

(* The loop of dict_parse_array, items being read so far: the item r just  *)
(* read is stored, and a comma, the end or an error follows.               *)
ItemRead(t, r, items, cap) ==
  LET grow == Len(items) = cap
      room == IF grow THEN 2 * cap ELSE cap
      all  == Append(items, r.val)
  IN  IF ~r.ok THEN Fail(Release(r.p, ItemsHeld(items)))
      ELSE IF grow /\ r.p.fuel = 0 THEN Fail(Release(r.p, ItemsHeld(items) + Blocks(r.val)))
      ELSE With(dict_parser_skip_whitespace(t,
                  [r.p EXCEPT !.fuel = IF grow THEN @ - 1 ELSE @,
                              !.over = @ \/ Len(all) > room]),
                LAMBDA p : IF Peek(t, p, 44)
                           THEN ItemsRest(t, dict_parser_skip_whitespace(t, Advance(p)), all, room)
                           ELSE IF Peek(t, p, 93) THEN Good(Arr(all), Advance(p))
                           ELSE Fail(Release(p, ItemsHeld(all))))

ItemsRest(t, p, items, cap) ==
  With(dict_parse_value(t, p), LAMBDA r : ItemRead(t, r, items, cap))

dict_parse_array(t, p0) ==
  LET r == Create(Arr(<<>>), 1, dict_parser_skip_whitespace(t, Advance(p0)))
      b == Create(<<>>, 1, r.p)
  IN  IF ~r.ok THEN r
      ELSE IF ~b.ok THEN Fail(Release(b.p, 1))
      ELSE With(dict_parser_skip_whitespace(t, b.p),
                LAMBDA p : IF Peek(t, p, 93) THEN Good(Arr(<<>>), Release(Advance(p), 1))
                           ELSE ItemsRest(t, p, <<>>, ItemsCap))

(* The loop of dict_parse_object, o being the object read so far: a key k, *)
(* a colon, a value v, the pair stored as s, and what follows it.          *)
PairStored(t, p, o) ==
  IF Peek(t, p, 44) THEN PairsRest(t, Advance(p), o)
  ELSE IF Peek(t, p, 125) THEN Good(o, Advance(p))
  ELSE Fail(Release(p, Blocks(o)))

ValueRead(t, k, v, o) ==
  IF ~v.ok THEN Fail(Release(v.p, 1 + Blocks(o)))
  ELSE With(SetPair(o, k, v.val, v.p),
            LAMBDA s : IF ~s.ok THEN Fail(Release(s.p, 1 + Blocks(v.val) + Blocks(o)))
                       ELSE With(dict_parser_skip_whitespace(t, Release(s.p, 1)),
                                 LAMBDA p : PairStored(t, p, s.val)))

KeyRead(t, k, o) ==
  IF ~k.ok THEN Fail(Release(k.p, Blocks(o)))
  ELSE With(dict_parser_skip_whitespace(t, k.p),
            LAMBDA p : IF ~Peek(t, p, 58) THEN Fail(Release(p, 1 + Blocks(o)))
                       ELSE With(dict_parse_value(t, dict_parser_skip_whitespace(t, Advance(p))),
                                 LAMBDA v : ValueRead(t, k.val, v, o)))

PairsRest(t, p0, o) ==
  With(dict_parser_skip_whitespace(t, p0),
       LAMBDA p : IF ~Peek(t, p, Quote) THEN Fail(Release(p, Blocks(o)))
                  ELSE With(dict_parse_json_string(t, p), LAMBDA k : KeyRead(t, k, o)))

dict_parse_object(t, p0) ==
  With(Create(EmptyObject, 2, dict_parser_skip_whitespace(t, Advance(p0))),
       LAMBDA r : IF ~r.ok THEN r
                  ELSE With(dict_parser_skip_whitespace(t, r.p),
                            LAMBDA p : IF Peek(t, p, 125) THEN Good(r.val, Advance(p))
                                       ELSE PairsRest(t, p, r.val)))

ValueAt(t, p) ==
  LET n == dict_parse_number(t, p)
      Word(text, v) == Create(v, 1, [p EXCEPT !.pos = @ + Len(text)])
  IN  IF p.pos > Len(t) THEN Fail(p)
      ELSE CASE t[p.pos] = Quote ->
                  With(dict_parse_json_string(t, p),
                       LAMBDA s : IF ~s.ok THEN s
                                  ELSE [dict_create_string(s.val, s.p) EXCEPT !.p = Release(@, 1)])
             [] t[p.pos] = 123 -> dict_parse_object(t, p)
             [] t[p.pos] = 91  -> dict_parse_array(t, p)
             [] t[p.pos] \in Digit \cup {45} -> IF n.ok THEN Create(Number(n.val), 1, n.p) ELSE n
             [] Literal(t, p, TrueText)  -> Word(TrueText, Bool(TRUE))
             [] Literal(t, p, FalseText) -> Word(FalseText, Bool(FALSE))
             [] Literal(t, p, NullText)  -> Word(NullText, Null)
             [] OTHER -> Fail(p)

dict_parse_value(t, p0) ==
  With(dict_parser_skip_whitespace(t, p0), LAMBDA p : ValueAt(t, p))

(* dict_deserialize_json, when fuel allocations succeed. *)
dict_deserialize_json(t, fuel) ==
  LET p0 == [pos |-> 1, fuel |-> fuel, live |-> 0, over |-> FALSE]
      Whole(r, p) == IF p.pos # Len(t) + 1 THEN Fail(Release(p, Blocks(r.val))) ELSE Good(r.val, p)
  IN  IF t = <<>> THEN Fail(p0)
      ELSE With(dict_parse_value(t, dict_parser_skip_whitespace(t, p0)),
                LAMBDA r : IF ~r.ok THEN r ELSE Whole(r, dict_parser_skip_whitespace(t, r.p)))
=============================================================================
