-------------------------------- MODULE Bson --------------------------------
(***************************************************************************)
(* The BSON writer and reader of include/dict.h over sequences of bytes.   *)
(* The reader's heap is that of module Json.                               *)
(***************************************************************************)
EXTENDS Json

(* bson_write_int32_le and bson_write_int64_le: n bytes, lowest first. *)
RECURSIVE LittleEndian(_, _)
LittleEndian(v, n) == IF n = 0 THEN <<>> ELSE <<v % 256>> \o LittleEndian(v \div 256, n - 1)

(* bson_read_int32_le and bson_read_int64_le: the last byte has the sign. *)
RECURSIVE Signed(_)
Signed(b) ==
  IF Len(b) = 1 THEN IF b[1] < 128 THEN b[1] ELSE b[1] - 256
  ELSE b[1] + 256 * Signed(Tail(b))

(* The 8 bytes of a double (its representation is opaque to this code), and *)
(* the double 8 bytes stand for.                                            *)
DoubleBytes(d) ==
  IF "raw" \in DOMAIN d THEN d.raw
  ELSE IF ~IsFinite(d)
  THEN Repeat(0, 6) \o <<IF d = Inf(d.neg) THEN 240 ELSE 248, IF d.neg THEN 255 ELSE 127>>
  ELSE LittleEndian(d.m, 3) \o LittleEndian(d.e, 4) \o <<IF d.neg THEN 128 ELSE 0>>

BytesDouble(b) ==
  LET d == [neg |-> b[8] = 128, m |-> Signed(SubSeq(b, 1, 3)), e |-> Signed(SubSeq(b, 4, 7))]
      special == {x \in {Inf(neg) : neg \in BOOLEAN} \cup {NaN(neg) : neg \in BOOLEAN} :
                    DoubleBytes(x) = b}
  IN  IF special # {} THEN CHOOSE x \in special : TRUE
      ELSE IF d.m >= 0 /\ DoubleBytes(d) = b THEN d ELSE [raw |-> b]

TypeByte(v) ==
  CASE v.type = "number" -> 1
    [] v.type = "string" -> 2
    [] v.type = "object" -> 3
    [] v.type = "array"  -> 4
    [] v.type = "bool"   -> 8
    [] v.type = "null"   -> 10
    [] v.type = "int64"  -> 18

-----------------------------------------------------------------------------
Written(ok, out) == [ok |-> ok, out |-> out]

RECURSIVE bson_serialize_document(_, _)

bson_serialize_value(v, buf_len) ==
  CASE v.type = "null"   -> Written(TRUE, <<>>)
    [] v.type = "bool"   -> Written(buf_len >= 1, <<IF v.b THEN 1 ELSE 0>>)
    [] v.type = "number" -> Written(buf_len >= 8, DoubleBytes(v.num))
    [] v.type = "int64"  -> Written(buf_len >= 8, LittleEndian(v.int, 8))
    [] v.type = "string" -> Written(buf_len >= 4 + Len(v.str) + 1,
                              LittleEndian(Len(v.str) + 1, 4) \o v.str \o <<0>>)
    [] OTHER -> bson_serialize_document(v, buf_len)

(* Objects and arrays alike: length, elements, terminator.  The keys of an  *)
(* array are its indices.                                                   *)
bson_serialize_document(v, buf_len) ==
  LET Key(i)   == IF v.type = "object" THEN v.pairs[i].key ELSE Digits(i - 1)
      Value(i) == IF v.type = "object" THEN v.pairs[i].value ELSE v.items[i]
      Add(w, i) ==
        LET head == w.out \o <<TypeByte(Value(i))>> \o Key(i) \o <<0>>
            body == bson_serialize_value(Value(i), buf_len - Len(head))
        IN  IF /\ w.ok
               /\ Len(w.out) + 1 < buf_len
               /\ Len(head) < buf_len
               /\ body.ok
            THEN Written(TRUE, head \o body.out)
            ELSE Written(FALSE, w.out)
      all == FoldLeft(LAMBDA acc, i : With(acc, LAMBDA w : Add(w, i)),
                      Written(TRUE, <<0, 0, 0, 0>>),
                      [i \in 1 .. (IF v.type = "object" THEN Len(v.pairs) ELSE Len(v.items)) |-> i])
  IN  With(all, LAMBDA w :
        IF w.ok /\ Len(w.out) < buf_len
        THEN Written(TRUE, LittleEndian(Len(w.out) + 1, 4) \o SubSeq(w.out, 5, Len(w.out)) \o <<0>>)
        ELSE Written(FALSE, <<>>))

dict_serialize_bson(v, buf_len) == bson_serialize_document(v, buf_len)

-----------------------------------------------------------------------------
(* Readers return, besides [ok, val, p], the bytes they took. *)
Read(r, n) == [ok |-> r.ok, val |-> r.val, p |-> r.p, read |-> n]

(* dict_array_append on the reader's heap; items is allocated by the first. *)
AppendValue(a, v, p) ==
  IF p.fuel = 0 THEN Fail(p)
  ELSE Good([a EXCEPT !.items = Append(@, v)],
            [p EXCEPT !.fuel = @ - 1,
                      !.live = IF a.items = <<>> THEN @ + 1 ELSE @,
                      !.over = @ \/ Len(a.items) + 1 > dict_array_room(Len(a.items))])

(* The copy of the key, dict_object_set, and the copy given back. *)
SetCopied(o, key, v, p) ==
  With(Create(<<>>, 1, p),
       LAMBDA k : IF ~k.ok THEN k ELSE [SetPair(o, key, v, k.p) EXCEPT !.p = Release(@, 1)])

RECURSIVE ElementsRest(_, _, _, _)

bson_deserialize_document_internal(b, p, is_array) ==
  LET doc_len == Signed(SubSeq(b, 1, 4))
      r       == IF is_array THEN Create(Arr(<<>>), 1, p) ELSE Create(EmptyObject, 2, p)
  IN  IF Len(b) < 5 THEN Read(Fail(p), 0)
      ELSE IF doc_len < 5 \/ doc_len > Len(b) \/ ~r.ok THEN Read(Fail(p), 0)
      ELSE With([b |-> SubSeq(b, 1, doc_len), r |-> r],
                LAMBDA x : Read(ElementsRest(x.b, 4, x.r.val, x.r.p), Len(x.b)))

StringFits(b) ==
  /\ Len(b) >= 4
  /\ LET str_len == Signed(SubSeq(b, 1, 4))
     IN  str_len >= 1 /\ 4 + str_len <= Len(b)

(* The value of an element of type ty; b is the rest of the document. *)
BsonValue(ty, b, p) ==
  LET str_len == Signed(SubSeq(b, 1, 4))
      buf     == Create(<<>>, 1, p)
      str     == dict_create_string(SubSeq(b, 5, 3 + str_len), buf.p)
  IN  CASE ty = 1 /\ Len(b) >= 8  -> Read(Create(Number(BytesDouble(SubSeq(b, 1, 8))), 1, p), 8)
        [] ty = 18 /\ Len(b) >= 8 -> Read(Create(Int64(Signed(SubSeq(b, 1, 8))), 1, p), 8)
        [] ty = 2 /\ StringFits(b) ->
             IF buf.ok THEN Read([str EXCEPT !.p = Release(@, 1)], 4 + str_len) ELSE Read(buf, 0)
        [] ty = 8 /\ Len(b) >= 1  -> Read(Create(Bool(b[1] # 0), 1, p), 1)
        [] ty = 10 -> Read(Create(Null, 1, p), 0)
        [] ty = 3  -> bson_deserialize_document_internal(b, p, FALSE)
        [] ty = 4  -> bson_deserialize_document_internal(b, p, TRUE)
        [] OTHER   -> Read(Fail(p), 0)

(* The element loop from the 0-based position pos; b ends with the document. *)
(* The key ends at kend, v is the value read after it.                       *)
ElementRead(b, pos, kend, v, doc) ==
  IF ~v.ok THEN Fail(Release(v.p, Blocks(doc)))
  ELSE With(IF doc.type = "array" THEN AppendValue(doc, v.val, v.p)
            ELSE SetCopied(doc, SubSeq(b, pos + 2, kend - 1), v.val, v.p),
            LAMBDA next : IF ~next.ok THEN Fail(Release(next.p, Blocks(v.val) + Blocks(doc)))
                          ELSE ElementsRest(b, kend + v.read, next.val, next.p))

ElementsRest(b, pos, doc, p) ==
  LET End(at) == IF at + 1 = Len(b) THEN Good(doc, p) ELSE Fail(Release(p, Blocks(doc)))
      nul  == {j \in pos + 2 .. Len(b) : b[j] = 0}
  IN  IF pos >= Len(b) - 1 THEN End(pos)
      ELSE IF b[pos + 1] = 0 THEN End(pos + 1)
      ELSE IF nul = {} THEN Fail(Release(p, Blocks(doc)))
      ELSE With(CHOOSE j \in nul : \A k \in nul : j <= k,
                LAMBDA kend : With(BsonValue(b[pos + 1], SubSeq(b, kend + 1, Len(b)), p),
                                   LAMBDA v : ElementRead(b, pos, kend, v, doc)))

dict_deserialize_bson(b, fuel) ==
  LET p0 == [pos |-> 1, fuel |-> fuel, live |-> 0, over |-> FALSE]
  IN  With(bson_deserialize_document_internal(b, p0, FALSE), LAMBDA r :
        IF r.ok /\ r.read # Len(b) THEN Fail(Release(r.p, Blocks(r.val)))
        ELSE [ok |-> r.ok, val |-> r.val, p |-> r.p])
=============================================================================
