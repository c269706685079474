----------------------------- MODULE DnsReader -----------------------------
(* How a resolver reads a DNS message (RFC 1035, section 4), written without *)
(* regard to dns.h: what its answers are compared with.  Offsets count from  *)
(* zero, as in the messages.                                                 *)
EXTENDS DnsConfig

CONSTANT MaxJumps     \* 64, the compression pointers followed in a name

ASSUME DnsReaderAssumption == MaxJumps \in Nat

Byte(b, i) == IF i \in 0..(Len(b) - 1) THEN b[i + 1] ELSE 0
Word16(b, i) == 256 * Byte(b, i) + Byte(b, i + 1)

Malformed == [ok |-> FALSE]

\* The name at an offset: its labels, the offset after it, and the lowest and
\* the highest offset that were looked at.
ReadName(b, off) ==
    LET walk[p \in 0..Len(b), jumps \in 0..MaxJumps] ==
          LET n == Byte(b, p)
              target == (n % 64) * 256 + Byte(b, p + 1)
              rest == walk[p + 1 + n, jumps]
              there == walk[target, jumps - 1]
          IN CASE p = Len(b) -> Malformed
               [] p < Len(b) /\ n = 0 ->
                    [ok |-> TRUE, labels |-> <<>>, end |-> p + 1, seen |-> {p}]
               [] p < Len(b) /\ n >= 192 ->
                    IF p + 1 >= Len(b) \/ jumps = 0 THEN Malformed
                    ELSE IF target >= Len(b) THEN Malformed
                    ELSE IF ~there.ok THEN Malformed
                    ELSE [there EXCEPT !.end = p + 2, !.seen = @ \cup {p, p + 1}]
               [] p < Len(b) /\ n \in 1..191 ->
                    IF n > MaxLabel \/ p + 1 + n > Len(b) THEN Malformed
                    ELSE IF ~rest.ok THEN Malformed
                    ELSE [rest EXCEPT !.labels = <<SubSeq(b, p + 2, p + 1 + n)>> \o @,
                                      !.seen = @ \cup p..(p + n)]
    IN walk[off, MaxJumps]

\* A chunked text that fills the offsets from p up to end.
ReadText(b, p, end) ==
    LET from[q \in Nat] ==
          IF q >= end THEN <<>>
          ELSE SubSeq(b, q + 2, q + 1 + Byte(b, q)) \o from[q + 1 + Byte(b, q)]
    IN from[p]

\* The data of a record, names as their labels.
ReadData(b, type, p, end) ==
    LET NameAt(q) == LET n == ReadName(b, q) IN
                       IF n.ok /\ n.end = end THEN n.labels ELSE <<"bad">>
    IN CASE type = "TXT" -> ReadText(b, p, end)
         [] type = "MX" -> [priority |-> Word16(b, p), host |-> NameAt(p + 2)]
         [] type = "SRV" -> [priority |-> Word16(b, p), weight |-> Word16(b, p + 2),
                             port |-> Word16(b, p + 4), target |-> NameAt(p + 6)]
         [] type \in {"CNAME", "NS", "PTR"} -> NameAt(p)
         [] OTHER -> SubSeq(b, p + 1, end)

\* The record at an offset, and the offset after it.
ReadRecord(b, p) ==
    LET owner == ReadName(b, p)
        h == owner.end
        end == h + 10 + Word16(b, h + 8)
        type == IF \E t \in DOMAIN Code : Code[t] = Word16(b, h)
                THEN CHOOSE t \in DOMAIN Code : Code[t] = Word16(b, h) ELSE "none"
    IN [end |-> end,
        rec |-> [owner |-> owner.labels, type |-> type, class |-> Word16(b, h + 2),
                 ttl |-> 65536 * Word16(b, h + 4) + Word16(b, h + 6),
                 v |-> ReadData(b, type, h + 10, end)]]

\* The length of the data of a record on the wire, whose texts are split into
\* chunks of at most "chunk" bytes.
DataSize(rec, chunk) ==
    LET Name(text) == FoldLeft(LAMBDA n, l : n + 1 + Len(l), 1, Labels(text))
    IN CASE rec.type = "TXT" -> Len(rec.v) + (Len(rec.v) + chunk - 1) \div chunk
         [] rec.type = "MX" -> 2 + Name(rec.v.host)
         [] rec.type = "SRV" -> 6 + Name(rec.v.target)
         [] rec.type \in {"CNAME", "NS", "PTR"} -> Name(rec.v)
         [] OTHER -> Len(rec.v)

\* A record as a resolver should read it.
AsRead(rec, owner) ==
    [owner |-> owner, type |-> rec.type, class |-> 1, ttl |-> rec.ttl,
     v |-> CASE rec.type = "MX" -> [rec.v EXCEPT !.host = Labels(@)]
             [] rec.type = "SRV" -> [rec.v EXCEPT !.target = Labels(@)]
             [] rec.type \in {"CNAME", "NS", "PTR"} -> Labels(rec.v)
             [] OTHER -> rec.v]
=============================================================================
