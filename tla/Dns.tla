-------------------------------- MODULE Dns --------------------------------
(* The authoritative DNS responder of dns.h.  One datagram is handled at a   *)
(* time: dns_socket_handler checks it, dns_decode_name reads the question's  *)
(* name one label or pointer per step, dns_build_response writes the reply.  *)
(*                                                                           *)
(* pc is "idle" between datagrams, "name" in the loop of dns_decode_name,    *)
(* "answer" after it, "records" in the loop over the records of an entry,    *)
(* "done" when dns_build_response has returned (reply is empty when it       *)
(* returned 0) and "aborted" after a write beyond the buffer that the        *)
(* process did not survive.                                                  *)
EXTENDS DnsReader, FiniteSets

CONSTANTS
    Sections,     \* "dns" sections a configuration may hold
    Datagrams,    \* what a client may send
    NameRoom,     \* 256, sizeof(qname)
    ChunkMax,     \* 255, the longest string in a TXT record
    MinOut,       \* 512
    OutMax        \* 4096, sizeof(resp)

ASSUME DnsAssumption ==
    /\ {NameRoom, ChunkMax, MinOut, OutMax} \subseteq Nat \ {0}
    /\ MaxHost < NameRoom - 1

VARIABLES
    section,      \* the section the configuration was loaded from
    cfg,          \* g_dns_config
    pc, query,
    dec,          \* the locals of dns_decode_name
    todo,         \* the records the loop has not come to
    reply         \* the bytes of resp[] written so far
vars == <<section, cfg, pc, query, dec, todo, reply>>

Hdr == 12
AnyType == 255
In == 1
NxDomain == 3
RefusedCode == 5

NoName == [pos |-> Hdr, out |-> <<>>, jumps |-> 0, first_end |-> 0]

Init ==
    /\ section \in Sections /\ cfg = load_dns(section)
    /\ pc = "idle" /\ query = <<>> /\ dec = NoName /\ todo = <<>> /\ reply = <<>>

(* ------------------------- dns_decode_name ------------------------------- *)

Here == Byte(query, dec.pos)
InName == pc = "name" /\ dec.pos < Len(query)
Pointing == Here >= 192
Target == (Here % 64) * 256 + Byte(query, dec.pos + 1)

\* The offset after the name is fixed by the first pointer or by the root.
FirstEnd(after) == IF dec.first_end = 0 THEN after ELSE dec.first_end

JumpedUncounted == dec.jumps
Jumped == dec.jumps + 1

BadPointer == dec.pos + 1 >= Len(query) \/ Target >= Len(query) \/ Jumped > MaxJumps
BadLabel == Here > MaxLabel \/ dec.pos + 1 + Here > Len(query)

Return == pc' = "done" /\ UNCHANGED <<section, cfg, query, dec, todo, reply>>

Root ==
    /\ InName /\ Here = 0
    /\ pc' = "answer" /\ dec' = [dec EXCEPT !.first_end = FirstEnd(dec.pos + 1)]
    /\ UNCHANGED <<section, cfg, query, todo, reply>>

Pointer ==
    /\ InName /\ Pointing /\ ~BadPointer
    /\ dec' = [dec EXCEPT !.first_end = FirstEnd(dec.pos + 2), !.pos = Target,
                          !.jumps = Jumped]
    /\ UNCHANGED <<section, cfg, pc, query, todo, reply>>

\* The text so far, cut where qname is full.
Cut(text) == SubSeq(text, 1, IF Len(text) < NameRoom THEN Len(text) ELSE NameRoom - 1)

Dotted(out) == IF out = <<>> THEN <<>> ELSE Append(out, Dot)

Label ==
    /\ InName /\ Here # 0 /\ ~Pointing /\ ~BadLabel
    /\ dec' = [dec EXCEPT !.pos = @ + 1 + Here,
                          !.out = Cut(Dotted(@) \o Lower(SubSeq(query, dec.pos + 2,
                                                                dec.pos + 1 + Here)))]
    /\ UNCHANGED <<section, cfg, pc, query, todo, reply>>

BadName ==
    /\ InName /\ Here # 0
    /\ IF Pointing THEN BadPointer ELSE BadLabel
    /\ Return

\* The end of the datagram ends the name too; that is an error unless a pointer
\* was followed before.
RunOff ==
    /\ pc = "name" /\ dec.pos >= Len(query)
    /\ IF dec.first_end > Hdr
       THEN pc' = "answer" /\ UNCHANGED <<section, cfg, query, dec, todo, reply>>
       ELSE Return

(* ------------------------ dns_build_response ----------------------------- *)

dns_put16(n) == <<(n \div 256) % 256, n % 256>>
dns_put32(n) == dns_put16(n \div 65536) \o dns_put16(n % 65536)

\* The empty sequence stands for the error -1: nothing is added to the reply.
\* The room is a size_t: when pos is past the buffer it is immense.
dns_encode_name(text, pos) ==
    LET wire == FoldLeft(LAMBDA w, l : w \o <<Len(l)>> \o l, <<>>, Labels(text)) \o <<0>>
    IN IF pos <= OutMax /\ pos + Len(wire) > OutMax THEN <<>> ELSE wire

Chunks(text) ==
    [i \in 1..((Len(text) + ChunkMax - 1) \div ChunkMax) |->
        SubSeq(text, (i - 1) * ChunkMax + 1,
               IF i * ChunkMax < Len(text) THEN i * ChunkMax ELSE Len(text))]

\* Chunks are written up to the first that does not fit.
TextData(text, pos) ==
    LET fit == {k \in DOMAIN Chunks(text) :
                  pos + k + (IF k * ChunkMax < Len(text) THEN k * ChunkMax ELSE Len(text))
                    <= OutMax}
    IN FoldLeft(LAMBDA w, c : w \o <<Len(c)>> \o c, <<>>,
                SubSeq(Chunks(text), 1, Cardinality(fit)))

\* Fixed numbers, when there is room for them, and then a name.
Numbered(nums, text, pos) ==
    IF pos + 2 * Len(nums) > OutMax THEN <<>>
    ELSE LET b == FoldLeft(LAMBDA d, n : d \o dns_put16(n), <<>>, nums)
         IN b \o dns_encode_name(text, pos + Len(b))

RData(rec, pos) ==
    CASE rec.type \in {"A", "AAAA"} ->
           IF pos + Len(rec.v) > OutMax THEN <<>> ELSE rec.v
      [] rec.type = "TXT" -> TextData(rec.v, pos)
      [] rec.type = "MX" -> Numbered(<<rec.v.priority>>, rec.v.host, pos)
      [] rec.type = "SRV" ->
           Numbered(<<rec.v.priority, rec.v.weight, rec.v.port>>, rec.v.target, pos)
      [] OTHER -> dns_encode_name(rec.v, pos)

Wanted(rec, qtype) == qtype \in {AnyType, Code[rec.type]} \/ rec.type = "CNAME"

\* strcmp sees a text up to its first NUL.
CString(text) ==
    LET nul == SelectInSeq(text, LAMBDA c : c = 0)
    IN IF nul = 0 THEN text ELSE SubSeq(text, 1, nul - 1)

\* The first entry with the name, as a sequence of none or one.
Lookup(name) ==
    LET found == SelectSeq(cfg, LAMBDA e : e.name = CString(name))
    IN SubSeq(found, 1, IF found = <<>> THEN 0 ELSE 1)

Question == SubSeq(query, Hdr + 1, dec.first_end + 4)
QType == Word16(query, dec.first_end)
QClass == Word16(query, dec.first_end + 2)

NoRoom == dec.first_end + 4 > Len(query) \/ Hdr + Len(Question) > OutMax

\* The header and the question, with the response code, and the entry's records.
Begin ==
    LET entry == IF QClass = In THEN Lookup(dec.out) ELSE <<>>
        rcode == CASE QClass # In -> RefusedCode
                   [] QClass = In /\ entry = <<>> -> NxDomain
                   [] OTHER -> 0
        flags == 32768 + 1024 + (Byte(query, 2) % 2) * 256 + rcode
    IN /\ pc = "answer"
       /\ IF NoRoom THEN Return
          ELSE /\ reply' = SubSeq(query, 1, 2) \o dns_put16(flags) \o dns_put16(1)
                            \o dns_put16(0) \o dns_put32(0) \o Question
               /\ todo' = IF entry = <<>> THEN <<>> ELSE entry[1].records
               /\ pc' = "records" /\ UNCHANGED <<section, cfg, query, dec>>

\* ANCOUNT is kept up to date in place; the code writes it after the loop.
Counted(bytes) == [bytes EXCEPT ![8] = @ + 1]

Named == reply \o <<192, Hdr>>

RdLengthWithItself(data) == dns_put16(Len(data) + 2)
RdLength(data) == dns_put16(Len(data))

\* The three ways a turn of the loop goes on: a record left out, one appended, or
\* the loop left for want of room, with or without the name written.
Skip ==
    /\ pc = "records" /\ todo # <<>> /\ ~Wanted(todo[1], QType)
    /\ todo' = Tail(todo) /\ UNCHANGED <<section, cfg, pc, query, dec, reply>>

Answer ==
    /\ pc = "records" /\ todo # <<>> /\ Wanted(todo[1], QType)
    /\ Len(Named) + 8 <= OutMax
    /\ LET rec == todo[1]
           head == Named \o dns_put16(Code[rec.type]) \o dns_put16(In) \o dns_put32(rec.ttl)
           data == RData(rec, Len(head) + 2)
       IN reply' = Counted(head \o RdLength(data) \o data)
    /\ todo' = Tail(todo) /\ UNCHANGED <<section, cfg, pc, query, dec>>

Full ==
    /\ pc = "records" /\ todo # <<>> /\ Wanted(todo[1], QType)
    /\ Len(Named) + 8 > OutMax
    /\ reply' = IF Len(reply) + 2 > OutMax THEN reply ELSE Named
    /\ pc' = "done" /\ UNCHANGED <<section, cfg, query, dec, todo>>

Finish == pc = "records" /\ todo = <<>> /\ Return

\* A reply longer than resp[] was written beyond it: the process may go on or not.
Overrun ==
    /\ pc = "done" /\ Len(reply) > OutMax
    /\ pc' = "aborted" /\ UNCHANGED <<section, cfg, query, dec, todo, reply>>

(* ------------------------ dns_socket_handler ----------------------------- *)

Receive ==
    /\ pc = "idle"
    /\ \E d \in Datagrams :
         /\ query' = d
         /\ IF Len(d) < Hdr \/ OutMax < MinOut \/ Word16(d, 4) = 0
            THEN pc' = "done" ELSE pc' = "name"
    /\ UNCHANGED <<section, cfg, dec, todo, reply>>

\* socket_write, when there is a reply, and back to the event loop.
Send ==
    /\ pc = "done"
    /\ pc' = "idle" /\ query' = <<>> /\ dec' = NoName /\ todo' = <<>> /\ reply' = <<>>
    /\ UNCHANGED <<section, cfg>>

Handler ==
    \/ Root \/ Pointer \/ Label \/ BadName \/ RunOff
    \/ Begin \/ Skip \/ Answer \/ Full \/ Finish \/ Send

Next == Receive \/ Handler \/ Overrun

Spec == Init /\ [][Next]_vars /\ WF_vars(Handler)

(* ----------------------------- properties -------------------------------- *)

\* The question as a resolver reads it, when it is one the responder owes an
\* answer: complete, and with a name that looks at no byte outside the question,
\* the only part of the query that is repeated in the reply.
Asked ==
    LET n == ReadName(query, Hdr) IN
      IF /\ Len(query) >= Hdr /\ Word16(query, 4) > 0 /\ n.ok
      THEN [ok |-> n.end + 4 <= Len(query) /\ n.seen \subseteq Hdr..(n.end + 3),
            labels |-> [i \in DOMAIN n.labels |-> Lower(n.labels[i])], name |-> n.labels,
            end |-> n.end]
      ELSE Malformed

\* No label holds a NUL or a dot, so the labels and the dotted text say the same.
Plain(asked) == \A i \in DOMAIN asked.labels : Range(asked.labels[i]) \cap {0, Dot} = {}

\* The members of the section that the table has room for and that have the name
\* asked for.  A key that ends with a dot is loaded but never found.
MembersNamed(asked) ==
    LET usable == SelectSeq(section, Usable)
        kept == SubSeq(usable, 1, IF Len(usable) < MaxEntries THEN Len(usable) ELSE MaxEntries)
    IN SelectSeq(kept, LAMBDA m : Last(m.key) # Dot /\ Labels(Lower(m.key)) = asked.labels)

\* What the section says of a record: its own numbers, wherever it gives them, and
\* the whole text.
Said(rec) ==
    CASE rec.type = "MX" -> [rec EXCEPT !.v.priority = IF @ = Missing THEN 10 ELSE @]
      [] rec.type = "SRV" -> [rec EXCEPT !.v.priority = IF @ = Missing THEN 0 ELSE @,
                                         !.v.weight = IF @ = Missing THEN 100 ELSE @]
      [] OTHER -> rec

\* The records the section promises for the question: those of the first member
\* with that name whose type is asked for, and any CNAME.
Promised(asked) ==
    LET type == Word16(query, asked.end)
        named == MembersNamed(asked)
    IN IF Word16(query, asked.end + 2) # In \/ named = <<>> THEN <<>>
       ELSE SelectSeq(FoldLeft(LAMBDA rs, r : Append(rs, Said(r)), <<>>, Accepted(named[1])),
                      LAMBDA r : type = AnyType \/ type = Code[r.type] \/ r.type = "CNAME")

\* The response code the question deserves.
PromisedCode(asked) ==
    IF Word16(query, asked.end + 2) # In THEN RefusedCode
    ELSE IF MembersNamed(asked) = <<>> THEN NxDomain ELSE 0

\* Where the i-th record of an answer with these records starts.
StartOf(recs, i, asked) ==
    FoldLeft(LAMBDA n, r : n + 12 + DataSize(r, ChunkMax), asked.end + 4,
             SubSeq(recs, 1, i - 1))

\* What AnswersExact does not compare: a text beyond txt[] and the priority and
\* the weight of an SRV record, which load_config loses.
Comparable(rec) ==
    CASE rec.type = "TXT" -> [rec EXCEPT !.v = SubSeq(@, 1, IF Len(@) < MaxTxt THEN Len(@)
                                                             ELSE MaxTxt)]
      [] rec.type = "SRV" -> [rec EXCEPT !.v.priority = 0, !.v.weight = 0]
      [] OTHER -> rec

\* AnswersExact.  The reply to a well-formed question whose labels hold neither a
\* NUL nor a dot, whenever all of it fits resp[], carries the query's id, is an
\* authoritative answer with the right response code and the question repeated,
\* and a resolver that reads it from the wire, pointers, lengths and counts
\* included, finds exactly the records the section promises, in their order and
\* with nothing after them.  Of a text longer than txt[] it finds the beginning,
\* and nothing is said of the priority and the weight of an SRV record: load_config
\* takes them only from an int64, which a parsed file never holds, so the reply has
\* 0 in their place (dns.h, dns_build_response; config.h:554).
AnswersExact ==
    pc = "done" => \A a \in {Asked} : a.ok /\ Plain(a) =>
      \A recs \in {[i \in DOMAIN Promised(a) |-> Comparable(Promised(a)[i])]} :
        LET Start(i) == StartOf(recs, i, a)
        IN Start(Len(recs) + 1) <= OutMax =>
             /\ Len(reply) = Start(Len(recs) + 1)
             /\ SubSeq(reply, 1, 2) = SubSeq(query, 1, 2)
             /\ Byte(reply, 2) = 132 + (Byte(query, 2) % 2)
             /\ Byte(reply, 3) = PromisedCode(a)
             /\ Word16(reply, 4) = 1 /\ Word16(reply, 6) = Len(recs)
             /\ SubSeq(reply, Hdr + 1, a.end + 4) = SubSeq(query, Hdr + 1, a.end + 4)
             /\ \A i \in DOMAIN recs : LET r == ReadRecord(reply, Start(i)) IN
                  /\ r.end = Start(i + 1)
                  /\ Comparable(r.rec) = AsRead(recs[i], a.name)

\* HandlerReturns.  Whatever the datagram holds, pointers that form a loop
\* included, dns_decode_name ends and the single thread gets back to its event
\* loop.
HandlerReturns == (pc = "name") ~> (pc \in {"idle", "aborted"})
=============================================================================
