----------------------------- MODULE DnsConfig -----------------------------
(* The "dns" section of the configuration and what load_config makes of it:  *)
(* the flat table of names and records the responder answers from.           *)
(*                                                                           *)
(* A text is a sequence of bytes.  A section is the sequence of its members  *)
(* [key, ttl, rr]; rr maps the record types it names to [many, vals]: many   *)
(* tells a JSON array from a single value.  An address is the bytes that     *)
(* inet_pton makes of its text, and the empty sequence when it refuses it.   *)
EXTENDS Integers, Sequences, SequencesExt

CONSTANTS
    MaxHost,      \* 253, the longest name dns_valid_hostname accepts
    MaxLabel,     \* 63, the longest label
    MaxTxt,       \* 511, what fits txt[512] with its NUL
    MaxEntries,   \* MAX_DNS_ENTRIES
    MaxRecords,   \* MAX_DNS_RECORDS, per name
    DefaultTtl    \* dns_ttl

ASSUME DnsConfigAssumption ==
    /\ {MaxHost, MaxLabel, MaxTxt, MaxEntries, MaxRecords} \subseteq Nat \ {0}
    /\ DefaultTtl \in Nat

Dot == 46
Hyphen == 45
Missing == -1     \* a number the configuration does not give

\* The types in the order load_config looks for them, with their codes.
TypeOrder == <<"A", "AAAA", "CNAME", "NS", "PTR", "TXT", "MX", "SRV">>

Code == [A |-> 1, NS |-> 2, CNAME |-> 5, PTR |-> 12, MX |-> 15, TXT |-> 16,
         AAAA |-> 28, SRV |-> 33]

Lower(text) ==
    [i \in DOMAIN text |-> IF text[i] \in 65..90 THEN text[i] + 32 ELSE text[i]]

\* The labels of a dotted text; a single trailing dot adds none.
Labels(text) ==
    LET Ends(i) == IF i <= Len(text) THEN text[i] = Dot ELSE i > 1 /\ text[i - 1] # Dot
        ends == SelectSeq([i \in 1..(Len(text) + 1) |-> i], Ends)
    IN [k \in DOMAIN ends |->
          SubSeq(text, IF k = 1 THEN 1 ELSE ends[k - 1] + 1, ends[k] - 1)]

HostByte == 97..122 \cup 65..90 \cup 48..57 \cup {Hyphen, 95}

dns_valid_hostname(text) ==
    /\ text # <<>>
    /\ Len(text) <= MaxHost
    /\ \A i \in DOMAIN Labels(text) :
         LET l == Labels(text)[i] IN
           /\ Len(l) \in 1..MaxLabel
           /\ Hyphen \notin {l[1], Last(l)}
           /\ Range(l) \subseteq HostByte

Valid(type, v) ==
    CASE type \in {"A", "AAAA"} -> v # <<>>
      [] type = "TXT" -> v # <<>>
      [] type = "MX" -> dns_valid_hostname(v.host)
      [] type = "SRV" -> v.port # Missing /\ dns_valid_hostname(v.target)
      [] OTHER -> dns_valid_hostname(v)

OrElse(n, default) == IF n = Missing THEN default ELSE n % 65536

\* What the record keeps of an accepted value.  The priority and the weight of
\* an SRV record are taken from a DICT_INT64 only, and a number that
\* dict_deserialize_json has read is a DICT_NUMBER: what the file says of them
\* is not used.
Kept(type, v) ==
    CASE type = "TXT" -> SubSeq(v, 1, IF Len(v) < MaxTxt THEN Len(v) ELSE MaxTxt)
      [] type = "MX" -> [priority |-> OrElse(v.priority, 10), host |-> v.host]
      [] type = "SRV" -> [priority |-> 0, weight |-> 100,
                          port |-> v.port % 65536, target |-> v.target]
      [] OTHER -> v

\* CNAME and PTR are read from a single string only.
Listed(rr, type) ==
    IF type \notin DOMAIN rr \/ (type \in {"CNAME", "PTR"} /\ rr[type].many)
    THEN <<>>
    ELSE SelectSeq(rr[type].vals, LAMBDA v : Valid(type, v))

\* The values of a member that get a record, in the order of the table.
Accepted(member) ==
    LET ttl == IF member.ttl = Missing THEN DefaultTtl ELSE member.ttl
        OfType(t) == [i \in DOMAIN Listed(member.rr, t) |->
                        [type |-> t, ttl |-> ttl, v |-> Listed(member.rr, t)[i]]]
        all == FoldLeft(LAMBDA rs, t : rs \o OfType(t), <<>>, TypeOrder)
    IN SubSeq(all, 1, IF Len(all) < MaxRecords THEN Len(all) ELSE MaxRecords)

RecordsOf(member) ==
    FoldLeft(LAMBDA rs, r : Append(rs, [r EXCEPT !.v = Kept(r.type, @)]), <<>>, Accepted(member))

\* A member whose key is no hostname, or without a usable record, takes no entry.
Usable(member) == dns_valid_hostname(member.key) /\ RecordsOf(member) # <<>>

load_dns(section) ==
    LET used == SelectSeq(section, Usable)
        n == IF Len(used) < MaxEntries THEN Len(used) ELSE MaxEntries
    IN [i \in 1..n |-> [name |-> Lower(used[i].key), records |-> RecordsOf(used[i])]]
=============================================================================
