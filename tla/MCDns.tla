------------------------------- MODULE MCDns -------------------------------
(* Five small "dns" sections, and every question whose first bytes are taken *)
(* from lengths, letters, the root and pointers into and out of the question;*)
(* also labels that hold a NUL or a dot, and a key that ends with a dot.     *)
EXTENDS Dns

One(v) == [many |-> FALSE, vals |-> <<v>>]
Many(vs) == [many |-> TRUE, vals |-> vs]
Member(key, ttl, rr) == [key |-> key, ttl |-> ttl, rr |-> rr]

a == 97
b == 98
upA == 65

MCSections == {
    \* All that one name may hold, with values that are refused in between.
    << Member(<<Hyphen, a>>, Missing, [A |-> One(<<1, 1, 1, 1>>)]),
       Member(<<upA>>, Missing,
              [A |-> Many(<< <<10, 0, 0, 1>>, <<>>, <<10, 0, 0, 2>> >>),
               MX |-> Many(<< [priority |-> Missing, host |-> <<a, Dot, b>>],
                              [priority |-> 5, host |-> <<Dot>>] >>),
               TXT |-> One(<<1, 2, 3, 4, 5>>)]),
       Member(<<a>>, 7, [A |-> One(<<9, 9, 9, 9>>)]) >>,
    \* An alias, a service, and a name of two labels.
    << Member(<<a>>, 7, [CNAME |-> One(<<b, b>>), A |-> One(<<10, 0, 0, 1>>),
                         NS |-> Many(<< <<a, Dot, b>>, <<b, b>> >>)]),
       Member(<<a, Dot, a>>, Missing,
              [SRV |-> One([priority |-> 1, weight |-> Missing, port |-> 8080,
                            target |-> <<a, Dot, b>>]),
               PTR |-> One(<<b>>), AAAA |-> One([i \in 1..16 |-> i])]) >>,
    \* More records, names and text than fit.
    << Member(<<b>>, Missing, [CNAME |-> Many(<< <<a>> >>)]),
       Member(<<a>>, Missing,
              [TXT |-> Many(<< <<1, 2, 3, 4, 5, 6, 7, 8, 9>>, <<>>, <<1, 2, 3, 4, 5, 6, 7>>,
                               <<1, 2>>, <<3>> >>),
               NS |-> Many(<< <<a>>, <<b>>, <<a, Dot, b>> >>)]),
       Member(<<a, Dot, a>>, 1,
              [TXT |-> Many(<< <<1, 2, 3, 4, 5, 6, 7>>, <<1, 2, 3, 4>> >>),
               MX |-> One([priority |-> 2, host |-> <<a, Dot, b>>])]),
       Member(<<b>>, 1, [A |-> One(<<8, 8, 8, 8>>)]) >>,
    \* A final dot.
    << Member(<<b, Dot, b, Dot>>, 1, [A |-> One(<<7, 7, 7, 7>>)]) >>,
    << >> }

\* Offset 12 is the question itself, 14 inside it, 16 mostly its type, 20 beyond.
Bytes == {0, 1, a, upA, 192, 12, 14, 16, 20}

Header(rd, qd) == <<171, 205, rd, 0, 0, qd, 0, 0, 0, 0, 0, 0>>

Tails == { <<0, 1, 0, 1>>, <<0, 255, 0, 1>>, <<0, 16, 0, 1>>, <<0, 1, 0, 3>>,
           <<0, 255, 0, 1, 1, a, 0>>, <<0, 1, 0>> }

MCDatagrams ==
    {Header(1, 1) \o n \o t : n \in UNION {[1..k -> Bytes] : k \in 0..3}, t \in Tails}
      \cup {Header(0, 1) \o n \o <<0, 255, 0, 1>> :
              n \in { <<1, a, 1, upA, 0>>, <<2, a, a, 2, a, a, 2, a, a, 0>>,
                      <<1, a, 192, 16>>, <<1, a, 192, 14>>, <<4, a, a, a, a, 0>>,
                      <<192, 24>>, <<200, 1>>, <<1, b, 0>>,
                      <<2, a, 0, 0>>, <<1, 0, 0>>, <<3, a, Dot, a, 0>>, <<1, b, 1, b, 0>> }}
      \cup {Header(0, 1) \o <<1, a, 1, upA, 0, 0, type, 0, 1>> : type \in {33, 28, 12}}
      \cup {Header(0, 0) \o <<1, a, 0, 0, 1, 0, 1>>, <<171, 205, 0>>}
=============================================================================
