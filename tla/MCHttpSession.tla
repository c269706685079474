---------------------------- MODULE MCHttpSession ----------------------------
(* Well-formed requests, each of them with any one unit replaced, against   *)
(* the default handler; and two plain requests on one connection against    *)
(* every kind of file.                                                      *)
EXTENDS HttpGrammar

Wellformed ==
  { <<"g", "r", "n", "r", "n">>,
    <<"g", "n", "n", "g", "n", "n">>,
    <<"g", "n", "l2", "r", "n", "r", "n", "d", "d">>,
    <<"g", "n", "l1", "n", "n", "n", "g", "n", "n">>,
    <<"g", "n", "l0", "n", "l2", "n", "n", "d", "r">>,
    <<"g", "n", "l1", "n", "t", "n", "n", "d">>,
    <<"g", "n", "h", "n", "u", "n", "n">>,
    <<"g", "n", "t", "n", "n", "1", "r", "n", "d", "r", "n", "0", "n">>,
    <<"g", "n", "t", "n", "n", "2", ";", "d", "n", "r", "n", "r", "n", "0", "r", "n">> }

Malformed ==
  { <<"g", "n", "lx", "n", "n">>,
    <<"g", "n", "h", "n", "l1", "n", "t", "n", "n", "d">>,
    <<"g", "n", "t", "n", "n", "1", "1", "n">>,
    <<"g", "n", "t", "n", "n", "1", "n", "d", "r", "n", "2", "n", "d", "d">>,
    <<"g", "n", "t", "n", "n", "0", "0", "0", "0", "n">>,
    <<"g", "n", "h", "n", "h", "n", "h", "n", "h", "n", "h", "n", "h", "n", "h", "n", "h", "n", "h", "n", "n">> }

Replaced ==
  UNION {{[s EXCEPT ![i] = u] : i \in DOMAIN s, u \in {"x", "r", "n", "d"}} : s \in Wellformed}

Get(target, size, range, gzip, keep) ==
  [method |-> "GET", target |-> target, size |-> size, range |-> range,
   gzip |-> gzip, keep |-> keep]

Between(from, to) == [from |-> from, to |-> to, given |-> TRUE]

Ranges == {NoRange, Between(1, 1), Between(1, -1), Between(-1, 1), Between(2, 1), Between(0, 9)}

Files ==
  {Get("file", 4, range, FALSE, keep) : range \in Ranges, keep \in BOOLEAN} \cup
  {Get("file", 0, NoRange, FALSE, keep) : keep \in BOOLEAN} \cup
  {Get("file", 3, range, TRUE, keep) : range \in {NoRange, Between(-1, -1)}, keep \in BOOLEAN} \cup
  {Get("missing", 0, NoRange, FALSE, TRUE)} \cup
  {[Get("file", 4, NoRange, FALSE, keep) EXCEPT !.method = "HEAD"] : keep \in BOOLEAN} \cup
  {[Get("file", 4, NoRange, FALSE, TRUE) EXCEPT !.method = "POST"]}

Welcome == {Get("welcome", 0, NoRange, FALSE, TRUE)}

MCVisits ==
  [bytes: Wellformed \cup Malformed \cup Replaced, tls: {FALSE}, requests: {Welcome}] \cup
  [bytes: {<<"g", "n", "n", "g", "n", "n", "g", "n", "n">>}, tls: BOOLEAN, requests: {Files}]
=============================================================================
