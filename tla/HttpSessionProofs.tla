--------------------------- MODULE HttpSessionProofs ---------------------------
(***************************************************************************)
(* One HTTP connection, for every stream of bytes, every way of cutting it *)
(* into reads, every request and file, and every amount the socket takes:  *)
(* the parser stays inside its buffer and its loop advances, bodies arrive *)
(* whole and in order, and no descriptor is left open.                     *)
(***************************************************************************)
EXTENDS HttpSession, SequenceTheorems, WellFoundedInduction, TLAPS

-----------------------------------------------------------------------------
(* The parser.                                                               *)

Parsers ==
  [state: {"REQUEST_LINE", "HEADERS", "BODY", "DONE", "ERROR"}, buffer: Seq(STRING),
   cap: Nat, pos: Nat, headers: SUBSET {"te", "h", "cl"}, length: {"none", "l0", "l1", "l2", "lx"},
   coding: {"none", "t", "u"}, content_length: Nat, chunked: BOOLEAN, body: Seq(STRING)]

(* A body that is being read ends below its limit: a chunk was admitted      *)
(* before its bytes came, and a counted body is not longer than its length.  *)
ParserOK(q) ==
  /\ q \in Parsers
  /\ q.pos <= Len(q.buffer) /\ Len(q.buffer) < q.cap /\ q.cap <= MaxCap
  /\ Len(q.body) <= MaxBody /\ q.content_length <= MaxBody
  /\ q.state \in {"REQUEST_LINE", "HEADERS"} => q.body = <<>> /\ q.content_length = 0
  /\ q.state = "BODY" => IF q.chunked THEN Len(q.body) + q.content_length <= MaxBody
                         ELSE Len(q.body) < q.content_length

Going(q) == q.state \notin {"DONE", "ERROR"}

ParserInv ==
  /\ stream \in Seq(STRING) /\ nread \in 0 .. Len(stream) /\ base \in 0 .. nread
  /\ ParserOK(p) /\ buflen \in Nat /\ full \in BOOLEAN /\ oom \in BOOLEAN
  /\ pc \in {"idle", "loop", "request", "error"}
  /\ pc = "loop" /\ Going(p) => buflen = Len(p.buffer)

-----------------------------------------------------------------------------
(* The connection.                                                           *)

AllRequests == UNION {v.requests : v \in Visits}

Sends ==
  [sending: BOOLEAN, file: {"none", "open", "stale"}, size: Nat, offset: Nat,
   remaining: 0 .. Word - 1, sendfile: BOOLEAN, buffer: Seq(Int)]

Conns ==
  [tls: BOOLEAN, requests: SUBSET AllRequests, pending: Nat, req: AllRequests \cup {NoRequest},
   parser: {"live", "destroyed", "freed twice"}, interest: {"read", "write"}, send: Sends,
   fds: Nat, closed: BOOLEAN, failed: BOOLEAN, out: Seq(Responses)]

(* The file is not read past its end, and sendfile is not asked to.          *)
SendOK(s) ==
  /\ s \in Sends /\ s.offset <= s.size
  /\ s.sendfile => s.offset + s.remaining <= s.size

EmptyFile(out) == \E i \in DOMAIN out : out[i].status = 200 /\ out[i].length = 0

FdsOK(d) ==
  /\ d.send.file = "open" => d.fds > 0
  /\ EmptyFile(d.out) \/ d.fds = IF d.send.file = "open" THEN 1 ELSE 0

Sound(d) ==
  /\ d \in Conns /\ SendOK(d.send) /\ FdsOK(d)
  /\ d.closed => d.send = Idle
  /\ d.send.sending => d.out # <<>>

ConnOK(d) == Sound(d) /\ (d.failed => d.closed)

(* Concatenation, named so that lemmas about it can be instantiated.         *)
Cat(s, t) == s \o t

(* What the send state still holds of a body.                                *)
Flying(s) == s.sending /\ s.remaining # 0

Left(s) ==
  IF ~Flying(s) THEN <<>>
  ELSE IF s.sendfile THEN Offsets(s.offset, s.remaining)
  ELSE IF s.file = "open" THEN Cat(s.buffer, Offsets(s.offset, s.size - s.offset))
  ELSE s.buffer

(* The responses left out: ranges over TLS.                                  *)
Exempt(tls, r) == tls /\ r.status = 206
LengthOK(r) == r.req.method # "HEAD" => r.length = Len(Wanted(r.req))

(* Every body is what was asked for, once the last one has the rest.         *)
Promised(tls, out, rest) ==
  \A i \in DOMAIN out : Exempt(tls, out[i]) \/
    /\ LengthOK(out[i])
    /\ IF i < Len(out) THEN out[i].body = Wanted(out[i].req)
       ELSE Cat(out[i].body, rest) = Wanted(out[i].req)

(* remaining counts what is held.                                            *)
LastExempt(d) == d.out # <<>> /\ Exempt(d.tls, d.out[Len(d.out)])
Tally(s) == Flying(s) => Len(Left(s)) = s.remaining

Delivering(d) ==
  /\ Promised(d.tls, d.out, Left(d.send))
  /\ LastExempt(d) \/ Tally(d.send)

(* After a failure the last body may have been cut.                          *)
CutShort(d) ==
  \A i \in DOMAIN d.out : Exempt(d.tls, d.out[i]) \/
    /\ LengthOK(d.out[i])
    /\ Len(d.out[i].body) <= Len(Wanted(d.out[i].req))
    /\ d.out[i].body = SubSeq(Wanted(d.out[i].req), 1, Len(d.out[i].body))
    /\ i < Len(d.out) => d.out[i].body = Wanted(d.out[i].req)

BodiesOK(d) == IF d.failed THEN CutShort(d) ELSE Delivering(d)

(* A body or a file that is waiting is waiting for EV_WRITE.                 *)
FileArmed(d) == d.send.file = "open" => EmptyFile(d.out) \/ d.interest = "write"
BodyArmed(d) == Flying(d.send) => d.interest = "write"

SessionInv ==
  /\ ConnOK(c) /\ FileArmed(c)
  /\ pc # "idle" => ~c.closed /\ c.interest = "read"
  /\ c.send.file = "stale" => oom
  /\ ~oom => BodiesOK(c) /\ BodyArmed(c)

IInv == ParserInv /\ SessionInv

-----------------------------------------------------------------------------
(* Numbers, and what the parser finds in its buffer.                         *)

\* Natural numbers have least elements.
LEMMA LeastNat ==
  ASSUME NEW T, T \subseteq Nat, T # {}
  PROVE  \E i \in T : \A j \in T : i <= j
  <1> DEFINE R == OpToRel(<, Nat)
  <1>1. IsWellFoundedOn(R, Nat)
    BY NatLessThanWellFounded
  <1>2. \A i, j \in Nat : <<j, i>> \in R <=> j < i
    BY DEF OpToRel
  <1> HIDE DEF R
  <1>3. PICK i \in T : \A j \in T : ~(<<j, i>> \in R)
    BY <1>1, WFMin
  <1>4. \A j \in T : i <= j
    <2>1. TAKE j \in T
    <2>2. i \in Nat /\ j \in Nat
      OBVIOUS
    <2>3. ~(j < i)
      BY <1>2, <1>3, <2>2
    <2> QED
      BY <2>2, <2>3
  <1> QED
    BY <1>4

(* f counts from a with one of the given steps at a time.                    *)
Iterated(f, a, n, step) == f[0] = a /\ \A k \in 1 .. n : f[k] = step[k][f[k - 1]]

\* A value of S and n given steps within S make a function:
\* the shortest one that did not could be made from the one before it.
LEMMA Iterates ==
  ASSUME NEW S, NEW a \in S, NEW n \in Nat, NEW step \in [1 .. n -> [S -> S]]
  PROVE  \E f \in [0 .. n -> S] : Iterated(f, a, n, step)
  <1> DEFINE Is(m, f) == f[0] = a /\ \A k \in 1 .. m : f[k] = step[k][f[k - 1]]
             Fails == {m \in 0 .. n : ~\E f \in [0 .. m -> S] : Is(m, f)}
  <1>1. Fails = {}
    <2>1. SUFFICES ASSUME Fails # {} PROVE FALSE
      OBVIOUS
    <2>2. PICK m \in Fails : \A j \in Fails : m <= j
      <3>1. Fails \subseteq Nat
        OBVIOUS
      <3> HIDE DEF Fails
      <3> QED
        BY <2>1, <3>1, LeastNat
    <2>3. CASE m = 0
      <3>1. [i \in 0 .. 0 |-> a] \in [0 .. m -> S] /\ Is(m, [i \in 0 .. 0 |-> a])
        BY <2>3
      <3> QED
        BY <2>2, <3>1
    <2>4. CASE m # 0
      <3>1. m - 1 \in 0 .. n /\ m - 1 \notin Fails /\ m \in 1 .. n
        BY <2>2, <2>4
      <3>2. PICK f \in [0 .. m - 1 -> S] : Is(m - 1, f)
        BY <3>1
      <3> DEFINE g == [i \in 0 .. m |-> IF i = m THEN step[m][f[m - 1]] ELSE f[i]]
      <3>3. g \in [0 .. m -> S]
        <4>1. step[m] \in [S -> S] /\ f[m - 1] \in S
          BY <3>1
        <4>2. \A i \in 0 .. m : i # m => f[i] \in S
          BY <3>1
        <4> QED
          BY <4>1, <4>2
      <3>4. g[0] = a
        BY <2>4, <3>1, <3>2
      <3>5. ASSUME NEW k \in 1 .. m PROVE g[k] = step[k][g[k - 1]]
        <4>1. k - 1 \in 0 .. m /\ k - 1 # m /\ k \in 0 .. m
          BY <3>1
        <4>2. g[k - 1] = f[k - 1]
          BY <4>1
        <4>3. CASE k = m
          BY <4>1, <4>2, <4>3
        <4>4. CASE k # m
          <5>1. k \in 1 .. m - 1
            BY <3>1, <4>4
          <5>2. f[k] = step[k][f[k - 1]]
            BY <3>2, <5>1
          <5> QED
            BY <4>1, <4>2, <4>4, <5>2
        <4> QED
          BY <4>3, <4>4
      <3>6. Is(m, g)
        BY <3>4, <3>5
      <3> QED
        BY <2>2, <3>3, <3>6
    <2> QED
      BY <2>3, <2>4
  <1>2. n \in 0 .. n /\ n \notin Fails
    BY <1>1
  <1> QED
    BY <1>2 DEF Iterated

\* strtoull: the value of a line of digits is a number.
LEMMA SizeValueNat ==
  ASSUME NEW s \in Seq(HexDigit)
  PROVE  SizeValue(s) \in Nat
  <1> DEFINE n == Len(s)
             E(v, k) == IF k = 0 THEN 0 ELSE 16 * v[k - 1] + HexValue[s[k]]
             V == CHOOSE v : v = [k \in 0 .. n |-> E(v, k)]
             step == [k \in 1 .. n |-> [x \in Nat |-> 16 * x + HexValue[s[k]]]]
  <1>1. n \in Nat
    BY LenProperties
  <1>2. HexValue \in [HexDigit -> Nat]
    BY DEF HexValue, HexDigit
  <1>3. \A k \in 1 .. n : HexValue[s[k]] \in Nat
    BY <1>2, ElementOfSeq
  <1>4. step \in [1 .. n -> [Nat -> Nat]]
    <2>1. \A k \in 1 .. n : \A x \in Nat : 16 * x + HexValue[s[k]] \in Nat
      BY <1>3
    <2> QED
      BY <2>1
  <1> HIDE DEF step
  <1>5. PICK f \in [0 .. n -> Nat] : f[0] = 0 /\ \A k \in 1 .. n : f[k] = step[k][f[k - 1]]
    <2>1. PICK N : N = Nat
      OBVIOUS
    <2>2. 0 \in N /\ step \in [1 .. n -> [N -> N]]
      BY <1>4, <2>1
    <2> HIDE DEF n
    <2>3. \E f \in [0 .. n -> N] : Iterated(f, 0, n, step)
      BY <1>1, <2>2, Iterates
    <2> QED
      BY <2>1, <2>3 DEF Iterated
  <1>6. f = [k \in 0 .. n |-> E(f, k)]
    <2>1. ASSUME NEW k \in 0 .. n PROVE f[k] = E(f, k)
      <3>1. CASE k = 0
        BY <1>5, <3>1
      <3>2. CASE k # 0
        <4>1. k \in 1 .. n /\ k - 1 \in 0 .. n
          BY <1>1, <3>2
        <4>2. f[k - 1] \in Nat /\ f[k] = step[k][f[k - 1]]
          BY <1>5, <4>1
        <4> QED
          BY <3>2, <4>1, <4>2 DEF step
      <3> QED
        BY <3>1, <3>2
    <2> QED
      BY <2>1
  <1>7. V = [k \in 0 .. n |-> E(V, k)]
    BY <1>6
  <1>8. SizeValue(s) = V[n]
    BY DEF SizeValue
  <1> DEFINE T == {k \in 0 .. n : V[k] \notin Nat}
  <1> HIDE DEF V
  <1>9. T = {}
    <2>1. SUFFICES ASSUME T # {} PROVE FALSE
      OBVIOUS
    <2>2. PICK m \in T : \A j \in T : m <= j
      <3>1. T \subseteq Nat
        OBVIOUS
      <3> HIDE DEF T
      <3> QED
        BY <2>1, <3>1, LeastNat
    <2>3. V[m] = E(V, m)
      BY <1>7, <2>2
    <2>4. m # 0
      BY <2>2, <2>3
    <2>5. m \in 1 .. n /\ m - 1 \in 0 .. n /\ ~(m <= m - 1)
      BY <1>1, <2>2, <2>4
    <2>6. V[m - 1] \in Nat /\ HexValue[s[m]] \in Nat
      BY <1>3, <2>2, <2>5
    <2>7. PICK x \in Nat, y \in Nat : x = V[m - 1] /\ y = HexValue[s[m]]
      BY <2>6
    <2>8. V[m] = 16 * x + y
      BY <2>3, <2>4, <2>7
    <2> QED
      BY <2>2, <2>8
  <1> QED
    BY <1>1, <1>8, <1>9

\* stringbuf_reserve: a buffer that could be had has room for the bytes and the NUL.
LEMMA Reserved ==
  ASSUME NEW cap \in Nat, NEW need \in Nat, cap <= MaxCap
  PROVE  /\ stringbuf_reserve(cap, need) \in Nat /\ stringbuf_reserve(cap, need) <= MaxCap
         /\ stringbuf_reserve(cap, need) # 0 => need < stringbuf_reserve(cap, need)
  BY ParserAssumption DEF stringbuf_reserve

\* stringbuf_memchr: a line end that was found lies in the buffer, not before pos.
LEMMA LineEndFound ==
  ASSUME p \in Parsers, LineEnd # -1
  PROVE  LineEnd \in p.pos .. Len(p.buffer) - 1 /\ LineEnd \in Nat
  <1> DEFINE at == {i \in p.pos .. Len(p.buffer) - 1 : p.buffer[i + 1] = "n"}
  <1>1. p.pos \in Nat /\ Len(p.buffer) \in Nat
    BY LenProperties DEF Parsers
  <1>2. at \subseteq Nat /\ at \subseteq p.pos .. Len(p.buffer) - 1
    BY <1>1
  <1>3. LineEnd = IF at = {} THEN -1 ELSE CHOOSE i \in at : \A j \in at : i <= j
    BY DEF LineEnd, stringbuf_memchr
  <1> HIDE DEF at
  <1>4. \E i \in at : \A j \in at : i <= j
    BY <1>2, <1>3, LeastNat
  <1> QED
    BY <1>2, <1>3, <1>4

\* A stretch of a sequence of texts, wherever it is cut.
LEMMA Stretch ==
  ASSUME NEW s \in Seq(STRING), NEW m \in Nat, NEW n \in Int, n <= Len(s)
  PROVE  /\ SubSeq(s, m + 1, n) \in Seq(STRING)
         /\ Len(SubSeq(s, m + 1, n)) = IF m < n THEN n - m ELSE 0
  <1>1. Len(s) \in Nat /\ \A i \in 1 .. Len(s) : s[i] \in STRING
    BY LenProperties, ElementOfSeq
  <1>2. m + 1 \in Int /\ \A i \in m + 1 .. n : s[i] \in STRING
    BY <1>1
  <1>3. /\ SubSeq(s, m + 1, n) \in Seq(STRING)
        /\ Len(SubSeq(s, m + 1, n)) = IF m + 1 <= n THEN n - (m + 1) + 1 ELSE 0
    BY <1>2, SubSeqProperties
  <1> QED
    BY <1>3

\* The text of a line that was found is a stretch of the buffer.
LEMMA LineTextTyped ==
  ASSUME p \in Parsers, LineEnd # -1
  PROVE  LineText \in Seq(STRING) /\ Len(LineText) \in Nat
  <1> DEFINE last == IF LineEnd > 0 /\ p.buffer[LineEnd] = "r" THEN LineEnd - 1 ELSE LineEnd
  <1>1. p.pos \in Nat /\ p.buffer \in Seq(STRING) /\ Len(p.buffer) \in Nat
    BY LenProperties DEF Parsers
  <1>2. last \in Int /\ last <= Len(p.buffer)
    BY <1>1, LineEndFound
  <1>3. LineText = SubSeq(p.buffer, p.pos + 1, last)
    BY DEF LineText
  <1> HIDE DEF last
  <1>4. LineText \in Seq(STRING)
    BY <1>1, <1>2, <1>3, Stretch
  <1> QED
    BY <1>4, LenProperties

\* The size of a chunk is a number when the digits are digits.
LEMMA SizeTyped ==
  ASSUME p \in Parsers, LineEnd # -1,
         ~\E i \in DOMAIN SizeText : SizeText[i] \notin HexDigit
  PROVE  SizeValue(SizeText) \in Nat
  <1> DEFINE semi == {i \in DOMAIN LineText : LineText[i] = ";"}
             cut  == CHOOSE i \in semi : \A j \in semi : i <= j
  <1>1. LineText \in Seq(STRING) /\ Len(LineText) \in Nat /\ DOMAIN LineText = 1 .. Len(LineText)
    BY LineTextTyped, LenProperties
  <1>2. SizeText \in Seq(STRING)
    <2>1. CASE semi = {}
      BY <1>1, <2>1 DEF SizeText
    <2>2. CASE semi # {}
      <3>1. semi \subseteq Nat /\ semi \subseteq 1 .. Len(LineText)
        <4>1. semi \subseteq DOMAIN LineText
          OBVIOUS
        <4>2. 1 .. Len(LineText) \subseteq Nat
          BY <1>1
        <4> QED
          BY <1>1, <4>1, <4>2, Zenon
      <3>2. SizeText = SubSeq(LineText, 1, cut - 1)
        BY <2>2 DEF SizeText
      <3> HIDE DEF semi
      <3>3. cut \in 1 .. Len(LineText)
        BY <2>2, <3>1, LeastNat
      <3> HIDE DEF cut
      <3>4. 0 \in Nat /\ cut - 1 \in Int /\ cut - 1 <= Len(LineText)
        BY <1>1, <3>3
      <3>5. SubSeq(LineText, 0 + 1, cut - 1) \in Seq(STRING)
        BY <1>1, <3>4, Stretch
      <3> QED
        BY <3>2, <3>5
    <2> QED
      BY <2>1, <2>2
  <1>3. DOMAIN SizeText = 1 .. Len(SizeText) /\ Len(SizeText) \in Nat
    BY <1>2, LenProperties
  <1>4. SizeText \in Seq(HexDigit)
    BY <1>2, <1>3, IsASeq, SeqDef
  <1> QED
    BY <1>4, SizeValueNat

-----------------------------------------------------------------------------
(* The parser's actions keep its invariant.                                  *)

(* What a pass through the loop may leave: a complete request, or a later    *)
(* position in the same bytes.                                               *)
Steps(q) ==
  /\ ParserOK(q)
  /\ q.state = "DONE" \/ (Going(q) /\ q.pos > p.pos /\ q.buffer = p.buffer)

Advances ==
  pc = "loop" /\ pc' = "loop" => p'.state = "DONE" \/ (p'.pos > p.pos /\ p'.buffer = p.buffer)

\* A pass through the loop keeps the invariant when what it leaves is well formed.
LEMMA PassKeeps ==
  ASSUME ParserInv, Looping, NEW q, Steps(q), Pass(q)
  PROVE  ParserInv' /\ Advances
  BY DEF ParserInv, ParserOK, Going, Pass, Keep, Steps, Advances, Looping

\* The error state keeps what was read.
LEMMA ErrorOK ==
  ASSUME NEW q, ParserOK(q)
  PROVE  ParserOK([q EXCEPT !.state = "ERROR"]) /\ ~Going([q EXCEPT !.state = "ERROR"])
  <1>1. [q EXCEPT !.state = "ERROR"] \in Parsers
    BY DEF ParserOK, Parsers
  <1> QED
    BY <1>1 DEF ParserOK, Going, Parsers

\* PARSE_ERROR ends the loop.
LEMMA ParseErrorKeeps ==
  ASSUME ParserInv, ParseError
  PROVE  ParserInv' /\ Advances
  BY ErrorOK DEF ParserInv, ParserOK, Going, ParseError, Keep, Advances

\* A return from the loop leaves the parser as it is.
LEMMA ReturnKeeps ==
  ASSUME ParserInv, NEW r, Return(r)
  PROVE  ParserInv' /\ Advances
  BY DEF ParserInv, ParserOK, Going, Return, Keep, Advances

\* A failed allocation ends the loop.
LEMMA AllocFailsKeeps ==
  ASSUME ParserInv, AllocFails
  PROVE  ParserInv' /\ Advances
  BY ErrorOK DEF ParserInv, ParserOK, Going, AllocFails, Keep, Advances

\* The call: the read is appended where there is room for it.
LEMMA FeedKeeps ==
  ASSUME ParserInv, NEW n \in Nat, Feed(n)
  PROVE  ParserInv'
  <1> DEFINE cap == stringbuf_reserve(p.cap, Len(p.buffer) + n)
             read == SubSeq(stream, nread + 1, nread + n)
             q == [p EXCEPT !.buffer = @ \o read, !.cap = cap]
  <1>1. /\ p.buffer \in Seq(STRING) /\ Len(p.buffer) \in Nat /\ p.cap \in Nat /\ p.cap <= MaxCap
        /\ stream \in Seq(STRING) /\ Len(stream) \in Nat /\ nread \in Nat
        /\ Len(p.buffer) + n \in Nat /\ nread + n \in Int /\ nread + n <= Len(stream)
    BY LenProperties DEF ParserInv, ParserOK, Parsers, Feed
  <1>2. /\ cap \in Nat /\ cap <= MaxCap
        /\ cap # 0 => Len(p.buffer) + n < cap
    BY <1>1, Reserved
  <1>3. read \in Seq(STRING) /\ Len(read) = n
    BY <1>1, Stretch
  <1>4. p.buffer \o read \in Seq(STRING) /\ Len(p.buffer \o read) = Len(p.buffer) + n
    <2> HIDE DEF read
    <2> QED
      BY <1>1, <1>3, ConcatProperties
  <1>5. nread' \in 0 .. Len(stream') /\ base' \in 0 .. nread' /\ stream' \in Seq(STRING) /\ oom' \in BOOLEAN
    BY <1>1 DEF ParserInv, Feed
  <1>6. CASE cap = 0
    BY <1>5, <1>6, ErrorOK DEF ParserInv, ParserOK, Going, Feed
  <1>7. CASE cap # 0
    <2>1. p' = q /\ buflen' = Len(p.buffer) + n /\ pc' = "loop" /\ full' = full
      BY <1>7 DEF Feed
    <2> HIDE DEF cap, read
    <2>2. q \in Parsers
      BY <1>2, <1>4 DEF ParserInv, ParserOK, Parsers
    <2>3. /\ q.buffer = p.buffer \o read /\ q.cap = cap /\ q.pos = p.pos /\ q.state = p.state
          /\ q.body = p.body /\ q.content_length = p.content_length /\ q.chunked = p.chunked
      BY DEF ParserInv, ParserOK, Parsers
    <2> HIDE DEF q
    <2>4. ParserOK(q)
      BY <1>1, <1>2, <1>4, <1>7, <2>2, <2>3 DEF ParserInv, ParserOK, Parsers
    <2> QED
      BY <1>1, <1>4, <1>5, <2>1, <2>3, <2>4 DEF ParserInv, Going
  <1> QED
    BY <1>6, <1>7

\* What a pass starts from.
LEMMA PassStart ==
  ASSUME ParserInv, Looping
  PROVE  /\ p \in Parsers /\ ParserOK(p) /\ buflen = Len(p.buffer)
         /\ p.pos \in Nat /\ Len(p.buffer) \in Nat /\ p.pos < Len(p.buffer)
         /\ p.buffer \in Seq(STRING) /\ p.body \in Seq(STRING) /\ Len(p.body) \in Nat
         /\ p.content_length \in Nat /\ p.cap \in Nat /\ MaxBody \in Nat
  BY ParserAssumption, LenProperties DEF ParserInv, ParserOK, Parsers, Looping, Going

\* A pass that leaves the buffer alone and has moved on inside it.
LEMMA StepsOn ==
  ASSUME ParserInv, Looping, NEW q \in Parsers,
         q.buffer = p.buffer, q.cap = p.cap, p.pos < q.pos, q.pos <= Len(p.buffer),
         Len(q.body) <= MaxBody, q.content_length <= MaxBody,
         q.state \in {"REQUEST_LINE", "HEADERS"} => q.body = <<>> /\ q.content_length = 0,
         q.state = "BODY" => IF q.chunked THEN Len(q.body) + q.content_length <= MaxBody
                             ELSE Len(q.body) < q.content_length,
         q.state # "ERROR"
  PROVE  Steps(q)
  <1>1. Len(p.buffer) < p.cap /\ p.cap <= MaxCap
    BY DEF ParserInv, ParserOK
  <1>2. ParserOK(q)
    BY <1>1 DEF ParserOK
  <1>3. q.pos \in Nat /\ p.pos \in Nat /\ q.pos > p.pos
    BY PassStart DEF Parsers
  <1> QED
    BY <1>2, <1>3 DEF Steps, Going

\* The request line.
LEMMA RequestLineKeeps ==
  ASSUME ParserInv, RequestLine
  PROVE  ParserInv' /\ Advances
  <1> DEFINE q == [p EXCEPT !.pos = LineEnd + 1, !.state = "HEADERS"]
  <1>1. Looping /\ LineEnd # -1 /\ p.state = "REQUEST_LINE" /\ (Pass(q) \/ ParseError)
    BY DEF RequestLine
  <1>2. /\ p \in Parsers /\ ParserOK(p) /\ p.pos \in Nat /\ Len(p.buffer) \in Nat
    BY <1>1, PassStart
  <1>3. LineEnd \in Nat /\ LineEnd \in p.pos .. Len(p.buffer) - 1
    BY <1>1, <1>2, LineEndFound
  <1>4. q \in Parsers
    <2>1. LineEnd + 1 \in Nat
      BY <1>3
    <2> QED
      BY <1>2, <2>1 DEF Parsers
  <1>5. Steps(q)
    <2>1. q.pos = LineEnd + 1 /\ q.buffer = p.buffer /\ q.cap = p.cap /\ q.state = "HEADERS"
          /\ q.body = p.body /\ q.content_length = p.content_length
      BY <1>2 DEF Parsers
    <2>2. p.body = <<>> /\ p.content_length = 0 /\ Len(p.body) <= MaxBody /\ p.content_length <= MaxBody
      BY <1>1, <1>2 DEF ParserOK
    <2>3. p.pos < LineEnd + 1 /\ LineEnd + 1 <= Len(p.buffer)
      BY <1>2, <1>3
    <2> HIDE DEF q
    <2> QED
      BY <1>1, <1>4, <2>1, <2>2, <2>3, StepsOn
  <1> HIDE DEF q
  <1> QED
    BY <1>1, <1>5, PassKeeps, ParseErrorKeeps

\* One header.
LEMMA HeaderLineKeeps ==
  ASSUME ParserInv, HeaderLine
  PROVE  ParserInv' /\ Advances
  <1> DEFINE h == LineText[1]
             name == CASE h \in {"t", "u"} -> "te" [] h = "h" -> "h" [] OTHER -> "cl"
             all == p.headers \cup {name}
             q == [p EXCEPT !.headers = all,
                            !.length  = IF name = "cl" THEN h ELSE @,
                            !.coding  = IF name = "te" THEN h ELSE @,
                            !.pos     = NextHeader]
  <1>1. Looping /\ LineEnd # -1 /\ p.state = "HEADERS"
    BY DEF HeaderLine
  <1>2. /\ p \in Parsers /\ ParserOK(p) /\ p.pos \in Nat /\ Len(p.buffer) \in Nat
    BY <1>1, PassStart
  <1>3. LineEnd \in Nat /\ LineEnd \in p.pos .. Len(p.buffer) - 1
    BY <1>1, <1>2, LineEndFound
  <1>4. NextHeader \in Nat /\ p.pos < NextHeader /\ NextHeader <= Len(p.buffer)
    BY <1>2, <1>3 DEF NextHeader
  <1>5. ParseError \/ (h \in Header /\ Pass(q))
    BY DEF HeaderLine
  <1>6. CASE h \in Header /\ Pass(q)
    <2>1. /\ name \in {"te", "h", "cl"} /\ (name = "te" => h \in {"t", "u"})
          /\ name = "cl" => h \in {"l0", "l1", "l2", "lx"}
      <3>1. h \in Header
        BY <1>6
      <3> HIDE DEF h
      <3>2. h \in {"t", "u"} => name = "te"
        OBVIOUS
      <3>3. h = "h" => name = "h"
        OBVIOUS
      <3>4. h \in {"l0", "l1", "l2", "lx"} => name = "cl"
        OBVIOUS
      <3>5. h \in {"t", "u"} \/ h = "h" \/ h \in {"l0", "l1", "l2", "lx"}
        BY <3>1 DEF Header
      <3> HIDE DEF name
      <3> QED
        BY <3>2, <3>3, <3>4, <3>5
    <2> HIDE DEF h, name
    <2>2. all \in SUBSET {"te", "h", "cl"}
      BY <1>2, <2>1 DEF Parsers
    <2> HIDE DEF all
    <2>3. /\ (IF name = "cl" THEN h ELSE p.length) \in {"none", "l0", "l1", "l2", "lx"}
          /\ (IF name = "te" THEN h ELSE p.coding) \in {"none", "t", "u"}
      BY <1>2, <2>1 DEF Parsers
    <2>4. q \in Parsers
      BY <1>2, <1>4, <2>2, <2>3 DEF Parsers
    <2>5. /\ q.pos = NextHeader /\ q.buffer = p.buffer /\ q.state = p.state /\ q.cap = p.cap
          /\ q.body = p.body /\ q.content_length = p.content_length
      BY <1>2 DEF Parsers
    <2> HIDE DEF q
    <2>6. Steps(q)
      <3>1. p.body = <<>> /\ p.content_length = 0 /\ Len(p.body) <= MaxBody /\ p.content_length <= MaxBody
        BY <1>1, <1>2 DEF ParserOK
      <3> QED
        BY <1>1, <1>4, <2>4, <2>5, <3>1, StepsOn
    <2> QED
      BY <1>1, <1>6, <2>6, PassKeeps
  <1> QED
    BY <1>5, <1>6, ParseErrorKeeps

\* The empty line after the headers.
LEMMA EndOfHeadersKeeps ==
  ASSUME ParserInv, EndOfHeaders
  PROVE  ParserInv' /\ Advances
  <1> DEFINE n == IF p.length = "none" THEN 0 ELSE Length[p.length]
             chunked == p.length = "none" /\ p.coding = "t"
             q == [p EXCEPT !.pos = LineEnd + 1, !.content_length = n, !.chunked = chunked,
                            !.state = IF n > 0 \/ chunked THEN "BODY" ELSE "DONE"]
  <1>1. Looping /\ LineEnd # -1 /\ p.state = "HEADERS"
    BY DEF EndOfHeaders
  <1>2. /\ p \in Parsers /\ ParserOK(p) /\ p.pos \in Nat /\ Len(p.buffer) \in Nat /\ MaxBody \in Nat
    BY <1>1, PassStart
  <1>3. LineEnd \in Nat /\ LineEnd \in p.pos .. Len(p.buffer) - 1
    BY <1>1, <1>2, LineEndFound
  <1>4. \/ ParseError
        \/ p.length # "lx" /\ (p.length # "none" => ~(Length[p.length] > MaxBody)) /\ Pass(q)
    BY DEF EndOfHeaders
  <1>5. CASE p.length # "lx" /\ (p.length # "none" => ~(Length[p.length] > MaxBody)) /\ Pass(q)
    <2>1. n \in Nat /\ n <= MaxBody /\ chunked \in BOOLEAN /\ (chunked => n = 0)
      <3>1. CASE p.length = "none"
        BY <1>2, <3>1
      <3>2. CASE p.length # "none"
        <4>1. p.length \in {"l0", "l1", "l2"}
          BY <1>2, <1>5, <3>2 DEF Parsers
        <4>2. Length[p.length] \in Nat
          BY <4>1 DEF Length
        <4> QED
          BY <1>2, <1>5, <3>2, <4>2
      <3> QED
        BY <3>1, <3>2
    <2> HIDE DEF n, chunked
    <2>2. q \in Parsers
      <3>1. LineEnd + 1 \in Nat
        BY <1>3
      <3> QED
        BY <1>2, <2>1, <3>1 DEF Parsers
    <2>3. /\ q.pos = LineEnd + 1 /\ q.buffer = p.buffer /\ q.cap = p.cap
          /\ q.body = p.body /\ q.content_length = n /\ q.chunked = chunked
          /\ q.state = IF n > 0 \/ chunked THEN "BODY" ELSE "DONE"
      BY <1>2 DEF Parsers
    <2> HIDE DEF q
    <2>4. p.body = <<>> /\ Len(p.body) = 0
      BY <1>1, <1>2 DEF ParserOK
    <2>5. Steps(q)
      <3>1. p.pos < LineEnd + 1 /\ LineEnd + 1 <= Len(p.buffer)
        BY <1>2, <1>3
      <3>2. q.state = "BODY" => IF q.chunked THEN Len(q.body) + q.content_length <= MaxBody
                                ELSE Len(q.body) < q.content_length
        BY <1>2, <2>1, <2>3, <2>4
      <3> QED
        BY <1>1, <1>2, <2>1, <2>2, <2>3, <2>4, <3>1, <3>2, StepsOn
    <2> QED
      BY <1>1, <1>5, <2>5, PassKeeps
  <1> QED
    BY <1>4, <1>5, ParseErrorKeeps

\* The rest of the buffer moves to its front when the request is complete.
LEMMA ShiftedDone ==
  ASSUME ParserInv, Looping, NEW q, ParserOK(q), q.state = "DONE"
  PROVE  Steps(Shifted(q))
  <1> DEFINE rest == SubSeq(q.buffer, q.pos + 1, Len(q.buffer))
             s == [q EXCEPT !.buffer = rest, !.pos = 0]
  <1>1. q \in Parsers /\ q.buffer \in Seq(STRING) /\ Len(q.buffer) \in Nat /\ q.pos \in Nat
    BY LenProperties DEF ParserOK, Parsers
  <1>2. rest \in Seq(STRING) /\ Len(rest) <= Len(q.buffer) /\ Len(rest) \in Nat
    <2>1. Len(q.buffer) \in Int /\ Len(q.buffer) <= Len(q.buffer)
      BY <1>1
    <2>2. rest \in Seq(STRING) /\ Len(rest) = IF q.pos < Len(q.buffer) THEN Len(q.buffer) - q.pos ELSE 0
      BY <1>1, <2>1, Stretch
    <2> QED
      BY <1>1, <2>2
  <1> HIDE DEF rest
  <1>3. s \in Parsers
    BY <1>1, <1>2 DEF Parsers
  <1>4. /\ s.buffer = rest /\ s.pos = 0 /\ s.state = q.state /\ s.cap = q.cap
        /\ s.body = q.body /\ s.content_length = q.content_length
    BY <1>1 DEF Parsers
  <1>5. Shifted(q) = s \/ Shifted(q) = q
    BY DEF Shifted, rest
  <1> HIDE DEF s
  <1>6. q.cap \in Nat /\ Len(q.buffer) < q.cap
    BY <1>1 DEF ParserOK, Parsers
  <1>7. ParserOK(s)
    BY <1>1, <1>2, <1>3, <1>4, <1>6 DEF ParserOK
  <1> QED
    BY <1>4, <1>5, <1>7 DEF Steps

\* A stretch of a counted body: the request is complete, or the buffer is used up.
LEMMA BodyBytesKeeps ==
  ASSUME ParserInv, BodyBytes
  PROVE  ParserInv' /\ Advances
  <1> DEFINE remaining == p.content_length - Len(p.body)
             avail == buflen - p.pos
             consume == IF remaining < avail THEN remaining ELSE avail
             taken == SubSeq(p.buffer, p.pos + 1, p.pos + consume)
             body == p.body \o taken
             q == [p EXCEPT !.body = body, !.pos = @ + consume,
                            !.state = IF Len(body) = p.content_length THEN "DONE" ELSE @]
  <1>1. Looping /\ p.state = "BODY" /\ ~p.chunked
    BY DEF BodyBytes
  <1>2. /\ p \in Parsers /\ ParserOK(p) /\ buflen = Len(p.buffer)
        /\ p.pos \in Nat /\ Len(p.buffer) \in Nat /\ p.pos < Len(p.buffer)
        /\ p.buffer \in Seq(STRING) /\ p.body \in Seq(STRING) /\ Len(p.body) \in Nat
        /\ p.content_length \in Nat /\ p.cap \in Nat /\ MaxBody \in Nat
    BY <1>1, PassStart
  <1>3. /\ Len(p.body) < p.content_length /\ p.content_length <= MaxBody
        /\ Len(p.buffer) < p.cap /\ p.cap <= MaxCap
    BY <1>1, <1>2 DEF ParserOK
  <1>4. ParseError \/ Pass(Shifted(q))
    BY DEF BodyBytes
  <1>5. /\ consume \in Nat /\ consume > 0 /\ consume <= p.content_length - Len(p.body)
        /\ p.pos + consume <= Len(p.buffer)
        /\ (consume = p.content_length - Len(p.body) \/ p.pos + consume = buflen)
    <2>1. PICK l \in Nat, b \in Nat, i \in Nat, k \in Nat :
             l = p.content_length /\ b = Len(p.body) /\ i = p.pos /\ k = Len(p.buffer)
      BY <1>2
    <2>2. b < l /\ i < k /\ buflen = k
      BY <1>2, <1>3, <2>1
    <2>3. consume = IF l - b < k - i THEN l - b ELSE k - i
      BY <2>1, <2>2
    <2> HIDE DEF consume
    <2>4. /\ consume \in Nat /\ consume > 0 /\ consume <= l - b /\ i + consume <= k
          /\ (consume = l - b \/ i + consume = k)
      BY <2>2, <2>3
    <2> QED
      BY <2>1, <2>2, <2>4
  <1> HIDE DEF remaining, avail, consume
  <1>6. taken \in Seq(STRING) /\ Len(taken) = consume
    <2>1. p.pos + consume \in Int
      BY <1>2, <1>5
    <2>2. /\ taken \in Seq(STRING)
          /\ Len(taken) = IF p.pos < p.pos + consume THEN (p.pos + consume) - p.pos ELSE 0
      BY <1>2, <1>5, <2>1, Stretch
    <2> QED
      BY <1>2, <1>5, <2>2
  <1> HIDE DEF taken
  <1>7. body \in Seq(STRING) /\ Len(body) = Len(p.body) + consume
    BY <1>2, <1>6, ConcatProperties
  <1> HIDE DEF body
  <1>8. p.pos + consume \in Nat /\ Len(body) <= p.content_length /\ Len(body) <= MaxBody
        /\ p.pos < p.pos + consume /\ Len(body) \in Nat
    BY <1>2, <1>3, <1>5, <1>7
  <1>9. q \in Parsers
    BY <1>1, <1>2, <1>7, <1>8 DEF Parsers
  <1>10. /\ q.pos = p.pos + consume /\ q.buffer = p.buffer /\ q.cap = p.cap /\ q.body = body
         /\ q.content_length = p.content_length /\ q.chunked = p.chunked
         /\ q.state = IF Len(body) = p.content_length THEN "DONE" ELSE p.state
    BY <1>2 DEF Parsers
  <1> HIDE DEF q
  <1>11. Steps(q)
    <2>1. q.state = "BODY" => Len(q.body) < q.content_length
      BY <1>2, <1>8, <1>10
    <2> QED
      BY <1>1, <1>2, <1>3, <1>5, <1>8, <1>9, <1>10, <2>1, StepsOn
  <1>12. Steps(Shifted(q))
    <2>1. CASE q.state = "DONE"
      BY <1>1, <1>11, <2>1, ShiftedDone DEF Steps
    <2>2. CASE q.state # "DONE"
      <3>1. Len(body) # p.content_length
        BY <1>10, <2>2
      <3>2. p.pos + consume = buflen
        <4>1. PICK x \in Nat, y \in Nat : x = p.content_length /\ y = Len(p.body)
          BY <1>2
        <4>2. consume # x - y
          BY <1>5, <1>7, <3>1, <4>1
        <4> QED
          BY <1>5, <4>1, <4>2
      <3>3. ~(q.pos < buflen)
        BY <1>2, <1>8, <1>10, <3>2
      <3> QED
        BY <1>11, <3>3 DEF Shifted
    <2> QED
      BY <2>1, <2>2
  <1> QED
    BY <1>1, <1>4, <1>12, PassKeeps, ParseErrorKeeps

\* A chunk-size line: the body has room for the chunk before its bytes come.
LEMMA ChunkSizeKeeps ==
  ASSUME ParserInv, ChunkSize
  PROVE  ParserInv' /\ Advances
  <1> DEFINE size == SizeValue(SizeText)
             q == [p EXCEPT !.content_length = size, !.pos = LineEnd + 1,
                            !.state = IF size = 0 THEN "DONE" ELSE @]
  <1>1. Looping /\ LineEnd # -1 /\ p.state = "BODY" /\ p.chunked
    BY DEF ChunkSize
  <1>2. /\ p \in Parsers /\ ParserOK(p) /\ buflen = Len(p.buffer)
        /\ p.pos \in Nat /\ Len(p.buffer) \in Nat
        /\ p.buffer \in Seq(STRING) /\ p.body \in Seq(STRING) /\ Len(p.body) \in Nat
        /\ p.cap \in Nat /\ MaxBody \in Nat
    BY <1>1, PassStart
  <1>3. LineEnd \in Nat /\ LineEnd \in p.pos .. Len(p.buffer) - 1
    BY <1>1, <1>2, LineEndFound
  <1>4. \/ ParseError
        \/ /\ ~\E i \in DOMAIN SizeText : SizeText[i] \notin HexDigit
           /\ ~(Len(p.body) > MaxBody - size)
           /\ Pass(ChunkEnd(q))
    BY DEF ChunkSize
  <1>5. CASE /\ ~\E i \in DOMAIN SizeText : SizeText[i] \notin HexDigit
             /\ ~(Len(p.body) > MaxBody - size)
             /\ Pass(ChunkEnd(q))
    <2>1. size \in Nat
      BY <1>1, <1>2, <1>5, SizeTyped
    <2>2. ~(Len(p.body) > MaxBody - size) /\ Pass(ChunkEnd(q))
      BY <1>5
    <2> HIDE DEF size
    <2>3. /\ LineEnd + 1 \in Nat /\ p.pos < LineEnd + 1 /\ LineEnd + 1 <= Len(p.buffer)
          /\ Len(p.body) + size <= MaxBody /\ size <= MaxBody /\ Len(p.body) <= MaxBody
      BY <1>2, <1>3, <2>1, <2>2
    <2>4. q \in Parsers
      BY <1>1, <1>2, <2>1, <2>3 DEF Parsers
    <2>5. /\ q.pos = LineEnd + 1 /\ q.buffer = p.buffer /\ q.cap = p.cap /\ q.body = p.body
          /\ q.content_length = size /\ q.chunked = p.chunked
          /\ q.state = IF size = 0 THEN "DONE" ELSE p.state
      BY <1>2 DEF Parsers
    <2> HIDE DEF q
    <2>6. Steps(q)
      BY <1>1, <1>2, <2>3, <2>4, <2>5, StepsOn
    <2>7. Steps(ChunkEnd(q))
      BY <1>1, <2>6, ShiftedDone DEF ChunkEnd, Steps
    <2> QED
      BY <1>1, <2>2, <2>7, PassKeeps
  <1> QED
    BY <1>4, <1>5, ParseErrorKeeps

\* A chunk that is there with its line end.
LEMMA ChunkDataKeeps ==
  ASSUME ParserInv, ChunkData
  PROVE  ParserInv' /\ Advances
  <1> DEFINE n == p.content_length
             taken == SubSeq(p.buffer, p.pos + 1, p.pos + n)
             q == [p EXCEPT !.body = @ \o taken, !.pos = @ + ChunkTaken(n), !.content_length = 0]
  <1>1. Looping /\ p.state = "BODY" /\ p.chunked /\ p.content_length > 0
    BY DEF ChunkData
  <1>2. /\ p \in Parsers /\ ParserOK(p) /\ buflen = Len(p.buffer)
        /\ p.pos \in Nat /\ Len(p.buffer) \in Nat
        /\ p.buffer \in Seq(STRING) /\ p.body \in Seq(STRING) /\ Len(p.body) \in Nat
        /\ n \in Nat /\ p.cap \in Nat /\ MaxBody \in Nat
    BY <1>1, PassStart
  <1>3. Return(0) \/ ParseError \/ (~(buflen - p.pos < n + 2) /\ Pass(q))
    BY DEF ChunkData
  <1>4. CASE ~(buflen - p.pos < n + 2) /\ Pass(q)
    <2>1. Len(p.body) + n <= MaxBody
      BY <1>1, <1>2 DEF ParserOK
    <2>2. /\ p.pos + n \in Int /\ p.pos + n <= Len(p.buffer) /\ p.pos + ChunkTaken(n) \in Nat
          /\ p.pos < p.pos + ChunkTaken(n) /\ p.pos + ChunkTaken(n) <= Len(p.buffer)
          /\ p.pos < p.pos + n
      <3>1. PICK i \in Nat, k \in Nat, m \in Nat : i = p.pos /\ k = Len(p.buffer) /\ m = n
        BY <1>2
      <3>2. m > 0 /\ ~(k - i < m + 2)
        BY <1>1, <1>2, <1>4, <3>1
      <3>3. /\ i + m \in Int /\ i + m <= k /\ i + ChunkTaken(m) \in Nat /\ i < i + ChunkTaken(m)
            /\ i + ChunkTaken(m) <= k /\ i < i + m
        BY <3>2 DEF ChunkTaken
      <3> HIDE DEF n
      <3> QED
        BY <3>1, <3>3
    <2> HIDE DEF n
    <2>3. taken \in Seq(STRING) /\ Len(taken) = n
      <3>1. taken \in Seq(STRING) /\ Len(taken) = IF p.pos < p.pos + n THEN (p.pos + n) - p.pos ELSE 0
        BY <1>2, <2>2, Stretch
      <3> QED
        BY <1>2, <2>2, <3>1
    <2> HIDE DEF taken
    <2>4. p.body \o taken \in Seq(STRING) /\ Len(p.body \o taken) = Len(p.body) + n
      BY <1>2, <2>3, ConcatProperties
    <2>5. q \in Parsers
      BY <1>2, <2>2, <2>4 DEF Parsers
    <2>6. /\ q.pos = p.pos + ChunkTaken(n) /\ q.buffer = p.buffer /\ q.cap = p.cap
          /\ q.body = p.body \o taken /\ q.content_length = 0 /\ q.chunked = p.chunked
          /\ q.state = p.state
      BY <1>2 DEF Parsers
    <2> HIDE DEF q
    <2>7. Len(q.body) <= MaxBody /\ Len(q.body) + q.content_length <= MaxBody /\ q.content_length <= MaxBody
      BY <1>2, <2>1, <2>4, <2>6
    <2>8. Steps(q)
      BY <1>1, <1>2, <2>2, <2>5, <2>6, <2>7, StepsOn
    <2> QED
      BY <1>1, <1>4, <2>8, PassKeeps
  <1> QED
    BY <1>3, <1>4, ParseErrorKeeps, ReturnKeeps

\* Every step of the loop.
LEMMA ParseKeeps ==
  ASSUME ParserInv, Parse
  PROVE  ParserInv' /\ Advances
  <1>1. NeedLine => Return(0)
    BY DEF NeedLine
  <1>2. LoopEnds => \E r : Return(r)
    BY DEF LoopEnds
  <1> QED
    BY <1>1, <1>2, ReturnKeeps, RequestLineKeeps, HeaderLineKeeps, EndOfHeadersKeeps,
       BodyBytesKeeps, ChunkSizeKeeps, ChunkDataKeeps DEF Parse

\* A new parser is well formed.
LEMMA NewParserOK == ParserOK(NewParser)
  BY ParserAssumption, EmptySeq DEF ParserOK, NewParser, Parsers

-----------------------------------------------------------------------------
(* Bodies as sequences.                                                      *)

\* A run of offsets is a sequence of that many.
LEMMA OffsetsTyped ==
  ASSUME NEW first \in Nat, NEW n \in Nat
  PROVE  /\ Offsets(first, n) \in Seq(Int) /\ Len(Offsets(first, n)) = n
         /\ n = 0 => Offsets(first, n) = <<>>
         /\ \A i \in 1 .. n : Offsets(first, n)[i] = first + i - 1
  <1>1. Offsets(first, n) \in [1 .. n -> Int]
    BY DEF Offsets
  <1>2. Offsets(first, n) \in Seq(Int) /\ DOMAIN Offsets(first, n) = 1 .. n
    BY <1>1, SeqDef
  <1>3. Len(Offsets(first, n)) = n
    BY <1>2, LenProperties
  <1>4. \A i \in 1 .. n : Offsets(first, n)[i] = first + i - 1
    BY DEF Offsets
  <1>5. n = 0 => Offsets(first, n) = <<>>
    BY <1>2, <1>3, EmptySeq
  <1> QED
    BY <1>2, <1>3, <1>4, <1>5

\* Two runs that meet are one.
LEMMA OffsetsMeet ==
  ASSUME NEW first \in Nat, NEW m \in Nat, NEW n \in Nat
  PROVE  Cat(Offsets(first, m), Offsets(first + m, n)) = Offsets(first, m + n)
  <1> DEFINE s == Offsets(first, m)
             t == Offsets(first + m, n)
             u == Offsets(first, m + n)
  <1>0. first + m \in Nat /\ m + n \in Nat
    OBVIOUS
  <1>1. /\ s \in Seq(Int) /\ Len(s) = m
        /\ \A i \in 1 .. m : s[i] = first + i - 1
    BY OffsetsTyped
  <1>2. /\ t \in Seq(Int) /\ Len(t) = n
        /\ \A i \in 1 .. n : t[i] = first + m + i - 1
    BY <1>0, OffsetsTyped
  <1>3. /\ u \in Seq(Int) /\ Len(u) = m + n
        /\ \A i \in 1 .. m + n : u[i] = first + i - 1
    BY <1>0, OffsetsTyped
  <1> HIDE DEF s, t, u
  <1>4. /\ s \o t \in Seq(Int) /\ Len(s \o t) = m + n
        /\ \A i \in 1 .. m + n : (s \o t)[i] = IF i <= m THEN s[i] ELSE t[i - m]
    BY <1>1, <1>2, ConcatProperties
  <1>5. ASSUME NEW i \in 1 .. m + n PROVE (s \o t)[i] = u[i]
    <2>1. CASE i <= m
      BY <1>1, <1>3, <1>4, <2>1
    <2>2. CASE ~(i <= m)
      <3>1. i - m \in 1 .. n /\ first + m + (i - m) - 1 = first + i - 1
        BY <2>2
      <3>2. t[i - m] = first + m + (i - m) - 1
        BY <1>2, <3>1
      <3>3. (s \o t)[i] = t[i - m]
        BY <1>4, <2>2
      <3>4. u[i] = first + i - 1
        BY <1>3
      <3> QED
        BY <3>1, <3>2, <3>3, <3>4
    <2> QED
      BY <2>1, <2>2
  <1>6. s \o t = u
    BY <1>3, <1>4, <1>5, SeqEqual
  <1> QED
    BY <1>6 DEF s, t, u, Cat

\* Concatenation is typed and associative, and the empty sequence is neutral.
LEMMA CatFacts ==
  ASSUME NEW s \in Seq(Int), NEW t \in Seq(Int), NEW u \in Seq(Int)
  PROVE  /\ Cat(s, t) \in Seq(Int)
         /\ Cat(Cat(s, t), u) = Cat(s, Cat(t, u))
         /\ Cat(s, <<>>) = s /\ Cat(<<>>, s) = s
         /\ Len(Cat(s, t)) = Len(s) + Len(t)
  <1>1. s \o t \in Seq(Int) /\ Len(s \o t) = Len(s) + Len(t)
    BY ConcatProperties
  <1>2. (s \o t) \o u = s \o (t \o u)
    BY ConcatAssociative
  <1>3. s \o <<>> = s /\ <<>> \o s = s
    BY ConcatEmptySeq
  <1> QED
    BY <1>1, <1>2, <1>3 DEF Cat

\* What was sent is the first part of what is sent in the end.
LEMMA CatPrefix ==
  ASSUME NEW s \in Seq(Int), NEW t \in Seq(Int)
  PROVE  Len(s) <= Len(Cat(s, t)) /\ s = SubSeq(Cat(s, t), 1, Len(s))
  <1>1. /\ Len(s) \in Nat /\ Len(t) \in Nat
        /\ s \o t \in Seq(Int) /\ Len(s \o t) = Len(s) + Len(t)
        /\ \A i \in 1 .. Len(s) + Len(t) : (s \o t)[i] = IF i <= Len(s) THEN s[i] ELSE t[i - Len(s)]
    BY LenProperties, ConcatProperties
  <1>2. \A i \in 1 .. Len(s) : (s \o t)[i] = s[i] /\ s[i] \in Int
    BY <1>1, ElementOfSeq
  <1>3. /\ SubSeq(s \o t, 1, Len(s)) \in Seq(Int)
        /\ Len(SubSeq(s \o t, 1, Len(s))) = IF 1 <= Len(s) THEN Len(s) - 1 + 1 ELSE 0
        /\ \A i \in 1 .. Len(s) - 1 + 1 : SubSeq(s \o t, 1, Len(s))[i] = (s \o t)[1 + i - 1]
    BY <1>1, <1>2, SubSeqProperties
  <1> DEFINE w == SubSeq(s \o t, 1, Len(s))
  <1>4. w \in Seq(Int) /\ Len(w) = Len(s) /\ \A i \in 1 .. Len(s) : w[i] = s[i]
    BY <1>1, <1>2, <1>3
  <1> HIDE DEF w
  <1>5. w = s
    BY <1>4, SeqEqual
  <1> QED
    BY <1>1, <1>5 DEF w, Cat

\* What a write took and what it left are what the buffer held.
LEMMA Split ==
  ASSUME NEW s \in Seq(Int), NEW k \in Nat, k <= Len(s)
  PROVE  /\ SubSeq(s, 1, k) \in Seq(Int) /\ SubSeq(s, k + 1, Len(s)) \in Seq(Int)
         /\ Cat(SubSeq(s, 1, k), SubSeq(s, k + 1, Len(s))) = s
         /\ Len(SubSeq(s, 1, k)) = k /\ Len(SubSeq(s, k + 1, Len(s))) = Len(s) - k
  <1>1. Len(s) \in Nat /\ \A i \in 1 .. Len(s) : s[i] \in Int
    BY LenProperties, ElementOfSeq
  <1>2. SubSeq(s, 1, k) \in Seq(Int) /\ Len(SubSeq(s, 1, k)) = k
    BY <1>1, SubSeqProperties
  <1>3. SubSeq(s, k + 1, Len(s)) \in Seq(Int) /\ Len(SubSeq(s, k + 1, Len(s))) = Len(s) - k
    BY <1>1, SubSeqProperties
  <1>4. 1 \in 1 .. Len(s) + 1 /\ k \in 1 - 1 .. Len(s) /\ Len(s) \in k .. Len(s)
    BY <1>1
  <1>5. SubSeq(s, 1, k) \o SubSeq(s, k + 1, Len(s)) = SubSeq(s, 1, Len(s))
    BY <1>4, ConcatAdjacentSubSeq
  <1> QED
    BY <1>2, <1>3, <1>5, SubSeqFull DEF Cat

-----------------------------------------------------------------------------
(* The requests and what they ask for.                                       *)

\* The requests of the clients are requests.
LEMMA RequestsTyped == \A r \in AllRequests : r \in Requests /\ r # NoRequest /\ r.size \in Nat
  BY SessionAssumption DEF AllRequests, Requests, NoRequest

\* The window lies in the file; without a range it is the file.
LEMMA WindowTyped ==
  ASSUME NEW r \in Requests
  PROVE  /\ Window(r).first \in Nat /\ Window(r).length \in 0 .. Word - 1
         /\ Window(r).first + Window(r).length <= r.size
         /\ Window(r).ranged \in BOOLEAN
         /\ Window(r).ranged => Window(r).length > 0
         /\ ~Window(r).ranged => Window(r).first = 0 /\ Window(r).length = r.size
  BY SessionAssumption DEF Window, Requests

\* The gzip body.
Zipped(n) == [i \in 1 .. n |-> -i]

\* A compressed body is a sequence of its length.
LEMMA ZippedTyped ==
  ASSUME NEW n \in Nat
  PROVE  Zipped(n) \in Seq(Int) /\ Len(Zipped(n)) = n
  <1>1. Zipped(n) \in [1 .. n -> Int]
    BY DEF Zipped
  <1>2. Zipped(n) \in Seq(Int) /\ DOMAIN Zipped(n) = 1 .. n
    BY <1>1, SeqDef
  <1> QED
    BY <1>2, LenProperties

IsFile(r) == r.method = "GET" /\ r.target # "welcome" /\ r.target \notin DOMAIN Refusal

\* Any request but a served GET is owed nothing, or the welcome text.
LEMMA WantedNoFile ==
  ASSUME NEW r, ~IsFile(r)
  PROVE  Wanted(r) = IF r.target = "welcome" THEN <<0>> ELSE <<>>
  BY DEF Wanted, IsFile

\* A file that is compressed is owed as a whole, compressed.
LEMMA WantedZipped ==
  ASSUME NEW r \in Requests, r.target # "welcome", r.target \notin DOMAIN Refusal, Gzipped(r)
  PROVE  Wanted(r) = Zipped(r.size - 1) /\ r.size - 1 \in 1 .. Word - 1
  <1> DEFINE f == r.range.from
             t == r.range.to
             n == r.size
  <1>1. f \in Int /\ t \in Int /\ n \in Nat /\ n \in 0 .. Word - 1 /\ Word \in Nat
    BY SessionAssumption DEF Requests
  <1>2. n > 1 /\ r.gzip /\ r.method = "GET" /\ ~Window(r).ranged
    BY DEF Gzipped
  <1>3. ~(r.range.given /\ f \in 0 .. t /\ t < n)
    BY <1>1, <1>2 DEF Window
  <1>4. ~(r.range.given /\ f \in 0 .. n - 1 /\ t < f)
    BY <1>1, <1>2 DEF Window
  <1>5. ~(r.range.given /\ f < 0 /\ n > 0 /\ t < n)
    BY <1>1, <1>2 DEF Window
  <1> QED
    BY <1>1, <1>2, <1>3, <1>4, <1>5 DEF Wanted, Zipped

\* A file that is not compressed is owed through its window.
LEMMA WantedFile ==
  ASSUME NEW r \in Requests, IsFile(r), ~Gzipped(r)
  PROVE  Wanted(r) = Offsets(Window(r).first, Window(r).length)
  <1> DEFINE f == r.range.from
             t == r.range.to
             n == r.size
  <1>1. f \in Int /\ t \in Int /\ n \in Nat /\ r.range.given \in BOOLEAN
    BY SessionAssumption DEF Requests
  <1>2. CASE r.range.given /\ f \in 0 .. t /\ t < n
    BY <1>1, <1>2 DEF Wanted, IsFile, Window
  <1>3. CASE r.range.given /\ f \in 0 .. n - 1 /\ t < f
    <2>1. ~(f \in 0 .. t)
      BY <1>1, <1>3
    <2>2. Wanted(r) = Offsets(f, n - f)
      BY <1>3, <2>1 DEF Wanted, IsFile
    <2>3. Window(r).first = f /\ Window(r).length = n - 1 - f + 1 /\ n - 1 - f + 1 = n - f
      BY <1>1, <1>3 DEF Window
    <2> QED
      BY <2>2, <2>3
  <1>4. CASE r.range.given /\ f < 0 /\ n > 0 /\ t < n
    <2>1. ~(f \in 0 .. t) /\ ~(f \in 0 .. n - 1)
      BY <1>1, <1>4
    <2>2. Wanted(r) = Offsets(0, IF t < 0 THEN n ELSE t + 1)
      BY <1>4, <2>1 DEF Wanted, IsFile
    <2>3. Window(r).first = 0 /\ Window(r).length = IF t < 0 THEN n ELSE t + 1
      BY <1>1, <1>4 DEF Window
    <2> QED
      BY <2>2, <2>3
  <1>5. CASE /\ ~(r.range.given /\ f \in 0 .. t /\ t < n)
             /\ ~(r.range.given /\ f \in 0 .. n - 1 /\ t < f)
             /\ ~(r.range.given /\ f < 0 /\ n > 0 /\ t < n)
    <2>1. ~Window(r).ranged /\ Window(r).first = 0 /\ Window(r).length = n
      BY <1>1, <1>5 DEF Window
    <2>2. ~(r.gzip /\ n > 1)
      BY <2>1 DEF Gzipped, IsFile
    <2> QED
      BY <1>5, <2>1, <2>2 DEF Wanted, IsFile
  <1> QED
    BY <1>2, <1>3, <1>4, <1>5

\* What a request is owed is a sequence of bytes.
LEMMA WantedTyped ==
  ASSUME NEW r \in Requests
  PROVE  Wanted(r) \in Seq(Int) /\ Len(Wanted(r)) \in Nat
  <1>1. Wanted(r) \in Seq(Int)
    <2>1. CASE ~IsFile(r)
      <3>1. <<0>> \in Seq(Int) /\ <<>> \in Seq(Int)
        OBVIOUS
      <3> QED
        BY <2>1, <3>1, WantedNoFile
    <2>2. CASE IsFile(r) /\ Gzipped(r)
      <3>1. Wanted(r) = Zipped(r.size - 1) /\ r.size - 1 \in Nat
        BY <2>2, WantedZipped, SessionAssumption DEF IsFile
      <3> QED
        BY <3>1, ZippedTyped
    <2>3. CASE IsFile(r) /\ ~Gzipped(r)
      <3>1. Window(r).first \in Nat /\ Window(r).length \in Nat
        BY WindowTyped, SessionAssumption
      <3> QED
        BY <2>3, <3>1, WantedFile, OffsetsTyped
    <2> QED
      BY <2>1, <2>2, <2>3
  <1> QED
    BY <1>1, LenProperties

-----------------------------------------------------------------------------
(* The responses the client has.                                             *)

Written(out, t) == [out EXCEPT ![Len(out)].body = @ \o t]

\* Bytes written extend the last body and nothing else.
LEMMA WrittenFacts ==
  ASSUME NEW out \in Seq(Responses), out # <<>>, NEW t \in Seq(Int)
  PROVE  /\ Written(out, t) \in Seq(Responses) /\ Len(Written(out, t)) = Len(out)
         /\ Written(out, t) # <<>> /\ Len(out) \in 1 .. Len(out)
         /\ \A i \in 1 .. Len(out) :
              Written(out, t)[i] = IF i = Len(out) THEN [out[i] EXCEPT !.body = Cat(@, t)] ELSE out[i]
         /\ DOMAIN Written(out, t) = 1 .. Len(out) /\ DOMAIN out = 1 .. Len(out)
  <1> DEFINE n == Len(out)
             r == [out[n] EXCEPT !.body = @ \o t]
  <1>1. n \in Nat /\ n # 0 /\ n \in 1 .. n /\ DOMAIN out = 1 .. n
    BY LenProperties, EmptySeq
  <1>2. out[n] \in Responses
    BY <1>1, ElementOfSeq
  <1>3. out[n].body \o t \in Seq(Int)
    BY <1>2, ConcatProperties DEF Responses
  <1>4. r \in Responses
    BY <1>2, <1>3 DEF Responses
  <1>5. Written(out, t) = [out EXCEPT ![n] = r]
    BY <1>1 DEF Written
  <1> HIDE DEF n, r
  <1>6. /\ [out EXCEPT ![n] = r] \in Seq(Responses)
        /\ Len([out EXCEPT ![n] = r]) = Len(out)
        /\ \A j \in 1 .. Len(out) : [out EXCEPT ![n] = r][j] = IF j = n THEN r ELSE out[j]
    BY <1>1, <1>4, ExceptSeq DEF n
  <1>7. DOMAIN [out EXCEPT ![n] = r] = 1 .. n
    BY <1>1
  <1>8. Written(out, t) # <<>>
    BY <1>1, <1>5, <1>6, EmptySeq DEF n
  <1> QED
    BY <1>1, <1>5, <1>6, <1>7, <1>8 DEF n, r, Cat

\* A response of the client is one.
LEMMA OutTyped ==
  ASSUME NEW out \in Seq(Responses), NEW i \in DOMAIN out
  PROVE  /\ out[i] \in Responses /\ i \in 1 .. Len(out) /\ Len(out) \in Nat
         /\ out[i].body \in Seq(Int) /\ out[i].req \in Requests
         /\ Wanted(out[i].req) \in Seq(Int)
  <1>1. i \in 1 .. Len(out) /\ Len(out) \in Nat
    BY LenProperties
  <1>2. out[i] \in Responses
    BY <1>1, ElementOfSeq
  <1>3. out[i].body \in Seq(Int) /\ out[i].req \in AllRequests
    BY <1>2 DEF Responses, AllRequests
  <1>4. out[i].req \in Requests
    BY <1>3, RequestsTyped
  <1> QED
    BY <1>1, <1>2, <1>3, <1>4, WantedTyped

\* An empty file stays among the responses.
LEMMA EmptyWritten ==
  ASSUME NEW out \in Seq(Responses), out # <<>>, NEW t \in Seq(Int), EmptyFile(out)
  PROVE  EmptyFile(Written(out, t))
  <1>1. PICK i \in DOMAIN out : out[i].status = 200 /\ out[i].length = 0
    BY DEF EmptyFile
  <1>2. /\ i \in 1 .. Len(out) /\ DOMAIN Written(out, t) = 1 .. Len(out)
        /\ Written(out, t)[i] = IF i = Len(out) THEN [out[i] EXCEPT !.body = Cat(@, t)] ELSE out[i]
    BY WrittenFacts
  <1>3. out[i] \in Responses
    BY OutTyped
  <1>4. Written(out, t)[i].status = out[i].status /\ Written(out, t)[i].length = out[i].length
    BY <1>2, <1>3 DEF Responses
  <1> DEFINE w == Written(out, t)
  <1>5. i \in DOMAIN w /\ w[i].status = 200 /\ w[i].length = 0
    BY <1>1, <1>2, <1>4
  <1> HIDE DEF w
  <1>6. EmptyFile(w)
    BY <1>5 DEF EmptyFile
  <1> QED
    BY <1>6 DEF w

\* A new response is the last one; the others stay.
LEMMA AppendFacts ==
  ASSUME NEW out \in Seq(Responses), NEW r \in Responses
  PROVE  /\ Append(out, r) \in Seq(Responses) /\ Append(out, r) # <<>>
         /\ Len(Append(out, r)) = Len(out) + 1 /\ Len(out) \in Nat
         /\ DOMAIN Append(out, r) = 1 .. Len(out) + 1 /\ DOMAIN out = 1 .. Len(out)
         /\ \A i \in 1 .. Len(out) : Append(out, r)[i] = out[i]
         /\ Append(out, r)[Len(out) + 1] = r
         /\ EmptyFile(out) \/ (r.status = 200 /\ r.length = 0) => EmptyFile(Append(out, r))
  <1>1. Len(out) \in Nat /\ DOMAIN out = 1 .. Len(out)
    BY LenProperties
  <1>2. /\ Append(out, r) \in Seq(Responses)
        /\ Len(Append(out, r)) = Len(out) + 1
        /\ \A i \in 1 .. Len(out) : Append(out, r)[i] = out[i]
        /\ Append(out, r)[Len(out) + 1] = r
    BY AppendProperties
  <1>3. DOMAIN Append(out, r) = 1 .. Len(out) + 1
    BY <1>2, LenProperties
  <1>4. Append(out, r) # <<>>
    BY <1>1, <1>2, EmptySeq
  <1>5. EmptyFile(out) => EmptyFile(Append(out, r))
    BY <1>1, <1>2, <1>3 DEF EmptyFile
  <1>6. r.status = 200 /\ r.length = 0 => EmptyFile(Append(out, r))
    <2>1. Len(out) + 1 \in DOMAIN Append(out, r) /\ Append(out, r)[Len(out) + 1] = r
      BY <1>1, <1>2, <1>3
    <2> QED
      BY <2>1 DEF EmptyFile
  <1> QED
    BY <1>1, <1>2, <1>3, <1>4, <1>5, <1>6

\* resume_send: bytes that leave the rest for the client keep the promise.
LEMMA PromisedWritten ==
  ASSUME NEW tls, NEW out \in Seq(Responses), out # <<>>, NEW t \in Seq(Int), NEW more \in Seq(Int),
         Promised(tls, out, Cat(t, more))
  PROVE  Promised(tls, Written(out, t), more)
  <1> DEFINE w == Written(out, t)
  <1>1. /\ Len(w) = Len(out) /\ DOMAIN w = 1 .. Len(out) /\ DOMAIN out = 1 .. Len(out)
        /\ \A i \in 1 .. Len(out) :
             w[i] = IF i = Len(out) THEN [out[i] EXCEPT !.body = Cat(@, t)] ELSE out[i]
    BY WrittenFacts
  <1> HIDE DEF w
  <1>2. ASSUME NEW i \in DOMAIN w, ~Exempt(tls, w[i])
        PROVE  /\ LengthOK(w[i])
               /\ IF i < Len(w) THEN w[i].body = Wanted(w[i].req)
                  ELSE Cat(w[i].body, more) = Wanted(w[i].req)
    <2>1. /\ i \in DOMAIN out /\ i \in 1 .. Len(out) /\ out[i] \in Responses /\ Len(out) \in Nat
          /\ out[i].body \in Seq(Int)
      BY <1>1, OutTyped
    <2>2. CASE i = Len(out)
      <3>1. w[i] = [out[i] EXCEPT !.body = Cat(@, t)]
        BY <1>1, <2>1, <2>2
      <3>2. /\ w[i].status = out[i].status /\ w[i].length = out[i].length /\ w[i].req = out[i].req
            /\ w[i].body = Cat(out[i].body, t)
        BY <2>1, <3>1 DEF Responses
      <3>3. ~Exempt(tls, out[i])
        BY <1>2, <3>2 DEF Exempt
      <3>4. LengthOK(out[i]) /\ Cat(out[i].body, Cat(t, more)) = Wanted(out[i].req)
        <4>1. ~(i < Len(out))
          BY <2>1, <2>2
        <4> QED
          BY <2>1, <3>3, <4>1 DEF Promised
      <3>5. Cat(Cat(out[i].body, t), more) = Cat(out[i].body, Cat(t, more))
        <4>1. PICK b \in Seq(Int) : b = out[i].body
          BY <2>1
        <4>2. Cat(Cat(b, t), more) = Cat(b, Cat(t, more))
          BY CatFacts
        <4> QED
          BY <4>1, <4>2
      <3>6. LengthOK(w[i])
        BY <3>2, <3>4 DEF LengthOK
      <3>7. ~(i < Len(w))
        BY <1>1, <2>1, <2>2
      <3>8. Cat(w[i].body, more) = Wanted(w[i].req)
        BY <3>2, <3>4, <3>5
      <3> QED
        BY <3>6, <3>7, <3>8
    <2>3. CASE i # Len(out)
      BY <1>1, <1>2, <2>1, <2>3 DEF Promised
    <2> QED
      BY <2>2, <2>3
  <1> QED
    BY <1>2 DEF w, Promised

\* A response head after complete bodies.
LEMMA PromisedAppended ==
  ASSUME NEW tls, NEW out \in Seq(Responses), NEW r \in Responses, NEW rest,
         Promised(tls, out, <<>>),
         Exempt(tls, r) \/ (LengthOK(r) /\ Cat(r.body, rest) = Wanted(r.req))
  PROVE  Promised(tls, Append(out, r), rest)
  <1> DEFINE w == Append(out, r)
  <1>1. /\ Len(w) = Len(out) + 1 /\ Len(out) \in Nat
        /\ DOMAIN w = 1 .. Len(out) + 1 /\ DOMAIN out = 1 .. Len(out)
        /\ \A i \in 1 .. Len(out) : w[i] = out[i]
        /\ w[Len(out) + 1] = r
    BY AppendFacts
  <1> HIDE DEF w
  <1>2. ASSUME NEW i \in DOMAIN w, ~Exempt(tls, w[i])
        PROVE  /\ LengthOK(w[i])
               /\ IF i < Len(w) THEN w[i].body = Wanted(w[i].req)
                  ELSE Cat(w[i].body, rest) = Wanted(w[i].req)
    <2>1. CASE i = Len(out) + 1
      BY <1>1, <1>2, <2>1
    <2>2. CASE i # Len(out) + 1
      <3>1. i \in 1 .. Len(out) /\ i < Len(w) /\ i \in DOMAIN out
        BY <1>1, <2>2
      <3>2. w[i] = out[i] /\ out[i].body \in Seq(Int)
        BY <1>1, <3>1, OutTyped
      <3>3. Cat(out[i].body, <<>>) = out[i].body
        BY <3>2, CatFacts, EmptySeq
      <3>4. LengthOK(out[i]) /\ (out[i].body = Wanted(out[i].req) \/ Cat(out[i].body, <<>>) = Wanted(out[i].req))
        BY <1>2, <3>1, <3>2 DEF Promised
      <3> QED
        BY <3>1, <3>2, <3>3, <3>4
    <2> QED
      BY <2>1, <2>2
  <1> QED
    BY <1>2 DEF w, Promised

\* After a range over TLS nothing is said of the rest.
LEMMA PromisedExempt ==
  ASSUME NEW d, d.out \in Seq(Responses), NEW rest, NEW more, LastExempt(d), Promised(d.tls, d.out, rest)
  PROVE  Promised(d.tls, d.out, more)
  <1>1. Len(d.out) \in Nat /\ DOMAIN d.out = 1 .. Len(d.out)
    BY LenProperties
  <1>2. ASSUME NEW i \in DOMAIN d.out, ~Exempt(d.tls, d.out[i]) PROVE i < Len(d.out)
    BY <1>1, <1>2 DEF LastExempt
  <1> QED
    BY <1>2 DEF Promised

\* What has been sent is the beginning of what was promised.
LEMMA PromisedCut ==
  ASSUME NEW d, d.out \in Seq(Responses), NEW rest \in Seq(Int), Promised(d.tls, d.out, rest)
  PROVE  CutShort(d)
  <1>1. ASSUME NEW i \in DOMAIN d.out, ~Exempt(d.tls, d.out[i])
        PROVE  /\ LengthOK(d.out[i])
               /\ Len(d.out[i].body) <= Len(Wanted(d.out[i].req))
               /\ d.out[i].body = SubSeq(Wanted(d.out[i].req), 1, Len(d.out[i].body))
               /\ i < Len(d.out) => d.out[i].body = Wanted(d.out[i].req)
    <2>1. d.out[i].body \in Seq(Int)
      BY OutTyped
    <2>2. PICK more \in Seq(Int) : /\ Cat(d.out[i].body, more) = Wanted(d.out[i].req)
                                   /\ i < Len(d.out) => d.out[i].body = Wanted(d.out[i].req)
      <3>1. <<>> \in Seq(Int) /\ Cat(d.out[i].body, <<>>) = d.out[i].body
        BY <2>1, CatFacts, EmptySeq
      <3> QED
        BY <1>1, <3>1 DEF Promised
    <2>3. LengthOK(d.out[i])
      BY <1>1 DEF Promised
    <2> QED
      BY <2>1, <2>2, <2>3, CatPrefix
  <1> QED
    BY <1>1 DEF CutShort

-----------------------------------------------------------------------------
(* The connection's operations.                                              *)

(* What the client has, and whether the connection failed, is the same.      *)
SameClient(d, e) == e.tls = d.tls /\ e.out = d.out /\ e.failed = d.failed /\ e.requests = d.requests

\* The idle send state.
LEMMA IdleFacts == Idle \in Sends /\ SendOK(Idle) /\ Left(Idle) = <<>> /\ Idle.file = "none" /\ ~Idle.sending
  BY SessionAssumption, EmptySeq DEF Idle, Sends, SendOK, Left, Flying

\* cleanup_send_state: the descriptor is closed.
LEMMA CleanupFacts ==
  ASSUME NEW d, Sound(d)
  PROVE  /\ Sound(cleanup_send_state(d)) /\ SameClient(d, cleanup_send_state(d))
         /\ cleanup_send_state(d).send = Idle /\ cleanup_send_state(d).closed = d.closed
         /\ cleanup_send_state(d).interest = d.interest /\ cleanup_send_state(d).req = d.req
  <1> DEFINE e == cleanup_send_state(d)
             n == IF d.send.file = "open" THEN d.fds - 1 ELSE d.fds
  <1>1. d \in Conns /\ d.fds \in Nat
    BY DEF Sound, Conns
  <1>2. n \in Nat
    BY <1>1 DEF Sound, FdsOK
  <1>3. e = [d EXCEPT !.send = Idle, !.fds = n]
    BY <1>1 DEF cleanup_send_state, Conns
  <1> HIDE DEF e, n
  <1>4. e \in Conns
    BY <1>1, <1>2, <1>3, IdleFacts DEF Conns
  <1>5. /\ e.send = Idle /\ e.fds = n /\ e.out = d.out /\ e.tls = d.tls /\ e.closed = d.closed
        /\ e.failed = d.failed /\ e.interest = d.interest /\ e.req = d.req /\ e.requests = d.requests
    BY <1>1, <1>3 DEF Conns
  <1>6. EmptyFile(d.out) \/ n = 0
    BY <1>1 DEF Sound, FdsOK, n
  <1>7. Sound(e)
    BY <1>4, <1>5, <1>6, IdleFacts DEF Sound, FdsOK
  <1> QED
    BY <1>5, <1>7 DEF e, SameClient

\* conn_del: once, and with the send state cleaned up.
LEMMA ConnDelFacts ==
  ASSUME NEW d, Sound(d)
  PROVE  /\ Sound(conn_del(d)) /\ SameClient(d, conn_del(d))
         /\ conn_del(d).send = Idle /\ conn_del(d).closed
  <1>1. CASE d.closed
    BY <1>1 DEF conn_del, SameClient, Sound
  <1>2. CASE ~d.closed
    <2> DEFINE f == cleanup_send_state(d)
               e == conn_del(d)
    <2>1. Sound(f) /\ SameClient(d, f) /\ f.send = Idle
      BY CleanupFacts
    <2>2. e = [f EXCEPT !.closed = TRUE, !.parser = "destroyed"]
      BY <1>2 DEF conn_del
    <2> HIDE DEF e, f
    <2>3. f \in Conns
      BY <2>1 DEF Sound
    <2>4. e \in Conns
      BY <2>2, <2>3 DEF Conns
    <2>5. /\ e.send = f.send /\ e.fds = f.fds /\ e.out = f.out /\ e.tls = f.tls
          /\ e.closed = TRUE /\ e.failed = f.failed /\ e.requests = f.requests
      BY <2>2, <2>3 DEF Conns
    <2> QED
      BY <2>1, <2>4, <2>5 DEF Sound, FdsOK, SameClient, e
  <1> QED
    BY <1>1, <1>2

\* event_mod changes the armed event of a connection that is open.
LEMMA EventModFacts ==
  ASSUME NEW d, Sound(d), NEW ev \in {"read", "write"}
  PROVE  /\ Sound(event_mod(d, ev)) /\ SameClient(d, event_mod(d, ev))
         /\ event_mod(d, ev).send = d.send /\ event_mod(d, ev).closed = d.closed
         /\ event_mod(d, ev).req = d.req
         /\ ~d.closed => event_mod(d, ev).interest = ev
  <1>1. CASE d.closed
    BY <1>1 DEF event_mod, SameClient
  <1>2. CASE ~d.closed
    <2> DEFINE e == event_mod(d, ev)
    <2>1. e = [d EXCEPT !.interest = ev] /\ d \in Conns
      BY <1>2 DEF event_mod, Sound
    <2> HIDE DEF e
    <2>2. e \in Conns
      BY <2>1 DEF Conns
    <2>3. /\ e.send = d.send /\ e.fds = d.fds /\ e.out = d.out /\ e.tls = d.tls /\ e.interest = ev
          /\ e.closed = d.closed /\ e.failed = d.failed /\ e.req = d.req /\ e.requests = d.requests
      BY <2>1 DEF Conns
    <2> QED
      BY <2>2, <2>3 DEF Sound, FdsOK, SameClient, e
  <1> QED
    BY <1>1, <1>2

\* http_parser_reset touches the request only.
LEMMA ParserResetFacts ==
  ASSUME NEW d, Sound(d)
  PROVE  /\ Sound(parser_reset(d)) /\ SameClient(d, parser_reset(d))
         /\ parser_reset(d).send = d.send /\ parser_reset(d).closed = d.closed
         /\ parser_reset(d).interest = d.interest
  <1> DEFINE e == parser_reset(d)
             left == IF d.parser = "live" THEN "live" ELSE "freed twice"
  <1>1. e = [d EXCEPT !.req = NoRequest, !.parser = left] /\ d \in Conns
    BY DEF parser_reset, Sound, Conns
  <1>2. left \in {"live", "freed twice"}
    OBVIOUS
  <1> HIDE DEF e, left
  <1>3. e \in Conns
    BY <1>1, <1>2 DEF Conns
  <1>4. /\ e.send = d.send /\ e.fds = d.fds /\ e.out = d.out /\ e.tls = d.tls /\ e.interest = d.interest
        /\ e.closed = d.closed /\ e.failed = d.failed /\ e.requests = d.requests
    BY <1>1 DEF Conns
  <1> QED
    BY <1>3, <1>4 DEF Sound, FdsOK, SameClient, e

\* The end of a body: the send state is idle, and the connection goes on or ends.
LEMMA FinishedFacts ==
  ASSUME NEW d, Sound(d)
  PROVE  Sound(Finished(d)) /\ SameClient(d, Finished(d)) /\ Finished(d).send = Idle
  <1> DEFINE f == cleanup_send_state(d)
             e == event_mod(f, "read")
  <1>1. Finished(d) = IF http_should_keep_alive(e.req) THEN parser_reset(e) ELSE conn_del(e)
    BY DEF Finished
  <1>2. Sound(f) /\ SameClient(d, f) /\ f.send = Idle
    BY CleanupFacts
  <1> HIDE DEF f
  <1>3. Sound(e) /\ SameClient(f, e) /\ e.send = Idle
    BY <1>2, EventModFacts
  <1> HIDE DEF e
  <1>4. /\ Sound(parser_reset(e)) /\ SameClient(e, parser_reset(e)) /\ parser_reset(e).send = Idle
        /\ Sound(conn_del(e)) /\ SameClient(e, conn_del(e)) /\ conn_del(e).send = Idle
    BY <1>3, ParserResetFacts, ConnDelFacts
  <1> QED
    BY <1>1, <1>2, <1>3, <1>4 DEF SameClient

\* A connection whose bodies are complete and that has nothing to send.
LEMMA IdleDelivers ==
  ASSUME NEW d, NEW e, SameClient(d, e), e.send = Idle, Promised(d.tls, d.out, <<>>)
  PROVE  Delivering(e)
  <1>1. Left(Idle) = <<>> /\ ~Flying(Idle)
    BY IdleFacts DEF Flying
  <1> QED
    BY <1>1 DEF Delivering, SameClient, Tally

(* resume_send's end, once the bytes are counted.                            *)
After(e) == IF e.send.remaining = 0 THEN Finished(e) ELSE event_mod(e, "write")

(* What is true of a connection when resume_send is done with it.            *)
Armed(d) == FileArmed(d) /\ BodyArmed(d)

\* An idle connection waits for nothing.
LEMMA IdleArmed ==
  ASSUME NEW d, d.send = Idle
  PROVE  Armed(d) /\ d.send.file # "stale"
  BY IdleFacts DEF Armed, FileArmed, BodyArmed, Flying

\* The end of resume_send: nothing is lost, and what is left waits for EV_WRITE.
LEMMA AfterFacts ==
  ASSUME NEW e, ConnOK(e), ~e.closed
  PROVE  /\ ConnOK(After(e)) /\ SameClient(e, After(e)) /\ Armed(After(e))
         /\ After(e).send.file = "stale" => e.send.file = "stale"
         /\ Delivering(e) => Delivering(After(e)) /\ ~After(e).failed
  <1>1. Sound(e) /\ ~e.failed
    BY DEF ConnOK
  <1>2. CASE e.send.remaining = 0
    <2>1. Sound(Finished(e)) /\ SameClient(e, Finished(e)) /\ Finished(e).send = Idle
      BY <1>1, FinishedFacts
    <2>2. Delivering(e) => Promised(e.tls, e.out, <<>>)
      BY <1>2 DEF Delivering, Left, Flying
    <2>3. Delivering(e) => Delivering(Finished(e))
      BY <2>1, <2>2, IdleDelivers
    <2> QED
      BY <1>1, <1>2, <2>1, <2>3, IdleArmed DEF After, ConnOK, SameClient
  <1>3. CASE e.send.remaining # 0
    <2> DEFINE R == event_mod(e, "write")
    <2>1. Sound(R) /\ SameClient(e, R) /\ R.send = e.send /\ R.interest = "write"
      BY <1>1, EventModFacts
    <2> HIDE DEF R
    <2>2. Delivering(e) => Delivering(R)
      BY <2>1 DEF Delivering, SameClient, LastExempt
    <2>3. After(e) = R
      BY <1>3 DEF After, R
    <2> QED
      BY <1>1, <2>1, <2>2, <2>3 DEF ConnOK, SameClient, Armed, FileArmed, BodyArmed
  <1> QED
    BY <1>2, <1>3

(* Bytes t go to the client and leave the send state s.                      *)
Moved(d, s, t) == [d EXCEPT !.send = s, !.out = Written(d.out, t)]

\* A send that keeps the file keeps the connection sound and its promise.
LEMMA MovedFacts ==
  ASSUME NEW d, ConnOK(d), ~d.closed, d.out # <<>>, NEW s, SendOK(s), s.file = d.send.file,
         NEW t \in Seq(Int)
  PROVE  /\ ConnOK(Moved(d, s, t)) /\ ~Moved(d, s, t).closed
         /\ Moved(d, s, t).send = s /\ Moved(d, s, t).out = Written(d.out, t)
         /\ Moved(d, s, t).tls = d.tls /\ Moved(d, s, t).requests = d.requests
         /\ /\ Promised(d.tls, d.out, Cat(t, Left(s)))
            /\ LastExempt(d) \/ Tally(s)
            /\ Left(s) \in Seq(Int)
            => Delivering(Moved(d, s, t))
  <1> DEFINE e == Moved(d, s, t)
             w == Written(d.out, t)
  <1>1. d \in Conns /\ d.out \in Seq(Responses) /\ s \in Sends /\ Sound(d) /\ ~d.failed
    BY DEF ConnOK, Sound, Conns, SendOK
  <1>2. /\ w \in Seq(Responses) /\ Len(w) = Len(d.out) /\ w # <<>> /\ Len(d.out) \in 1 .. Len(d.out)
        /\ \A i \in 1 .. Len(d.out) :
             w[i] = IF i = Len(d.out) THEN [d.out[i] EXCEPT !.body = Cat(@, t)] ELSE d.out[i]
    BY <1>1, WrittenFacts
  <1>3. EmptyFile(d.out) => EmptyFile(w)
    BY <1>1, EmptyWritten
  <1>4. e = [d EXCEPT !.send = s, !.out = w]
    BY DEF Moved
  <1>10. ASSUME Promised(d.tls, d.out, Cat(t, Left(s))), Left(s) \in Seq(Int)
         PROVE  Promised(d.tls, w, Left(s))
    BY <1>1, <1>10, PromisedWritten
  <1> HIDE DEF e, w
  <1>5. e \in Conns
    BY <1>1, <1>2, <1>4 DEF Conns
  <1>6. /\ e.send = s /\ e.out = w /\ e.tls = d.tls /\ e.requests = d.requests /\ e.closed = d.closed
        /\ e.failed = d.failed /\ e.fds = d.fds
    BY <1>1, <1>4 DEF Conns
  <1>7. Sound(e)
    BY <1>1, <1>2, <1>3, <1>5, <1>6 DEF Sound, FdsOK
  <1>8. ConnOK(e) /\ ~e.closed
    BY <1>1, <1>6, <1>7 DEF ConnOK
  <1>9. ASSUME LastExempt(d) PROVE LastExempt(e)
    <2>1. d.out[Len(d.out)] \in Responses
      BY <1>1, <1>2, ElementOfSeq
    <2>2. w[Len(d.out)].status = d.out[Len(d.out)].status
      BY <1>2, <2>1 DEF Responses
    <2> QED
      BY <1>2, <1>6, <1>9, <2>2 DEF LastExempt, Exempt
  <1>11. ASSUME Promised(d.tls, d.out, Cat(t, Left(s))), LastExempt(d) \/ Tally(s), Left(s) \in Seq(Int)
         PROVE  Delivering(e)
    BY <1>6, <1>9, <1>10, <1>11 DEF Delivering
  <1> QED
    BY <1>6, <1>8, <1>11 DEF e, w

\* The socket failed: the body is cut where it is.
LEMMA SendErrorFacts ==
  ASSUME NEW d, ConnOK(d), ~d.closed
  PROVE  /\ ConnOK(SendError(d)) /\ SendError(d).send = Idle /\ SendError(d).closed
         /\ SendError(d).tls = d.tls /\ SendError(d).out = d.out /\ SendError(d).requests = d.requests
         /\ \A rest \in Seq(Int) : Promised(d.tls, d.out, rest) => BodiesOK(SendError(d))
  <1> DEFINE f == [d EXCEPT !.failed = TRUE]
             g == cleanup_send_state(f)
             e == conn_del(g)
  <1>1. Sound(d) /\ d \in Conns
    BY DEF ConnOK, Sound
  <1>2. f \in Conns
    BY <1>1 DEF Conns
  <1>3. /\ f.send = d.send /\ f.out = d.out /\ f.tls = d.tls /\ f.fds = d.fds /\ f.closed = d.closed
        /\ f.failed = TRUE /\ f.requests = d.requests
    BY <1>1 DEF Conns
  <1> HIDE DEF f
  <1>4. Sound(f)
    BY <1>1, <1>2, <1>3 DEF Sound, FdsOK
  <1>5. Sound(g) /\ SameClient(f, g)
    BY <1>4, CleanupFacts
  <1> HIDE DEF g
  <1>6. Sound(e) /\ SameClient(g, e) /\ e.send = Idle /\ e.closed
    BY <1>5, ConnDelFacts
  <1>7. SendError(d) = e
    BY DEF SendError, e, f, g
  <1> HIDE DEF e
  <1>8. e.tls = d.tls /\ e.out = d.out /\ e.failed /\ e.requests = d.requests
    BY <1>3, <1>5, <1>6 DEF SameClient
  <1>9. ASSUME NEW rest \in Seq(Int), Promised(d.tls, d.out, rest) PROVE BodiesOK(e)
    <2>1. e.out \in Seq(Responses) /\ Promised(e.tls, e.out, rest)
      BY <1>6, <1>8, <1>9 DEF Sound, Conns
    <2> QED
      BY <1>8, <2>1, PromisedCut DEF BodiesOK
  <1> QED
    BY <1>6, <1>7, <1>8, <1>9 DEF ConnOK

\* The send state and what it holds.
LEMMA SendTyped ==
  ASSUME NEW s, SendOK(s)
  PROVE  /\ s \in Sends /\ s.size \in Nat /\ s.offset \in Nat /\ s.remaining \in Nat
         /\ s.remaining < Word /\ Word \in Nat /\ s.size - s.offset \in Nat
         /\ s.buffer \in Seq(Int) /\ Len(s.buffer) \in Nat
         /\ Left(s) \in Seq(Int)
  <1>1. /\ s \in Sends /\ s.size \in Nat /\ s.offset \in Nat /\ s.remaining \in Nat
        /\ s.remaining < Word /\ Word \in Nat /\ s.size - s.offset \in Nat
        /\ s.buffer \in Seq(Int)
    BY SessionAssumption DEF SendOK, Sends
  <1>2. Len(s.buffer) \in Nat
    BY <1>1, LenProperties
  <1>3. Offsets(s.offset, s.remaining) \in Seq(Int) /\ Offsets(s.offset, s.size - s.offset) \in Seq(Int)
    BY <1>1, OffsetsTyped
  <1>4. Cat(s.buffer, Offsets(s.offset, s.size - s.offset)) \in Seq(Int)
    BY <1>1, <1>3, CatFacts
  <1>5. <<>> \in Seq(Int)
    BY EmptySeq
  <1>6. Left(s) \in Seq(Int)
    BY <1>1, <1>3, <1>4, <1>5 DEF Left
  <1> QED
    BY <1>1, <1>2, <1>6

\* The count of what remains is a size_t.
LEMMA Counted ==
  ASSUME NEW a \in Nat, NEW k \in Nat, a < Word, Word \in Nat
  PROVE  (a - k) % Word \in 0 .. Word - 1 /\ (k <= a => (a - k) % Word = a - k)
  OBVIOUS

(* What resume_send leaves of a connection it worked on.                     *)
Resumed(d, R) ==
  /\ ConnOK(R) /\ Armed(R) /\ R.tls = d.tls /\ R.requests = d.requests
  /\ R.send.file = "stale" => d.send.file = "stale"
  /\ Delivering(d) /\ d.send.file # "stale" => BodiesOK(R)

\* A step of the body that keeps its promise, and the end of resume_send after it.
LEMMA MovedResumed ==
  ASSUME NEW d, ConnOK(d), ~d.closed, d.out # <<>>, NEW s, SendOK(s), s.file = d.send.file,
         NEW t \in Seq(Int),
         Delivering(d) /\ d.send.file # "stale" =>
           /\ Promised(d.tls, d.out, Cat(t, Left(s)))
           /\ LastExempt(d) \/ Tally(s)
  PROVE  Resumed(d, After(Moved(d, s, t)))
  <1> DEFINE e == Moved(d, s, t)
  <1>1. Left(s) \in Seq(Int)
    BY SendTyped
  <1>2. /\ ConnOK(e) /\ ~e.closed /\ e.send = s /\ e.tls = d.tls /\ e.requests = d.requests
        /\ Delivering(d) /\ d.send.file # "stale" => Delivering(e)
    BY <1>1, MovedFacts
  <1> HIDE DEF e
  <1>3. /\ ConnOK(After(e)) /\ SameClient(e, After(e)) /\ Armed(After(e))
        /\ After(e).send.file = "stale" => e.send.file = "stale"
        /\ Delivering(e) => Delivering(After(e)) /\ ~After(e).failed
    BY <1>2, AfterFacts
  <1>4. Resumed(d, After(e))
    BY <1>2, <1>3 DEF Resumed, BodiesOK, SameClient
  <1> QED
    BY <1>4 DEF e

\* A failed send leaves the connection closed.
LEMMA ErrorResumed ==
  ASSUME NEW d, ConnOK(d), ~d.closed
  PROVE  Resumed(d, SendError(d))
  <1> DEFINE R == SendError(d)
  <1>1. /\ ConnOK(R) /\ R.send = Idle /\ R.tls = d.tls /\ R.requests = d.requests
        /\ \A rest \in Seq(Int) : Promised(d.tls, d.out, rest) => BodiesOK(R)
    BY SendErrorFacts
  <1> HIDE DEF R
  <1>2. Left(d.send) \in Seq(Int)
    BY SendTyped DEF ConnOK, Sound
  <1>3. Delivering(d) => BodiesOK(R)
    BY <1>1, <1>2 DEF Delivering
  <1>4. Resumed(d, R)
    BY <1>1, <1>3, IdleArmed DEF Resumed
  <1> QED
    BY <1>4 DEF R

\* sendfile: the offsets that follow the ones sent.
LEMMA SendFileResumed ==
  ASSUME NEW d, ConnOK(d), ~d.closed, Flying(d.send), d.send.sendfile, NEW n \in Int
  PROVE  Resumed(d, SendFile(d, n))
  <1>1. CASE n < 0
    BY <1>1, ErrorResumed DEF SendFile
  <1>2. CASE ~(n < 0)
    <2> DEFINE a == d.send.remaining
               k == Smaller(n, Smaller(d.send.remaining, d.send.size - d.send.offset))
               s == [d.send EXCEPT !.offset = @ + k, !.remaining = (@ - k) % Word]
               t == Offsets(d.send.offset, k)
    <2>1. /\ d.send \in Sends /\ d.send.size \in Nat /\ d.send.offset \in Nat /\ a \in Nat
          /\ a < Word /\ Word \in Nat /\ d.send.size - d.send.offset \in Nat
      BY SendTyped DEF ConnOK, Sound
    <2>2. d.send.offset + a <= d.send.size /\ d \in Conns /\ d.out # <<>> /\ a # 0
      BY DEF ConnOK, Sound, SendOK, Flying
    <2>3. k \in Nat /\ k <= a /\ k <= d.send.size - d.send.offset
      BY <1>2, <2>1, <2>2 DEF Smaller
    <2>4. SendFile(d, n) = Sent(Write([d EXCEPT !.send.offset = @ + k], t), k)
      BY <1>2 DEF SendFile
    <2> HIDE DEF k
    <2>5. (a - k) % Word = a - k /\ (a - k) % Word \in 0 .. Word - 1
      BY <2>1, <2>3, Counted
    <2>6. t \in Seq(Int) /\ Len(t) = k
      BY <2>1, <2>3, OffsetsTyped
    <2>7. [Write([d EXCEPT !.send.offset = @ + k], t) EXCEPT !.send.remaining = (@ - k) % Word] = Moved(d, s, t)
      BY <2>1, <2>2 DEF Write, Moved, Written, Conns, Sends
    <2>8. SendFile(d, n) = After(Moved(d, s, t))
      BY <2>4, <2>7 DEF Sent, After
    <2>9. d.send.offset + k \in Nat
      BY <2>1, <2>3
    <2>10. s \in Sends
      BY <2>1, <2>5, <2>9 DEF Sends
    <2>11. /\ s.offset = d.send.offset + k /\ s.remaining = a - k /\ s.size = d.send.size
           /\ s.sendfile = d.send.sendfile /\ s.file = d.send.file /\ s.sending = d.send.sending
      BY <2>1, <2>5 DEF Sends
    <2> HIDE DEF s
    <2>12. SendOK(s)
      <3>1. s.offset <= s.size /\ s.offset + s.remaining <= s.size
        BY <2>1, <2>2, <2>3, <2>11
      <3> QED
        BY <2>10, <3>1 DEF SendOK
    <2>13. Left(d.send) = Offsets(d.send.offset, a)
      BY DEF Left
    <2>14. Left(s) = Offsets(s.offset, s.remaining) /\ Tally(s)
      <3>1. s.offset \in Nat /\ s.remaining \in Nat
        BY <2>1, <2>3, <2>11
      <3>2. Len(Offsets(s.offset, s.remaining)) = s.remaining
            /\ (s.remaining = 0 => Offsets(s.offset, s.remaining) = <<>>)
        BY <3>1, OffsetsTyped
      <3>3. s.sending /\ s.sendfile
        BY <2>11 DEF Flying
      <3> QED
        BY <3>2, <3>3 DEF Left, Flying, Tally
    <2>15. Cat(t, Left(s)) = Left(d.send)
      <3>1. PICK b \in Nat, o \in Nat : b = a /\ o = d.send.offset
        BY <2>1
      <3>2. b - k \in Nat /\ k + (b - k) = b
        BY <2>3, <3>1
      <3>3. Cat(Offsets(o, k), Offsets(o + k, b - k)) = Offsets(o, k + (b - k))
        BY <2>3, <3>2, OffsetsMeet
      <3> QED
        BY <2>11, <2>13, <2>14, <3>1, <3>2, <3>3
    <2> HIDE DEF t
    <2> QED
      BY <2>2, <2>6, <2>8, <2>11, <2>12, <2>14, <2>15, MovedResumed DEF Delivering
  <1> QED
    BY <1>1, <1>2

\* A send that ends here with an idle send state, nothing being left.
LEMMA IdleResumed ==
  ASSUME NEW d, ConnOK(d), NEW R, Sound(R), SameClient(d, R), R.send = Idle,
         ~d.failed, Delivering(d) /\ d.send.file # "stale" => Promised(d.tls, d.out, <<>>)
  PROVE  Resumed(d, R)
  <1>1. ConnOK(R) /\ ~R.failed
    BY DEF ConnOK, SameClient
  <1>2. Delivering(d) /\ d.send.file # "stale" => Delivering(R)
    BY IdleDelivers
  <1> QED
    BY <1>1, <1>2, IdleArmed DEF Resumed, BodiesOK, SameClient

\* What read() put into the send buffer is what the file still holds.
LEMMA RefillFacts ==
  ASSUME NEW d, ConnOK(d), ~d.closed, Flying(d.send), ~d.send.sendfile,
         d.send.buffer = <<>>, d.send.file # "none"
  PROVE  /\ ConnOK(Refill(d)) /\ ~Refill(d).closed /\ SameClient(d, Refill(d))
         /\ Flying(Refill(d).send) /\ ~Refill(d).send.sendfile
         /\ Refill(d).send.file = d.send.file /\ Refill(d).send.remaining = d.send.remaining
         /\ d.send.file # "stale" => Left(Refill(d).send) = Left(d.send)
         /\ d.send.file # "stale" /\ Refill(d).send.buffer = <<>> => Left(d.send) = <<>>
  <1> DEFINE n == Smaller(ReadSize, d.send.size - d.send.offset)
             o == d.send.offset
             t == Offsets(o, n)
             s == [d.send EXCEPT !.buffer = t, !.offset = @ + n]
             e == Refill(d)
  <1>1. /\ d.send \in Sends /\ d.send.size \in Nat /\ o \in Nat /\ d.send.size - o \in Nat
        /\ d.send.remaining \in Nat
    BY SendTyped DEF ConnOK, Sound
  <1>2. Sound(d) /\ d \in Conns /\ ~d.failed /\ d.send.sending /\ d.send.remaining # 0
    BY DEF ConnOK, Sound, Flying
  <1>3. /\ n \in Nat /\ n <= d.send.size - o /\ (n = 0 => d.send.size - o = 0)
    BY <1>1, SessionAssumption DEF Smaller
  <1>4. e = [d EXCEPT !.send = s]
    BY <1>1, <1>2 DEF Refill, Conns, Sends
  <1> HIDE DEF n, e
  <1>5. t \in Seq(Int) /\ Len(t) = n
    BY <1>1, <1>3, OffsetsTyped
  <1>6. o + n \in Nat /\ o + n <= d.send.size
    BY <1>1, <1>3
  <1>7. s \in Sends
    BY <1>1, <1>5, <1>6 DEF Sends
  <1>8. /\ s.buffer = t /\ s.offset = o + n /\ s.size = d.send.size /\ s.file = d.send.file
        /\ s.sendfile = d.send.sendfile /\ s.sending = d.send.sending /\ s.remaining = d.send.remaining
    BY <1>1 DEF Sends
  <1> HIDE DEF s
  <1>9. SendOK(s)
    BY <1>6, <1>7, <1>8 DEF SendOK
  <1>10. e \in Conns
    BY <1>2, <1>4, <1>7 DEF Conns
  <1>11. /\ e.send = s /\ e.out = d.out /\ e.tls = d.tls /\ e.requests = d.requests /\ e.closed = d.closed
         /\ e.failed = d.failed /\ e.fds = d.fds
    BY <1>2, <1>4 DEF Conns
  <1>12. ConnOK(e)
    BY <1>2, <1>8, <1>9, <1>10, <1>11 DEF ConnOK, Sound, FdsOK
  <1>13. ASSUME d.send.file # "stale"
         PROVE  Left(s) = Left(d.send) /\ (s.buffer = <<>> => Left(d.send) = <<>>)
    <2>1. d.send.file = "open"
      BY <1>1, <1>13 DEF Sends
    <2>2. PICK m \in Nat : m = d.send.size - o
      BY <1>1
    <2>3. Left(d.send) = Cat(<<>>, Offsets(o, m))
      BY <2>1, <2>2 DEF Left
    <2>4. Left(s) = Cat(t, Offsets(o + n, s.size - s.offset))
      BY <1>2, <1>8, <2>1 DEF Left, Flying
    <2>5. s.size - s.offset = m - n /\ m - n \in Nat /\ n + (m - n) = m
      <3>1. PICK x \in Nat, y \in Nat : x = d.send.size /\ y = o
        BY <1>1
      <3>2. s.size = x /\ s.offset = y + n /\ m = x - y /\ n <= x - y
        BY <1>3, <1>8, <2>2, <3>1
      <3> QED
        BY <1>3, <3>2
    <2>6. Cat(t, Offsets(o + n, m - n)) = Offsets(o, n + (m - n))
      <3>1. PICK r \in Nat, y \in Nat, z \in Nat : r = m - n /\ y = o /\ z = n
        BY <1>1, <1>3, <2>5
      <3>2. Cat(Offsets(y, z), Offsets(y + z, r)) = Offsets(y, z + r)
        BY OffsetsMeet
      <3> QED
        BY <3>1, <3>2
    <2>7. Offsets(o, m) \in Seq(Int) /\ (m = 0 => Offsets(o, m) = <<>>)
      BY <1>1, OffsetsTyped
    <2>8. Cat(<<>>, Offsets(o, m)) = Offsets(o, m)
      BY <2>7, CatFacts
    <2>9. s.buffer = <<>> => n = 0
      BY <1>5, <1>8, EmptySeq
    <2>10. s.buffer = <<>> => m = 0
      BY <1>3, <2>2, <2>9
    <2>11. Left(s) = Offsets(o, m)
      BY <2>4, <2>5, <2>6
    <2>12. Left(d.send) = Offsets(o, m)
      BY <2>3, <2>8
    <2> QED
      BY <2>7, <2>10, <2>11, <2>12
  <1>14. Flying(s)
    BY <1>2, <1>8 DEF Flying
  <1> QED
    BY <1>8, <1>11, <1>12, <1>13, <1>14 DEF e, SameClient

\* write() or SSL_write from the send buffer.
LEMMA BufferMoved ==
  ASSUME NEW e, ConnOK(e), ~e.closed, Flying(e.send), ~e.send.sendfile, NEW k \in Nat, k <= Len(e.send.buffer)
  PROVE  Resumed(e, Sent(Write([e EXCEPT !.send.buffer = SubSeq(@, k + 1, Len(@))],
                                 SubSeq(e.send.buffer, 1, k)), k))
  <1> DEFINE a == e.send.remaining
             b == e.send.buffer
             rest == SubSeq(b, k + 1, Len(b))
             t == SubSeq(b, 1, k)
             s == [e.send EXCEPT !.buffer = rest, !.remaining = (@ - k) % Word]
             R == Sent(Write([e EXCEPT !.send.buffer = SubSeq(@, k + 1, Len(@))],
                                 SubSeq(e.send.buffer, 1, k)), k)
             held == Offsets(e.send.offset, e.send.size - e.send.offset)
  <1>1. /\ e.send \in Sends /\ e.send.size \in Nat /\ e.send.offset \in Nat /\ a \in Nat
        /\ a < Word /\ Word \in Nat /\ e.send.size - e.send.offset \in Nat
        /\ b \in Seq(Int) /\ Len(b) \in Nat
    BY SendTyped DEF ConnOK, Sound
  <1>2. e \in Conns /\ e.out # <<>> /\ a # 0 /\ e.send.sending /\ e.send.offset <= e.send.size
    BY DEF ConnOK, Sound, SendOK, Flying
  <1>3. /\ t \in Seq(Int) /\ rest \in Seq(Int) /\ Cat(t, rest) = b
        /\ Len(t) = k /\ Len(rest) = Len(b) - k
    BY <1>1, Split
  <1>4. (a - k) % Word \in 0 .. Word - 1 /\ (k <= a => (a - k) % Word = a - k)
    BY <1>1, Counted
  <1>5. [Write([e EXCEPT !.send.buffer = SubSeq(@, k + 1, Len(@))], SubSeq(e.send.buffer, 1, k))
           EXCEPT !.send.remaining = (@ - k) % Word] = Moved(e, s, t)
    BY <1>1, <1>2 DEF Write, Moved, Written, Conns, Sends
  <1>6. R = After(Moved(e, s, t))
    BY <1>5 DEF Sent, After
  <1> HIDE DEF rest, t, R
  <1>7. s \in Sends
    BY <1>1, <1>3, <1>4 DEF Sends
  <1>8. /\ s.buffer = rest /\ s.remaining = (a - k) % Word /\ s.size = e.send.size
        /\ s.sendfile = e.send.sendfile /\ s.file = e.send.file /\ s.sending = e.send.sending
        /\ s.offset = e.send.offset
    BY <1>1 DEF Sends
  <1> HIDE DEF s
  <1>9. SendOK(s)
    BY <1>2, <1>7, <1>8 DEF SendOK
  <1>10. held \in Seq(Int) /\ Len(held) \in Nat
    BY <1>1, OffsetsTyped
  <1> HIDE DEF held
  <1>11. ASSUME Delivering(e), ~LastExempt(e)
         PROVE  Cat(t, Left(s)) = Left(e.send) /\ Tally(s)
    <2>1. Tally(e.send) /\ Len(Left(e.send)) = a
      BY <1>11 DEF Delivering, Tally
    <2> DEFINE raw == IF e.send.file = "open" THEN Cat(rest, held) ELSE rest
    <2>2. /\ raw \in Seq(Int) /\ Cat(t, raw) = Left(e.send)
          /\ Len(Left(e.send)) = k + Len(raw)
      <3>1. CASE e.send.file = "open"
        <4>1. Left(e.send) = Cat(b, held)
          BY <3>1 DEF Left, held
        <4>2. Cat(t, Cat(rest, held)) = Cat(Cat(t, rest), held)
          <5>1. PICK x \in Seq(Int), y \in Seq(Int), z \in Seq(Int) : x = t /\ y = rest /\ z = held
            BY <1>3, <1>10
          <5>2. Cat(Cat(x, y), z) = Cat(x, Cat(y, z))
            BY CatFacts
          <5> QED
            BY <5>1, <5>2
        <4>3. Cat(rest, held) \in Seq(Int) /\ Len(Cat(t, Cat(rest, held))) = Len(t) + Len(Cat(rest, held))
          <5>1. PICK u \in Seq(Int) : u = Cat(rest, held)
            BY <1>3, <1>10, CatFacts, Zenon
          <5>2. Len(Cat(t, u)) = Len(t) + Len(u)
            BY <1>3, CatFacts
          <5> QED
            BY <5>1, <5>2
        <4>4. Cat(t, Cat(rest, held)) = Left(e.send)
          BY <1>3, <4>1, <4>2
        <4> QED
          BY <1>3, <3>1, <4>3, <4>4
      <3>2. CASE e.send.file # "open"
        <4>1. Left(e.send) = b
          BY <3>2 DEF Left
        <4> QED
          BY <1>1, <1>3, <3>2, <4>1
      <3> QED
        BY <3>1, <3>2
    <2>3. s.file = "open" => s.size - s.offset = e.send.size - e.send.offset
      BY <1>8
    <2>4. Flying(s) => Left(s) = raw
      BY <1>8, <2>3 DEF Left, held
    <2> HIDE DEF raw
    <2>5. Len(raw) \in Nat /\ (Len(raw) = 0 => raw = <<>>)
      BY <2>2, LenProperties, EmptySeq
    <2>6. k <= a /\ s.remaining = a - k /\ Len(raw) = a - k
      BY <1>1, <1>4, <1>8, <2>1, <2>2, <2>5
    <2>7. ~Flying(s) => Len(raw) = 0
      BY <1>2, <1>8, <2>6 DEF Flying
    <2>8. Left(s) = raw
      BY <2>4, <2>5, <2>7 DEF Left
    <2> QED
      BY <2>2, <2>6, <2>8 DEF Tally
  <1>12. Delivering(e) => Promised(e.tls, e.out, Cat(t, Left(s))) /\ (LastExempt(e) \/ Tally(s))
    <2>1. e.out \in Seq(Responses)
      BY <1>2 DEF Conns
    <2>2. CASE LastExempt(e)
      BY <2>1, <2>2, PromisedExempt DEF Delivering
    <2>3. CASE ~LastExempt(e)
      BY <1>11, <2>3 DEF Delivering
    <2> QED
      BY <2>2, <2>3
  <1>13. Resumed(e, R)
    BY <1>2, <1>3, <1>6, <1>8, <1>9, <1>12, MovedResumed
  <1> QED
    BY <1>13 DEF R

\* A refill before the send changes nothing for the client.
LEMMA ResumedVia ==
  ASSUME NEW d, NEW e, NEW R, SameClient(d, e), e.send.file = d.send.file,
         d.send.file # "stale" /\ Delivering(d) => Delivering(e), Resumed(e, R)
  PROVE  Resumed(d, R)
  BY DEF Resumed, SameClient

\* The buffered send: an empty buffer is filled first.
LEMMA SendBufferResumed ==
  ASSUME NEW d, ConnOK(d), ~d.closed, Flying(d.send), ~d.send.sendfile, NEW n \in Int
  PROVE  Resumed(d, SendBuffer(d, n))
  <1> DEFINE e == IF d.send.buffer = <<>> THEN Refill(d) ELSE d
             k == Smaller(n, Len(e.send.buffer))
             out == Sent(Write([e EXCEPT !.send.buffer = SubSeq(@, k + 1, Len(@))],
                               SubSeq(e.send.buffer, 1, k)), k)
  <1>1. SendBuffer(d, n) =
          IF d.send.buffer = <<>> /\ d.send.file = "none" THEN Finished(d)
          ELSE IF e.send.buffer = <<>> THEN cleanup_send_state(e)
          ELSE IF n < 0 THEN SendError(e) ELSE out
    BY DEF SendBuffer
  <1>2. Sound(d) /\ ~d.failed
    BY DEF ConnOK
  <1>3. CASE d.send.buffer = <<>> /\ d.send.file = "none"
    <2>1. Sound(Finished(d)) /\ SameClient(d, Finished(d)) /\ Finished(d).send = Idle
      BY <1>2, FinishedFacts
    <2>2. Left(d.send) = <<>>
      BY <1>3 DEF Left
    <2> QED
      BY <1>1, <1>2, <1>3, <2>1, <2>2, IdleResumed DEF Delivering
  <1>4. CASE ~(d.send.buffer = <<>> /\ d.send.file = "none")
    <2>1. /\ ConnOK(e) /\ ~e.closed /\ SameClient(d, e) /\ Flying(e.send) /\ ~e.send.sendfile
          /\ e.send.file = d.send.file
          /\ d.send.file # "stale" => Left(e.send) = Left(d.send) /\ e.send.remaining = d.send.remaining
          /\ d.send.file # "stale" /\ e.send.buffer = <<>> => Left(d.send) = <<>>
      <3>1. CASE d.send.buffer = <<>>
        BY <1>4, <3>1, RefillFacts
      <3>2. CASE d.send.buffer # <<>>
        BY <3>2 DEF SameClient
      <3> QED
        BY <3>1, <3>2
    <2>2. SendBuffer(d, n) = IF e.send.buffer = <<>> THEN cleanup_send_state(e)
                             ELSE IF n < 0 THEN SendError(e) ELSE out
      BY <1>1, <1>4
    <2> HIDE DEF e
    <2>3. d.send.file # "stale" /\ Delivering(d) => Delivering(e)
      BY <2>1 DEF Delivering, SameClient, LastExempt, Tally, Flying
    <2>4. Sound(e) /\ ~e.failed
      BY <2>1 DEF ConnOK
    <2>5. CASE e.send.buffer = <<>>
      <3>1. /\ Sound(cleanup_send_state(e)) /\ SameClient(e, cleanup_send_state(e))
            /\ cleanup_send_state(e).send = Idle
        BY <2>4, CleanupFacts
      <3>2. Delivering(e) /\ e.send.file # "stale" => Promised(e.tls, e.out, <<>>)
        BY <2>1, <2>5 DEF Delivering
      <3>3. Resumed(e, cleanup_send_state(e))
        BY <2>1, <2>4, <3>1, <3>2, IdleResumed
      <3> QED
        BY <2>1, <2>2, <2>3, <2>5, <3>3, ResumedVia
    <2>6. CASE e.send.buffer # <<>> /\ n < 0
      <3>1. Resumed(e, SendError(e))
        BY <2>1, ErrorResumed
      <3> QED
        BY <2>1, <2>2, <2>3, <2>6, <3>1, ResumedVia
    <2>7. CASE e.send.buffer # <<>> /\ ~(n < 0)
      <3>1. Len(e.send.buffer) \in Nat
        BY <2>4, SendTyped DEF Sound
      <3>2. k \in Nat /\ k <= Len(e.send.buffer)
        BY <2>7, <3>1 DEF Smaller
      <3> HIDE DEF k
      <3>3. Resumed(e, out)
        BY <2>1, <3>2, BufferMoved
      <3> QED
        BY <2>1, <2>2, <2>3, <2>7, <3>3, ResumedVia
    <2> QED
      BY <2>5, <2>6, <2>7
  <1> QED
    BY <1>3, <1>4

\* resume_send does nothing, or moves bytes of the body to the client.
LEMMA ResumeFacts ==
  ASSUME NEW d, ConnOK(d), NEW n \in Int
  PROVE  \/ resume_send(d, n) = d /\ (d.closed \/ ~Flying(d.send))
         \/ ~d.closed /\ Resumed(d, resume_send(d, n))
  BY SendFileResumed, SendBufferResumed DEF resume_send, Flying

-----------------------------------------------------------------------------
(* The handlers.                                                             *)

Statuses == {200, 206, 405} \cup {Refusal[t] : t \in DOMAIN Refusal}

NewResponse(r, status, length) == [req |-> r, status |-> status, length |-> length, body |-> <<>>]

(* A connection whose request is about to be answered, and one of those      *)
(* whose earlier bodies are complete.                                        *)
Ready(d) ==
  /\ ConnOK(d) /\ ~d.closed /\ ~d.failed /\ d.req \in AllRequests
  /\ d.send.file = "open" => EmptyFile(d.out)

Clean(d) == Promised(d.tls, d.out, <<>>) /\ ~Flying(d.send) /\ d.send.file # "stale"

\* A response head is one more response.
LEMMA HeadFacts ==
  ASSUME NEW d, Ready(d), NEW status \in Statuses, NEW length \in Nat
  PROVE  /\ Ready(ResponseHead(d, status, length))
         /\ ResponseHead(d, status, length).out = Append(d.out, NewResponse(d.req, status, length))
         /\ ResponseHead(d, status, length).out # <<>>
         /\ ResponseHead(d, status, length).send = d.send
         /\ ResponseHead(d, status, length).tls = d.tls
         /\ ResponseHead(d, status, length).requests = d.requests
         /\ ResponseHead(d, status, length).req = d.req
         /\ ResponseHead(d, status, length).fds = d.fds
         /\ ResponseHead(d, status, length).interest = d.interest
         /\ NewResponse(d.req, status, length) \in Responses
         /\ status = 200 /\ length = 0 => EmptyFile(ResponseHead(d, status, length).out)
         /\ EmptyFile(d.out) => EmptyFile(ResponseHead(d, status, length).out)
  <1> DEFINE e == ResponseHead(d, status, length)
             r == NewResponse(d.req, status, length)
             w == Append(d.out, r)
  <1>1. d \in Conns /\ d.out \in Seq(Responses) /\ Sound(d)
    BY DEF Ready, ConnOK, Sound, Conns
  <1>2. r \in Responses /\ r.status = status /\ r.length = length
    BY EmptySeq DEF Responses, NewResponse, Ready, AllRequests, Statuses
  <1>3. e = [d EXCEPT !.out = w]
    BY DEF ResponseHead, NewResponse
  <1> HIDE DEF e, r
  <1>4. /\ w \in Seq(Responses) /\ w # <<>>
        /\ EmptyFile(d.out) \/ (r.status = 200 /\ r.length = 0) => EmptyFile(w)
    BY <1>1, <1>2, AppendFacts
  <1> HIDE DEF w
  <1>5. e \in Conns
    BY <1>1, <1>3, <1>4 DEF Conns
  <1>6. /\ e.out = w /\ e.send = d.send /\ e.tls = d.tls /\ e.requests = d.requests /\ e.req = d.req
        /\ e.fds = d.fds /\ e.interest = d.interest /\ e.closed = d.closed /\ e.failed = d.failed
    BY <1>1, <1>3 DEF Conns
  <1>7. Sound(e)
    BY <1>1, <1>4, <1>5, <1>6 DEF Sound, FdsOK
  <1>8. Ready(e)
    BY <1>4, <1>6, <1>7 DEF Ready, ConnOK
  <1> QED
    BY <1>2, <1>4, <1>6, <1>8 DEF e, r, w

(* What a handler leaves of a connection.                                    *)
Handled(d, R) ==
  /\ ConnOK(R) /\ FileArmed(R) /\ R.tls = d.tls /\ R.requests = d.requests
  /\ R.send.file = "stale" => ~R.failed
  /\ Clean(d) /\ R.send.file # "stale" => BodiesOK(R) /\ BodyArmed(R)
  /\ Clean(d) /\ R.send.file = "stale" /\ ~Flying(R.send) => Promised(R.tls, R.out, <<>>)

\* An answer without a body to send keeps the promise when nothing is owed.
LEMMA HeadPromised ==
  ASSUME NEW d, Ready(d), NEW status \in Statuses, NEW length \in Nat,
         LengthOK(NewResponse(d.req, status, length)), NEW rest \in Seq(Int), Wanted(d.req) = rest,
         Promised(d.tls, d.out, <<>>)
  PROVE  Promised(d.tls, ResponseHead(d, status, length).out, rest)
  <1> DEFINE r == NewResponse(d.req, status, length)
  <1>1. r \in Responses /\ ResponseHead(d, status, length).out = Append(d.out, r)
    BY HeadFacts
  <1>5. d.out \in Seq(Responses)
    BY DEF Ready, ConnOK, Sound, Conns
  <1>2. Cat(<<>>, rest) = rest
    BY CatFacts, EmptySeq
  <1>3. r.body = <<>> /\ r.req = d.req
    BY DEF NewResponse
  <1> HIDE DEF r
  <1>4. LengthOK(r) /\ Cat(r.body, rest) = Wanted(r.req)
    BY <1>2, <1>3 DEF r
  <1> QED
    BY <1>1, <1>4, <1>5, PromisedAppended

\* http_error and the head of a HEAD response: nothing is owed after it.
LEMMA HeadHandled ==
  ASSUME NEW d, Ready(d), NEW status \in Statuses, NEW length \in Nat,
         LengthOK(NewResponse(d.req, status, length)), Wanted(d.req) = <<>>
  PROVE  /\ Handled(d, ResponseHead(d, status, length))
         /\ Clean(d) => Clean(ResponseHead(d, status, length))
  <1> DEFINE e == ResponseHead(d, status, length)
  <1>1. Ready(e) /\ e.send = d.send /\ e.tls = d.tls /\ e.requests = d.requests
    BY HeadFacts
  <1>2. <<>> \in Seq(Int)
    BY EmptySeq
  <1>3. Promised(d.tls, d.out, <<>>) => Promised(d.tls, e.out, <<>>)
    BY <1>2, HeadPromised
  <1> HIDE DEF e
  <1>4. Clean(d) => Clean(e)
    BY <1>1, <1>3 DEF Clean
  <1>5. Clean(e) => Delivering(e)
    BY DEF Clean, Delivering, Left, Tally
  <1>6. Handled(d, e)
    BY <1>1, <1>4, <1>5 DEF Handled, Ready, FileArmed, BodiesOK, BodyArmed, Clean
  <1> QED
    BY <1>4, <1>6 DEF e

\* The welcome text is written at once.
LEMMA WelcomeHandled ==
  ASSUME NEW d, Ready(d), d.req.target = "welcome"
  PROVE  Handled(d, http_ok(d))
  <1> DEFINE h == ResponseHead(d, 200, 1)
             t == <<0>>
  <1>1. 200 \in Statuses /\ 1 \in Nat /\ t \in Seq(Int) /\ Len(t) = 1 /\ <<>> \in Seq(Int)
    BY EmptySeq DEF Statuses
  <1>2. Wanted(d.req) = t
    BY DEF Wanted
  <1>3. /\ Ready(h) /\ h.send = d.send /\ h.tls = d.tls /\ h.requests = d.requests /\ h.out # <<>>
        /\ EmptyFile(d.out) => EmptyFile(h.out)
    BY <1>1, HeadFacts
  <1>4. LengthOK(NewResponse(d.req, 200, 1))
    BY <1>1, <1>2 DEF LengthOK, NewResponse
  <1>5. Promised(d.tls, d.out, <<>>) => Promised(d.tls, h.out, t)
    BY <1>1, <1>2, <1>4, HeadPromised
  <1>6. ConnOK(h) /\ ~h.closed /\ SendOK(h.send) /\ h \in Conns /\ ~h.failed
    BY <1>3 DEF Ready, ConnOK, Sound
  <1>7. http_ok(d) = Write(h, t)
    BY DEF http_ok
  <1> HIDE DEF h, t
  <1> DEFINE e == Moved(h, h.send, t)
  <1>8. Write(h, t) = e
    BY <1>6 DEF Write, Moved, Written, Conns
  <1>9. /\ ConnOK(e) /\ ~e.closed /\ e.send = h.send /\ e.tls = h.tls /\ e.requests = h.requests
        /\ e.out = Written(h.out, t)
        /\ /\ Promised(h.tls, h.out, Cat(t, Left(h.send)))
           /\ LastExempt(h) \/ Tally(h.send)
           /\ Left(h.send) \in Seq(Int)
           => Delivering(e)
    BY <1>1, <1>3, <1>6, MovedFacts
  <1>10. EmptyFile(h.out) => EmptyFile(e.out)
    <2>1. h.out \in Seq(Responses)
      BY <1>6 DEF Conns
    <2> QED
      BY <1>1, <1>3, <1>9, <2>1, EmptyWritten
  <1> HIDE DEF e
  <1>11. FileArmed(e)
    BY <1>3, <1>9, <1>10 DEF FileArmed, Ready
  <1>12. Clean(d) => Delivering(e) /\ BodyArmed(e) /\ e.send.file # "stale"
    <2>1. Clean(d) => Left(h.send) = <<>> /\ Tally(h.send) /\ ~Flying(h.send)
      BY <1>3 DEF Clean, Left, Tally
    <2>2. Cat(t, <<>>) = t
      BY <1>1, CatFacts
    <2> QED
      BY <1>1, <1>3, <1>5, <1>9, <2>1, <2>2 DEF Clean, BodyArmed
  <1>13. ~e.failed
    BY <1>9 DEF ConnOK
  <1>14. Handled(d, e)
    BY <1>3, <1>9, <1>11, <1>12, <1>13 DEF Handled, BodiesOK
  <1> QED
    BY <1>7, <1>8, <1>14

(* A send is set up: the state s, and the count of open files.               *)
Started(h, s, fds) == [h EXCEPT !.send = s, !.fds = fds]

\* A send that is set up keeps the count of open files.
LEMMA StartedFacts ==
  ASSUME NEW h, Ready(h), h.out # <<>>, NEW s, SendOK(s), s.file # "open"
  PROVE  /\ ConnOK(Started(h, s, h.fds)) /\ ~Started(h, s, h.fds).closed /\ Started(h, s, h.fds).req = h.req
         /\ Started(h, s, h.fds).send = s /\ SameClient(h, Started(h, s, h.fds))
         /\ Started(h, s, h.fds).interest = h.interest /\ Started(h, s, h.fds) \in Conns
  <1> DEFINE g == Started(h, s, h.fds)
  <1>1. h \in Conns /\ Sound(h) /\ s \in Sends /\ h.fds \in Nat
    BY DEF Ready, ConnOK, Sound, SendOK, Conns
  <1>2. g = [h EXCEPT !.send = s, !.fds = h.fds]
    BY DEF Started
  <1> HIDE DEF g
  <1>3. g \in Conns
    BY <1>1, <1>2 DEF Conns
  <1>4. /\ g.send = s /\ g.fds = h.fds /\ g.out = h.out /\ g.tls = h.tls /\ g.requests = h.requests
        /\ g.closed = h.closed /\ g.failed = h.failed /\ g.interest = h.interest /\ g.req = h.req
    BY <1>1, <1>2 DEF Conns
  <1>5. EmptyFile(h.out) \/ h.fds = 0
    BY <1>1 DEF Ready, Sound, FdsOK
  <1>6. ConnOK(g)
    BY <1>3, <1>4, <1>5 DEF ConnOK, Sound, FdsOK, Ready
  <1> QED
    BY <1>3, <1>4, <1>6 DEF g, SameClient, Ready

\* The same when a file was opened for it.
LEMMA OpenedFacts ==
  ASSUME NEW h, Ready(h), h.out # <<>>, NEW s, SendOK(s), s.file = "open"
  PROVE  /\ ConnOK(Started(h, s, h.fds + 1)) /\ ~Started(h, s, h.fds + 1).closed
         /\ Started(h, s, h.fds + 1).send = s /\ SameClient(h, Started(h, s, h.fds + 1))
  <1> DEFINE n == h.fds + 1
             g == Started(h, s, n)
  <1>1. h \in Conns /\ Sound(h) /\ s \in Sends /\ h.fds \in Nat
    BY DEF Ready, ConnOK, Sound, SendOK, Conns
  <1>2. g = [h EXCEPT !.send = s, !.fds = n]
    BY DEF Started
  <1>5. /\ EmptyFile(h.out) \/ n = 1
        /\ n \in Nat /\ n > 0
    BY <1>1 DEF Ready, Sound, FdsOK
  <1> HIDE DEF g, n
  <1>3. g \in Conns
    BY <1>1, <1>2, <1>5 DEF Conns
  <1>4. /\ g.send = s /\ g.fds = n /\ g.out = h.out /\ g.tls = h.tls /\ g.requests = h.requests
        /\ g.closed = h.closed /\ g.failed = h.failed
    BY <1>1, <1>2 DEF Conns
  <1>6. ConnOK(g)
    BY <1>3, <1>4, <1>5 DEF ConnOK, Sound, FdsOK, Ready
  <1> QED
    BY <1>4, <1>6 DEF g, n, SameClient, Ready

\* What is resumed after it was set up is handled.
LEMMA ResumedHandled ==
  ASSUME NEW d, NEW g, ConnOK(g), ~g.closed, g.tls = d.tls, g.requests = d.requests, NEW n \in Int,
         g.send.file # "stale",
         ~Flying(g.send) => FileArmed(g),
         Clean(d) => Delivering(g)
  PROVE  Handled(d, resume_send(g, n))
  <1> DEFINE R == resume_send(g, n)
  <1>1. (R = g /\ ~Flying(g.send)) \/ Resumed(g, R)
    BY ResumeFacts
  <1> HIDE DEF R
  <1>2. CASE R = g /\ ~Flying(g.send)
    <2>1. ~g.failed
      BY DEF ConnOK
    <2> QED
      BY <1>2, <2>1 DEF Handled, BodiesOK, BodyArmed, R
  <1>3. CASE Resumed(g, R)
    BY <1>3 DEF Resumed, Handled, Armed, R
  <1> QED
    BY <1>1, <1>2, <1>3

\* A compressed file: the whole of it is in the send buffer.
LEMMA GzipHandled ==
  ASSUME NEW d, Ready(d), d.req.target # "welcome", d.req.target \notin DOMAIN Refusal, Gzipped(d.req),
         NEW n \in Int
  PROVE  Handled(d, resume_send(StartGzip(ResponseHead(d, 200, d.req.size - 1)), n))
  <1> DEFINE m == d.req.size - 1
             h == ResponseHead(d, 200, m)
             s == [sending |-> TRUE, file |-> "none", size |-> 0, offset |-> 0,
                   remaining |-> m, sendfile |-> FALSE, buffer |-> Zipped(m)]
             g == Started(h, s, h.fds)
  <1>1. d.req \in Requests
    BY RequestsTyped DEF Ready
  <1>2. Wanted(d.req) = Zipped(m) /\ m \in 1 .. Word - 1
    BY <1>1, WantedZipped
  <1>3. m \in Nat /\ m # 0 /\ 200 \in Statuses
    BY <1>2, SessionAssumption DEF Statuses
  <1>4. Zipped(m) \in Seq(Int) /\ Len(Zipped(m)) = m
    BY <1>3, ZippedTyped
  <1>5. /\ Ready(h) /\ h.send = d.send /\ h.tls = d.tls /\ h.requests = d.requests /\ h.out # <<>>
        /\ h.req = d.req
    <2> HIDE DEF m
    <2> QED
      BY <1>3, HeadFacts
  <1>6. LengthOK(NewResponse(d.req, 200, m))
    BY <1>2, <1>4 DEF LengthOK, NewResponse
  <1>7. Promised(d.tls, d.out, <<>>) => Promised(d.tls, h.out, Zipped(m))
    <2> HIDE DEF m
    <2> QED
      BY <1>2, <1>3, <1>4, <1>6, HeadPromised
  <1>8. StartGzip(h) = g
    <2>1. h \in Conns
      BY <1>5 DEF Ready, ConnOK, Sound
    <2> HIDE DEF h
    <2> QED
      BY <1>5, <2>1 DEF StartGzip, Started, Zipped, Conns
  <1> HIDE DEF h, m
  <1>9. s \in Sends
    BY <1>2, <1>4 DEF Sends
  <1>10. s.offset <= s.size /\ s.sendfile = FALSE /\ s.file = "none" /\ s.remaining = m /\ s.sending /\ s.buffer = Zipped(m)
    OBVIOUS
  <1> HIDE DEF s
  <1>11. SendOK(s)
    BY <1>9, <1>10 DEF SendOK
  <1>12. ConnOK(g) /\ ~g.closed /\ g.send = s /\ SameClient(h, g)
    <2>1. s.file # "open" /\ h.out # <<>> /\ Ready(h)
      BY <1>5, <1>10
    <2> QED
      BY <1>11, <2>1, StartedFacts
  <1> HIDE DEF g
  <1>13. Flying(s) /\ Left(s) = Zipped(m) /\ Tally(s)
    BY <1>3, <1>4, <1>10 DEF Flying, Left, Tally
  <1>14. Clean(d) => Delivering(g)
    BY <1>5, <1>7, <1>12, <1>13 DEF Clean, Delivering, SameClient
  <1>15. g.tls = d.tls /\ g.requests = d.requests
    BY <1>5, <1>12 DEF SameClient
  <1>16. Handled(d, resume_send(g, n))
    BY <1>10, <1>12, <1>13, <1>14, <1>15, ResumedHandled
  <1> QED
    BY <1>8, <1>16 DEF h, m

\* A HEAD request is answered without a body.
LEMMA HeadOnlyHandled ==
  ASSUME NEW d, Ready(d), d.req.target # "welcome", d.req.method = "HEAD",
         NEW status \in Statuses, NEW length \in Nat
  PROVE  Handled(d, HeadOnly(ResponseHead(d, status, length)))
  <1> DEFINE h == ResponseHead(d, status, length)
  <1>1. Ready(h) /\ h.send = d.send /\ h.tls = d.tls /\ h.requests = d.requests
    BY HeadFacts
  <1>2. LengthOK(NewResponse(d.req, status, length))
    BY DEF LengthOK, NewResponse
  <1>3. Wanted(d.req) = <<>>
    BY DEF Wanted
  <1>4. Clean(d) => Clean(h)
    BY <1>2, <1>3, HeadHandled
  <1> HIDE DEF h
  <1>5. Sound(h) /\ ~h.closed /\ ~h.failed
    BY <1>1 DEF Ready, ConnOK
  <1>6. CASE http_should_keep_alive(h.req)
    <2> DEFINE f == parser_reset(h)
               R == event_mod(f, "read")
    <2>1. Sound(f) /\ SameClient(h, f) /\ f.send = h.send /\ f.closed = h.closed
      BY <1>5, ParserResetFacts
    <2> HIDE DEF f
    <2>2. Sound(R) /\ SameClient(f, R) /\ R.send = f.send /\ R.closed = f.closed
      BY <2>1, EventModFacts
    <2>3. HeadOnly(h) = R
      BY <1>6 DEF HeadOnly, f
    <2> HIDE DEF R
    <2>4. /\ R.send = h.send /\ R.tls = d.tls /\ R.requests = d.requests /\ R.out = h.out /\ ~R.failed
          /\ R.tls = h.tls
      BY <1>1, <1>5, <2>1, <2>2 DEF SameClient
    <2>5. ConnOK(R) /\ FileArmed(R)
      BY <1>1, <2>2, <2>4 DEF ConnOK, FileArmed, Ready
    <2>6. Clean(d) => Delivering(R) /\ BodyArmed(R) /\ R.send.file # "stale"
      BY <1>4, <2>4 DEF Clean, Delivering, Left, Tally, BodyArmed
    <2>7. Handled(d, R)
      BY <2>4, <2>5, <2>6 DEF Handled, BodiesOK
    <2> QED
      BY <2>3, <2>7 DEF h
  <1>7. CASE ~http_should_keep_alive(h.req)
    <2> DEFINE R == conn_del(h)
    <2>1. Sound(R) /\ SameClient(h, R) /\ R.send = Idle /\ R.closed
      BY <1>5, ConnDelFacts
    <2>2. HeadOnly(h) = R
      BY <1>7 DEF HeadOnly
    <2> HIDE DEF R
    <2>3. Clean(d) => Delivering(R)
      BY <1>4, <2>1, IdleDelivers DEF Clean
    <2>4. Armed(R) /\ R.send.file # "stale"
      BY <2>1, IdleArmed
    <2>5. ConnOK(R) /\ ~R.failed /\ R.tls = d.tls /\ R.requests = d.requests
      BY <1>1, <1>5, <2>1 DEF ConnOK, SameClient
    <2>6. Handled(d, R)
      BY <2>3, <2>4, <2>5 DEF Handled, BodiesOK, Armed
    <2> QED
      BY <2>2, <2>6 DEF h
  <1> QED
    BY <1>6, <1>7 DEF h

(* The status and the send state of a file that is not compressed.           *)
FileStatus(r) == IF Window(r).ranged THEN 206 ELSE 200
FileSend(d, file) ==
  [sending |-> TRUE, file |-> file, size |-> d.req.size, offset |-> Window(d.req).first,
   remaining |-> Window(d.req).length, sendfile |-> ~d.tls, buffer |-> <<>>]

\* The send state of a file lies in the file.
LEMMA FileSendFacts ==
  ASSUME NEW d, Ready(d), NEW file \in {"open", "stale"}
  PROVE  /\ SendOK(FileSend(d, file)) /\ FileSend(d, file).file = file
         /\ Window(d.req).length \in Nat /\ FileStatus(d.req) \in Statuses
         /\ Flying(FileSend(d, file)) <=> Window(d.req).length # 0
         /\ Window(d.req).length = 0 => FileStatus(d.req) = 200
  <1> DEFINE w == Window(d.req)
             s == FileSend(d, file)
  <1>1. d.req \in Requests /\ d.req.size \in Nat /\ d.tls \in BOOLEAN
    BY RequestsTyped DEF Ready, ConnOK, Sound, Conns
  <1>2. /\ w.first \in Nat /\ w.length \in 0 .. Word - 1
        /\ w.first + w.length <= d.req.size
        /\ w.ranged => w.length > 0
    BY <1>1, WindowTyped
  <1> HIDE DEF w
  <1>3. w.length \in Nat
    BY <1>2, SessionAssumption
  <1>4. s \in Sends
    BY <1>1, <1>2, EmptySeq DEF FileSend, Sends, w
  <1>5. /\ s.file = file /\ s.sending /\ s.remaining = w.length /\ s.offset = w.first /\ s.size = d.req.size
    BY DEF FileSend, w
  <1> HIDE DEF s
  <1>6. s.offset <= s.size /\ s.offset + s.remaining <= s.size
    BY <1>1, <1>2, <1>3, <1>5
  <1>7. SendOK(s)
    BY <1>4, <1>6 DEF SendOK
  <1>8. FileStatus(d.req) \in Statuses /\ (w.length = 0 => FileStatus(d.req) = 200)
    BY <1>2, <1>3 DEF FileStatus, Statuses, w
  <1> QED
    BY <1>3, <1>5, <1>7, <1>8 DEF s, w, Flying

\* The head of a file response, and the rest it leaves for the body.
LEMMA FilePromised ==
  ASSUME NEW d, Ready(d), IsFile(d.req), ~Gzipped(d.req), Promised(d.tls, d.out, <<>>)
  PROVE  LET h == ResponseHead(d, FileStatus(d.req), Window(d.req).length)
             s == FileSend(d, "open")
         IN  Promised(d.tls, h.out, Left(s)) /\ (LastExempt(h) \/ Tally(s))
  <1> DEFINE w == Window(d.req)
             st == FileStatus(d.req)
             r == NewResponse(d.req, st, w.length)
             h == ResponseHead(d, st, w.length)
             s == FileSend(d, "open")
  <1>1. d.req \in Requests /\ d.req.size \in Nat /\ d.tls \in BOOLEAN /\ d.out \in Seq(Responses)
    BY RequestsTyped DEF Ready, ConnOK, Sound, Conns
  <1>2. SendOK(s) /\ w.length \in Nat /\ st \in Statuses /\ (Flying(s) <=> w.length # 0)
    BY FileSendFacts
  <1>3. /\ w.first \in Nat /\ w.first + w.length <= d.req.size
        /\ ~w.ranged => w.first = 0 /\ w.length = d.req.size
    BY <1>1, WindowTyped
  <1>4. Wanted(d.req) = Offsets(w.first, w.length)
    BY <1>1, WantedFile
  <1>5. /\ s.file = "open" /\ s.remaining = w.length /\ s.offset = w.first /\ s.size = d.req.size
        /\ s.sendfile = ~d.tls /\ s.buffer = <<>> /\ s.sending
    BY DEF FileSend
  <1>6. h.out = Append(d.out, r) /\ r \in Responses /\ h.tls = d.tls
    BY <1>2, HeadFacts
  <1>7. r.body = <<>> /\ r.req = d.req /\ r.status = st /\ r.length = w.length
    BY DEF NewResponse
  <1>8. Left(s) \in Seq(Int)
    BY <1>2, SendTyped
  <1>9. CASE d.tls /\ w.ranged
    <2>1. Exempt(d.tls, r)
      BY <1>7, <1>9 DEF Exempt, FileStatus
    <2> HIDE DEF r, h, s
    <2>2. Promised(d.tls, h.out, Left(s))
      BY <1>1, <1>6, <2>1, PromisedAppended
    <2>3. /\ Len(h.out) = Len(d.out) + 1 /\ h.out # <<>> /\ h.out[Len(d.out) + 1] = r
      BY <1>1, <1>6, AppendFacts
    <2>4. LastExempt(h)
      BY <1>6, <2>1, <2>3 DEF LastExempt
    <2> QED
      BY <2>2, <2>4 DEF r, h, s
  <1>10. CASE ~(d.tls /\ w.ranged)
    <2> DEFINE all == Offsets(w.first, w.length)
    <2>1. all \in Seq(Int) /\ Len(all) = w.length /\ (w.length = 0 => all = <<>>)
      BY <1>2, <1>3, OffsetsTyped
    <2>2. Left(s) = all
      <3>1. CASE w.length = 0
        BY <1>2, <2>1, <3>1 DEF Left
      <3>2. CASE w.length # 0 /\ ~d.tls
        BY <1>2, <1>5, <3>2 DEF Left
      <3>3. CASE w.length # 0 /\ d.tls
        <4>1. Left(s) = Cat(<<>>, Offsets(s.offset, s.size - s.offset))
          BY <1>1, <1>2, <1>5, <3>3 DEF Left
        <4>2. s.offset = w.first /\ s.size - s.offset = w.length
          BY <1>1, <1>3, <1>5, <1>10, <3>3
        <4>3. Cat(<<>>, all) = all
          BY <2>1, CatFacts, EmptySeq
        <4> QED
          BY <4>1, <4>2, <4>3
      <3> QED
        BY <1>1, <3>1, <3>2, <3>3
    <2>3. LengthOK(r)
      BY <1>4, <1>7, <2>1 DEF LengthOK
    <2>4. Promised(d.tls, h.out, all)
      BY <1>2, <1>4, <2>1, <2>3, HeadPromised
    <2>5. Tally(s)
      BY <1>5, <2>1, <2>2 DEF Tally
    <2> QED
      BY <2>2, <2>4, <2>5
  <1> QED
    BY <1>9, <1>10

\* A file is opened and its body is sent as far as the socket takes it.
LEMMA FileHandled ==
  ASSUME NEW d, Ready(d), IsFile(d.req), ~Gzipped(d.req), NEW n \in Int
  PROVE  LET h == ResponseHead(d, FileStatus(d.req), Window(d.req).length)
         IN  Handled(d, resume_send(StartSend(h, Window(d.req), TRUE), n))
  <1> DEFINE w == Window(d.req)
             st == FileStatus(d.req)
             h == ResponseHead(d, st, w.length)
             s == FileSend(d, "open")
             g == Started(h, s, h.fds + 1)
  <1>1. /\ SendOK(s) /\ s.file = "open" /\ w.length \in Nat /\ st \in Statuses
        /\ (Flying(s) <=> w.length # 0) /\ (w.length = 0 => st = 200)
    BY FileSendFacts
  <1>2. /\ Ready(h) /\ h.tls = d.tls /\ h.requests = d.requests /\ h.out # <<>> /\ h.req = d.req
        /\ (st = 200 /\ w.length = 0 => EmptyFile(h.out))
    BY <1>1, HeadFacts
  <1>3. Promised(d.tls, d.out, <<>>) => Promised(d.tls, h.out, Left(s)) /\ (LastExempt(h) \/ Tally(s))
    BY FilePromised
  <1>4. StartSend(h, w, TRUE) = g
    <2>1. h \in Conns
      BY <1>2 DEF Ready, ConnOK, Sound
    <2> HIDE DEF h
    <2> QED
      BY <1>2, <2>1 DEF StartSend, Started, FileSend, Conns
  <1> HIDE DEF h, s, w, st
  <1>5. ConnOK(g) /\ ~g.closed /\ g.send = s /\ SameClient(h, g)
    BY <1>1, <1>2, OpenedFacts
  <1> HIDE DEF g
  <1>6. Clean(d) => Delivering(g)
    BY <1>2, <1>3, <1>5 DEF Clean, Delivering, SameClient, LastExempt
  <1>7. g.tls = d.tls /\ g.requests = d.requests /\ g.send.file # "stale"
    BY <1>1, <1>2, <1>5 DEF SameClient
  <1>8. ~Flying(g.send) => FileArmed(g)
    BY <1>1, <1>2, <1>5 DEF FileArmed, SameClient
  <1>9. Handled(d, resume_send(g, n))
    BY <1>5, <1>6, <1>7, <1>8, ResumedHandled
  <1> QED
    BY <1>4, <1>9 DEF h, w, st

\* malloc failed: the descriptor is closed and its number stays.
LEMMA StaleHandled ==
  ASSUME NEW d, Ready(d), IsFile(d.req), ~Gzipped(d.req)
  PROVE  LET h == ResponseHead(d, FileStatus(d.req), Window(d.req).length)
         IN  Handled(d, StartSend(h, Window(d.req), FALSE))
  <1> DEFINE w == Window(d.req)
             st == FileStatus(d.req)
             h == ResponseHead(d, st, w.length)
             s == FileSend(d, "stale")
             g == Started(h, s, h.fds)
             R == ResponseHead(g, 500, 0)
  <1>1. /\ SendOK(s) /\ s.file = "stale" /\ w.length \in Nat /\ st \in Statuses
        /\ (Flying(s) <=> w.length # 0)
    BY FileSendFacts
  <1>2. /\ Ready(h) /\ h.tls = d.tls /\ h.requests = d.requests /\ h.out # <<>> /\ h.req = d.req
    BY <1>1, HeadFacts
  <1>3. StartSend(h, w, FALSE) = R
    <2>1. h \in Conns
      BY <1>2 DEF Ready, ConnOK, Sound
    <2> HIDE DEF h
    <2>2. [h EXCEPT !.fds = h.fds, !.send = s] = g
      BY <2>1 DEF Started, Conns
    <2>3. StartSend(h, w, FALSE) = http_error([h EXCEPT !.fds = h.fds, !.send = s], 500)
      BY <1>2, <2>1 DEF StartSend, FileSend, Conns
    <2> QED
      BY <2>2, <2>3 DEF http_error
  <1>4. 500 \in Statuses /\ 0 \in Nat
    <2>1. "noroot" \in DOMAIN Refusal /\ Refusal["noroot"] = 500
      BY DEF Refusal
    <2> QED
      BY <2>1 DEF Statuses
  <1>5. ASSUME Clean(d), w.length = 0
        PROVE  /\ Promised(d.tls, h.out, <<>>) /\ Wanted(d.req) = <<>>
               /\ LengthOK(NewResponse(d.req, 500, 0))
    <2>1. d.req \in Requests
      BY RequestsTyped DEF Ready
    <2>2. Window(d.req).first \in Nat
      BY <2>1, WindowTyped
    <2>3. Wanted(d.req) = Offsets(w.first, w.length)
      BY <2>1, WantedFile
    <2>4. Wanted(d.req) = <<>> /\ <<>> \in Seq(Int) /\ Len(<<>>) = 0
      BY <1>1, <1>5, <2>2, <2>3, OffsetsTyped, EmptySeq
    <2>5. LengthOK(NewResponse(d.req, st, w.length)) /\ LengthOK(NewResponse(d.req, 500, 0))
      BY <1>5, <2>4 DEF LengthOK, NewResponse
    <2>6. Promised(d.tls, d.out, <<>>)
      BY <1>5 DEF Clean
    <2>7. Promised(d.tls, h.out, <<>>)
      BY <1>1, <2>4, <2>5, <2>6, HeadPromised
    <2> QED
      BY <2>4, <2>5, <2>7
  <1> HIDE DEF h, s, w, st
  <1>6. /\ ConnOK(g) /\ ~g.closed /\ g.req = h.req /\ g.send = s /\ SameClient(h, g)
    <2>1. s.file # "open"
      BY <1>1
    <2> QED
      BY <1>1, <1>2, <2>1, StartedFacts
  <1> HIDE DEF g
  <1>7. Ready(g)
    BY <1>1, <1>2, <1>6 DEF Ready, SameClient
  <1>8. Ready(R) /\ R.tls = g.tls /\ R.requests = g.requests /\ R.send = g.send
    BY <1>4, <1>7, HeadFacts
  <1>9. Clean(d) /\ ~Flying(s) => Promised(R.tls, R.out, <<>>)
    <2>1. SUFFICES ASSUME Clean(d), ~Flying(s) PROVE Promised(R.tls, R.out, <<>>)
      OBVIOUS
    <2>2. /\ Promised(d.tls, h.out, <<>>) /\ Wanted(d.req) = <<>> /\ LengthOK(NewResponse(d.req, 500, 0))
      BY <1>1, <1>5, <2>1
    <2>3. Promised(g.tls, g.out, <<>>) /\ Wanted(g.req) = <<>> /\ LengthOK(NewResponse(g.req, 500, 0))
      BY <1>2, <1>6, <2>2 DEF SameClient
    <2>4. <<>> \in Seq(Int)
      BY EmptySeq
    <2>5. PICK rest \in Seq(Int) : rest = <<>>
      BY <2>4
    <2>6. Wanted(g.req) = rest
      BY <2>3, <2>5
    <2>7. Promised(g.tls, ResponseHead(g, 500, 0).out, rest)
      BY <1>4, <1>7, <2>3, <2>6, HeadPromised
    <2> QED
      BY <1>8, <2>5, <2>7
  <1> HIDE DEF R
  <1>10. Handled(d, R)
    BY <1>1, <1>2, <1>6, <1>8, <1>9 DEF Handled, Ready, SameClient, FileArmed
  <1> QED
    BY <1>3, <1>10 DEF h, w, st

\* http_static_dir: every way out of it.
LEMMA StaticDirHandled ==
  ASSUME NEW d, Ready(d), d.req.target # "welcome", NEW n \in Int, NEW ok \in BOOLEAN
  PROVE  Handled(d, http_static_dir(d, n, ok))
  <1> DEFINE r == d.req
             w == Window(r)
             h == ResponseHead(d, FileStatus(r), w.length)
  <1>1. http_static_dir(d, n, ok) =
          IF r.method \notin {"GET", "HEAD"} THEN http_error(d, 405)
          ELSE IF r.target \in DOMAIN Refusal THEN http_error(d, Refusal[r.target])
          ELSE IF Gzipped(r) THEN resume_send(StartGzip(ResponseHead(d, 200, r.size - 1)), n)
          ELSE IF r.method = "HEAD" THEN HeadOnly(h)
          ELSE IF ok THEN resume_send(StartSend(h, w, ok), n)
          ELSE StartSend(h, w, ok)
    BY DEF http_static_dir, FileStatus
  <1>2. ASSUME NEW status \in Statuses, Wanted(r) = <<>>
        PROVE  Handled(d, http_error(d, status))
    <2>1. LengthOK(NewResponse(r, status, 0)) /\ 0 \in Nat
      BY <1>2 DEF LengthOK, NewResponse
    <2> QED
      BY <1>2, <2>1, HeadHandled DEF http_error
  <1>3. CASE r.method \notin {"GET", "HEAD"}
    <2>1. Wanted(r) = <<>> /\ 405 \in Statuses
      BY <1>3 DEF Wanted, Statuses
    <2> QED
      BY <1>1, <1>2, <1>3, <2>1
  <1>4. CASE r.method \in {"GET", "HEAD"} /\ r.target \in DOMAIN Refusal
    <2>1. Wanted(r) = <<>> /\ Refusal[r.target] \in Statuses
      BY <1>4 DEF Wanted, Statuses
    <2> QED
      BY <1>1, <1>2, <1>4, <2>1
  <1>5. CASE r.method \in {"GET", "HEAD"} /\ r.target \notin DOMAIN Refusal /\ Gzipped(r)
    BY <1>1, <1>5, GzipHandled
  <1>6. CASE r.method = "HEAD" /\ r.target \notin DOMAIN Refusal /\ ~Gzipped(r)
    <2>1. w.length \in Nat /\ FileStatus(r) \in Statuses
      BY FileSendFacts
    <2>2. Handled(d, HeadOnly(h))
      BY <1>6, <2>1, HeadOnlyHandled
    <2> QED
      BY <1>1, <1>6, <2>2
  <1>7. CASE r.method = "GET" /\ r.target \notin DOMAIN Refusal /\ ~Gzipped(r)
    <2>1. IsFile(r)
      BY <1>7 DEF IsFile
    <2>2. Handled(d, resume_send(StartSend(h, w, TRUE), n)) /\ Handled(d, StartSend(h, w, FALSE))
      BY <1>7, <2>1, FileHandled, StaleHandled
    <2> QED
      BY <1>1, <1>7, <2>2
  <1> QED
    BY <1>3, <1>4, <1>5, <1>6, <1>7

\* http_dispatcher: after the handler the parser is reset, or the connection ends
\* when nothing is left to send.
LEMMA DispatcherFacts ==
  ASSUME NEW d, Ready(d), NEW n \in Int, NEW ok \in BOOLEAN
  PROVE  /\ ConnOK(http_dispatcher(d, n, ok)) /\ FileArmed(http_dispatcher(d, n, ok))
         /\ Clean(d) /\ http_dispatcher(d, n, ok).send.file # "stale"
            => BodiesOK(http_dispatcher(d, n, ok)) /\ BodyArmed(http_dispatcher(d, n, ok))
  <1> DEFINE e == IF d.req.target = "welcome" THEN http_ok(d) ELSE http_static_dir(d, n, ok)
             R == http_dispatcher(d, n, ok)
  <1>1. Handled(d, e)
    BY WelcomeHandled, StaticDirHandled
  <1>2. R = IF http_should_keep_alive(d.req) THEN parser_reset(e)
            ELSE IF ~e.send.sending \/ e.send.remaining = 0 THEN conn_del(e)
            ELSE e
    BY DEF http_dispatcher
  <1> HIDE DEF e, R
  <1>3. ConnOK(e) /\ Sound(e) /\ FileArmed(e)
    BY <1>1 DEF Handled, ConnOK
  <1>4. CASE R = e
    BY <1>1, <1>3, <1>4 DEF Handled, R
  <1>5. CASE R = parser_reset(e)
    <2>1. /\ Sound(R) /\ SameClient(e, R) /\ R.send = e.send /\ R.closed = e.closed /\ R.interest = e.interest
      BY <1>3, <1>5, ParserResetFacts
    <2>2. ConnOK(R) /\ FileArmed(R)
      BY <1>3, <2>1 DEF ConnOK, FileArmed, SameClient
    <2>3. BodiesOK(e) => BodiesOK(R)
      BY <2>1 DEF BodiesOK, CutShort, Delivering, LastExempt, SameClient
    <2>4. BodyArmed(e) => BodyArmed(R)
      BY <2>1 DEF BodyArmed
    <2> QED
      BY <1>1, <2>1, <2>2, <2>3, <2>4 DEF Handled, R
  <1>6. CASE R = conn_del(e) /\ ~Flying(e.send)
    <2>1. Sound(R) /\ SameClient(e, R) /\ R.send = Idle /\ R.closed
      BY <1>3, <1>6, ConnDelFacts
    <2>2. ConnOK(R) /\ Armed(R)
      BY <2>1, IdleArmed DEF ConnOK
    <2>3. ASSUME Clean(d) PROVE BodiesOK(R)
      <3>1. CASE e.failed
        <4>1. CutShort(e)
          BY <1>1, <2>3, <3>1 DEF Handled, BodiesOK
        <4> QED
          BY <2>1, <3>1, <4>1 DEF BodiesOK, CutShort, SameClient
      <3>2. CASE ~e.failed
        <4>1. Promised(e.tls, e.out, <<>>)
          BY <1>1, <1>6, <2>3, <3>2 DEF Handled, BodiesOK, Delivering, Left
        <4>2. Delivering(R)
          BY <2>1, <4>1, IdleDelivers
        <4> QED
          BY <2>1, <3>2, <4>2 DEF BodiesOK, SameClient
      <3> QED
        BY <3>1, <3>2
    <2> QED
      BY <2>2, <2>3 DEF Armed, R
  <1> QED
    BY <1>2, <1>4, <1>5, <1>6 DEF Flying

-----------------------------------------------------------------------------
(* The connection's invariant, action by action.                             *)

\* A step that changes nothing of the connection but what is pending.
LEMMA PendingKeeps ==
  ASSUME ConnOK(c), NEW k \in Nat
  PROVE  LET d == [c EXCEPT !.pending = k]
         IN  /\ ConnOK(d) /\ d.interest = c.interest /\ d.closed = c.closed /\ d.send = c.send
             /\ SameClient(c, d)
  <1> DEFINE d == [c EXCEPT !.pending = k]
  <1>1. c \in Conns
    BY DEF ConnOK, Sound
  <1>2. d \in Conns
    BY <1>1 DEF Conns
  <1>3. /\ d.interest = c.interest /\ d.closed = c.closed /\ d.send = c.send /\ d.out = c.out
        /\ d.tls = c.tls /\ d.failed = c.failed /\ d.requests = c.requests /\ d.fds = c.fds
    BY <1>1 DEF Conns
  <1> HIDE DEF d
  <1>4. ConnOK(d)
    BY <1>2, <1>3 DEF ConnOK, Sound, FdsOK
  <1> QED
    BY <1>3, <1>4 DEF d, SameClient

\* A read.
LEMMA ReadKeeps ==
  ASSUME IInv, NEW n \in 1 .. MaxRead, NEW record \in 1 .. Len(stream), Read(n, record)
  PROVE  IInv' /\ Advances
  <1>1. n \in Nat /\ record \in Nat /\ c.pending \in Nat /\ ConnOK(c) /\ MaxRead \in Nat /\ Len(stream) \in Nat
    <2>1. Len(stream) \in Nat /\ MaxRead \in Nat
      BY ParserAssumption, LenProperties DEF IInv, ParserInv
    <2>2. ConnOK(c) /\ c.pending \in Nat
      BY DEF IInv, SessionInv, ConnOK, Sound, Conns
    <2> QED
      BY <2>1, <2>2
  <1>2. record - n \in Nat
    BY <1>1 DEF Read, Smaller
  <1>3. ParserInv'
    BY <1>1, FeedKeeps DEF IInv, Read
  <1>4. pc = "idle" /\ oom' = oom /\ ~c.closed /\ c.interest = "read"
    BY DEF Read, Feed
  <1>5. c' = [c EXCEPT !.pending = record - n]
    BY DEF Read
  <1>6. /\ ConnOK(c') /\ c'.interest = c.interest /\ c'.closed = c.closed /\ c'.send = c.send
        /\ SameClient(c, c')
    BY <1>1, <1>2, <1>5, PendingKeeps
  <1>7. FileArmed(c') /\ (BodyArmed(c) => BodyArmed(c'))
    BY <1>6 DEF IInv, SessionInv, FileArmed, BodyArmed, SameClient
  <1>8. BodiesOK(c) => BodiesOK(c')
    BY <1>6 DEF BodiesOK, CutShort, Delivering, LastExempt, SameClient
  <1>9. SessionInv'
    BY <1>4, <1>6, <1>7, <1>8 DEF IInv, SessionInv
  <1> QED
    BY <1>3, <1>4, <1>9 DEF IInv, Advances

\* The parser's own steps leave the connection alone.
LEMMA ParserStepKeeps ==
  ASSUME IInv, Parsing \/ NoMemory
  PROVE  IInv' /\ Advances
  <1>1. ParserInv' /\ Advances
    BY ParseKeeps, AllocFailsKeeps DEF IInv, Parsing, NoMemory
  <1>2. UNCHANGED c /\ pc # "idle" /\ (oom => oom')
    BY DEF Parsing, NoMemory, Parse, NeedLine, RequestLine, HeaderLine, EndOfHeaders, BodyBytes,
           ChunkSize, ChunkData, LoopEnds, AllocFails, Looping, Pass, ParseError, Return
  <1>3. SessionInv'
    BY <1>2 DEF IInv, SessionInv
  <1> QED
    BY <1>1, <1>3 DEF IInv

\* A read that fails ends the connection.
LEMMA ReadFailsKeeps ==
  ASSUME IInv, ReadFails
  PROVE  IInv' /\ Advances
  <1> DEFINE f == [c EXCEPT !.failed = TRUE]
  <1>1. /\ c \in Conns /\ Sound(c) /\ ConnOK(c) /\ ~c.closed /\ ~c.failed
        /\ c.out \in Seq(Responses) /\ SendOK(c.send)
    BY DEF IInv, SessionInv, ConnOK, Sound, ReadFails, Conns
  <1>2. f \in Conns
    BY <1>1 DEF Conns
  <1>3. /\ f.send = c.send /\ f.out = c.out /\ f.tls = c.tls /\ f.fds = c.fds /\ f.closed = c.closed
        /\ f.failed = TRUE
    BY <1>1 DEF Conns
  <1>4. c' = conn_del(f) /\ pc' = "idle" /\ UNCHANGED <<stream, nread, base, p, buflen, full, oom>>
    BY DEF ReadFails
  <1> HIDE DEF f
  <1>5. Sound(f)
    BY <1>1, <1>2, <1>3 DEF Sound, FdsOK
  <1>6. Sound(c') /\ SameClient(f, c') /\ c'.send = Idle /\ c'.closed
    BY <1>4, <1>5, ConnDelFacts
  <1>7. ConnOK(c') /\ Armed(c') /\ c'.send.file # "stale"
    BY <1>6, IdleArmed DEF ConnOK
  <1>8. ~oom => BodiesOK(c')
    <2>1. SUFFICES ASSUME ~oom PROVE BodiesOK(c')
      OBVIOUS
    <2>2. Promised(c.tls, c.out, Left(c.send)) /\ Left(c.send) \in Seq(Int)
      BY <1>1, <2>1, SendTyped DEF IInv, SessionInv, BodiesOK, Delivering
    <2>3. CutShort(c)
      BY <1>1, <2>2, PromisedCut
    <2> QED
      BY <1>3, <1>6, <2>3 DEF BodiesOK, CutShort, SameClient
  <1>9. SessionInv'
    BY <1>4, <1>6, <1>7, <1>8 DEF SessionInv, Armed
  <1>10. ParserInv'
    BY <1>4 DEF IInv, ParserInv, ParserOK, Going
  <1> QED
    BY <1>4, <1>9, <1>10 DEF IInv, Advances

\* The parser after a step that may have reset it.
LEMMA ResetKeeps ==
  ASSUME ParserInv, http_parser_reset \/ UNCHANGED <<p, base>>, pc' = "idle",
         UNCHANGED <<stream, nread, buflen, full>>, oom' \in BOOLEAN
  PROVE  ParserInv'
  BY NewParserOK DEF ParserInv, ParserOK, http_parser_reset

\* A request is dispatched.
LEMMA DispatchKeeps ==
  ASSUME IInv, NEW r \in c.requests, NEW n \in Int, NEW ok \in BOOLEAN, Dispatch(r, n, ok)
  PROVE  IInv' /\ Advances
  <1> DEFINE d == [c EXCEPT !.req = r]
  <1>1. pc = "request" /\ c \in Conns /\ Sound(c) /\ ConnOK(c) /\ ~c.closed /\ ~c.failed /\ c.interest = "read"
    BY DEF IInv, SessionInv, ConnOK, Sound, Dispatch
  <1>2. r \in AllRequests
    BY <1>1 DEF Conns
  <1>3. d \in Conns
    BY <1>1, <1>2 DEF Conns
  <1>4. /\ d.send = c.send /\ d.out = c.out /\ d.tls = c.tls /\ d.fds = c.fds /\ d.closed = c.closed
        /\ d.failed = c.failed /\ d.req = r
    BY <1>1 DEF Conns
  <1>5. /\ c' = http_dispatcher(d, n, ok) /\ oom' = (oom \/ c'.send.file = "stale") /\ pc' = "idle"
        /\ http_parser_reset \/ UNCHANGED <<p, base>>
        /\ UNCHANGED <<stream, nread, buflen, full>>
    BY DEF Dispatch
  <1> HIDE DEF d
  <1>6. Ready(d)
    BY <1>1, <1>2, <1>3, <1>4 DEF IInv, SessionInv, FileArmed, Ready, ConnOK, Sound, FdsOK
  <1>7. ~oom => Clean(d)
    <2>1. SUFFICES ASSUME ~oom PROVE Clean(d)
      OBVIOUS
    <2>2. ~Flying(c.send) /\ Delivering(c) /\ c.send.file # "stale"
      BY <1>1, <2>1 DEF IInv, SessionInv, BodyArmed, BodiesOK
    <2>3. Promised(c.tls, c.out, <<>>)
      BY <2>2 DEF Delivering, Left
    <2> QED
      BY <1>4, <2>2, <2>3 DEF Clean
  <1>8. /\ ConnOK(c') /\ FileArmed(c')
        /\ Clean(d) /\ c'.send.file # "stale" => BodiesOK(c') /\ BodyArmed(c')
    BY <1>5, <1>6, DispatcherFacts
  <1>9. SessionInv'
    BY <1>5, <1>7, <1>8 DEF SessionInv
  <1>10. ParserInv'
    BY <1>5, ResetKeeps DEF IInv
  <1> QED
    BY <1>1, <1>9, <1>10 DEF IInv, Advances

\* my_on_write.
LEMMA WritableKeeps ==
  ASSUME IInv, NEW n \in Int, Writable(n)
  PROVE  IInv' /\ Advances
  <1>1. /\ ConnOK(c) /\ ~c.closed /\ ~c.failed /\ pc = "idle" /\ c' = resume_send(c, n)
        /\ pc' = "idle" /\ oom' = oom
        /\ http_parser_reset \/ UNCHANGED <<p, base>>
        /\ UNCHANGED <<stream, nread, buflen, full>>
    BY DEF IInv, SessionInv, ConnOK, Writable
  <1>2. ParserInv'
    BY <1>1, ResetKeeps DEF IInv, ParserInv
  <1>3. c' = c \/ Resumed(c, c')
    BY <1>1, ResumeFacts
  <1>4. ASSUME c' = c PROVE SessionInv'
    BY <1>1, <1>4 DEF IInv, SessionInv
  <1>5. ASSUME Resumed(c, c') PROVE SessionInv'
    <2>1. ~oom => Delivering(c) /\ c.send.file # "stale"
      BY <1>1 DEF IInv, SessionInv, BodiesOK
    <2> QED
      BY <1>1, <1>5, <2>1 DEF IInv, SessionInv, Resumed, Armed
  <1>6. SessionInv'
    BY <1>3, <1>4, <1>5
  <1> QED
    BY <1>1, <1>2, <1>6 DEF IInv, Advances

\* A new connection.
LEMMA InitKeeps == Init => IInv
  <1> SUFFICES ASSUME Init PROVE IInv
    OBVIOUS
  <1>1. PICK v \in Visits : ParserInit(v.bytes) /\ c = NewConn(v)
    BY DEF Init
  <1>2. v.bytes \in Seq(STRING) /\ v.tls \in BOOLEAN /\ v.requests \subseteq AllRequests
    BY SessionAssumption DEF AllRequests
  <1>3. ParserInv
    <2>1. 0 \in 0 .. Len(v.bytes) /\ 0 \in 0 .. 0 /\ 0 \in Nat
      BY <1>2, LenProperties
    <2> QED
      BY <1>1, <1>2, <2>1, NewParserOK DEF ParserInit, ParserInv
  <1>4. c \in Conns
    BY <1>1, <1>2, IdleFacts, EmptySeq DEF NewConn, Conns
  <1>5. /\ c.send = Idle /\ c.out = <<>> /\ c.fds = 0 /\ c.closed = FALSE /\ c.failed = FALSE
        /\ c.interest = "read"
    BY <1>1 DEF NewConn
  <1>6. ConnOK(c)
    BY <1>4, <1>5, IdleFacts DEF ConnOK, Sound, FdsOK
  <1>7. Armed(c) /\ c.send.file # "stale"
    BY <1>5, IdleArmed
  <1>8. Promised(c.tls, c.out, <<>>)
    BY <1>5 DEF Promised
  <1>9. Delivering(c)
    BY <1>5, <1>8, IdleDelivers DEF SameClient
  <1>10. SessionInv
    BY <1>1, <1>5, <1>6, <1>7, <1>9 DEF SessionInv, Armed, BodiesOK, ParserInit
  <1> QED
    BY <1>3, <1>10 DEF IInv

\* Every step keeps the invariant, and the loop advances.
LEMMA NextKeeps ==
  ASSUME IInv, [Next]_sessionVars
  PROVE  IInv' /\ (Next => Advances)
  <1>1. CASE Reading
    BY <1>1, ReadKeeps DEF Reading
  <1>2. CASE Parsing \/ NoMemory
    BY <1>2, ParserStepKeeps
  <1>3. CASE ReadFails
    BY <1>3, ReadFailsKeeps
  <1>4. CASE Dispatching
    <2>1. PICK r \in c.requests, n \in -1 .. MaxSend, ok \in BOOLEAN : Dispatch(r, n, ok)
      BY <1>4 DEF Dispatching
    <2>2. n \in Int
      BY SessionAssumption
    <2> QED
      BY <2>1, <2>2, DispatchKeeps
  <1>5. CASE Sending \/ SendingNothing
    <2>1. PICK n \in Int : Writable(n)
      BY <1>5, SessionAssumption DEF Sending, SendingNothing
    <2> QED
      BY <2>1, WritableKeeps
  <1>6. ASSUME UNCHANGED sessionVars PROVE IInv'
    BY <1>6 DEF sessionVars, vars, IInv, ParserInv, SessionInv, ParserOK, Going
  <1> QED
    BY <1>1, <1>2, <1>3, <1>4, <1>5, <1>6 DEF Next

-----------------------------------------------------------------------------
(* What follows.                                                             *)

\* The inductive invariant holds of every connection.
THEOREM Invariant == Spec => []IInv
  BY InitKeeps, NextKeeps, PTL DEF Spec

\* The invariant is well typed.
LEMMA TypeOKHolds == IInv => TypeOK
  <1> SUFFICES ASSUME IInv PROVE TypeOK
    OBVIOUS
  <1>1. /\ pc \in {"idle", "loop", "request", "error"} /\ p \in Parsers
        /\ p.pos <= Len(p.buffer) /\ Len(p.buffer) < p.cap /\ p.cap <= MaxCap
        /\ Len(p.body) <= MaxBody /\ p.content_length <= MaxBody
        /\ nread \in 0 .. Len(stream) /\ base \in 0 .. nread /\ stream \in Seq(STRING)
    BY DEF IInv, ParserInv, ParserOK
  <1>2. /\ p.pos \in Nat /\ Len(p.buffer) \in Nat /\ p.content_length \in Nat /\ MaxBody \in Nat
        /\ p.state \in {"REQUEST_LINE", "HEADERS", "BODY", "DONE", "ERROR"} /\ Len(stream) \in Nat
    BY <1>1, ParserAssumption, LenProperties DEF Parsers
  <1>3. /\ p.pos \in 0 .. Len(p.buffer) /\ p.content_length \in 0 .. MaxBody
        /\ base <= nread /\ nread <= Len(stream)
    BY <1>1, <1>2
  <1>4. c \in Conns
    BY DEF IInv, SessionInv, ConnOK, Sound
  <1>5. /\ c.interest \in {"read", "write"} /\ c.fds \in Nat
        /\ c.parser \in {"live", "destroyed", "freed twice"}
        /\ c.send.remaining \in 0 .. Word - 1 /\ c.out \in Seq(Responses)
    BY <1>4 DEF Conns, Sends
  <1>6. \A i \in DOMAIN c.out : c.out[i] \in Responses
    BY <1>5, OutTyped
  <1> QED
    BY <1>1, <1>2, <1>3, <1>5, <1>6 DEF TypeOK

\* Every complete body is whole, and the one under way is a beginning.
LEMMA BodiesExactHolds == IInv => BodiesExact
  <1> SUFFICES ASSUME IInv, ~oom, NEW i \in DOMAIN c.out, ~(c.tls /\ c.out[i].status = 206)
               PROVE  /\ Carries(i)
                      /\ i < Len(c.out) \/ (c.closed /\ ~c.failed) => c.out[i].body = Wanted(c.out[i].req)
    BY DEF BodiesExact
  <1>1. ConnOK(c) /\ BodiesOK(c) /\ c.out \in Seq(Responses) /\ SendOK(c.send)
    BY DEF IInv, SessionInv, ConnOK, Sound, Conns
  <1>2. Left(c.send) \in Seq(Int)
    BY <1>1, SendTyped
  <1>3. CutShort(c)
    BY <1>1, <1>2, PromisedCut DEF BodiesOK, Delivering
  <1>4. /\ LengthOK(c.out[i])
        /\ Len(c.out[i].body) <= Len(Wanted(c.out[i].req))
        /\ c.out[i].body = SubSeq(Wanted(c.out[i].req), 1, Len(c.out[i].body))
        /\ i < Len(c.out) => c.out[i].body = Wanted(c.out[i].req)
    BY <1>3 DEF CutShort, Exempt
  <1>5. Carries(i)
    BY <1>4 DEF Carries, LengthOK
  <1>6. ASSUME c.closed, ~c.failed PROVE c.out[i].body = Wanted(c.out[i].req)
    <2>1. Left(c.send) = <<>> /\ Promised(c.tls, c.out, Left(c.send))
      BY <1>1, <1>6, IdleFacts DEF ConnOK, Sound, BodiesOK, Delivering
    <2>2. c.out[i].body = Wanted(c.out[i].req) \/ Cat(c.out[i].body, <<>>) = Wanted(c.out[i].req)
      BY <2>1 DEF Promised, Exempt
    <2>3. c.out[i].body \in Seq(Int)
      BY <1>1, OutTyped
    <2>4. Cat(c.out[i].body, <<>>) = c.out[i].body
      BY <2>3, CatFacts, EmptySeq
    <2> QED
      BY <2>2, <2>4
  <1> QED
    BY <1>4, <1>5, <1>6

\* The parser stays inside its buffer, which keeps room for the NUL, and inside
\* the limits of the body; the count of open files stays a number; and a
\* response is always to a request of this client.
THEOREM TypeCorrect == Spec => []TypeOK
  BY Invariant, TypeOKHolds, PTL

\* http_parser_feed's copy of the buffer's length is never stale when a pass
\* starts: the bytes are moved only in the pass that completes the request.
THEOREM LengthFresh == Spec => []NoStaleLength
  <1>1. IInv => NoStaleLength
    BY DEF IInv, ParserInv, NoStaleLength, Looping, Going
  <1> QED
    BY <1>1, Invariant, PTL

\* http_static_dir and resume_send: whatever the file, its range and its
\* compression, and whatever the socket takes at a time, the client gets the
\* bytes it asked for, once and in order, before the next response and before
\* the server closes.
THEOREM BodiesAreExact == Spec => []BodiesExact
  BY Invariant, BodiesExactHolds, PTL

\* cleanup_send_state: without an empty file no descriptor outlives its response.
THEOREM NoDescriptorLeaks == Spec => []NoFdLeak
  <1>1. IInv => NoFdLeak
    BY DEF IInv, SessionInv, ConnOK, Sound, FdsOK, NoFdLeak, EmptyFile
  <1> QED
    BY <1>1, Invariant, PTL

\* http_parser_feed's loop ends: every pass completes the request or moves on in
\* the same bytes.
THEOREM ParserAdvances == Spec => LoopAdvances
  <1>1. IInv /\ [Next]_sessionVars =>
          [pc = "loop" /\ pc' = "loop" =>
             p'.state = "DONE" \/ (p'.pos > p.pos /\ p'.buffer = p.buffer)]_sessionVars
    BY NextKeeps DEF Advances
  <1> QED
    BY <1>1, Invariant, PTL DEF Spec, LoopAdvances
=============================================================================
