----------------------------- MODULE HttpParser -----------------------------
(***************************************************************************)
(* http_parser_feed of include/http.h on one connection: the client's      *)
(* bytes arrive in reads cut anywhere, every read is appended to the       *)
(* buffer, and the loop takes one line, one stretch of body or one chunk   *)
(* at a time.  When a request is complete it is answered and the parser is *)
(* reset for the next one.                                                 *)
(*                                                                         *)
(* The text of a line is one unit: "g" a request line, "x" a text that is  *)
(* neither a request line nor a header, "h" any other header, "l0" "l1"    *)
(* "l2" "lx" Content-Length with that (or an invalid) value, "t" and "u"   *)
(* Transfer-Encoding chunked and another coding, "0" "1" "2" hexadecimal   *)
(* digits, ";" the start of a chunk extension, "d" other data, "r" and "n" *)
(* the line ends.  Positions count from 0 as in the code; unit i of the    *)
(* buffer is buffer[i + 1].                                                *)
(***************************************************************************)
EXTENDS Integers, Sequences, FiniteSets

CONSTANTS
  MaxRead,     \* bytes one recv returns at most (MAX_MSG_SIZE)
  DefaultCap,  \* first size of the buffer (STRINGBUF_DEFAULT_CAP)
  MaxCap,      \* largest size of the buffer (STRINGBUF_MAX_CAP)
  MaxLine,     \* MAX_HEADER_LINE_SIZE
  MaxHeaders,  \* MAX_HEADERS
  MaxBody,     \* MAX_BODY_SIZE
  MaxChunk,    \* MAX_CHUNK_SIZE
  MaxSizeLine  \* chunk-size lines this long are refused (32)

ASSUME ParserAssumption ==
  /\ {MaxRead, DefaultCap, MaxCap, MaxBody, MaxChunk} \subseteq Nat \ {0}
  /\ MaxRead < DefaultCap /\ DefaultCap <= MaxCap /\ \E k \in 0 .. MaxCap : MaxCap = DefaultCap * 2^k
  /\ {MaxLine, MaxHeaders, MaxSizeLine} \subseteq Nat

VARIABLES
  stream,  \* the client's bytes
  nread,   \* how many of them have been read
  base,    \* how many had been read when the parser was last reset
  p,       \* the parser
  buflen,  \* http_parser_feed's copy of the buffer's size
  pc,      \* "idle" between two calls, "loop" in the loop of one, "request" and "error" when it returned 1 and -1
  full,    \* the buffer could not take the last read
  oom      \* an allocation failed

vars == <<stream, nread, base, p, buflen, pc, full, oom>>

NewParser ==
  [state |-> "REQUEST_LINE", buffer |-> <<>>, cap |-> DefaultCap, pos |-> 0,
   headers |-> {}, length |-> "none", coding |-> "none",
   content_length |-> 0, chunked |-> FALSE, body |-> <<>>]

Length == [l0 |-> 0, l1 |-> 1, l2 |-> 2]
Header == {"h", "l0", "l1", "l2", "lx", "t", "u"}
HexDigit == {"0", "1", "2"}
HexValue == [d \in HexDigit |-> CASE d = "0" -> 0 [] d = "1" -> 1 [] d = "2" -> 2]

-----------------------------------------------------------------------------
(* Mutant: no room is kept for the NUL. *)
ReserveNoNul(cap, need) ==
  LET newcap == IF 2 * cap < need THEN need ELSE 2 * cap
  IN  IF need <= cap THEN cap ELSE IF newcap > MaxCap THEN 0 ELSE newcap

(* stringbuf_reserve for n more bytes and the final NUL: the size after it, *)
(* 0 when it fails.                                                         *)
stringbuf_reserve(cap, need) ==
  LET newcap == IF 2 * cap < need + 1 THEN need + 1 ELSE 2 * cap
  IN  IF need + 1 <= cap THEN cap
      ELSE IF newcap > MaxCap THEN 0 ELSE newcap

(* stringbuf_memchr: the first c at or after position from, -1 if none. *)
stringbuf_memchr(b, c, from) ==
  LET at == {i \in from .. Len(b) - 1 : b[i + 1] = c}
  IN  IF at = {} THEN -1 ELSE CHOOSE i \in at : \A j \in at : i <= j

LineEnd == stringbuf_memchr(p.buffer, "n", p.pos)

(* The line at pos without its line end. *)
LineText ==
  LET last == IF LineEnd > 0 /\ p.buffer[LineEnd] = "r" THEN LineEnd - 1 ELSE LineEnd
  IN  SubSeq(p.buffer, p.pos + 1, last)

(* Mutant: a header that was read is read again. *)
SameHeader == p.pos

NextHeader == LineEnd + 1

LineTooLong == LineEnd - p.pos > MaxLine

Looping == pc = "loop" /\ p.state \notin {"DONE", "ERROR"} /\ p.pos < buflen

Keep == UNCHANGED <<stream, nread, base, full>>

(* A pass through the loop that leaves the parser as q. *)
Pass(q) == p' = q /\ pc' = "loop" /\ UNCHANGED <<buflen, oom>> /\ Keep

(* PARSE_ERROR *)
ParseError ==
  /\ p' = [p EXCEPT !.state = "ERROR"]
  /\ pc' = "error"
  /\ UNCHANGED <<buflen, oom>> /\ Keep

Return(r) ==
  /\ pc' = IF r = 1 THEN "request" ELSE "idle"
  /\ UNCHANGED <<p, buflen, oom>> /\ Keep

(* The call: the read is appended, and the loop starts. *)
Feed(n) ==
  /\ pc = "idle"
  /\ n <= Len(stream) - nread
  /\ nread' = nread + n
  /\ LET cap  == stringbuf_reserve(p.cap, Len(p.buffer) + n)
     IN  IF cap = 0
         THEN /\ p' = [p EXCEPT !.state = "ERROR"]
              /\ full' = TRUE /\ pc' = "error"
              /\ UNCHANGED buflen
         ELSE /\ p' = [p EXCEPT !.buffer = @ \o SubSeq(stream, nread + 1, nread + n), !.cap = cap]
              /\ buflen' = Len(p.buffer) + n
              /\ pc' = "loop"
              /\ UNCHANGED full
  /\ UNCHANGED <<stream, base, oom>>

(* Return 0 inside the loop: the line is not there yet. *)
NeedLine ==
  /\ Looping
  /\ \/ p.state \in {"REQUEST_LINE", "HEADERS"}
     \/ p.state = "BODY" /\ p.chunked /\ p.content_length = 0
  /\ LineEnd = -1
  /\ Return(0)

RequestLine ==
  /\ Looping /\ p.state = "REQUEST_LINE" /\ LineEnd # -1
  /\ IF ~LineTooLong /\ LineText = <<"g">>
     THEN Pass([p EXCEPT !.pos = LineEnd + 1, !.state = "HEADERS"])
     ELSE ParseError

(* A header: names are unique in the table, a repeated one gets the new value. *)
HeaderLine ==
  /\ Looping /\ p.state = "HEADERS" /\ LineEnd # -1
  /\ LineText # <<>> \/ LineTooLong
  /\ IF LineTooLong \/ Len(LineText) # 1 \/ LineText[1] \notin Header THEN ParseError
     ELSE LET h    == LineText[1]
              name == CASE h \in {"t", "u"} -> "te" [] h = "h" -> "h" [] OTHER -> "cl"
              all  == p.headers \cup {name}
          IN  IF Cardinality(all) > MaxHeaders THEN ParseError
              ELSE Pass([p EXCEPT !.headers = all,
                                  !.length  = IF name = "cl" THEN h ELSE @,
                                  !.coding  = IF name = "te" THEN h ELSE @,
                                  !.pos     = NextHeader])

(* The empty line: Content-Length decides, then Transfer-Encoding. *)
EndOfHeaders ==
  /\ Looping /\ p.state = "HEADERS" /\ LineEnd # -1
  /\ LineText = <<>> /\ ~LineTooLong
  /\ IF p.length = "lx" \/ (p.length # "none" /\ Length[p.length] > MaxBody) THEN ParseError
     ELSE LET n       == IF p.length = "none" THEN 0 ELSE Length[p.length]
              chunked == p.length = "none" /\ p.coding = "t"
          IN  Pass([p EXCEPT !.pos = LineEnd + 1, !.content_length = n, !.chunked = chunked,
                             !.state = IF n > 0 \/ chunked THEN "BODY" ELSE "DONE"])

(* The end of the HP_BODY case: what is left of the buffer moves to its front. *)
Shifted(q) ==
  IF q.pos > 0 /\ q.pos < buflen
  THEN [q EXCEPT !.buffer = SubSeq(@, q.pos + 1, Len(@)), !.pos = 0]
  ELSE q

BodyBytes ==
  /\ Looping /\ p.state = "BODY" /\ ~p.chunked
  /\ LET remaining == p.content_length - Len(p.body)
         avail     == buflen - p.pos
         consume   == IF remaining < avail THEN remaining ELSE avail
         body      == p.body \o SubSeq(p.buffer, p.pos + 1, p.pos + consume)
     IN  IF Len(p.body) > MaxBody - consume THEN ParseError
         ELSE Pass(Shifted([p EXCEPT !.body = body, !.pos = @ + consume,
                     !.state = IF Len(body) = p.content_length THEN "DONE" ELSE @]))

(* The digits before an extension. *)
SizeText ==
  LET semi == {i \in DOMAIN LineText : LineText[i] = ";"}
  IN  IF semi = {} THEN LineText
      ELSE SubSeq(LineText, 1, (CHOOSE i \in semi : \A j \in semi : i <= j) - 1)

(* strtoull in base 16; no digits are 0. *)
SizeValue(s) ==
  LET v[k \in 0 .. Len(s)] == IF k = 0 THEN 0 ELSE 16 * v[k - 1] + HexValue[s[k]]
  IN  v[Len(s)]

(* Mutant: the rest is moved after every chunk-size line. *)
ChunkEndEager(q) == Shifted(q)

(* The inner loop is left, and the rest moved, only after the last chunk. *)
ChunkEnd(q) == IF q.state = "DONE" THEN Shifted(q) ELSE q

ChunkSize ==
  /\ Looping /\ p.state = "BODY" /\ p.chunked /\ p.content_length = 0
  /\ LineEnd # -1
  /\ IF \/ Len(LineText) = 0 \/ Len(LineText) >= MaxSizeLine
        \/ \E i \in DOMAIN SizeText : SizeText[i] \notin HexDigit
     THEN ParseError
     ELSE LET size == SizeValue(SizeText)
          IN  IF size > MaxChunk \/ Len(p.body) > MaxBody - size THEN ParseError
              ELSE Pass(ChunkEnd([p EXCEPT !.content_length = size, !.pos = LineEnd + 1,
                                           !.state = IF size = 0 THEN "DONE" ELSE @]))

(* Mutant: the chunk is taken without its line end. *)
ChunkTakenShort(n) == n

(* What a chunk of n bytes takes from the buffer. *)
ChunkTaken(n) == n + 2

ChunkData ==
  /\ Looping /\ p.state = "BODY" /\ p.chunked /\ p.content_length > 0
  /\ LET n == p.content_length
     IN  IF buflen - p.pos < n + 2 THEN Return(0)
         ELSE IF SubSeq(p.buffer, p.pos + n + 1, p.pos + n + 2) # <<"r", "n">> THEN ParseError
         ELSE Pass([p EXCEPT !.body = @ \o SubSeq(p.buffer, p.pos + 1, p.pos + n),
                             !.pos = @ + ChunkTaken(n), !.content_length = 0])

(* strndup or realloc fails in a pass that needs memory: a line with a text, *)
(* a stretch of body, a chunk that is there with its line end.              *)
NeedsMemory ==
  CASE p.state # "BODY" -> LineEnd # -1 /\ LineText # <<>> /\ ~LineTooLong
    [] ~p.chunked -> Len(p.body) <= MaxBody - (buflen - p.pos)
    [] OTHER -> /\ p.content_length > 0
                /\ buflen - p.pos >= p.content_length + 2
                /\ SubSeq(p.buffer, p.pos + p.content_length + 1,
                          p.pos + p.content_length + 2) = <<"r", "n">>

AllocFails ==
  /\ Looping /\ NeedsMemory
  /\ p' = [p EXCEPT !.state = "ERROR"]
  /\ pc' = "error" /\ oom' = TRUE
  /\ UNCHANGED buflen /\ Keep

LoopEnds ==
  /\ pc = "loop" /\ ~Looping
  /\ Return(IF p.state = "DONE" THEN 1 ELSE 0)

Parse ==
  \/ NeedLine \/ RequestLine \/ HeaderLine \/ EndOfHeaders
  \/ BodyBytes \/ ChunkSize \/ ChunkData \/ LoopEnds

(* http_parser_reset: the request and everything left in the buffer are freed. *)
http_parser_reset == p' = NewParser /\ base' = nread

ParserInit(bytes) ==
  /\ stream = bytes
  /\ nread = 0 /\ base = 0 /\ p = NewParser /\ buflen = 0
  /\ pc = "idle" /\ full = FALSE /\ oom = FALSE
=============================================================================
