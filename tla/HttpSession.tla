----------------------------- MODULE HttpSession -----------------------------
(***************************************************************************)
(* One HTTP connection from its first byte to its end: my_on_read feeds    *)
(* the parser, a complete request goes to http_dispatcher, which calls the *)
(* default handler or http_static_dir, a file's body is sent by            *)
(* resume_send as far as the socket takes it and then from EV_WRITE        *)
(* events, and the connection is reset for the next request or deleted.    *)
(*                                                                         *)
(* A body is the sequence of the file offsets sent; a compressed one is a  *)
(* sequence of negative numbers.  The files do not change, and the socket  *)
(* has room for a response head and for the welcome text.                  *)
(***************************************************************************)
EXTENDS HttpParser

CONSTANTS
  Visits,   \* what a client does: [bytes, tls, requests]
  ReadSize, \* CHUNK_SIZE, what one refill of the send buffer reads
  MaxSend,  \* the most the socket takes at once
  Word      \* size_t arithmetic is modulo this

(* What the handlers read of a request, and of the file it names; the size  *)
(* of a file fits size_t.                                                   *)
Requests ==
  [method: STRING \ {"none"}, target: STRING, size: 0 .. Word - 1,
   range: [from: Int, to: Int, given: BOOLEAN], gzip: BOOLEAN, keep: BOOLEAN]

ASSUME SessionAssumption ==
  /\ {ReadSize, MaxSend, Word} \subseteq Nat \ {0}
  /\ \A v \in Visits : v.bytes \in Seq(STRING) /\ v.tls \in BOOLEAN /\ v.requests \subseteq Requests

VARIABLE c  \* the connection's client_data, and what the client received

sessionVars == <<vars, c>>

NoRequest == [method |-> "none"]
NoRange == [from |-> -1, to |-> -1, given |-> FALSE]

Idle ==
  [sending |-> FALSE, file |-> "none", size |-> 0, offset |-> 0, remaining |-> 0,
   sendfile |-> FALSE, buffer |-> <<>>]

NewConn(v) ==
  [tls |-> v.tls, requests |-> v.requests, pending |-> 0, req |-> NoRequest,
   parser |-> "live", interest |-> "read", send |-> Idle, fds |-> 0,
   closed |-> FALSE, failed |-> FALSE, out |-> <<>>]

Smaller(a, b) == IF a < b THEN a ELSE b
Offsets(first, n) == [i \in 1 .. n |-> first + i - 1]

-----------------------------------------------------------------------------
(* http_should_keep_alive: a parser that was reset has no version. *)
http_should_keep_alive(r) == r # NoRequest /\ r.keep

(* cleanup_send_state; a stale descriptor is closed a second time. *)
cleanup_send_state(d) ==
  [d EXCEPT !.send = Idle, !.fds = IF d.send.file = "open" THEN @ - 1 ELSE @]

(* conn_del destroys the parser: its request is freed. *)
conn_del(d) ==
  IF d.closed THEN d
  ELSE [cleanup_send_state(d) EXCEPT !.closed = TRUE, !.parser = "destroyed"]

event_mod(d, events) == IF d.closed THEN d ELSE [d EXCEPT !.interest = events]

(* http_parser_reset frees the request, whether or not that was done before. *)
parser_reset(d) ==
  [d EXCEPT !.req = NoRequest, !.parser = IF @ = "live" THEN "live" ELSE "freed twice"]

(* A response head, and the body bytes after it. *)
ResponseHead(d, status, length) ==
  [d EXCEPT !.out = Append(@, [req |-> d.req, status |-> status, length |-> length, body |-> <<>>])]

Write(d, bytes) == [d EXCEPT !.out[Len(d.out)].body = @ \o bytes]

http_error(d, status) == ResponseHead(d, status, 0)
http_ok(d) == Write(ResponseHead(d, 200, 1), <<0>>)

(* The body is sent: back to reading, or the end. *)
Finished(d) ==
  LET e == event_mod(cleanup_send_state(d), "read")
  IN  IF http_should_keep_alive(e.req) THEN parser_reset(e) ELSE conn_del(e)

(* Mutant: a short write leaves the connection in the read set. *)
SentKeepsReading(d, n) ==
  LET e == [d EXCEPT !.send.remaining = (@ - n) % Word]
  IN  IF e.send.remaining = 0 THEN Finished(e) ELSE e

(* The end of resume_send: n bytes went out. *)
Sent(d, n) ==
  LET e == [d EXCEPT !.send.remaining = (@ - n) % Word]
  IN  IF e.send.remaining = 0 THEN Finished(e) ELSE event_mod(e, "write")

SendError(d) == conn_del(cleanup_send_state([d EXCEPT !.failed = TRUE]))

(* read() into an empty send buffer, from the file's own position. *)
Refill(d) ==
  LET n == Smaller(ReadSize, d.send.size - d.send.offset)
  IN  [d EXCEPT !.send.buffer = Offsets(d.send.offset, n), !.send.offset = @ + n]

SendFile(d, n) ==
  LET k == Smaller(n, Smaller(d.send.remaining, d.send.size - d.send.offset))
  IN  IF n < 0 THEN SendError(d)
      ELSE Sent(Write([d EXCEPT !.send.offset = @ + k], Offsets(d.send.offset, k)), k)

SendBuffer(d, n) ==
  LET e == IF d.send.buffer = <<>> THEN Refill(d) ELSE d
      k == Smaller(n, Len(e.send.buffer))
  IN  IF d.send.buffer = <<>> /\ d.send.file = "none" THEN Finished(d)
      ELSE IF e.send.buffer = <<>> THEN cleanup_send_state(e)
      ELSE IF n < 0 THEN SendError(e)
      ELSE Sent(Write([e EXCEPT !.send.buffer = SubSeq(@, k + 1, Len(@))],
                      SubSeq(e.send.buffer, 1, k)), k)

(* resume_send when the socket takes up to n bytes; -1 is an error other    *)
(* than EAGAIN.                                                             *)
resume_send(d, n) ==
  IF d.closed \/ ~d.send.sending \/ d.send.remaining = 0 THEN d
  ELSE IF d.send.sendfile THEN SendFile(d, n) ELSE SendBuffer(d, n)

-----------------------------------------------------------------------------
(* The Range header: the bytes first .. last of a file of that size. *)
Window(r) ==
  LET first == IF r.range.from >= 0 THEN r.range.from ELSE 0
      last  == IF r.range.to >= first THEN r.range.to ELSE r.size - 1
  IN  IF r.range.given /\ last >= first /\ last < r.size
      THEN [ranged |-> TRUE, first |-> first, length |-> last - first + 1]
      ELSE [ranged |-> FALSE, first |-> 0, length |-> r.size]

(* Where http_static_dir turns a path down, and with what. *)
Refusal ==
  [toolong |-> 414, noroot |-> 500, missing |-> 404, outside |-> 403,
   noindex |-> 404, special |-> 403, unreadable |-> 500, noseek |-> 500]

(* Compression is asked for and makes the body one byte shorter. *)
Gzipped(r) == r.gzip /\ ~Window(r).ranged /\ r.method = "GET" /\ r.size > 1

(* A HEAD request is answered and finished here. *)
HeadOnly(d) ==
  IF http_should_keep_alive(d.req) THEN event_mod(parser_reset(d), "read") ELSE conn_del(d)

(* Mutant: the descriptor is not kept for cleanup_send_state. *)
StartSendForgets(d, w, ok) ==
  IF ~ok THEN http_error(d, 500)
  ELSE [d EXCEPT !.fds = @ + 1,
           !.send = [sending |-> TRUE, file |-> "none", size |-> d.req.size, offset |-> w.first,
                     remaining |-> w.length, sendfile |-> ~d.tls, buffer |-> <<>>]]

(* The set-up of an asynchronous send.  Whatever d.send held is overwritten; *)
(* when malloc fails the file is closed and its number stays.                *)
StartSend(d, w, ok) ==
  LET e == [d EXCEPT !.fds = IF ok THEN @ + 1 ELSE @,
               !.send = [sending |-> TRUE, file |-> IF ok THEN "open" ELSE "stale",
                         size |-> d.req.size, offset |-> w.first, remaining |-> w.length,
                         sendfile |-> ~d.tls, buffer |-> <<>>]]
  IN  IF ok THEN e ELSE http_error(e, 500)

StartGzip(d) ==
  [d EXCEPT !.send = [sending |-> TRUE, file |-> "none", size |-> 0, offset |-> 0,
                      remaining |-> d.req.size - 1, sendfile |-> FALSE,
                      buffer |-> [i \in 1 .. d.req.size - 1 |-> -i]]]

http_static_dir(d, n, ok) ==
  LET r == d.req
      w == Window(r)
      h == ResponseHead(d, IF w.ranged THEN 206 ELSE 200, w.length)
  IN  IF r.method \notin {"GET", "HEAD"} THEN http_error(d, 405)
      ELSE IF r.target \in DOMAIN Refusal THEN http_error(d, Refusal[r.target])
      ELSE IF Gzipped(r) THEN resume_send(StartGzip(ResponseHead(d, 200, r.size - 1)), n)
      ELSE IF r.method = "HEAD" THEN HeadOnly(h)
      ELSE IF ok THEN resume_send(StartSend(h, w, ok), n)
      ELSE StartSend(h, w, ok)

(* http_dispatcher: the handler, then the parser is reset or the connection *)
(* deleted unless a body is still to be sent.                               *)
http_dispatcher(d, n, ok) ==
  LET e == IF d.req.target = "welcome" THEN http_ok(d) ELSE http_static_dir(d, n, ok)
  IN  IF http_should_keep_alive(d.req) THEN parser_reset(e)
      ELSE IF ~e.send.sending \/ e.send.remaining = 0 THEN conn_del(e)
      ELSE e

-----------------------------------------------------------------------------
(* my_on_read: one recv or SSL_read.  A TLS record is decrypted as a whole; *)
(* what the buffer does not take stays in the TLS layer, and only new bytes *)
(* on the socket make it readable again.                                    *)
Read(n, record) ==
  /\ ~c.closed /\ c.interest = "read"
  /\ IF ~c.tls THEN record = n
     ELSE IF c.pending = 0 THEN n = Smaller(record, MaxRead)
     ELSE /\ record = c.pending /\ n = Smaller(record, MaxRead)
          /\ nread + record < Len(stream)
  /\ nread + record <= Len(stream)
  /\ Feed(n)
  /\ c' = [c EXCEPT !.pending = record - n]

Parsing == Parse /\ UNCHANGED c
NoMemory == AllocFails /\ UNCHANGED c

(* http_parser_feed returned -1, or recv returned 0. *)
ReadFails ==
  /\ ~c.closed
  /\ \/ pc = "error"
     \/ pc = "idle" /\ c.interest = "read"
  /\ c' = conn_del([c EXCEPT !.failed = TRUE])
  /\ pc' = "idle"
  /\ UNCHANGED <<stream, nread, base, p, buflen, full, oom>>

Dispatch(r, n, ok) ==
  /\ pc = "request"
  /\ r \in IF c.req = NoRequest THEN c.requests ELSE {c.req}
  /\ c' = http_dispatcher([c EXCEPT !.req = r], n, ok)
  /\ oom' = (oom \/ c'.send.file = "stale")
  /\ IF c'.req = NoRequest THEN http_parser_reset ELSE UNCHANGED <<p, base>>
  /\ pc' = "idle"
  /\ UNCHANGED <<stream, nread, buflen, full>>

(* my_on_write *)
Writable(n) ==
  /\ ~c.closed /\ pc = "idle" /\ c.interest = "write"
  /\ c' = resume_send(c, n)
  /\ IF c'.req = NoRequest THEN http_parser_reset ELSE UNCHANGED <<p, base>>
  /\ UNCHANGED <<stream, nread, buflen, pc, full, oom>>

Reading == \E n \in 1 .. MaxRead, record \in 1 .. Len(stream) : Read(n, record)
Dispatching == \E r \in c.requests, n \in -1 .. MaxSend, ok \in BOOLEAN : Dispatch(r, n, ok)
Sending == \E n \in 1 .. MaxSend : Writable(n)
SendingNothing == \E n \in {-1, 0} : Writable(n)

Init == \E v \in Visits : ParserInit(v.bytes) /\ c = NewConn(v)

Next == Reading \/ Parsing \/ NoMemory \/ ReadFails \/ Dispatching \/ Sending \/ SendingNothing

(* The loop runs handlers to their end, and a client that is still there    *)
(* sends its bytes and takes what it is sent.                               *)
Spec ==
  /\ Init /\ [][Next]_sessionVars
  /\ WF_sessionVars(Parsing) /\ WF_sessionVars(Dispatching)
  /\ WF_sessionVars(Reading) /\ WF_sessionVars(Sending)

-----------------------------------------------------------------------------
Responses ==
  [req: UNION {v.requests : v \in Visits}, status: {200, 206, 405} \cup {Refusal[t] : t \in DOMAIN Refusal},
   length: Nat, body: Seq(Int)]

(* http_parser_feed: the position stays inside the buffer, the buffer below *)
(* its limit with room for the NUL, the body below its own, and the count   *)
(* of open files never drops below zero.                                    *)
TypeOK ==
  /\ pc \in {"idle", "loop", "request", "error"}
  /\ p.state \in {"REQUEST_LINE", "HEADERS", "BODY", "DONE", "ERROR"}
  /\ p.pos \in 0 .. Len(p.buffer) /\ Len(p.buffer) < p.cap /\ p.cap <= MaxCap
  /\ Len(p.body) <= MaxBody /\ p.content_length \in 0 .. MaxBody
  /\ base <= nread /\ nread <= Len(stream)
  /\ c.interest \in {"read", "write"} /\ c.fds \in Nat
  /\ c.parser \in {"live", "destroyed", "freed twice"}
  /\ c.send.remaining \in 0 .. Word - 1
  /\ \A i \in DOMAIN c.out : c.out[i] \in Responses

(* http_parser_feed keeps buf and buflen of the buffer before the loop and  *)
(* uses them after stringbuf_consume has moved the bytes: no pass may start *)
(* with a length that is not the buffer's any more.                         *)
NoStaleLength == Looping => buflen = Len(p.buffer)

(* http_parser_feed: a pass of its loop completes the request, or goes on   *)
(* further in bytes that stay where they are; a call makes at most as many  *)
(* passes as the buffer has bytes.                                          *)
LoopAdvances ==
  [][pc = "loop" /\ pc' = "loop" =>
       p'.state = "DONE" \/ (p'.pos > p.pos /\ p'.buffer = p.buffer)]_sessionVars

(* What a file response has to carry, from the request alone. *)
Wanted(r) ==
  IF r.target = "welcome" THEN <<0>>
  ELSE IF r.method # "GET" \/ r.target \in DOMAIN Refusal THEN <<>>
  ELSE IF r.range.given /\ r.range.from \in 0 .. r.range.to /\ r.range.to < r.size
       THEN Offsets(r.range.from, r.range.to - r.range.from + 1)
  ELSE IF r.range.given /\ r.range.from \in 0 .. r.size - 1 /\ r.range.to < r.range.from
       THEN Offsets(r.range.from, r.size - r.range.from)
  ELSE IF r.range.given /\ r.range.from < 0 /\ r.size > 0 /\ r.range.to < r.size
       THEN Offsets(0, IF r.range.to < 0 THEN r.size ELSE r.range.to + 1)
  ELSE IF r.gzip /\ r.size > 1 THEN [i \in 1 .. r.size - 1 |-> -i]
  ELSE Offsets(0, r.size)

Carries(i) ==
  LET o == c.out[i]
  IN  /\ Len(o.body) <= Len(Wanted(o.req))
      /\ o.body = SubSeq(Wanted(o.req), 1, Len(o.body))
      /\ o.req.method # "HEAD" => o.length = Len(Wanted(o.req))

(* http_static_dir and resume_send: the client gets the bytes it asked for, *)
(* in order and as many as Content-Length says, whatever the socket takes   *)
(* at a time; no other response starts before, and the server does not      *)
(* close before, the body is complete.  Ranges over TLS are left out:       *)
(* resume_send reads whole buffers there, past the end of the range.        *)
BodiesExact ==
  ~oom =>
    \A i \in DOMAIN c.out :
      (c.tls /\ c.out[i].status = 206) \/
        /\ Carries(i)
        /\ i < Len(c.out) \/ (c.closed /\ ~c.failed) => c.out[i].body = Wanted(c.out[i].req)

(* cleanup_send_state: a file opened for a response is open only while that *)
(* body is being sent.  Only the response to an empty file breaks this: its *)
(* descriptor stays until the connection ends, or is lost with the next one. *)
NoFdLeak ==
  \/ c.fds = IF c.send.file = "open" THEN 1 ELSE 0
  \/ \E i \in DOMAIN c.out : c.out[i].status = 200 /\ c.out[i].length = 0

(* http_parser_feed ends on every input. *)
Returns == pc = "loop" ~> pc # "loop"

(* A body that has been started is finished, or the connection ends: a      *)
(* partial send always leaves the event armed that continues it.            *)
Delivered == c.send.remaining # 0 /\ ~oom ~> c.send.remaining = 0

(* http_parser_destroy's comment: no reset after the final teardown. *)
FreedOnce == c.parser # "freed twice"
=============================================================================
