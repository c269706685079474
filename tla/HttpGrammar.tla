----------------------------- MODULE HttpGrammar -----------------------------
(***************************************************************************)
(* What http_parser_feed should answer, as a definition over the whole     *)
(* text a client has sent instead of over the reads it was cut into: the   *)
(* text is a complete request with this body, or it can still become one,  *)
(* or it never can.  The limits are those of the parser.                   *)
(***************************************************************************)
EXTENDS HttpSession

More == [kind |-> "more", body |-> <<>>]
Bad == [kind |-> "error", body |-> <<>>]
Complete(body) == [kind |-> "done", body |-> body]

HasLine(t) == \E i \in DOMAIN t : t[i] = "n"
FirstEnd(t) == CHOOSE i \in DOMAIN t : t[i] = "n" /\ \A j \in 1 .. i - 1 : t[j] # "n"
First(t) ==
  LET e == FirstEnd(t)
  IN  SubSeq(t, 1, IF e > 1 /\ t[e - 1] = "r" THEN e - 2 ELSE e - 1)
Rest(t) == SubSeq(t, FirstEnd(t) + 1, Len(t))
Overlong(t) == FirstEnd(t) - 1 > MaxLine

(* The last of the headers in S, "none" if there is none. *)
LastOf(hs, S) ==
  LET at == {i \in DOMAIN hs : hs[i] \in S}
  IN  IF at = {} THEN "none" ELSE hs[CHOOSE i \in at : \A j \in at : j <= i]

Lengths == {"l0", "l1", "l2", "lx"}
Codings == {"t", "u"}
Names(hs) ==
  Cardinality({S \in {Lengths, Codings, {"h"}} : \E i \in DOMAIN hs : hs[i] \in S})

(* A chunk-size line: digits, then possibly an extension. *)
Digits(line) == {i \in DOMAIN line : \A j \in 1 .. i : line[j] # ";"}
RECURSIVE SizeUpTo(_, _)
SizeUpTo(line, k) == IF k = 0 THEN 0 ELSE HexValue[line[k]] + 16 * SizeUpTo(line, k - 1)
SizeOf(line) == SizeUpTo(line, Cardinality(Digits(line)))
GoodSize(line, taken) ==
  /\ line # <<>> /\ Len(line) < MaxSizeLine
  /\ \A i \in Digits(line) : line[i] \in HexDigit
  /\ SizeOf(line) <= MaxChunk /\ taken + SizeOf(line) <= MaxBody

RECURSIVE Chunks(_, _)
Chunks(t, body) ==
  IF ~HasLine(t) THEN More
  ELSE IF ~GoodSize(First(t), Len(body)) THEN Bad
  ELSE LET n == SizeOf(First(t))
           r == Rest(t)
       IN  IF n = 0 THEN Complete(body)
           ELSE IF Len(r) < n + 2 THEN More
           ELSE IF r[n + 1] # "r" \/ r[n + 2] # "n" THEN Bad
           ELSE Chunks(SubSeq(r, n + 3, Len(r)), body \o SubSeq(r, 1, n))

(* Content-Length wins over Transfer-Encoding. *)
Message(t, hs) ==
  LET l == LastOf(hs, Lengths)
      n == IF l \in {"none", "lx"} THEN 0 ELSE Length[l]
  IN  IF l = "lx" \/ n > MaxBody THEN Bad
      ELSE IF l = "none" /\ LastOf(hs, Codings) = "t" THEN Chunks(t, <<>>)
      ELSE IF Len(t) < n THEN More
      ELSE Complete(SubSeq(t, 1, n))

RECURSIVE Headers(_, _)
Headers(t, hs) ==
  IF ~HasLine(t) THEN More
  ELSE IF Overlong(t) THEN Bad
  ELSE IF First(t) = <<>> THEN Message(Rest(t), hs)
  ELSE IF Len(First(t)) > 1 \/ First(t)[1] \notin Header THEN Bad
  ELSE LET all == Append(hs, First(t)[1])
       IN  IF Names(all) > MaxHeaders THEN Bad ELSE Headers(Rest(t), all)

Verdict(t) ==
  IF ~HasLine(t) THEN More
  ELSE IF Overlong(t) \/ First(t) # <<"g">> THEN Bad
  ELSE Headers(Rest(t), <<>>)

-----------------------------------------------------------------------------
(* http_parser_feed: whatever reads the bytes came in, what it has answered *)
(* after them is what the grammar says of the whole text, body included; it *)
(* gives up for lack of room only when the text is as long as the buffer    *)
(* can get.                                                                 *)
FeedExact ==
  LET t == SubSeq(stream, base + 1, nread)
      v == Verdict(t)
  IN  ~oom /\ ~c.closed =>
        /\ pc = "request" => v = Complete(p.body)
        /\ pc = "error" => IF full THEN Len(t) >= MaxCap ELSE v = Bad
        /\ pc = "idle" /\ c.req = NoRequest => v = More
=============================================================================
