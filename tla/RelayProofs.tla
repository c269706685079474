------------------------------ MODULE RelayProofs ------------------------------
(***************************************************************************)
(* The bytes of a relayed connection arrive in order, for requests and     *)
(* responses of every length, every CHUNK_SIZE and every partial write.    *)
(***************************************************************************)
EXTENDS Relay, SequenceTheorems, TLAPS

Requests == {"plain", "framed", "unframed"}

(* While downstream_buf holds bytes the upstream is out of the event loop. *)
(* A tunnel does not keep this: a write to the upstream registers it again. *)
Held == kind \in Requests /\ down # <<>> => uev = {}

(* resp_header_buf is in use only while the head is not complete.           *)
HeadKept ==
  hdr # <<>> => kind \in {"framed", "unframed"} /\ head = "open" /\ uread < HeadLen

IInv ==
  /\ TypeOK /\ RequestInOrder /\ ResponseInOrder /\ ClosedComplete
  /\ Held /\ HeadKept

-----------------------------------------------------------------------------
\* A run of bytes is a sequence of that many bytes.
LEMMA BytesTyped ==
  ASSUME NEW first \in Nat \ {0}, NEW n \in Nat, NEW top \in Nat, first + n <= top + 1
  PROVE  /\ Bytes(first, n) \in Seq(1 .. top) /\ Len(Bytes(first, n)) = n
         /\ n = 0 => Bytes(first, n) = <<>>
         /\ \A i \in 1 .. n : Bytes(first, n)[i] = first + i - 1
  <1>1. Bytes(first, n) \in [1 .. n -> 1 .. top]
    BY DEF Bytes
  <1>2. Bytes(first, n) \in Seq(1 .. top) /\ DOMAIN Bytes(first, n) = 1 .. n
    BY <1>1, SeqDef
  <1>3. Len(Bytes(first, n)) = n
    BY <1>2, LenProperties
  <1>4. \A i \in 1 .. n : Bytes(first, n)[i] = first + i - 1
    BY DEF Bytes
  <1>5. n = 0 => Bytes(first, n) = <<>>
    BY <1>2, <1>3, EmptySeq
  <1> QED
    BY <1>2, <1>3, <1>4, <1>5

(* Concatenation, named so that the lemmas below can be instantiated as they  *)
(* stand.                                                                      *)
Cat(s, t) == s \o t

\* Two runs that meet are one.
LEMMA BytesMeet ==
  ASSUME NEW first \in Nat \ {0}, NEW m \in Nat, NEW n \in Nat, NEW next, next = first + m
  PROVE  Cat(Bytes(first, m), Bytes(next, n)) = Bytes(first, m + n)
  <1> DEFINE top == first + m + n
             s == Bytes(first, m)
             t == Bytes(next, n)
             u == Bytes(first, m + n)
  <1>0. /\ top \in Nat /\ next \in Nat \ {0} /\ m + n \in Nat
        /\ first + m <= top + 1 /\ next + n <= top + 1 /\ first + (m + n) <= top + 1
    OBVIOUS
  <1> HIDE DEF top
  <1>1. /\ s \in Seq(1 .. top) /\ Len(s) = m
        /\ \A i \in 1 .. m : s[i] = first + i - 1
    BY <1>0, BytesTyped
  <1>2. /\ t \in Seq(1 .. top) /\ Len(t) = n
        /\ \A i \in 1 .. n : t[i] = next + i - 1
    BY <1>0, BytesTyped
  <1>3. /\ u \in Seq(1 .. top) /\ Len(u) = m + n
        /\ \A i \in 1 .. m + n : u[i] = first + i - 1
    BY <1>0, BytesTyped
  <1> HIDE DEF s, t, u
  <1>4. /\ s \o t \in Seq(1 .. top) /\ Len(s \o t) = m + n
        /\ \A i \in 1 .. m + n : (s \o t)[i] = IF i <= m THEN s[i] ELSE t[i - m]
    BY <1>1, <1>2, ConcatProperties
  <1>5. ASSUME NEW i \in 1 .. m + n PROVE (s \o t)[i] = u[i]
    <2>1. CASE i <= m
      BY <1>1, <1>3, <1>4, <2>1
    <2>2. CASE ~(i <= m)
      <3>1. i - m \in 1 .. n /\ (first + m) + (i - m) - 1 = first + i - 1
        BY <2>2
      <3>2. t[i - m] = next + (i - m) - 1
        BY <1>2, <3>1
      <3>3. (s \o t)[i] = t[i - m]
        BY <1>4, <2>2
      <3>4. u[i] = first + i - 1
        BY <1>3
      <3> QED
        BY <3>1, <3>2, <3>3, <3>4
    <2> QED
      BY <2>1, <2>2
  <1>6. s \o t = u
    BY <1>3, <1>4, <1>5, SeqEqual
  <1> QED
    BY <1>6 DEF s, t, u, Cat

\* Concatenation is typed and associative, and the empty sequence is neutral.
LEMMA CatFacts ==
  ASSUME NEW S, NEW s \in Seq(S), NEW t \in Seq(S), NEW u \in Seq(S)
  PROVE  /\ Cat(s, t) \in Seq(S)
         /\ Cat(Cat(s, t), u) = Cat(s, Cat(t, u))
         /\ Cat(s, <<>>) = s /\ Cat(<<>>, s) = s
         /\ Len(Cat(s, t)) = Len(s) + Len(t)
  <1>1. s \o t \in Seq(S) /\ Len(s \o t) = Len(s) + Len(t)
    BY ConcatProperties
  <1>2. (s \o t) \o u = s \o (t \o u)
    BY ConcatAssociative
  <1>3. s \o <<>> = s /\ <<>> \o s = s
    BY ConcatEmptySeq
  <1> QED
    BY <1>1, <1>2, <1>3 DEF Cat

\* A sequence is the empty one or has a length.
LEMMA Nonempty ==
  ASSUME NEW S, NEW s \in Seq(S)
  PROVE  Len(s) \in Nat /\ (s = <<>> <=> Len(s) = 0)
  BY EmptySeq, LenProperties

\* What a write took and what it left are what it was given.
LEMMA Split ==
  ASSUME NEW S, NEW s \in Seq(S), NEW k \in Nat, k <= Len(s)
  PROVE  /\ To(s, k) \in Seq(S) /\ From(s, k) \in Seq(S)
         /\ Cat(To(s, k), From(s, k)) = s
         /\ Len(To(s, k)) = k /\ Len(From(s, k)) = Len(s) - k
  <1>1. Len(s) \in Nat /\ \A i \in 1 .. Len(s) : s[i] \in S
    BY LenProperties, ElementOfSeq
  <1>2. To(s, k) \in Seq(S) /\ Len(To(s, k)) = k
    BY <1>1, SubSeqProperties DEF To
  <1>3. From(s, k) \in Seq(S) /\ Len(From(s, k)) = Len(s) - k
    BY <1>1, SubSeqProperties DEF From
  <1>4. To(s, k) \o From(s, k) = SubSeq(s, 1, Len(s))
    <2>1. 1 \in 1 .. Len(s) + 1 /\ k \in 1 - 1 .. Len(s) /\ Len(s) \in k .. Len(s)
      BY <1>1
    <2>2. SubSeq(s, 1, k) \o SubSeq(s, k + 1, Len(s)) = SubSeq(s, 1, Len(s))
      BY <2>1, ConcatAdjacentSubSeq
    <2> QED
      BY <2>2 DEF To, From
  <1>5. Cat(To(s, k), From(s, k)) = s
    BY <1>4, SubSeqFull DEF Cat
  <1> QED
    BY <1>2, <1>3, <1>5

\* A write moves bytes from the front of a buffer to the end of what was sent:
\* the two together stay what they were.
LEMMA Moved ==
  ASSUME NEW S, NEW sent \in Seq(S), NEW buf \in Seq(S), NEW k \in Nat, k <= Len(buf)
  PROVE  /\ Cat(sent, To(buf, k)) \in Seq(S) /\ From(buf, k) \in Seq(S)
         /\ Cat(Cat(sent, To(buf, k)), From(buf, k)) = Cat(sent, buf)
  <1>1. To(buf, k) \in Seq(S) /\ From(buf, k) \in Seq(S)
    BY Split
  <1>2. Cat(To(buf, k), From(buf, k)) = buf
    BY Split
  <1>3. /\ Cat(sent, To(buf, k)) \in Seq(S)
        /\ Cat(Cat(sent, To(buf, k)), From(buf, k)) = Cat(sent, Cat(To(buf, k), From(buf, k)))
    BY <1>1, CatFacts
  <1> QED
    BY <1>1, <1>2, <1>3

\* Bytes that were just read, in two parts, continue what was read before.
LEMMA Continued ==
  ASSUME NEW m \in Nat, NEW n \in Nat, NEW k \in Nat, k <= n
  PROVE  /\ Cat(Bytes(1, m), Bytes(m + 1, n)) = Bytes(1, m + n)
         /\ Cat(Cat(Bytes(1, m), Bytes(m + 1, k)), Bytes(m + k + 1, n - k)) = Bytes(1, m + n)
  <1>1. \A a, b, c \in Nat : c = 1 + a => Cat(Bytes(1, a), Bytes(c, b)) = Bytes(1, a + b)
    BY BytesMeet
  <1>2. /\ m + 1 \in Nat /\ m + 1 = 1 + m
        /\ m + k \in Nat /\ n - k \in Nat /\ m + k + 1 \in Nat /\ m + k + 1 = 1 + (m + k)
        /\ (m + k) + (n - k) = m + n
    OBVIOUS
  <1>3. Cat(Bytes(1, m), Bytes(m + 1, n)) = Bytes(1, m + n)
    BY <1>1, <1>2
  <1>4. Cat(Bytes(1, m), Bytes(m + 1, k)) = Bytes(1, m + k)
    BY <1>1, <1>2
  <1>5. Cat(Bytes(1, m + k), Bytes(m + k + 1, n - k)) = Bytes(1, (m + k) + (n - k))
    BY <1>1, <1>2
  <1> QED
    BY <1>2, <1>3, <1>4, <1>5

\* The front part of a run of bytes is a run of bytes.
LEMMA FrontUnbroken ==
  ASSUME NEW top \in Nat, NEW s \in Seq(1 .. top), NEW t \in Seq(1 .. top), NEW n \in Nat,
         Cat(s, t) = Bytes(1, n)
  PROVE  Unbroken(s)
  <1> DEFINE m == Len(s)
             b == Bytes(1, m)
  <1>1. m \in Nat /\ Len(t) \in Nat
    BY Nonempty
  <1>2. /\ Len(Bytes(1, n)) = n /\ \A i \in 1 .. n : Bytes(1, n)[i] = 1 + i - 1
    <2>1. 1 \in Nat \ {0} /\ 1 + n <= n + 1
      OBVIOUS
    <2> QED
      BY <2>1, BytesTyped
  <1>3. /\ Len(s \o t) = m + Len(t)
        /\ \A i \in 1 .. m + Len(t) : (s \o t)[i] = IF i <= m THEN s[i] ELSE t[i - m]
    BY ConcatProperties
  <1>4. m + Len(t) = n /\ s \o t = Bytes(1, n)
    BY <1>2, <1>3 DEF Cat
  <1>5. ASSUME NEW i \in 1 .. m PROVE s[i] = i
    <2>1. i \in 1 .. m + Len(t) /\ i <= m
      BY <1>1
    <2>2. (s \o t)[i] = s[i]
      BY <1>3, <2>1
    <2>3. Bytes(1, n)[i] = 1 + i - 1
      BY <1>2, <1>4, <2>1
    <2> QED
      BY <1>4, <2>1, <2>2, <2>3
  <1>6. s \in Seq(Nat) /\ b \in Seq(Nat) /\ Len(b) = m /\ \A i \in 1 .. m : b[i] = i
    <2>1. 1 \in Nat \ {0} /\ 1 + m <= m + 1
      BY <1>1
    <2>2. b \in Seq(1 .. m) /\ Len(b) = m /\ \A i \in 1 .. m : b[i] = 1 + i - 1
      BY <1>1, <2>1, BytesTyped
    <2>3. \A i \in 1 .. m : b[i] = i
      <3>1. TAKE i \in 1 .. m
      <3> QED
        BY <1>1, <2>2
    <2>4. 1 .. m \subseteq Nat /\ 1 .. top \subseteq Nat
      BY <1>1
    <2> HIDE DEF b
    <2> QED
      BY <2>2, <2>3, <2>4
  <1> HIDE DEF b, m
  <1>7. s = b
    BY <1>5, <1>6, SeqEqual DEF m
  <1> QED
    BY <1>7 DEF Unbroken, b, m

-----------------------------------------------------------------------------
(* The parts of the invariant that an action leaves alone.                   *)

\* The direction to the client is untouched.
LEMMA DownwardKept ==
  ASSUME IInv, UNCHANGED <<kind, ahead, over, Downward>>, Held'
  PROVE  ResponseInOrder' /\ ClosedComplete' /\ Held' /\ HeadKept'
  BY DEF IInv, Downward, ResponseInOrder, ClosedComplete, HeadKept, Unbroken, Bytes

\* The direction to the upstream is untouched.
LEMMA UpwardKept ==
  ASSUME IInv, UNCHANGED <<kind, ahead, over, Upward>>
  PROVE  RequestInOrder'
  BY DEF IInv, Upward, RequestInOrder, Proxied, Unbroken, Bytes

\* The types of the state that an action does not change.
LEMMA Typed ==
  ASSUME IInv
  PROVE  /\ kind \in Kinds /\ kind \in {"plain", "framed", "unframed", "tunnel", "forward"}
         /\ ahead \in 0 .. MaxAhead
         /\ NClient \in Nat \ {0} /\ NResponse \in Nat \ {0} /\ HeadLen \in Nat \ {0}
         /\ NRequest \in Nat \ {0} /\ NRequest <= NClient /\ HeadLen <= NResponse
         /\ MaxHead \in Nat /\ MaxRead \in Nat
         /\ cread \in 0 .. NClient /\ uread \in 0 .. NResponse
         /\ pending \in Seq(1 .. NClient) /\ upgot \in Seq(1 .. NClient)
         /\ hdr \in Seq(1 .. NResponse) /\ down \in Seq(1 .. NResponse)
         /\ clgot \in Seq(1 .. NResponse)
         /\ connected \in BOOLEAN /\ cpaused \in BOOLEAN /\ upaused \in BOOLEAN
  BY RelayAssumption DEF IInv, TypeOK

\* proxy_cleanup frees what was not delivered: what was delivered has no gap.
LEMMA EndedStep ==
  ASSUME IInv, over = "no", NEW how \in {"eof", "error"}, Ended(how),
         UNCHANGED <<kind, ahead, Transferred>>
  PROVE  TypeOK' /\ RequestInOrder' /\ ResponseInOrder' /\ Held' /\ HeadKept'
  <1>1. /\ over' = how /\ pending' = <<>> /\ hdr' = <<>> /\ down' = <<>> /\ cev' = {} /\ uev' = {}
        /\ UNCHANGED <<kind, ahead, connected, upgot, cread, cpaused, uread, head, clgot, upaused>>
    BY DEF Ended, Transferred
  <1>2. TypeOK'
    <2>1. <<>> \in Seq(1 .. NClient) /\ <<>> \in Seq(1 .. NResponse)
      BY EmptySeq
    <2> QED
      BY <1>1, <2>1 DEF IInv, TypeOK
  <1>3. Proxied => Unbroken(upgot)
    <2>1. NClient \in Nat /\ cread \in Nat /\ upgot \in Seq(1 .. NClient) /\ pending \in Seq(1 .. NClient)
      BY Typed
    <2>2. Proxied => Cat(upgot, pending) = Bytes(1, cread)
      BY DEF IInv, RequestInOrder, Cat
    <2> QED
      BY <2>1, <2>2, FrontUnbroken
  <1>4. kind \in Requests /\ head # "raw" => Unbroken(clgot)
    <2>1. NResponse \in Nat /\ uread \in Nat /\ clgot \in Seq(1 .. NResponse)
          /\ down \in Seq(1 .. NResponse) /\ hdr \in Seq(1 .. NResponse)
      BY Typed
    <2>2. Cat(down, hdr) \in Seq(1 .. NResponse)
          /\ Cat(Cat(clgot, down), hdr) = Cat(clgot, Cat(down, hdr))
      BY <2>1, CatFacts
    <2>3. kind \in Requests /\ head # "raw" => Cat(Cat(clgot, down), hdr) = Bytes(1, uread)
      BY DEF IInv, ResponseInOrder, Requests, Cat
    <2> QED
      BY <2>1, <2>2, <2>3, FrontUnbroken
  <1>5. RequestInOrder'
    BY <1>1, <1>3 DEF RequestInOrder, Proxied, Unbroken
  <1>6. ResponseInOrder'
    BY <1>1, <1>4 DEF ResponseInOrder, Requests, Unbroken
  <1> QED
    BY <1>1, <1>2, <1>5, <1>6 DEF Held, HeadKept

-----------------------------------------------------------------------------
(* The actions, one lemma each.                                              *)

\* proxy_on_upstream_write preserves the invariant.
LEMMA UpstreamWriteStep ==
  ASSUME IInv, NEW k \in Nat, proxy_on_upstream_write(k)
  PROVE  IInv'
  <1>1. /\ over = "no" /\ k <= Len(pending) /\ "w" \in uev
        /\ upgot' = upgot \o To(pending, k) /\ pending' = From(pending, k)
        /\ connected' = TRUE /\ cpaused' = (cpaused /\ pending' # <<>>)
        /\ cev' = (IF cpaused /\ ~cpaused' THEN {"r"} ELSE cev)
        /\ uev' = (IF pending' = <<>> THEN {"r"} ELSE uev)
        /\ UNCHANGED <<kind, ahead, cread, over, Downward>>
    BY DEF proxy_on_upstream_write
  <1>2. upgot' = Cat(upgot, To(pending, k)) /\ pending' = From(pending, k)
    BY <1>1 DEF Cat
  <1>3. /\ upgot' \in Seq(1 .. NClient) /\ pending' \in Seq(1 .. NClient)
        /\ Cat(upgot', pending') = Cat(upgot, pending)
    <2>1. pending \in Seq(1 .. NClient) /\ upgot \in Seq(1 .. NClient) /\ k <= Len(pending)
      BY <1>1, Typed
    <2> QED
      BY <1>2, <2>1, Moved
  <1>4. TypeOK' /\ RequestInOrder'
    <2>1. TypeOK'
      BY <1>1, <1>3 DEF IInv, TypeOK, Downward
    <2>2. RequestInOrder'
      BY <1>1, <1>3 DEF IInv, RequestInOrder, Proxied, Cat
    <2> QED
      BY <2>1, <2>2
  <1>5. Held'
    BY <1>1 DEF IInv, Held, Downward
  <1> QED
    BY <1>1, <1>4, <1>5, DownwardKept DEF IInv

\* Hold keeps the rest where nothing was kept, and takes the upstream out of the
\* event loop when there is a rest.
LEMMA HoldStep ==
  ASSUME IInv, NEW rest \in Seq(1 .. NResponse), Hold(rest), UNCHANGED kind
  PROVE  /\ down' \in Seq(1 .. NResponse) /\ upaused' \in BOOLEAN
         /\ cev' \subseteq {"r", "w"} /\ uev' \subseteq {"r", "w"}
         /\ down = <<>> => down' = rest
         /\ Held'
  <1>1. CASE rest = <<>>
    BY <1>1, Typed DEF Hold, IInv, TypeOK, Held
  <1>2. CASE rest # <<>>
    BY <1>2 DEF Hold, Held
  <1> QED
    BY <1>1, <1>2

\* A read of n bytes: they are bytes of the upstream, the relay goes on.
LEMMA ReadFacts ==
  ASSUME IInv, NEW n \in Nat, UpstreamRead(n)
  PROVE  /\ over = "no" /\ "r" \in uev /\ uread' = uread + n
         /\ uread \in Nat /\ uread + n \in 0 .. NResponse
         /\ \A k \in Nat : k <= n =>
              /\ Bytes(uread + 1, k) \in Seq(1 .. NResponse)
              /\ Bytes(uread + k + 1, n - k) \in Seq(1 .. NResponse)
         /\ Bytes(uread + 1, n) \in Seq(1 .. NResponse)
  <1>1. /\ NResponse \in Nat /\ uread \in Nat /\ Answered <= NResponse /\ Answered \in Nat
    BY Typed, RelayAssumption DEF Answered
  <1>2. over = "no" /\ "r" \in uev /\ uread' = uread + n /\ uread + n <= Answered
    BY DEF UpstreamRead
  <1>3. uread + n \in 0 .. NResponse
    BY <1>1, <1>2
  <1>4. ASSUME NEW k \in Nat, k <= n
        PROVE  /\ Bytes(uread + 1, k) \in Seq(1 .. NResponse)
               /\ Bytes(uread + k + 1, n - k) \in Seq(1 .. NResponse)
    <2>1. /\ uread + 1 \in Nat \ {0} /\ uread + k + 1 \in Nat \ {0} /\ n - k \in Nat
          /\ (uread + 1) + k <= NResponse + 1 /\ (uread + k + 1) + (n - k) <= NResponse + 1
      BY <1>1, <1>3, <1>4
    <2> QED
      BY <1>1, <2>1, BytesTyped
  <1>5. Bytes(uread + 1, n) \in Seq(1 .. NResponse)
    BY <1>4
  <1> QED
    BY <1>1, <1>2, <1>3, <1>4, <1>5

\* When the upstream of a request is read, nothing is buffered for the client.
LEMMA NothingHeld ==
  ASSUME IInv, over = "no", "r" \in uev, kind \in Requests
  PROVE  /\ down = <<>>
         /\ head # "raw" => Cat(clgot, hdr) = Bytes(1, uread)
         /\ head # "raw" /\ hdr = <<>> => clgot = Bytes(1, uread)
  <1>1. down = <<>>
    BY DEF IInv, Held
  <1>2. head # "raw" => Cat(Cat(clgot, down), hdr) = Bytes(1, uread)
    BY DEF IInv, ResponseInOrder, Requests, Cat
  <1>3. Cat(clgot, <<>>) = clgot
    BY Typed, CatFacts
  <1> QED
    BY <1>1, <1>2, <1>3

\* proxy_on_upstream_read on a request or a tunnel preserves the invariant.
LEMMA RelayPlainStep ==
  ASSUME IInv, NEW n \in Nat, NEW k \in Nat, RelayPlain(n, k)
  PROVE  IInv'
  <1> DEFINE sent == Bytes(uread + 1, k)
             rest == Bytes(uread + k + 1, n - k)
  <1>1. /\ kind \in {"plain", "tunnel"} /\ UpstreamRead(n) /\ k <= n
        /\ clgot' = Cat(clgot, sent) /\ Hold(rest)
        /\ UNCHANGED <<kind, ahead, head, hdr, over, Upward>>
    BY DEF RelayPlain, Cat
  <1>2. /\ over = "no" /\ "r" \in uev /\ uread' = uread + n /\ uread' \in 0 .. NResponse
        /\ uread \in Nat
        /\ sent \in Seq(1 .. NResponse) /\ rest \in Seq(1 .. NResponse)
    BY <1>1, ReadFacts
  <1>3. hdr = <<>>
    BY <1>1 DEF IInv, HeadKept
  <1>4. clgot' \in Seq(1 .. NResponse)
    BY <1>1, <1>2, Typed, CatFacts
  <1> HIDE DEF rest
  <1>5. /\ down' \in Seq(1 .. NResponse) /\ upaused' \in BOOLEAN
        /\ cev' \subseteq {"r", "w"} /\ uev' \subseteq {"r", "w"}
        /\ down = <<>> => down' = rest
        /\ Held'
    BY <1>1, <1>2, HoldStep
  <1>6. TypeOK'
    BY <1>1, <1>2, <1>4, <1>5 DEF IInv, TypeOK, Upward
  <1>7. ResponseInOrder'
    <2> SUFFICES ASSUME kind = "plain", head # "raw"
                 PROVE  Cat(Cat(clgot', down'), hdr') = Bytes(1, uread')
      BY <1>1, <1>2 DEF ResponseInOrder, Cat
    <2>1. down = <<>> /\ clgot = Bytes(1, uread)
      BY <1>2, <1>3, NothingHeld DEF Requests
    <2>2. Cat(Cat(clgot, sent), rest) = Bytes(1, uread + n)
      BY <1>1, <1>2, <2>1, Continued DEF rest
    <2>3. Cat(clgot', down') = Bytes(1, uread')
      BY <1>1, <1>2, <1>5, <2>1, <2>2
    <2>4. Cat(clgot', down') \in Seq(1 .. NResponse) /\ hdr' = <<>>
      BY <1>1, <1>3, <1>4, <1>5, CatFacts
    <2>5. Cat(Cat(clgot', down'), <<>>) = Cat(clgot', down')
      BY <2>4, CatFacts
    <2> QED
      BY <2>3, <2>4, <2>5
  <1>8. ClosedComplete' /\ HeadKept' /\ RequestInOrder'
    BY <1>1, <1>2, <1>3, UpwardKept DEF ClosedComplete, HeadKept
  <1> QED
    BY <1>5, <1>6, <1>7, <1>8 DEF IInv

\* proxy_relay_upstream_keepalive, while the head is incomplete.
LEMMA CollectHeadStep ==
  ASSUME IInv, NEW n \in Nat, CollectHead(n)
  PROVE  IInv'
  <1> DEFINE new == Bytes(uread + 1, n)
  <1>1. /\ kind \in {"framed", "unframed"} /\ UpstreamRead(n)
        /\ head = "open" /\ uread + n < HeadLen
        /\ hdr' = Cat(hdr, new)
        /\ UNCHANGED <<kind, ahead, head, down, clgot, upaused, cev, uev, over, Upward>>
    BY DEF CollectHead, Keepalive, HeadMissing, Cat
  <1>2. /\ over = "no" /\ "r" \in uev /\ uread' = uread + n /\ uread' \in 0 .. NResponse
        /\ uread \in Nat /\ new \in Seq(1 .. NResponse)
    BY <1>1, ReadFacts
  <1>3. hdr' \in Seq(1 .. NResponse)
    BY <1>1, <1>2, Typed, CatFacts
  <1>4. TypeOK'
    BY <1>1, <1>2, <1>3 DEF IInv, TypeOK, Upward
  <1>5. ResponseInOrder'
    <2>1. down = <<>> /\ Cat(clgot, hdr) = Bytes(1, uread)
      BY <1>1, <1>2, NothingHeld DEF Requests
    <2>2. Cat(clgot, Cat(hdr, new)) = Cat(Cat(clgot, hdr), new) /\ Cat(clgot, <<>>) = clgot
      <3>1. clgot \in Seq(1 .. NResponse) /\ hdr \in Seq(1 .. NResponse)
        BY Typed
      <3>2. new \in Seq(1 .. NResponse)
        BY <1>2
      <3> HIDE DEF new
      <3> QED
        BY <3>1, <3>2, CatFacts
    <2>3. Cat(Bytes(1, uread), new) = Bytes(1, uread + n)
      BY <1>2, Continued
    <2>4. Cat(Cat(clgot', down'), hdr') = Bytes(1, uread')
      BY <1>1, <1>2, <2>1, <2>2, <2>3
    <2> QED
      BY <1>1, <1>2, <2>4 DEF ResponseInOrder, Cat
  <1>6. ClosedComplete' /\ HeadKept' /\ Held' /\ RequestInOrder'
    BY <1>1, <1>2, UpwardKept DEF ClosedComplete, HeadKept, Held, IInv
  <1> QED
    BY <1>4, <1>5, <1>6 DEF IInv

\* A head that is too long is passed on and no longer counted.
LEMMA GiveUpHeadStep ==
  ASSUME IInv, NEW n \in Nat, NEW k \in Nat, GiveUpHead(n, k)
  PROVE  IInv'
  <1> DEFINE out == Cat(hdr, Bytes(uread + 1, n))
  <1>1. /\ UpstreamRead(n) /\ k <= Len(out)
        /\ head' = "raw" /\ hdr' = <<>> /\ clgot' = Cat(clgot, To(out, k))
        /\ UNCHANGED <<kind, ahead, down, upaused, cev, uev, over, Upward>>
    BY DEF GiveUpHead, Cat
  <1>2. over = "no" /\ uread' \in 0 .. NResponse /\ out \in Seq(1 .. NResponse)
    BY <1>1, ReadFacts, Typed, CatFacts
  <1> HIDE DEF out
  <1>3. clgot' \in Seq(1 .. NResponse) /\ hdr' \in Seq(1 .. NResponse)
    BY <1>1, <1>2, Typed, Split, CatFacts, EmptySeq
  <1>4. TypeOK'
    BY <1>1, <1>2, <1>3 DEF IInv, TypeOK, Upward
  <1>5. /\ ResponseInOrder' /\ ClosedComplete' /\ HeadKept' /\ Held' /\ RequestInOrder'
    BY <1>1, UpwardKept DEF ResponseInOrder, ClosedComplete, HeadKept, Held, IInv
  <1> QED
    BY <1>4, <1>5 DEF IInv

\* The head, when it is complete, and what follows it.
LEMMA RelayKeepaliveStep ==
  ASSUME IInv, NEW n \in Nat, NEW k \in Nat, RelayKeepalive(n, k)
  PROVE  IInv'
  <1> DEFINE new == Bytes(uread + 1, n)
             out == Cat(hdr, new)
             rest == From(out, k)
  <1>1. /\ kind \in {"framed", "unframed"} /\ UpstreamRead(n) /\ k <= Len(out)
        /\ head' = (IF head = "open" THEN "parsed" ELSE head)
        /\ clgot' = Cat(clgot, To(out, k)) /\ hdr' = <<>>
        /\ IF AllRelayed(n) THEN Ended("done") /\ UNCHANGED upaused
           ELSE Hold(rest) /\ UNCHANGED <<pending, over>>
        /\ UNCHANGED <<kind, ahead, connected, upgot, cread, cpaused>>
    BY DEF RelayKeepalive, Keepalive, Ended, Cat
  <1>2. /\ over = "no" /\ "r" \in uev /\ uread' = uread + n /\ uread' \in 0 .. NResponse
        /\ uread \in Nat /\ new \in Seq(1 .. NResponse)
    BY <1>1, ReadFacts
  <1>3. out \in Seq(1 .. NResponse)
    BY <1>2, Typed, CatFacts
  <1>4. /\ clgot' \in Seq(1 .. NResponse) /\ rest \in Seq(1 .. NResponse)
        /\ Cat(clgot', rest) = Cat(clgot, out)
    <2> HIDE DEF out
    <2>1. clgot \in Seq(1 .. NResponse) /\ k <= Len(out)
      BY <1>1, Typed
    <2> QED
      BY <1>1, <1>3, <2>1, Moved
  <1> HIDE DEF rest
  <1>5. /\ down' \in Seq(1 .. NResponse) /\ upaused' \in BOOLEAN
        /\ cev' \subseteq {"r", "w"} /\ uev' \subseteq {"r", "w"}
        /\ over' = "no" /\ down = <<>> => down' = rest
        /\ Held' /\ over' \in {"no", "done"}
        /\ pending' \in Seq(1 .. NClient) /\ (over' = "no" => pending' = pending)
    <2>1. CASE AllRelayed(n)
      <3>1. /\ over' = "done" /\ pending' = <<>> /\ down' = <<>> /\ cev' = {} /\ uev' = {}
            /\ upaused' = upaused
        BY <1>1, <2>1 DEF Ended
      <3>2. <<>> \in Seq(1 .. NClient) /\ <<>> \in Seq(1 .. NResponse)
        BY EmptySeq
      <3> QED
        BY <3>1, <3>2, Typed DEF Held
    <2>2. CASE ~AllRelayed(n)
      <3>1. Hold(rest) /\ UNCHANGED <<pending, over, kind>>
        BY <1>1, <2>2
      <3>2. /\ down' \in Seq(1 .. NResponse) /\ upaused' \in BOOLEAN
            /\ cev' \subseteq {"r", "w"} /\ uev' \subseteq {"r", "w"}
            /\ down = <<>> => down' = rest
            /\ Held'
        BY <1>4, <3>1, HoldStep
      <3> QED
        BY <1>2, <3>1, <3>2, Typed
    <2> QED
      BY <2>1, <2>2
  <1>6. TypeOK'
    <2>1. hdr' \in Seq(1 .. NResponse)
      BY <1>1, EmptySeq
    <2> QED
      BY <1>1, <1>2, <1>4, <1>5, <2>1 DEF IInv, TypeOK
  <1>7. ResponseInOrder'
    <2> SUFFICES ASSUME head' # "raw"
                 PROVE  IF over' = "no" THEN Cat(Cat(clgot', down'), hdr') = Bytes(1, uread')
                                        ELSE Unbroken(clgot')
      BY <1>1 DEF ResponseInOrder, Unbroken, Cat
    <2>1. down = <<>> /\ Cat(clgot, hdr) = Bytes(1, uread)
      BY <1>1, <1>2, NothingHeld DEF Requests
    <2>2. Cat(clgot, out) = Cat(Cat(clgot, hdr), new)
      <3>1. clgot \in Seq(1 .. NResponse) /\ hdr \in Seq(1 .. NResponse)
        BY Typed
      <3>2. new \in Seq(1 .. NResponse)
        BY <1>2
      <3> HIDE DEF new
      <3> QED
        BY <3>1, <3>2, CatFacts
    <2>3. Cat(Bytes(1, uread), new) = Bytes(1, uread + n)
      BY <1>2, Continued
    <2>4. Cat(clgot', rest) = Bytes(1, uread')
      BY <1>2, <1>4, <2>1, <2>2, <2>3
    <2>5. Cat(Cat(clgot', down'), <<>>) = Cat(clgot', down')
      <3>1. Cat(clgot', down') \in Seq(1 .. NResponse)
        BY <1>4, <1>5, CatFacts
      <3> QED
        BY <3>1, CatFacts
    <2>6. Unbroken(clgot')
      <3>1. NResponse \in Nat /\ uread' \in Nat
        BY <1>2, Typed
      <3> QED
        BY <1>4, <2>4, <3>1, FrontUnbroken
    <2> QED
      BY <1>1, <1>5, <2>1, <2>4, <2>5, <2>6
  <1>8. ClosedComplete' /\ HeadKept'
    BY <1>1, <1>5 DEF ClosedComplete, HeadKept
  <1>9. RequestInOrder'
    <2>1. Proxied => Cat(upgot, pending) = Bytes(1, cread)
      BY <1>2 DEF IInv, RequestInOrder, Cat
    <2>2. Proxied => Unbroken(upgot)
      <3>1. NClient \in Nat /\ cread \in Nat /\ upgot \in Seq(1 .. NClient)
            /\ pending \in Seq(1 .. NClient)
        BY Typed
      <3> QED
        BY <2>1, <3>1, FrontUnbroken
    <2> QED
      BY <1>1, <1>5, <2>1, <2>2 DEF RequestInOrder, Proxied, Unbroken, Cat
  <1> QED
    BY <1>5, <1>6, <1>7, <1>8, <1>9 DEF IInv

\* At the end of the upstream's stream nothing is buffered and no head is open.
LEMMA UpstreamEofStep ==
  ASSUME IInv, UpstreamEof
  PROVE  IInv'
  <1>1. /\ over = "no" /\ "r" \in uev /\ uread = NResponse
        /\ Ended("eof") /\ UNCHANGED <<kind, ahead, Transferred>>
    BY DEF UpstreamEof
  <1>2. hdr = <<>>
    BY <1>1, Typed DEF IInv, HeadKept
  <1>3. kind \in Requests /\ head # "raw" => clgot = Bytes(1, NResponse)
    BY <1>1, <1>2, NothingHeld
  <1>4. ClosedComplete'
    BY <1>1, <1>3 DEF ClosedComplete, Transferred, Requests
  <1> QED
    BY <1>1, <1>4, EndedStep DEF IInv

\* proxy_on_client_writable: the upstream is read again only when the buffer is
\* empty.
LEMMA ClientWritableStep ==
  ASSUME IInv, NEW k \in Nat, proxy_on_client_writable(k)
  PROVE  IInv'
  <1>1. /\ over = "no" /\ k <= Len(down)
        /\ clgot' = Cat(clgot, To(down, k)) /\ down' = From(down, k)
        /\ IF Drained(down')
           THEN /\ cev' = {"r"} /\ upaused' = (upaused /\ down = <<>>)
                /\ uev' = IF upaused /\ down # <<>> THEN ResumedEvents ELSE uev
           ELSE UNCHANGED <<cev, uev, upaused>>
        /\ UNCHANGED <<kind, ahead, uread, head, hdr, over, Upward>>
    BY DEF proxy_on_client_writable, Cat
  <1>2. /\ clgot' \in Seq(1 .. NResponse) /\ down' \in Seq(1 .. NResponse)
        /\ Cat(clgot', down') = Cat(clgot, down)
    <2>1. clgot \in Seq(1 .. NResponse) /\ down \in Seq(1 .. NResponse) /\ k <= Len(down)
      BY <1>1, Typed
    <2> QED
      BY <1>1, <2>1, Moved
  <1>3. down = <<>> => down' = <<>>
    <2>1. down \in Seq(1 .. NResponse) /\ Len(down') = Len(down) - k
      BY <1>1, Typed, Split
    <2>2. Len(down) \in Nat /\ (down = <<>> => Len(down) = 0)
      BY <2>1, Nonempty
    <2>3. down' = <<>> <=> Len(down') = 0
      BY <1>2, Nonempty
    <2> QED
      BY <1>1, <2>1, <2>2, <2>3
  <1>4. TypeOK'
    BY <1>1, <1>2 DEF IInv, TypeOK, Upward, ResumedEvents
  <1>5. ResponseInOrder'
    BY <1>1, <1>2 DEF IInv, ResponseInOrder, Cat
  <1>6. Held'
    BY <1>1, <1>3 DEF IInv, Held, Drained
  <1>7. ClosedComplete' /\ HeadKept' /\ RequestInOrder'
    BY <1>1, UpwardKept DEF ClosedComplete, HeadKept, IInv
  <1> QED
    BY <1>4, <1>5, <1>6, <1>7 DEF IInv

\* A read of n bytes from the client: they are bytes of the client.
LEMMA ClientReadFacts ==
  ASSUME IInv, NEW n \in Nat, cread + n <= NClient
  PROVE  /\ cread \in Nat /\ cread + n \in 0 .. NClient
         /\ \A k \in Nat : k <= n =>
              /\ Bytes(cread + 1, k) \in Seq(1 .. NClient)
              /\ Bytes(cread + k + 1, n - k) \in Seq(1 .. NClient)
              /\ k = n => Bytes(cread + k + 1, n - k) = <<>>
         /\ Bytes(cread + 1, n) \in Seq(1 .. NClient)
  <1>1. NClient \in Nat /\ cread \in Nat /\ cread + n \in 0 .. NClient
    BY Typed
  <1>2. ASSUME NEW k \in Nat, k <= n
        PROVE  /\ Bytes(cread + 1, k) \in Seq(1 .. NClient)
               /\ Bytes(cread + k + 1, n - k) \in Seq(1 .. NClient)
               /\ k = n => Bytes(cread + k + 1, n - k) = <<>>
    <2>1. /\ cread + 1 \in Nat \ {0} /\ cread + k + 1 \in Nat \ {0} /\ n - k \in Nat
          /\ (cread + 1) + k <= NClient + 1 /\ (cread + k + 1) + (n - k) <= NClient + 1
          /\ k = n => n - k = 0
      BY <1>1, <1>2
    <2> QED
      BY <1>1, <2>1, BytesTyped
  <1> QED
    BY <1>1, <1>2

\* proxy_on_body_data of a tunnel: what must wait waits behind what waits.
LEMMA BodyDataStep ==
  ASSUME IInv, NEW n \in Nat, NEW k \in Nat, proxy_on_body_data(n, k)
  PROVE  IInv'
  <1> DEFINE sent == Bytes(cread + 1, k)
             rest == Bytes(cread + k + 1, n - k)
             new == Bytes(cread + 1, n)
  <1>1. /\ over = "no" /\ kind = "tunnel" /\ cread + n <= NClient /\ cread' = cread + n
        /\ UNCHANGED <<kind, ahead, connected, over, Downward>>
    BY DEF proxy_on_body_data
  <1>2. cread \in Nat /\ cread' \in 0 .. NClient /\ new \in Seq(1 .. NClient)
    BY <1>1, ClientReadFacts
  <1>3. Cat(upgot, pending) = Bytes(1, cread)
    BY <1>1 DEF IInv, RequestInOrder, Proxied, Cat
  <1>4. /\ upgot' \in Seq(1 .. NClient) /\ pending' \in Seq(1 .. NClient)
        /\ cpaused' \in BOOLEAN /\ cev' \subseteq {"r", "w"} /\ uev' \subseteq {"r", "w"}
        /\ Cat(upgot', pending') = Bytes(1, cread')
    <2>1. CASE MustQueue
      <3>1. pending' = Cat(pending, new) /\ UNCHANGED <<upgot, cpaused, cev, uev>>
        BY <2>1 DEF proxy_on_body_data, Cat
      <3>2. /\ Cat(pending, new) \in Seq(1 .. NClient)
            /\ Cat(upgot, Cat(pending, new)) = Cat(Cat(upgot, pending), new)
        <4>1. upgot \in Seq(1 .. NClient) /\ pending \in Seq(1 .. NClient)
          BY Typed
        <4>2. new \in Seq(1 .. NClient)
          BY <1>2
        <4> HIDE DEF new
        <4> QED
          BY <4>1, <4>2, CatFacts
      <3>3. Cat(Bytes(1, cread), new) = Bytes(1, cread + n)
        BY <1>2, Continued
      <3> QED
        BY <1>1, <1>3, <3>1, <3>2, <3>3 DEF IInv, TypeOK
    <2>2. CASE ~MustQueue
      <3>1. /\ pending = <<>> /\ k <= n
            /\ upgot' = Cat(upgot, sent) /\ pending' = (IF k < n THEN rest ELSE pending)
            /\ IF k = n THEN UNCHANGED <<cpaused, cev, uev>>
               ELSE cpaused' = TRUE /\ cev' = {} /\ uev' = {"r", "w"}
        BY <2>2 DEF proxy_on_body_data, MustQueue, Cat
      <3>2. sent \in Seq(1 .. NClient) /\ rest \in Seq(1 .. NClient) /\ (k = n => rest = <<>>)
        BY <1>1, <3>1, ClientReadFacts
      <3>3. pending' = rest
        BY <3>1, <3>2
      <3>4. upgot = Bytes(1, cread)
        BY <1>3, <3>1, Typed, CatFacts
      <3>5. Cat(Cat(upgot, sent), rest) = Bytes(1, cread + n)
        BY <1>2, <3>1, <3>4, Continued
      <3>6. upgot' \in Seq(1 .. NClient)
        BY <3>1, <3>2, Typed, CatFacts
      <3> QED
        BY <1>1, <3>1, <3>2, <3>3, <3>5, <3>6 DEF IInv, TypeOK
    <2> QED
      BY <2>1, <2>2
  <1>5. TypeOK'
    BY <1>1, <1>2, <1>4 DEF IInv, TypeOK, Downward
  <1>6. RequestInOrder'
    BY <1>1, <1>4 DEF RequestInOrder, Cat
  <1>7. Held'
    BY <1>1 DEF Held, Requests
  <1> QED
    BY <1>1, <1>5, <1>6, <1>7, DownwardKept DEF IInv

\* The three handlers of a forward keep the types; the order of its bytes is
\* not promised.
LEMMA ForwardStep ==
  ASSUME IInv, NEW n \in Nat, NEW k \in Nat,
         ForwardWritable(k) \/ ForwardReadable(n, k) \/ forward_on_downstream_data(n, k)
  PROVE  IInv'
  <1>1. kind = "forward" /\ UNCHANGED <<kind, ahead, over>>
    BY DEF ForwardWritable, ForwardReadable, forward_on_downstream_data
  <1>2. hdr = <<>>
    BY <1>1 DEF IInv, HeadKept
  <1>3. TypeOK' /\ hdr' = hdr
    <2>1. CASE ForwardWritable(k)
      <3>1. /\ k <= Len(pending) /\ connected' = TRUE
            /\ upgot' = Cat(upgot, To(pending, k)) /\ pending' = From(pending, k)
            /\ uev' = (IF connected THEN uev ELSE {"r"})
            /\ UNCHANGED <<kind, ahead, cread, cpaused, cev, over, Downward>>
        BY <2>1 DEF ForwardWritable, Cat
      <3>2. pending \in Seq(1 .. NClient) /\ upgot \in Seq(1 .. NClient) /\ k <= Len(pending)
        BY <3>1, Typed
      <3>3. upgot' \in Seq(1 .. NClient) /\ pending' \in Seq(1 .. NClient)
        BY <3>1, <3>2, Moved
      <3> QED
        BY <3>1, <3>3 DEF IInv, TypeOK, Downward
    <2>2. CASE ForwardReadable(n, k)
      <3>1. /\ UpstreamRead(n) /\ k <= n /\ clgot' = Cat(clgot, Bytes(uread + 1, k))
            /\ UNCHANGED <<kind, ahead, head, hdr, down, upaused, cev, uev, over, Upward>>
        BY <2>2 DEF ForwardReadable, Cat
      <3>2. uread' \in 0 .. NResponse /\ Bytes(uread + 1, k) \in Seq(1 .. NResponse)
        BY <3>1, ReadFacts
      <3>3. clgot' \in Seq(1 .. NResponse)
        BY <3>1, <3>2, Typed, CatFacts
      <3> QED
        BY <3>1, <3>2, <3>3 DEF IInv, TypeOK, Upward
    <2>3. CASE forward_on_downstream_data(n, k)
      <3>1. /\ cread + n <= NClient /\ cread' = cread + n
            /\ k <= (IF connected THEN n ELSE 0)
            /\ upgot' = Cat(upgot, Bytes(cread + 1, k))
            /\ pending' = Cat(pending, Bytes(cread + k + 1, n - k))
            /\ uev' = (IF connected /\ k < n THEN {"r", "w"} ELSE uev)
            /\ UNCHANGED <<kind, ahead, connected, cpaused, cev, over, Downward>>
        BY <2>3 DEF forward_on_downstream_data, Cat
      <3>2. k <= n
        BY <3>1
      <3>3. /\ cread' \in 0 .. NClient /\ Bytes(cread + 1, k) \in Seq(1 .. NClient)
            /\ Bytes(cread + k + 1, n - k) \in Seq(1 .. NClient)
        BY <3>1, <3>2, ClientReadFacts
      <3>4. upgot' \in Seq(1 .. NClient) /\ pending' \in Seq(1 .. NClient)
        BY <3>1, <3>3, Typed, CatFacts
      <3> QED
        BY <3>1, <3>3, <3>4 DEF IInv, TypeOK, Downward
    <2> QED
      BY <2>1, <2>2, <2>3
  <1>4. /\ RequestInOrder' /\ ResponseInOrder' /\ ClosedComplete' /\ Held' /\ HeadKept'
    BY <1>1, <1>2, <1>3
       DEF RequestInOrder, Proxied, ResponseInOrder, ClosedComplete, Held, HeadKept, Requests
  <1> QED
    BY <1>3, <1>4 DEF IInv

\* An error ends the relay and delivers no byte.
LEMMA BrokenStep ==
  ASSUME IInv, Broken
  PROVE  IInv'
  <1>1. over = "no" /\ Ended("error") /\ UNCHANGED <<kind, ahead, Transferred>>
    BY DEF Broken
  <1>2. ClosedComplete'
    BY <1>1 DEF Ended, ClosedComplete
  <1> QED
    BY <1>1, <1>2, EndedStep DEF IInv

\* The state proxy_handler and forward_on_accept leave satisfies the invariant.
LEMMA InitStep == Init => IInv
  <1> SUFFICES ASSUME Init PROVE IInv
    OBVIOUS
  <1>1. /\ NRequest \in Nat /\ NClient \in Nat /\ NResponse \in Nat /\ NRequest <= NClient
        /\ kind \in {"plain", "framed", "unframed", "tunnel", "forward"}
    BY RelayAssumption DEF Init
  <1>2. /\ Bytes(1, NRequest) \in Seq(1 .. NClient) /\ Len(Bytes(1, NRequest)) = NRequest
        /\ Bytes(1, 0) = <<>>
    <2>1. 1 \in Nat \ {0} /\ 1 + NRequest <= NClient + 1 /\ 1 + 0 <= NClient + 1 /\ 0 \in Nat
      BY <1>1
    <2> QED
      BY <1>1, <2>1, BytesTyped
  <1>3. /\ <<>> \in Seq(1 .. NClient) /\ <<>> \in Seq(1 .. NResponse) /\ Len(<<>>) = 0
    BY EmptySeq
  <1>4. /\ pending \in Seq(1 .. NClient) /\ cread \in 0 .. NClient
        /\ Proxied => pending = Bytes(1, cread)
    <2>1. cread = Len(pending) /\ pending = (IF Proxied THEN Bytes(1, NRequest) ELSE <<>>)
      BY DEF Init
    <2>2. CASE Proxied
      BY <1>1, <1>2, <2>1, <2>2
    <2>3. CASE ~Proxied
      BY <1>1, <1>3, <2>1, <2>3
    <2> QED
      BY <2>2, <2>3
  <1>5. TypeOK
    <2>1. /\ kind \in Kinds /\ ahead \in 0 .. MaxAhead /\ over = "no" /\ head = "open"
          /\ connected = FALSE /\ cpaused = FALSE /\ upaused = FALSE
          /\ cev = {"r"} /\ uev = {"r", "w"} /\ uread = 0
          /\ hdr = <<>> /\ down = <<>> /\ clgot = <<>> /\ upgot = <<>>
      BY DEF Init
    <2>2. uread \in 0 .. NResponse
      BY <1>1, <2>1
    <2> QED
      BY <1>3, <1>4, <2>1, <2>2 DEF TypeOK
  <1>6. RequestInOrder
    <2>1. Cat(<<>>, pending) = pending
      BY <1>4, CatFacts
    <2> QED
      BY <1>4, <2>1 DEF RequestInOrder, Init, Cat
  <1>7. ResponseInOrder
    <2>1. Cat(Cat(<<>>, <<>>), <<>>) = <<>>
      BY <1>3, CatFacts
    <2> QED
      BY <1>2, <2>1 DEF ResponseInOrder, Init, Cat
  <1>8. ClosedComplete /\ Held /\ HeadKept
    BY DEF ClosedComplete, Held, HeadKept, Init
  <1> QED
    BY <1>5, <1>6, <1>7, <1>8 DEF IInv

\* Every step of the relay preserves the invariant.
LEMMA NextStep == IInv /\ [Next]_vars => IInv'
  <1> SUFFICES ASSUME IInv, [Next]_vars PROVE IInv'
    OBVIOUS
  <1>1. Sizes \subseteq Nat /\ Some \subseteq Nat /\ 0 \in Nat
    BY RelayAssumption DEF Sizes, Some
  <1>2. CASE SendUp
    BY <1>1, <1>2, UpstreamWriteStep DEF SendUp
  <1>3. CASE Respond
    BY <1>1, <1>3, RelayPlainStep, CollectHeadStep, GiveUpHeadStep, RelayKeepaliveStep
       DEF Respond
  <1>4. CASE SendDown
    BY <1>1, <1>4, ClientWritableStep DEF SendDown
  <1>5. CASE UpstreamEof
    BY <1>5, UpstreamEofStep
  <1>6. CASE WouldBlock
    BY <1>1, <1>6, UpstreamWriteStep, ForwardStep DEF WouldBlock
  <1>7. CASE Forwarding
    BY <1>1, <1>7, ForwardStep DEF Forwarding
  <1>8. CASE ClientSends
    BY <1>1, <1>8, BodyDataStep, ForwardStep DEF ClientSends
  <1>9. CASE Broken
    BY <1>9, BrokenStep
  <1>10. CASE UNCHANGED vars
    BY <1>10 DEF vars, IInv, TypeOK, RequestInOrder, ResponseInOrder, ClosedComplete, Held,
                 HeadKept, Proxied, Unbroken
  <1> QED
    BY <1>2, <1>3, <1>4, <1>5, <1>6, <1>7, <1>8, <1>9, <1>10 DEF Next

-----------------------------------------------------------------------------
\* The inductive invariant of the relay.
THEOREM Invariance == Spec => []IInv
  BY InitStep, NextStep, PTL DEF Spec

\* Buffers and counters keep their types, for messages of every length.
THEOREM RelayTyped == Spec => []TypeOK
  <1>1. IInv => TypeOK
    BY DEF IInv
  <1> QED
    BY <1>1, Invariance, PTL

\* proxy_on_upstream_write, proxy_on_body_data: the upstream of a request or a
\* tunnel gets the client's bytes in order and without gaps, however the
\* writes are cut and however the relay ends.
THEOREM RequestsInOrder == Spec => []RequestInOrder
  <1>1. IInv => RequestInOrder
    BY DEF IInv
  <1> QED
    BY <1>1, Invariance, PTL

\* proxy_on_upstream_read, proxy_relay_upstream_keepalive and
\* proxy_on_client_writable: while an exchange lasts, what its client has received,
\* the buffered rest and the head being collected are all that was read, and when
\* it has ended what was received has no gap (unless the head was given up as too
\* long).  That a framed response is received whole is not so.
THEOREM ResponsesInOrder == Spec => []ResponseInOrder
  <1>1. IInv => ResponseInOrder
    BY DEF IInv
  <1> QED
    BY <1>1, Invariance, PTL

\* The end of the upstream finds a client that has received everything.
THEOREM ClosedAfterTheLastByte == Spec => []ClosedComplete
  <1>1. IInv => ClosedComplete
    BY DEF IInv
  <1> QED
    BY <1>1, Invariance, PTL
=============================================================================
