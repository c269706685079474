--------------------------- MODULE JitBackendProofs ---------------------------
(***************************************************************************)
(* Proofs about the threads and connections of jit_backend/app.cy, for any *)
(* number of workers, peers, descriptors and pipelined requests, and every *)
(* size of the buffers.                                                    *)
(***************************************************************************)
EXTENDS JitBackend, SequenceTheorems, WellFoundedInduction, TLAPS

WorkerRecord ==
  [pc : {"start", "take", "read", "handle", "wild", "null", "send", "close"},
   fd : {0} \cup Fds, nserved : 0..MaxReq, got : Nat, len : Nat, cap : Nat, last : BOOLEAN,
   db : {0} \cup Workers]
PeerRecord == [state : {"away", "here", "left"}, sent : Nat, replies : Nat]

(* DescriptorsExclusive, one descriptor at a time.                            *)
OnePlace ==
  /\ \A f \in Fds : sock[f] # NoPeer <=>
       \/ cfd = f
       \/ \E i \in DOMAIN jobs : jobs[i] = f
       \/ \E w \in Workers : workers[w].fd = f
  /\ \A i \in DOMAIN jobs : jobs[i] # cfd
  /\ \A i \in DOMAIN jobs, w \in Workers : jobs[i] # workers[w].fd
  /\ \A w \in Workers : workers[w].fd # 0 => workers[w].fd # cfd
  /\ \A i, j \in DOMAIN jobs : jobs[i] = jobs[j] => i = j
  /\ \A v, w \in Workers : workers[v].fd # 0 /\ workers[v].fd = workers[w].fd => v = w

(* A peer is in one place: in the backlog, behind one descriptor, or away.   *)
PeersPlaced ==
  /\ \A i, j \in DOMAIN backlog : backlog[i] = backlog[j] => i = j
  /\ \A f, g \in Fds : sock[f] # NoPeer /\ sock[f] = sock[g] => f = g
  /\ \A i \in DOMAIN backlog, f \in Fds : backlog[i] # sock[f]
  /\ \A i \in DOMAIN backlog : peers[backlog[i]].state # "away"
  /\ \A f \in Fds : sock[f] # NoPeer => peers[sock[f]].state # "away"

(* Who has not reached a worker has no reply.                                *)
Unserved ==
  /\ \A p \in Peers : peers[p].state = "away" => peers[p].replies = 0
  /\ \A i \in DOMAIN backlog : peers[backlog[i]].replies = 0
  /\ \A i \in DOMAIN jobs : peers[sock[jobs[i]]].replies = 0
  /\ cfd # 0 => peers[sock[cfd]].replies = 0

(* A worker's own variables: r in slot w of the registry, dbs being the open slots. *)
WorkerOK(w, r, tid, dbs) ==
  /\ r.fd = 0 <=> r.pc \in {"start", "take"}
  /\ r.fd = 0 => r.got = 0 /\ r.len = 0 /\ r.nserved = 0
  /\ r.fd # 0 => r.len < r.cap /\ r.cap <= BufMax /\ r.len <= r.got
  /\ r.pc \in {"read", "handle", "send"} => r.nserved < MaxReq
  /\ r.pc = "send" /\ ~r.last => r.nserved + 1 < MaxReq
  /\ tid \in {0, w} /\ (r.pc # "start" => tid = w)
  /\ r.db # 0 => r.db = w /\ w \in dbs

(* What worker r knows of a plainly framed peer's requests.                   *)
PlainOK(p, r, P) ==
  LET n == r.nserved
  IN  /\ n <= Len(Meant[p]) /\ r.got - r.len = Start(p, n + 1)
      /\ P.state = "here" => P.replies = n
      /\ r.pc # "read" => n < Len(Meant[p]) /\ Start(p, n + 2) <= r.got

(* What worker r knows of peer p, P being the peer's own record.              *)
ServedOK(p, r, P) ==
  /\ r.got <= P.sent
  /\ r.pc \in {"handle", "send"} => UsedOf(p, r.got - r.len, r.got) \in 0..r.len
  /\ r.pc = "wild" => ~InRange(p)
  /\ Plain(p) /\ r.pc # "wild" => PlainOK(p, r, P)

Serving(r) == r.pc \in {"read", "handle", "send", "wild"}

(* No peer has written more than its stream.                                 *)
Written == \A p \in Peers : peers[p].sent <= Len(Stream[p])

IInv ==
  /\ TypeOK /\ OnePlace /\ PeersPlaced /\ Unserved /\ Written
  /\ \A w \in Workers : WorkerOK(w, workers[w], g_worker_tids[w], g_worker_dbs)
  /\ \A w \in Workers : Serving(workers[w]) => ServedOK(Peer(w), workers[w], peers[Peer(w)])

-----------------------------------------------------------------------------
(* The requests in a peer's stream.                                          *)

Units(request) == request.head + request.body

\* A stream's requests are typed and numbered from 1.
LEMMA MeantTyped ==
  ASSUME NEW p \in Peers
  PROVE  /\ Len(Meant[p]) \in Nat \ {0}
         /\ \A k \in 1..Len(Meant[p]) :
              Meant[p][k].at \in Nat /\ Meant[p][k].head \in Nat \ {0} /\ Meant[p][k].body \in Nat
         /\ StreamEnd(p) \in Nat
         /\ \A k \in Nat \ {0} : Start(p, k) \in Nat
         /\ Start(p, 1) = 0 /\ Start(p, Len(Meant[p]) + 1) = StreamEnd(p)
  <1> DEFINE R == [at : Nat, head : Nat \ {0}, body : Nat]
  <1>1. Meant[p] \in Seq(R) /\ Meant[p] # <<>> /\ Meant[p][1].at = 0
    BY MeantAssumption
  <1>2. Len(Meant[p]) \in Nat \ {0}
    BY <1>1, EmptySeq
  <1>3. \A k \in 1..Len(Meant[p]) : Meant[p][k] \in R
    BY <1>1, ElementOfSeq
  <1>4. \A k \in 1..Len(Meant[p]) :
          Meant[p][k].at \in Nat /\ Meant[p][k].head \in Nat \ {0} /\ Meant[p][k].body \in Nat
    BY <1>3
  <1>5. StreamEnd(p) \in Nat
    <2>1. PICK m \in 1..Len(Meant[p]) : m = Len(Meant[p])
      BY <1>2
    <2>2. Meant[p][m].at \in Nat /\ Meant[p][m].head \in Nat /\ Meant[p][m].body \in Nat
      BY <1>4
    <2>3. StreamEnd(p) = Meant[p][m].at + Meant[p][m].head + Meant[p][m].body
      BY <2>1 DEF StreamEnd
    <2>4. PICK a \in Nat, h \in Nat, b \in Nat :
            a = Meant[p][m].at /\ h = Meant[p][m].head /\ b = Meant[p][m].body
      BY <2>2
    <2>5. StreamEnd(p) = a + h + b
      BY <2>3, <2>4
    <2> QED
      BY <2>5
  <1>6. \A k \in Nat \ {0} : Start(p, k) \in Nat
    <2>1. TAKE k \in Nat \ {0}
    <2>2. k <= Len(Meant[p]) => k \in 1..Len(Meant[p])
      BY <1>2
    <2> QED
      BY <1>4, <1>5, <2>2 DEF Start
  <1>7. 1 <= Len(Meant[p]) /\ ~(Len(Meant[p]) + 1 <= Len(Meant[p]))
    BY <1>2
  <1>8. Start(p, 1) = 0 /\ Start(p, Len(Meant[p]) + 1) = StreamEnd(p)
    BY <1>1, <1>7 DEF Start
  <1> QED
    BY <1>2, <1>4, <1>5, <1>6, <1>8

\* A request begins where the one before it ends.
LEMMA StartNext ==
  ASSUME NEW p \in Peers, NEW k \in 1..Len(Meant[p])
  PROVE  Start(p, k + 1) = Start(p, k) + Meant[p][k].head + Meant[p][k].body
  <1>1. Len(Meant[p]) \in Nat
    BY MeantTyped
  <1>2. CASE k = Len(Meant[p])
    BY <1>1, <1>2 DEF Start, StreamEnd
  <1>3. CASE k # Len(Meant[p])
    <2>1. k \in 1..(Len(Meant[p]) - 1)
      BY <1>1, <1>3
    <2>2. Meant[p][k + 1].at = Meant[p][k].at + Meant[p][k].head + Meant[p][k].body
      BY <2>1, MeantAssumption
    <2> QED
      BY <1>1, <2>1, <2>2 DEF Start
  <1> QED
    BY <1>2, <1>3

\* Natural numbers have least elements.
LEMMA LeastNat ==
  ASSUME NEW T, T \subseteq Nat, T # {}
  PROVE  \E i \in T : \A j \in T : i <= j
  <1> DEFINE R == OpToRel(<, Nat)
  <1>1. IsWellFoundedOn(R, Nat)
    BY NatLessThanWellFounded
  <1>2. \A i, j \in Nat : <<j, i>> \in R <=> j < i
    BY DEF OpToRel
  <1> HIDE DEF R
  <1>3. PICK i \in T : \A j \in T : ~(<<j, i>> \in R)
    BY <1>1, WFMin
  <1>4. \A j \in T : i <= j
    <2>1. TAKE j \in T
    <2>2. i \in Nat /\ j \in Nat
      OBVIOUS
    <2>3. ~(j < i)
      BY <1>2, <1>3, <2>2
    <2> QED
      BY <2>2, <2>3
  <1> QED
    BY <1>4

-----------------------------------------------------------------------------
(* What the invariant says of a worker and of the descriptor table.          *)

\* A busy worker's descriptor is open and leads to a peer.
LEMMA PeerOfWorker ==
  ASSUME IInv, NEW w \in Workers, workers[w].fd # 0
  PROVE  workers[w].fd \in Fds /\ sock[workers[w].fd] \in Peers /\ Peer(w) \in Peers
  <1>1. workers[w].fd \in Fds
    BY DEF IInv, TypeOK
  <1>2. sock[workers[w].fd] # NoPeer
    BY <1>1 DEF IInv, OnePlace
  <1> QED
    BY <1>1, <1>2 DEF IInv, TypeOK, Peer

\* The pointwise form is the property that the run checks.
LEMMA OnePlaceExclusive ==
  ASSUME TypeOK, OnePlace
  PROVE  DescriptorsExclusive
  <1>1. 0 \notin Fds /\ cfd \in {0} \cup Fds /\ \A i \in DOMAIN jobs : jobs[i] \in Fds
    <2>1. jobs \in Seq(Fds) /\ cfd \in {0} \cup Fds
      BY DEF TypeOK
    <2>2. \A i \in DOMAIN jobs : jobs[i] \in Fds
      BY <2>1
    <2> QED
      BY <2>1, <2>2 DEF Fds
  <1>2. \A w \in Workers : workers[w].fd \in {0} \cup Fds
    BY DEF TypeOK
  <1>3. Queued \cup InHand \cup Held \subseteq Fds \ FreeFds
    BY <1>1, <1>2 DEF OnePlace, Queued, InHand, Held, Busy, FreeFds
  <1>4. Fds \ FreeFds \subseteq Queued \cup InHand \cup Held
    BY <1>1, <1>2 DEF OnePlace, Queued, InHand, Held, Busy, FreeFds
  <1>5. Queued \cap InHand = {} /\ Queued \cap Held = {} /\ InHand \cap Held = {}
    BY <1>1, <1>2 DEF OnePlace, Queued, InHand, Held, Busy
  <1> QED
    BY <1>3, <1>4, <1>5 DEF OnePlace, DescriptorsExclusive, Busy

\* A request is as long as the distance to the next.
LEMMA RequestUnits ==
  ASSUME NEW p \in Peers, NEW n \in Nat, n < Len(Meant[p])
  PROVE  Units(Meant[p][n + 1]) = Start(p, n + 2) - Start(p, n + 1)
  <1>1. Len(Meant[p]) \in Nat /\ \A k \in Nat \ {0} : Start(p, k) \in Nat
    BY MeantTyped
  <1>2. n + 1 \in 1..Len(Meant[p]) /\ (n + 1) + 1 = n + 2
        /\ n + 1 \in Nat \ {0} /\ n + 2 \in Nat \ {0}
    BY <1>1
  <1>3. Start(p, n + 2) = Start(p, n + 1) + Meant[p][n + 1].head + Meant[p][n + 1].body
    BY <1>2, StartNext
  <1>4. Meant[p][n + 1].head \in Nat /\ Meant[p][n + 1].body \in Nat
    BY <1>2, MeantTyped
  <1>5. Start(p, n + 1) \in Nat /\ Start(p, n + 2) \in Nat
    BY <1>1, <1>2
  <1> QED
    BY <1>3, <1>4, <1>5 DEF Units

-----------------------------------------------------------------------------
(* What http_handle_client finds in a buffer.                                *)

\* Lowest finds the least number of a set.
LEMMA LowestIs ==
  ASSUME NEW S, S \subseteq Nat, S # {}
  PROVE  Lowest(S) \in S /\ \A g \in S : Lowest(S) <= g
  <1>1. \E f \in S : \A g \in S : f <= g
    BY LeastNat
  <1> QED
    BY <1>1 DEF Lowest

\* A long keeps what is in its range and wraps everything else into it.
LEMMA WrapIs ==
  ASSUME NEW v \in Int
  PROVE  /\ Wrap(v) \in Int
         /\ v \in 0..(LongHalf - 1) => Wrap(v) = v
  <1>1. PICK h \in Nat \ {0} : h = LongHalf
    BY JitAssumption
  <1>2. (v + h) % (2 * h) \in Nat
    BY <1>1
  <1>3. ASSUME v \in 0..(h - 1) PROVE (v + h) % (2 * h) = v + h
    <2>1. PICK a \in Nat, m \in Nat \ {0} : a = v + h /\ m = 2 * h /\ a < m
      BY <1>3
    <2>2. a % m = a
      BY <2>1
    <2> QED
      BY <2>1, <2>2
  <1> QED
    BY <1>1, <1>2, <1>3 DEF Wrap

\* The units of a stream are typed.
LEMMA UnitTyped ==
  ASSUME NEW p \in Peers, NEW i \in 1..Len(Stream[p])
  PROVE  Stream[p][i].number \in Nat /\ Len(Stream[p]) \in Nat
  <1> DEFINE U == [kind : {"text", "length", "blank", "nul"}, field : BOOLEAN, number : Nat]
  <1>1. Stream[p] \in Seq(U)
    BY JitAssumption
  <1>2. Stream[p][i] \in U
    BY <1>1, ElementOfSeq
  <1> QED
    BY <1>1, <1>2

\* What content_length_of returns is a long.
LEMMA LengthTyped ==
  ASSUME NEW p \in Peers, NEW b \in Nat, NEW e \in Nat, e <= Len(Stream[p])
  PROVE  /\ content_length_of(p, b, e) \in Int
         /\ LengthTexts(p, b, e) # {} =>
              /\ Lowest(LengthTexts(p, b, e)) \in LengthTexts(p, b, e)
              /\ \A i \in LengthTexts(p, b, e) : Lowest(LengthTexts(p, b, e)) <= i
              /\ Lowest(LengthTexts(p, b, e)) \in 1..Len(Stream[p])
              /\ Stream[p][Lowest(LengthTexts(p, b, e))].number \in Nat
  <1> DEFINE T == LengthTexts(p, b, e)
  <1>1. CASE T = {}
    BY <1>1 DEF content_length_of
  <1>2. CASE T # {}
    <2>1. T \subseteq Nat /\ \A i \in T : i \in (b + 1)..e
      BY DEF LengthTexts
    <2> HIDE DEF T
    <2>2. Lowest(T) \in T /\ \A i \in T : Lowest(T) <= i
      BY <1>2, <2>1, LowestIs
    <2>3. Len(Stream[p]) \in Nat
      BY JitAssumption, LenProperties
    <2>4. Lowest(T) \in 1..Len(Stream[p])
      <3>1. PICK x \in (b + 1)..e : x = Lowest(T)
        BY <2>1, <2>2
      <3>2. x \in 1..Len(Stream[p])
        BY <2>3
      <3> QED
        BY <3>1, <3>2
    <2>5. Stream[p][Lowest(T)].number \in Nat
      BY <2>4, UnitTyped
    <2>6. Wrap(Stream[p][Lowest(T)].number) \in Int
      <3>1. PICK v \in Int : v = Stream[p][Lowest(T)].number
        BY <2>5
      <3> QED
        BY <3>1, WrapIs
    <2> USE DEF T
    <2> QED
      BY <1>2, <2>2, <2>4, <2>5, <2>6 DEF content_length_of
  <1> QED
    BY <1>1, <1>2

\* The head that is found ends in the buffer, and what it uses is a long.
LEMMA HeadFound ==
  ASSUME NEW p \in Peers, NEW b \in Nat, NEW g \in Nat, g <= Len(Stream[p]),
         HeadEnds(p, b, g) # {}
  PROVE  /\ Lowest(HeadEnds(p, b, g)) \in HeadEnds(p, b, g)
         /\ \A i \in HeadEnds(p, b, g) : Lowest(HeadEnds(p, b, g)) <= i
         /\ header_end(p, b, g) \in 1..(g - b)
         /\ b + header_end(p, b, g) = Lowest(HeadEnds(p, b, g))
         /\ UsedOf(p, b, g) \in Int
  <1> DEFINE H == HeadEnds(p, b, g)
  <1>1. H \subseteq Nat /\ \A i \in H : i \in (b + 1)..g
    BY DEF HeadEnds
  <1>2. Lowest(H) \in H /\ \A i \in H : Lowest(H) <= i
    <2> HIDE DEF H
    <2> QED
      BY <1>1, LowestIs DEF H
  <1>3. PICK x \in (b + 1)..g : x = Lowest(H)
    BY <1>1, <1>2
  <1>4. header_end(p, b, g) = x - b
    BY <1>3 DEF header_end
  <1>5. header_end(p, b, g) \in 1..(g - b) /\ b + header_end(p, b, g) = x
    BY <1>4
  <1>6. content_length_of(p, b, x) \in Int
    <2>1. Len(Stream[p]) \in Nat
      BY JitAssumption, LenProperties
    <2>2. x \in Nat /\ x <= Len(Stream[p])
      BY <2>1
    <2> QED
      BY <2>2, LengthTyped
  <1>7. header_end(p, b, g) + content_length_of(p, b, x) \in Int
    <2>1. header_end(p, b, g) \in Int
      BY <1>5
    <2> QED
      BY <1>6, <2>1
  <1>8. UsedOf(p, b, g) \in Int
    BY <1>5, <1>7, WrapIs DEF UsedOf
  <1> QED
    BY <1>2, <1>3, <1>5, <1>8

\* Numbers in range never make header_end + content_len negative.
LEMMA UsedInRange ==
  ASSUME NEW p \in Peers, NEW b \in Nat, NEW g \in Nat, g <= Len(Stream[p]), g - b < BufMax,
         HeadEnds(p, b, g) # {}, InRange(p)
  PROVE  UsedOf(p, b, g) >= 0
  <1>1. PICK h \in 1..(g - b) : h = header_end(p, b, g)
    BY HeadFound
  <1>2. BufMax \in Nat /\ LongHalf \in Nat /\ BufMax < LongHalf /\ Len(Stream[p]) \in Nat
    BY JitAssumption, LenProperties
  <1>3. b + h \in Nat /\ b + h <= Len(Stream[p]) /\ h \in Nat /\ h < BufMax
    BY <1>1, <1>2
  <1> DEFINE T == LengthTexts(p, b, b + h)
  <1>4. CASE T = {}
    <2>1. content_length_of(p, b, b + h) = 0
      BY <1>4 DEF content_length_of
    <2>2. h + 0 \in 0..(LongHalf - 1)
      BY <1>2, <1>3
    <2>3. Wrap(h + 0) = h + 0
      BY <2>2, WrapIs
    <2> QED
      BY <1>1, <1>3, <2>1, <2>3 DEF UsedOf
  <1>5. CASE T # {}
    <2>1. Lowest(T) \in T /\ Lowest(T) \in 1..Len(Stream[p]) /\ Stream[p][Lowest(T)].number \in Nat
      BY <1>3, <1>5, LengthTyped
    <2>2. Stream[p][Lowest(T)].kind = "length"
      BY <2>1 DEF LengthTexts
    <2>3. DOMAIN Stream[p] = 1..Len(Stream[p])
      BY JitAssumption, LenProperties
    <2>4. PICK v \in Nat : v = Stream[p][Lowest(T)].number
      BY <2>1
    <2>5. v + BufMax <= LongHalf
      BY <2>1, <2>2, <2>3, <2>4 DEF InRange
    <2>6. v \in 0..(LongHalf - 1) /\ h + v \in 0..(LongHalf - 1)
      BY <1>2, <1>3, <2>5
    <2>7. Wrap(v) = v /\ Wrap(h + v) = h + v
      BY <2>6, WrapIs
    <2>8. content_length_of(p, b, b + h) = v
      BY <1>5, <2>4, <2>7 DEF content_length_of
    <2> QED
      BY <1>1, <1>3, <2>4, <2>7, <2>8 DEF UsedOf
  <1> QED
    BY <1>4, <1>5

\* In a plainly framed head, the first content-length is the field the peer means.
LEMMA PlainLength ==
  ASSUME NEW p \in Peers, Plain(p), NEW k \in 1..Len(Meant[p]),
         NEW a \in Nat, a = Meant[p][k].at, NEW h \in Nat, h = Meant[p][k].head
  PROVE  content_length_of(p, a, a + h) = Meant[p][k].body /\ a + h <= Len(Stream[p])
  <1> DEFINE r == Meant[p][k]
             T == LengthTexts(p, a, a + h)
             F == FieldsOf(p, r)
  <1>1. /\ a + h <= Len(Stream[p])
        /\ T # {} => Stream[p][Lowest(T)].field
        /\ r.body = IF F = {} THEN 0 ELSE Stream[p][Lowest(F)].number
        /\ r.head + r.body < LongHalf
    BY MeantAssumption DEF Plain
  <1>2. F = {i \in T : Stream[p][i].field}
    BY DEF FieldsOf, LengthTexts
  <1>3. r.body \in Nat /\ r.head \in Nat
    BY MeantTyped
  <1>4. CASE T = {}
    <2>1. F = {}
      BY <1>2, <1>4
    <2>2. r.body = 0
      BY <1>1, <2>1
    <2>3. content_length_of(p, a, a + h) = 0
      BY <1>4 DEF content_length_of
    <2> QED
      BY <1>1, <2>2, <2>3
  <1>5. CASE T # {}
    <2>0. a + h \in Nat /\ T \subseteq Nat
      BY DEF LengthTexts
    <2>1. Lowest(T) \in T /\ (\A i \in T : Lowest(T) <= i) /\ T \subseteq Nat
      <3>1. Lowest(T) \in T /\ \A i \in T : Lowest(T) <= i
        BY <1>1, <1>5, <2>0, LengthTyped
      <3> QED
        BY <2>0, <3>1
    <2>2. Lowest(T) \in F
      <3>1. Stream[p][Lowest(T)].field
        BY <1>1, <1>5
      <3> HIDE DEF T, F
      <3> QED
        BY <1>2, <2>1, <3>1
    <2>3. F \subseteq Nat /\ F # {}
      BY <1>2, <2>1, <2>2
    <2> HIDE DEF T, F
    <2>4. Lowest(F) \in F /\ \A i \in F : Lowest(F) <= i
      BY <2>3, LowestIs
    <2>5. Lowest(F) \in T
      BY <1>2, <2>4
    <2>6. Lowest(F) = Lowest(T)
      <3>1. PICK x \in Nat, y \in Nat : x = Lowest(F) /\ y = Lowest(T)
        BY <2>1, <2>3, <2>4
      <3>2. x <= y /\ y <= x
        BY <2>1, <2>2, <2>4, <2>5, <3>1
      <3> QED
        BY <3>1, <3>2
    <2>7. r.body = Stream[p][Lowest(T)].number
      BY <1>1, <2>3, <2>6
    <2>8. r.body \in 0..(LongHalf - 1)
      <3>1. LongHalf \in Nat
        BY JitAssumption
      <3> QED
        BY <1>1, <1>3, <3>1
    <2>9. Wrap(r.body) = r.body
      <3>1. PICK v \in Int : v = r.body
        BY <1>3
      <3> QED
        BY <2>8, <3>1, WrapIs
    <2>10. content_length_of(p, a, a + h) = Wrap(Stream[p][Lowest(T)].number)
      BY <1>5 DEF content_length_of, T
    <2> QED
      BY <1>1, <2>7, <2>9, <2>10
  <1> QED
    BY <1>4, <1>5

\* A buffer that begins with a plainly framed request: it is found whole exactly when
\* what was received reaches the start of the next, and is as long as the peer means.
LEMMA PlainFound ==
  ASSUME NEW p \in Peers, Plain(p), NEW n \in Nat, n < Len(Meant[p]),
         NEW b \in Nat, b = Start(p, n + 1), NEW g \in Nat, g <= Len(Stream[p])
  PROVE  /\ HeadEnds(p, b, g) # {} => UsedOf(p, b, g) = Start(p, n + 2) - Start(p, n + 1)
         /\ WholeIn(p, b, g) <=> Start(p, n + 2) <= g
  <1> DEFINE r == Meant[p][n + 1]
             E == HeadEnds(p, b, g)
  <1>1. Len(Meant[p]) \in Nat /\ Len(Stream[p]) \in Nat
    BY MeantTyped, JitAssumption, LenProperties
  <1>2. n + 1 \in 1..Len(Meant[p])
    BY <1>1
  <1>3. PICK h \in Nat \ {0}, d \in Nat : h = r.head /\ d = r.body
    BY <1>2, MeantTyped
  <1>4. b = r.at
    BY <1>1, <1>2 DEF Start
  <1>5. /\ b + h <= Len(Stream[p]) /\ Stream[p][b + h].kind = "blank"
        /\ \A i \in (b + 1)..(b + h - 1) : Stream[p][i].kind # "blank"
        /\ \A i \in (b + 1)..(b + h) : Stream[p][i].kind # "nul"
        /\ h + d < LongHalf
    <2>1. /\ r.at + r.head <= Len(Stream[p]) /\ Stream[p][r.at + r.head].kind = "blank"
          /\ \A i \in (r.at + 1)..(r.at + r.head - 1) : Stream[p][i].kind # "blank"
      BY <1>2, MeantAssumption
    <2>2. /\ \A i \in (r.at + 1)..(r.at + r.head) : Stream[p][i].kind # "nul"
          /\ r.head + r.body < LongHalf
      BY <1>2 DEF Plain
    <2> HIDE DEF r
    <2> QED
      BY <1>3, <1>4, <2>1, <2>2
  <1>6. Start(p, n + 2) = b + (h + d) /\ Start(p, n + 1) = b
    <2>1. Units(r) = Start(p, n + 2) - Start(p, n + 1)
      BY RequestUnits
    <2>2. PICK s \in Nat : s = Start(p, n + 2)
      BY MeantTyped
    <2>3. h + d = s - b
      BY <1>3, <2>1, <2>2 DEF Units
    <2> QED
      BY <2>2, <2>3
  <1>7. \A i \in E : b + h <= i /\ i <= g
    <2>1. TAKE i \in E
    <2>2. i \in (b + 1)..g /\ Stream[p][i].kind = "blank"
      BY DEF HeadEnds
    <2>3. ~(i \in (b + 1)..(b + h - 1))
      BY <1>5, <2>2
    <2> QED
      BY <2>2, <2>3
  <1>8. b + h <= g => b + h \in E
    BY <1>5 DEF HeadEnds
  <1>9. ASSUME E # {} PROVE UsedOf(p, b, g) = h + d /\ b + h <= g
    <2>1. b + h <= g
      <3>1. PICK i \in E : TRUE
        BY <1>9
      <3>2. i \in Nat
        BY DEF HeadEnds
      <3> HIDE DEF E
      <3> QED
        BY <1>7, <3>2
    <2>2. PICK x \in Nat : x = Lowest(E) /\ x \in E /\ \A i \in E : x <= i
      <3>1. E \subseteq Nat
        BY DEF HeadEnds
      <3> QED
        BY <1>9, <3>1, HeadFound
    <2>3. x = b + h
      BY <1>7, <1>8, <2>1, <2>2
    <2>4. header_end(p, b, g) = h
      BY <2>2, <2>3 DEF header_end
    <2>5. content_length_of(p, b, b + h) = d
      BY <1>2, <1>3, <1>4, PlainLength
    <2>6. Wrap(h + d) = h + d
      <3>1. h + d \in 0..(LongHalf - 1)
        BY <1>5, JitAssumption
      <3> QED
        BY <3>1, WrapIs
    <2> QED
      BY <2>1, <2>4, <2>5, <2>6 DEF UsedOf
  <1>10. WholeIn(p, b, g) <=> b + (h + d) <= g
    <2>1. CASE E = {}
      BY <1>8, <2>1 DEF WholeIn
    <2>2. CASE E # {}
      <3>1. UsedOf(p, b, g) = h + d
        BY <1>9, <2>2
      <3> QED
        BY <2>2, <3>1 DEF WholeIn
    <2> QED
      BY <2>1, <2>2
  <1>11. E # {} => UsedOf(p, b, g) = (b + (h + d)) - b
    BY <1>9
  <1> HIDE DEF E
  <1> QED
    BY <1>6, <1>10, <1>11 DEF E

\* Behind the last request there is no whole head.
LEMMA NothingBehind ==
  ASSUME NEW p \in Peers, NEW b \in Nat, b = StreamEnd(p), NEW g \in Nat, g <= Len(Stream[p])
  PROVE  ~WholeIn(p, b, g)
  <1>1. Len(Stream[p]) \in Nat
    BY JitAssumption, LenProperties
  <1>2. \A i \in (b + 1)..g : Stream[p][i].kind # "blank"
    BY <1>1, MeantAssumption
  <1>3. HeadEnds(p, b, g) = {}
    BY <1>2 DEF HeadEnds
  <1> QED
    BY <1>3 DEF WholeIn

\* The same for a worker: Complete, and what Send takes from the buffer.
LEMMA CompleteIs ==
  ASSUME NEW w \in Workers, Peer(w) \in Peers, Plain(Peer(w)), workers[w] \in WorkerRecord,
         workers[w].nserved <= Len(Meant[Peer(w)]), workers[w].got <= Len(Stream[Peer(w)]),
         workers[w].got - workers[w].len = Start(Peer(w), workers[w].nserved + 1)
  PROVE  /\ Complete(w) <=> /\ workers[w].nserved < Len(Meant[Peer(w)])
                            /\ Start(Peer(w), workers[w].nserved + 2) <= workers[w].got
         /\ Complete(w) =>
              Used(w) = Start(Peer(w), workers[w].nserved + 2) - Start(Peer(w), workers[w].nserved + 1)
  <1>1. PICK p \in Peers, n \in Nat, g \in Nat, L \in Nat :
          p = Peer(w) /\ n = workers[w].nserved /\ g = workers[w].got /\ L = Len(Meant[p])
    <2>1. workers[w].nserved \in Nat /\ workers[w].got \in Nat
      BY JitAssumption DEF WorkerRecord
    <2>2. Len(Meant[Peer(w)]) \in Nat
      BY MeantTyped
    <2> QED
      BY <2>1, <2>2
  <1>2. PICK b \in Nat : b = Start(p, n + 1)
    BY MeantTyped
  <1>3. n <= L /\ Base(w) = b /\ Plain(p) /\ g <= Len(Stream[p])
    BY <1>1, <1>2 DEF Base
  <1>4. Complete(w) = WholeIn(p, b, g) /\ Used(w) = UsedOf(p, b, g)
    BY <1>1, <1>3 DEF Complete, Used
  <1>5. CASE n < L
    <2>0. n < Len(Meant[p])
      BY <1>1, <1>5
    <2>1. /\ HeadEnds(p, b, g) # {} => UsedOf(p, b, g) = Start(p, n + 2) - Start(p, n + 1)
          /\ WholeIn(p, b, g) <=> Start(p, n + 2) <= g
      BY <1>2, <1>3, <2>0, PlainFound
    <2>2. WholeIn(p, b, g) => HeadEnds(p, b, g) # {}
      BY DEF WholeIn
    <2> QED
      BY <1>1, <1>4, <1>5, <2>1, <2>2
  <1>6. CASE ~(n < L)
    <2>1. n = L
      BY <1>3, <1>6
    <2>2. b = StreamEnd(p)
      BY <1>1, <1>2, <2>1, MeantTyped
    <2>3. ~WholeIn(p, b, g)
      BY <1>3, <2>2, NothingBehind
    <2> QED
      BY <1>1, <1>4, <1>6, <2>3
  <1> QED
    BY <1>5, <1>6

\* A worker finds its own slot in the registry, whichever others have run.
LEMMA OwnConnection ==
  ASSUME IInv, NEW w \in Workers, g_worker_tids[w] = w, NEW opens \in BOOLEAN
  PROVE  get_db(w, opens) \in {0, w}
  <1>1. w # 0 /\ DOMAIN g_worker_tids = Workers
    BY JitAssumption DEF IInv, TypeOK
  <1>2. \A i \in Workers : g_worker_tids[i] = w => i = w
    BY <1>1 DEF IInv, WorkerOK
  <1>3. Slots(w) = {w}
    BY <1>1, <1>2 DEF Slots
  <1>4. (CHOOSE i \in Slots(w) : TRUE) = w
    BY <1>3
  <1> QED
    BY <1>3, <1>4 DEF get_db

\* The kernel hands out a number that is free.
LEMMA LowestIsFree ==
  ASSUME FreeFds # {}
  PROVE  Lowest(FreeFds) \in FreeFds
  <1>1. FreeFds \subseteq Nat
    BY DEF FreeFds, Fds
  <1>2. \E f \in FreeFds : \A g \in FreeFds : f <= g
    BY <1>1, LeastNat
  <1> QED
    BY <1>2 DEF Lowest

-----------------------------------------------------------------------------
(* The initial state and the steps of the worker threads.                    *)

\* The backend starts in the invariant: idle workers, empty channel, no descriptor used.
LEMMA InitIInv == Init => IInv
  <1>1. SUFFICES ASSUME Init PROVE IInv
    OBVIOUS
  <1>2. DOMAIN backlog = {} /\ DOMAIN jobs = {} /\ 0 \notin Fds
    BY <1>1 DEF Init, Fds
  <1>3. \A w \in Workers : /\ workers[w] \in WorkerRecord
                           /\ workers[w].pc = "start" /\ workers[w].fd = 0
                           /\ workers[w].got = 0 /\ workers[w].len = 0 /\ workers[w].nserved = 0
    <2>1. TAKE w \in Workers
    <2>2. workers[w] = [pc |-> "start", fd |-> 0, nserved |-> 0, got |-> 0, len |-> 0,
                        cap |-> 0, last |-> FALSE, db |-> 0]
      BY <1>1 DEF Init, IdleWorker
    <2>3. 0 \in 0..MaxReq
      BY JitAssumption
    <2> QED
      BY <2>2, <2>3 DEF WorkerRecord
  <1>4. TypeOK
    <2>1. workers \in [Workers -> WorkerRecord]
      BY <1>1, <1>3 DEF Init
    <2>2. peers \in [Peers -> PeerRecord]
      BY <1>1 DEF Init, Absent, PeerRecord
    <2>3. sock \in [Fds -> Peers \cup {NoPeer}] /\ cfd \in {0} \cup Fds
      BY <1>1 DEF Init
    <2>4. backlog \in Seq(Peers) /\ jobs \in Seq(Fds) /\ Len(backlog) <= Backlog /\ Len(jobs) <= ChanCap
      BY <1>1, JitAssumption DEF Init
    <2>5. g_worker_tids \in [Workers -> {0} \cup Workers] /\ g_worker_dbs \subseteq Workers
      BY <1>1 DEF Init
    <2> QED
      BY <2>1, <2>2, <2>3, <2>4, <2>5 DEF TypeOK, WorkerRecord, PeerRecord
  <1>5. OnePlace
    BY <1>1, <1>2, <1>3 DEF Init, OnePlace
  <1>6. PeersPlaced
    BY <1>1, <1>2 DEF Init, PeersPlaced
  <1>7. Unserved
    BY <1>1, <1>2 DEF Init, Unserved, Absent
  <1>9. Written
    <2>1. \A p \in Peers : Len(Stream[p]) \in Nat /\ peers[p].sent = 0
      BY <1>1, JitAssumption, LenProperties DEF Init, Absent
    <2> QED
      BY <2>1 DEF Written
  <1>8. \A w \in Workers : WorkerOK(w, workers[w], g_worker_tids[w], g_worker_dbs)
    <2>1. TAKE w \in Workers
    <2>2. g_worker_tids[w] = 0 /\ workers[w].db = 0
      BY <1>1 DEF Init, IdleWorker
    <2> QED
      BY <1>3, <2>2 DEF WorkerOK
  <1> QED
    BY <1>3, <1>4, <1>5, <1>6, <1>7, <1>8, <1>9 DEF IInv, Serving

\* The types of one worker's variables.
LEMMA WorkerTyped ==
  ASSUME IInv, NEW w \in Workers
  PROVE  /\ workers \in [Workers -> WorkerRecord] /\ workers[w] \in WorkerRecord
         /\ workers[w].pc \in {"start", "take", "read", "handle", "wild", "null", "send", "close"}
         /\ workers[w].fd \in {0} \cup Fds /\ workers[w].nserved \in Nat
         /\ workers[w].got \in Nat /\ workers[w].len \in Nat /\ workers[w].cap \in Nat
         /\ workers[w].last \in BOOLEAN /\ workers[w].db \in {0} \cup Workers
         /\ MaxReq \in Nat \ {0} /\ CapStart \in Nat /\ 2 <= CapStart /\ CapStart <= BufMax
         /\ BufMax \in Nat
  <1>1. workers \in [Workers -> WorkerRecord]
    BY DEF IInv, TypeOK, WorkerRecord
  <1>2. MaxReq \in Nat \ {0} /\ CapStart \in Nat /\ 2 <= CapStart /\ CapStart <= BufMax /\ BufMax \in Nat
    BY JitAssumption
  <1>3. workers[w] \in WorkerRecord
    BY <1>1
  <1> QED
    BY <1>1, <1>2, <1>3 DEF WorkerRecord

\* A step that changes only one worker's variables, and not its descriptor.
LEMMA LocalStep ==
  ASSUME IInv, NEW w \in Workers, workers' \in [Workers -> WorkerRecord],
         \A v \in Workers \ {w} : workers'[v] = workers[v],
         workers'[w].fd = workers[w].fd,
         g_worker_tids' \in [Workers -> {0} \cup Workers],
         \A v \in Workers \ {w} : g_worker_tids'[v] = g_worker_tids[v],
         g_worker_dbs' \subseteq Workers, g_worker_dbs \subseteq g_worker_dbs',
         UNCHANGED <<remote, sock, cfd, jobs>>,
         WorkerOK(w, workers'[w], g_worker_tids'[w], g_worker_dbs'),
         Serving(workers'[w]) => ServedOK(Peer(w), workers'[w], peers[Peer(w)])
  PROVE  IInv'
  <1>3. \A v \in Workers : workers'[v].fd = workers[v].fd
    OBVIOUS
  <1>4. TypeOK'
    BY DEF IInv, TypeOK, remote, WorkerRecord
  <1>5. OnePlace'
    BY <1>3 DEF IInv, OnePlace
  <1>6. PeersPlaced' /\ Unserved' /\ Written'
    BY DEF IInv, PeersPlaced, Unserved, Written, remote
  <1>7. \A v \in Workers : WorkerOK(v, workers'[v], g_worker_tids'[v], g_worker_dbs')
    BY DEF IInv, WorkerOK
  <1>8. \A v \in Workers : Peer(v)' = Peer(v) /\ peers' = peers
    BY <1>3 DEF Peer, remote
  <1>9. \A v \in Workers : Serving(workers'[v]) => ServedOK(Peer(v)', workers'[v], peers'[Peer(v)'])
    BY <1>8 DEF IInv
  <1> QED
    BY <1>4, <1>5, <1>6, <1>7, <1>9 DEF IInv

\* The thread enters its number before it takes a connection.
LEMMA RegisterStep ==
  ASSUME IInv, NEW w \in Workers, Register(w)
  PROVE  IInv'
  <1>1. workers'[w] = [workers[w] EXCEPT !.pc = "take"]
        /\ \A v \in Workers \ {w} : workers'[v] = workers[v]
    BY WorkerTyped DEF Register
  <1>2. workers' \in [Workers -> WorkerRecord]
    BY WorkerTyped DEF Register, WorkerRecord
  <1>3. /\ g_worker_tids' \in [Workers -> {0} \cup Workers] /\ g_worker_tids'[w] = w
        /\ \A v \in Workers \ {w} : g_worker_tids'[v] = g_worker_tids[v]
        /\ g_worker_dbs' = g_worker_dbs /\ g_worker_dbs \subseteq Workers
        /\ UNCHANGED <<remote, sock, cfd, jobs>>
    BY DEF Register, IInv, TypeOK
  <1>4. workers'[w].pc = "take" /\ workers'[w].fd = workers[w].fd
        /\ workers'[w].got = workers[w].got /\ workers'[w].len = workers[w].len
        /\ workers'[w].nserved = workers[w].nserved /\ workers[w].pc = "start"
        /\ workers'[w].db = workers[w].db
    BY <1>1, WorkerTyped DEF Register, WorkerRecord
  <1>5. WorkerOK(w, workers[w], g_worker_tids[w], g_worker_dbs)
    BY DEF IInv
  <1>6. WorkerOK(w, workers'[w], g_worker_tids'[w], g_worker_dbs')
    BY <1>3, <1>4, <1>5 DEF WorkerOK
  <1>7. ~Serving(workers'[w])
    BY <1>4 DEF Serving
  <1> QED
    BY <1>1, <1>2, <1>3, <1>4, <1>6, <1>7, LocalStep

\* The connection ends: nothing of the worker's buffer is looked at again.
LEMMA EndStep ==
  ASSUME IInv, NEW w \in Workers,
         TooBig(w) \/ RecvEnds(w) \/ BadRequest(w) \/ NoAnswer(w)
  PROVE  IInv'
  <1>1. /\ workers[w].pc \in {"read", "handle"}
        /\ workers' = [workers EXCEPT ![w].pc = "close"] \/
           workers' = [workers EXCEPT ![w].pc = "close", ![w].db = 0]
        /\ UNCHANGED <<remote, sock, cfd, jobs, dbvars>>
    BY DEF TooBig, RecvEnds, BadRequest, NoAnswer, Reading
  <1>2. workers' \in [Workers -> WorkerRecord]
    BY <1>1, WorkerTyped DEF WorkerRecord
  <1>3. /\ \A v \in Workers \ {w} : workers'[v] = workers[v]
        /\ workers'[w].pc = "close" /\ workers'[w].fd = workers[w].fd
        /\ workers'[w].got = workers[w].got /\ workers'[w].len = workers[w].len
        /\ workers'[w].nserved = workers[w].nserved /\ workers'[w].cap = workers[w].cap
        /\ workers'[w].db \in {0, workers[w].db}
    BY <1>1, WorkerTyped DEF WorkerRecord
  <1>4. /\ g_worker_tids' = g_worker_tids /\ g_worker_tids \in [Workers -> {0} \cup Workers]
        /\ g_worker_dbs' = g_worker_dbs /\ g_worker_dbs \subseteq Workers
        /\ UNCHANGED <<remote, sock, cfd, jobs>>
    BY <1>1 DEF dbvars, IInv, TypeOK
  <1>5. WorkerOK(w, workers[w], g_worker_tids[w], g_worker_dbs)
    BY DEF IInv
  <1>6. WorkerOK(w, workers'[w], g_worker_tids'[w], g_worker_dbs')
    BY <1>1, <1>3, <1>4, <1>5 DEF WorkerOK
  <1>7. ~Serving(workers'[w])
    BY <1>3 DEF Serving
  <1> QED
    BY <1>2, <1>3, <1>4, <1>6, <1>7, LocalStep

\* recv leaves a unit free in the buffer, which grows first, and moves no request.
LEMMA RecvStep ==
  ASSUME IInv, NEW w \in Workers, Recv(w)
  PROVE  IInv'
  <1> DEFINE r == workers[w]
             cap == Grown(r.len, r.cap)
  <1>1. PICK n \in 1..Unread(w) :
          /\ n <= Room(r.len, cap)
          /\ workers' = [workers EXCEPT ![w].len = @ + n, ![w].got = @ + n, ![w].cap = cap]
    BY DEF Recv
  <1>2. r.pc = "read" /\ UNCHANGED <<remote, sock, cfd, jobs, dbvars>>
    BY DEF Recv, Reading
  <1>3. WorkerOK(w, r, g_worker_tids[w], g_worker_dbs)
    BY DEF IInv
  <1>4. r.fd # 0 /\ Peer(w) \in Peers /\ r.len < r.cap /\ r.cap <= BufMax
    BY <1>2, <1>3, PeerOfWorker DEF WorkerOK
  <1>5. ServedOK(Peer(w), r, peers[Peer(w)])
    BY <1>2 DEF IInv, Serving
  <1>6. peers[Peer(w)] \in PeerRecord
    BY <1>4 DEF IInv, TypeOK, PeerRecord
  <1>7. n \in Nat \ {0} /\ r.got + n <= peers[Peer(w)].sent
    BY <1>6, WorkerTyped DEF Unread, PeerRecord
  <1>8. cap \in Nat /\ cap <= BufMax /\ r.len + n < cap
    BY <1>1, <1>4, <1>7, WorkerTyped DEF Room, Grown
  <1> HIDE DEF cap
  <1>9. workers' \in [Workers -> WorkerRecord]
    BY <1>1, <1>7, <1>8, WorkerTyped DEF WorkerRecord
  <1>10. /\ \A v \in Workers \ {w} : workers'[v] = workers[v]
         /\ workers'[w].pc = r.pc /\ workers'[w].fd = r.fd
         /\ workers'[w].got = r.got + n /\ workers'[w].len = r.len + n
         /\ workers'[w].nserved = r.nserved /\ workers'[w].cap = cap
         /\ workers'[w].db = r.db /\ workers'[w].last = r.last
    BY <1>1, WorkerTyped DEF WorkerRecord
  <1>11. /\ g_worker_tids' = g_worker_tids /\ g_worker_tids \in [Workers -> {0} \cup Workers]
         /\ g_worker_dbs' = g_worker_dbs /\ g_worker_dbs \subseteq Workers
         /\ UNCHANGED <<remote, sock, cfd, jobs>>
    BY <1>2 DEF dbvars, IInv, TypeOK
  <1>12. WorkerOK(w, workers'[w], g_worker_tids'[w], g_worker_dbs')
    <2>1. r.len + n <= r.got + n
      BY <1>3, <1>4, <1>7, WorkerTyped DEF WorkerOK
    <2> QED
      BY <1>2, <1>3, <1>4, <1>8, <1>10, <1>11, <2>1 DEF WorkerOK
  <1>13. ServedOK(Peer(w), workers'[w], peers[Peer(w)])
    <2>1. (r.got + n) - (r.len + n) = r.got - r.len
      BY <1>7, WorkerTyped
    <2> QED
      BY <1>2, <1>5, <1>7, <1>10, <2>1 DEF ServedOK, PlainOK
  <1> QED
    BY <1>9, <1>10, <1>11, <1>12, <1>13, LocalStep

\* What a worker has received is part of what its peer may write.
LEMMA GotBounded ==
  ASSUME IInv, NEW w \in Workers, Serving(workers[w]), Peer(w) \in Peers
  PROVE  workers[w].got <= Len(Stream[Peer(w)]) /\ Len(Stream[Peer(w)]) \in Nat
  <1>1. workers[w].got <= peers[Peer(w)].sent
    BY DEF IInv, ServedOK
  <1>2. peers[Peer(w)].sent <= Len(Stream[Peer(w)])
    BY DEF IInv, Written
  <1>3. peers[Peer(w)].sent \in Nat
    BY DEF IInv, TypeOK
  <1>4. Len(Stream[Peer(w)]) \in Nat
    BY JitAssumption, LenProperties
  <1> QED
    BY <1>1, <1>2, <1>3, <1>4, WorkerTyped

\* A request that is found whole: what it uses lies in the buffer, or a number in the
\* stream is out of range.
LEMMA WholeUse ==
  ASSUME NEW p \in Peers, NEW b \in Nat, NEW g \in Nat, NEW l \in Nat, b = g - l,
         g <= Len(Stream[p]), l < BufMax, WholeIn(p, b, g)
  PROVE  /\ UsedOf(p, b, g) \in Int
         /\ UsedOf(p, b, g) >= 0 => UsedOf(p, b, g) \in 0..l
         /\ UsedOf(p, b, g) < 0 => ~InRange(p)
  <1>1. HeadEnds(p, b, g) # {} /\ g - b >= UsedOf(p, b, g)
    BY DEF WholeIn
  <1>2. UsedOf(p, b, g) \in Int
    BY <1>1, HeadFound
  <1>3. g - b = l
    OBVIOUS
  <1>4. InRange(p) => UsedOf(p, b, g) >= 0
    BY <1>1, <1>3, UsedInRange
  <1>5. PICK u \in Int : u = UsedOf(p, b, g)
    BY <1>2
  <1> QED
    BY <1>1, <1>3, <1>4, <1>5

\* A complete request is handled, unless its length lies before the buffer.
LEMMA HandleStep ==
  ASSUME IInv, NEW w \in Workers, Handle(w)
  PROVE  IInv'
  <1> DEFINE r == workers[w]
             p == Peer(w)
             u == UsedOf(p, r.got - r.len, r.got)
             pc == IF u < 0 THEN "wild" ELSE "handle"
  <1>1. /\ r.pc = "read" /\ WholeIn(p, r.got - r.len, r.got)
        /\ UNCHANGED <<remote, sock, cfd, jobs, dbvars>>
        /\ workers' = [workers EXCEPT ![w].pc = pc]
    BY DEF Handle, Complete, Used, Base
  <1>2. WorkerOK(w, r, g_worker_tids[w], g_worker_dbs)
    BY DEF IInv
  <1>3. r.fd # 0 /\ p \in Peers /\ r.len < r.cap /\ r.cap <= BufMax /\ r.len <= r.got
    BY <1>1, <1>2, PeerOfWorker DEF WorkerOK
  <1>4. ServedOK(p, r, peers[p]) /\ r.got <= Len(Stream[p])
    BY <1>1, <1>3, GotBounded DEF IInv, Serving
  <1>5. u \in Int /\ (u >= 0 => u \in 0..r.len) /\ (u < 0 => ~InRange(p))
    <2>1. PICK g \in Nat, l \in Nat, b \in Nat : g = r.got /\ l = r.len /\ b = g - l /\ l < BufMax
      BY <1>3, WorkerTyped
    <2> HIDE DEF p
    <2>2. /\ UsedOf(p, b, g) \in Int
          /\ UsedOf(p, b, g) >= 0 => UsedOf(p, b, g) \in 0..l
          /\ UsedOf(p, b, g) < 0 => ~InRange(p)
      BY <1>1, <1>3, <1>4, <2>1, WholeUse
    <2> QED
      BY <2>1, <2>2
  <1>6. Plain(p) => /\ r.nserved < Len(Meant[p]) /\ Start(p, r.nserved + 2) <= r.got
    <2>1. HAVE Plain(p)
    <2>2. PlainOK(p, r, peers[p]) /\ Complete(w)
      BY <1>1, <1>4, <2>1 DEF ServedOK, Handle
    <2> QED
      BY <1>3, <1>4, <2>1, <2>2, CompleteIs, WorkerTyped DEF PlainOK
  <1>7. pc \in {"wild", "handle"} /\ (pc = "wild" => ~InRange(p)) /\ (pc = "handle" => u \in 0..r.len)
    <2> HIDE DEF u
    <2> QED
      BY <1>5
  <1> HIDE DEF pc, u
  <1>8. workers' \in [Workers -> WorkerRecord]
    BY <1>1, <1>7, WorkerTyped DEF WorkerRecord
  <1>9. /\ \A v \in Workers \ {w} : workers'[v] = workers[v]
        /\ workers'[w].pc = pc /\ workers'[w].fd = r.fd
        /\ workers'[w].got = r.got /\ workers'[w].len = r.len
        /\ workers'[w].nserved = r.nserved /\ workers'[w].cap = r.cap
        /\ workers'[w].db = r.db
    BY <1>1, WorkerTyped DEF WorkerRecord
  <1>10. /\ g_worker_tids' = g_worker_tids /\ g_worker_tids \in [Workers -> {0} \cup Workers]
         /\ g_worker_dbs' = g_worker_dbs /\ g_worker_dbs \subseteq Workers
         /\ UNCHANGED <<remote, sock, cfd, jobs>>
    BY <1>1 DEF dbvars, IInv, TypeOK
  <1>11. WorkerOK(w, workers'[w], g_worker_tids'[w], g_worker_dbs')
    BY <1>1, <1>2, <1>7, <1>9, <1>10 DEF WorkerOK
  <1>12. ServedOK(p, workers'[w], peers[p])
    BY <1>1, <1>4, <1>6, <1>7, <1>9 DEF ServedOK, PlainOK, u
  <1> QED
    BY <1>8, <1>9, <1>10, <1>11, <1>12, LocalStep

\* A handler gets the connection of its own slot, or none.
LEMMA QueryStep ==
  ASSUME IInv, NEW w \in Workers, NEW opens \in BOOLEAN, Query(w, opens)
  PROVE  IInv'
  <1> DEFINE r == workers[w]
             db == get_db(w, opens)
             pc == IF db = 0 THEN "null" ELSE "handle"
  <1>1. /\ r.pc = "handle" /\ UNCHANGED <<remote, sock, cfd, jobs, g_worker_tids>>
        /\ workers' = [workers EXCEPT ![w].db = db, ![w].pc = pc]
        /\ g_worker_dbs' = g_worker_dbs \cup ({db} \ {0})
    BY DEF Query
  <1>2. WorkerOK(w, r, g_worker_tids[w], g_worker_dbs)
    BY DEF IInv
  <1>3. r.fd # 0 /\ Peer(w) \in Peers /\ g_worker_tids[w] = w /\ w # 0
    BY <1>1, <1>2, PeerOfWorker, JitAssumption DEF WorkerOK
  <1>4. db \in {0, w}
    BY <1>3, OwnConnection
  <1> HIDE DEF db
  <1>5. pc \in {"null", "handle"}
    OBVIOUS
  <1> HIDE DEF pc
  <1>6. workers' \in [Workers -> WorkerRecord]
    BY <1>1, <1>4, <1>5, WorkerTyped DEF WorkerRecord
  <1>7. /\ \A v \in Workers \ {w} : workers'[v] = workers[v]
        /\ workers'[w].pc = pc /\ workers'[w].fd = r.fd
        /\ workers'[w].got = r.got /\ workers'[w].len = r.len
        /\ workers'[w].nserved = r.nserved /\ workers'[w].cap = r.cap
        /\ workers'[w].db = db
    BY <1>1, WorkerTyped DEF WorkerRecord
  <1>8. /\ g_worker_tids' = g_worker_tids /\ g_worker_tids \in [Workers -> {0} \cup Workers]
        /\ g_worker_dbs' \subseteq Workers /\ g_worker_dbs \subseteq g_worker_dbs'
        /\ UNCHANGED <<remote, sock, cfd, jobs>> /\ (db # 0 => db = w /\ w \in g_worker_dbs')
    BY <1>1, <1>4 DEF IInv, TypeOK
  <1>9. WorkerOK(w, workers'[w], g_worker_tids'[w], g_worker_dbs')
    BY <1>1, <1>2, <1>5, <1>7, <1>8 DEF WorkerOK
  <1>10. Serving(workers'[w]) => ServedOK(Peer(w), workers'[w], peers[Peer(w)])
    <2>1. ServedOK(Peer(w), r, peers[Peer(w)])
      BY <1>1 DEF IInv, Serving
    <2>2. Serving(workers'[w]) => workers'[w].pc = "handle"
      BY <1>5, <1>7 DEF Serving
    <2> QED
      BY <1>1, <1>7, <2>1, <2>2 DEF ServedOK, PlainOK
  <1> QED
    BY <1>6, <1>7, <1>8, <1>9, <1>10, LocalStep

\* The response is ready; whether it is the last is decided before it is sent.
LEMMA AnswerStep ==
  ASSUME IInv, NEW w \in Workers, NEW c \in BOOLEAN, Answer(w, c)
  PROVE  IInv'
  <1> DEFINE r == workers[w]
             last == c \/ r.nserved + 1 >= MaxReq
  <1>1. /\ r.pc = "handle" /\ UNCHANGED <<remote, sock, cfd, jobs, dbvars>>
        /\ workers' = [workers EXCEPT ![w] = [r EXCEPT !.pc = "send", !.db = 0, !.last = last]]
    BY DEF Answer
  <1>2. WorkerOK(w, r, g_worker_tids[w], g_worker_dbs)
    BY DEF IInv
  <1>3. last \in BOOLEAN /\ (~last => r.nserved + 1 < MaxReq)
    BY WorkerTyped
  <1> HIDE DEF last
  <1>4. ServedOK(Peer(w), r, peers[Peer(w)])
    BY <1>1 DEF IInv, Serving
  <1>5. workers' \in [Workers -> WorkerRecord]
    <2>1. r \in WorkerRecord /\ workers \in [Workers -> WorkerRecord]
      BY WorkerTyped
    <2>2. \A x \in BOOLEAN : [r EXCEPT !.pc = "send", !.db = 0, !.last = x] \in WorkerRecord
      BY <2>1 DEF WorkerRecord
    <2>3. [r EXCEPT !.pc = "send", !.db = 0, !.last = last] \in WorkerRecord
      BY <1>3, <2>2
    <2> QED
      BY <1>1, <2>1, <2>3
  <1>6. /\ \A v \in Workers \ {w} : workers'[v] = workers[v]
        /\ workers'[w].pc = "send" /\ workers'[w].fd = r.fd
        /\ workers'[w].got = r.got /\ workers'[w].len = r.len
        /\ workers'[w].nserved = r.nserved /\ workers'[w].cap = r.cap
        /\ workers'[w].last = last /\ workers'[w].db = 0
    BY <1>1, WorkerTyped DEF WorkerRecord
  <1>7. /\ g_worker_tids' = g_worker_tids /\ g_worker_tids \in [Workers -> {0} \cup Workers]
        /\ g_worker_dbs' = g_worker_dbs /\ g_worker_dbs \subseteq Workers
        /\ UNCHANGED <<remote, sock, cfd, jobs>>
    BY <1>1 DEF dbvars, IInv, TypeOK
  <1>8. WorkerOK(w, workers'[w], g_worker_tids'[w], g_worker_dbs')
    BY <1>1, <1>2, <1>3, <1>6, <1>7 DEF WorkerOK
  <1>9. ServedOK(Peer(w), workers'[w], peers[Peer(w)])
    BY <1>1, <1>4, <1>6 DEF ServedOK, PlainOK
  <1> QED
    BY <1>5, <1>6, <1>7, <1>8, <1>9, LocalStep

-----------------------------------------------------------------------------
(* The queues: the backlog and the channel.                                  *)

\* What Append leaves in place and adds.
LEMMA Appended ==
  ASSUME NEW S, NEW s \in Seq(S), NEW x \in S
  PROVE  /\ Append(s, x) \in Seq(S) /\ Len(Append(s, x)) = Len(s) + 1
         /\ DOMAIN Append(s, x) = DOMAIN s \cup {Len(s) + 1} /\ Len(s) + 1 \notin DOMAIN s
         /\ \A i \in DOMAIN s : Append(s, x)[i] = s[i]
         /\ Append(s, x)[Len(s) + 1] = x
  <1>1. Len(s) \in Nat /\ DOMAIN s = 1..Len(s)
    OBVIOUS
  <1>2. /\ Append(s, x) \in Seq(S) /\ Len(Append(s, x)) = Len(s) + 1
        /\ \A i \in 1..Len(s) : Append(s, x)[i] = s[i]
        /\ Append(s, x)[Len(s) + 1] = x
    BY AppendProperties
  <1>3. DOMAIN Append(s, x) = 1..(Len(s) + 1)
    BY <1>2
  <1>4. 1..(Len(s) + 1) = (1..Len(s)) \cup {Len(s) + 1} /\ Len(s) + 1 \notin 1..Len(s)
    BY <1>1
  <1> QED
    BY <1>1, <1>2, <1>3, <1>4

\* What Tail moves.
LEMMA Shifted ==
  ASSUME NEW S, NEW s \in Seq(S), s # <<>>
  PROVE  /\ 1 \in DOMAIN s /\ Head(s) = s[1] /\ Head(s) \in S
         /\ Tail(s) \in Seq(S) /\ Len(Tail(s)) <= Len(s)
         /\ \A i \in DOMAIN Tail(s) : i + 1 \in DOMAIN s /\ i + 1 # 1 /\ Tail(s)[i] = s[i + 1]
         /\ \A i, j \in DOMAIN Tail(s) : i + 1 = j + 1 => i = j
         /\ \A i \in DOMAIN s : i # 1 => i - 1 \in DOMAIN Tail(s) /\ Tail(s)[i - 1] = s[i]
  <1>1. Len(s) \in Nat \ {0} /\ DOMAIN s = 1..Len(s)
    BY EmptySeq
  <1>2. /\ Head(s) \in S /\ Tail(s) \in Seq(S) /\ Len(Tail(s)) = Len(s) - 1
        /\ \A i \in 1..Len(Tail(s)) : Tail(s)[i] = s[i + 1]
    BY HeadTailProperties
  <1>3. DOMAIN Tail(s) = 1..(Len(s) - 1) /\ Head(s) = s[1]
    BY <1>2
  <1>4. \A i \in DOMAIN Tail(s) : i + 1 \in DOMAIN s /\ i + 1 # 1 /\ Tail(s)[i] = s[i + 1]
    BY <1>1, <1>2, <1>3
  <1>5. \A i \in DOMAIN s : i # 1 => i - 1 \in DOMAIN Tail(s) /\ Tail(s)[i - 1] = s[i]
    <2>1. TAKE i \in DOMAIN s
    <2>2. HAVE i # 1
    <2>3. i - 1 \in 1..(Len(s) - 1) /\ (i - 1) + 1 = i
      BY <1>1, <2>2
    <2> QED
      BY <1>2, <1>3, <2>3
  <1> QED
    BY <1>1, <1>2, <1>3, <1>4, <1>5

\* What the queues and tables hold.
LEMMA TablesTyped ==
  ASSUME IInv
  PROVE  /\ jobs \in Seq(Fds) /\ backlog \in Seq(Peers) /\ cfd \in {0} \cup Fds
         /\ peers \in [Peers -> PeerRecord] /\ sock \in [Fds -> Peers \cup {NoPeer}]
         /\ g_worker_tids \in [Workers -> {0} \cup Workers] /\ g_worker_dbs \subseteq Workers
         /\ 0 \notin Fds /\ NoPeer \notin Peers
         /\ \A i \in DOMAIN jobs : jobs[i] \in Fds
         /\ \A i \in DOMAIN backlog : backlog[i] \in Peers
  <1>1. jobs \in Seq(Fds) /\ backlog \in Seq(Peers)
    BY DEF IInv, TypeOK
  <1>2. /\ \A i \in DOMAIN jobs : jobs[i] \in Fds
        /\ \A i \in DOMAIN backlog : backlog[i] \in Peers
    BY <1>1
  <1>3. 0 \notin Fds /\ NoPeer \notin Peers
    BY JitAssumption DEF Fds
  <1> QED
    BY <1>1, <1>2, <1>3 DEF IInv, TypeOK, PeerRecord

\* A worker takes the oldest descriptor: its buffer is empty and nothing was answered.
LEMMA TakeStep ==
  ASSUME IInv, NEW w \in Workers, Take(w)
  PROVE  IInv'
  <1> DEFINE r == workers[w]
             f == Head(jobs)
  <1>1. /\ r.pc = "take" /\ jobs # <<>> /\ jobs' = Tail(jobs)
        /\ workers' = [workers EXCEPT ![w] = [r EXCEPT !.pc = "read", !.fd = f, !.cap = CapStart]]
        /\ UNCHANGED <<remote, sock, cfd, dbvars>>
    BY DEF Take
  <1>2. WorkerOK(w, r, g_worker_tids[w], g_worker_dbs)
    BY DEF IInv
  <1>3. r.fd = 0 /\ r.got = 0 /\ r.len = 0 /\ r.nserved = 0
    BY <1>1, <1>2 DEF WorkerOK
  <1>4. /\ 1 \in DOMAIN jobs /\ f = jobs[1] /\ f \in Fds /\ jobs' \in Seq(Fds) /\ Len(jobs') <= Len(jobs)
        /\ \A i \in DOMAIN jobs' : i + 1 \in DOMAIN jobs /\ i + 1 # 1 /\ jobs'[i] = jobs[i + 1]
        /\ \A i, j \in DOMAIN jobs' : i + 1 = j + 1 => i = j
        /\ \A i \in DOMAIN jobs : i # 1 => i - 1 \in DOMAIN jobs' /\ jobs'[i - 1] = jobs[i]
    BY <1>1, TablesTyped, Shifted
  <1> HIDE DEF f
  <1>5. [r EXCEPT !.pc = "read", !.fd = f, !.cap = CapStart] \in WorkerRecord
    <2>1. workers[w] \in WorkerRecord /\ CapStart \in Nat /\ f \in Fds
      BY <1>4, WorkerTyped
    <2> QED
      BY <2>1 DEF WorkerRecord
  <1>6. workers' \in [Workers -> WorkerRecord]
    BY <1>1, <1>5, WorkerTyped
  <1>7. /\ \A v \in Workers \ {w} : workers'[v] = workers[v]
        /\ workers'[w].pc = "read" /\ workers'[w].fd = f
        /\ workers'[w].got = 0 /\ workers'[w].len = 0
        /\ workers'[w].nserved = 0 /\ workers'[w].cap = CapStart
        /\ workers'[w].db = r.db
    BY <1>1, <1>3, WorkerTyped DEF WorkerRecord
  <1>8. /\ backlog' = backlog /\ peers' = peers /\ sock' = sock /\ cfd' = cfd
        /\ g_worker_tids' = g_worker_tids /\ g_worker_dbs' = g_worker_dbs
    BY <1>1 DEF remote, dbvars
  <1>9. TypeOK'
    <2>1. Len(jobs') <= ChanCap
      <3>1. Len(jobs) <= ChanCap /\ Len(jobs) \in Nat /\ Len(jobs') \in Nat /\ ChanCap \in Nat
        BY <1>4, TablesTyped, JitAssumption DEF IInv, TypeOK
      <3> QED
        BY <1>4, <3>1
    <2> QED
      BY <1>4, <1>6, <1>8, <2>1 DEF IInv, TypeOK, WorkerRecord
  <1>10. OnePlace'
    <2>1. \A g \in Fds : (\E i \in DOMAIN jobs : jobs[i] = g) <=> g = f \/ \E i \in DOMAIN jobs' : jobs'[i] = g
      BY <1>4
    <2>2. \A g \in Fds : (\E v \in Workers : workers'[v].fd = g) <=> g = f \/ \E v \in Workers : workers[v].fd = g
      BY <1>3, <1>7, TablesTyped
    <2>3. \A g \in Fds : sock'[g] # NoPeer <=>
            \/ cfd' = g \/ (\E i \in DOMAIN jobs' : jobs'[i] = g) \/ (\E v \in Workers : workers'[v].fd = g)
      BY <1>8, <2>1, <2>2 DEF IInv, OnePlace
    <2>4. \A i \in DOMAIN jobs' : jobs'[i] # f /\ jobs'[i] # cfd'
      BY <1>4, <1>8 DEF IInv, OnePlace
    <2>5. \A i, j \in DOMAIN jobs' : jobs'[i] = jobs'[j] => i = j
      BY <1>4 DEF IInv, OnePlace
    <2>6. f # cfd /\ \A v \in Workers : workers[v].fd # f
      BY <1>4 DEF IInv, OnePlace
    <2>7. \A i \in DOMAIN jobs', v \in Workers : jobs'[i] # workers'[v].fd
      BY <1>4, <1>7, <2>4 DEF IInv, OnePlace
    <2>8. \A v \in Workers : workers'[v].fd # 0 => workers'[v].fd # cfd'
      BY <1>7, <1>8, <2>6 DEF IInv, OnePlace
    <2>9. \A u, v \in Workers : workers'[u].fd # 0 /\ workers'[u].fd = workers'[v].fd => u = v
      BY <1>7, <2>6 DEF IInv, OnePlace
    <2> QED
      BY <2>3, <2>4, <2>5, <2>7, <2>8, <2>9 DEF OnePlace
  <1>11. PeersPlaced'
    BY <1>8 DEF IInv, PeersPlaced
  <1>12. Unserved' /\ Written'
    BY <1>4, <1>8 DEF IInv, Unserved, Written
  <1>13. \A v \in Workers : WorkerOK(v, workers'[v], g_worker_tids'[v], g_worker_dbs')
    <2>1. WorkerOK(w, workers'[w], g_worker_tids'[w], g_worker_dbs')
      <3>1. CapStart \in Nat /\ 0 < CapStart /\ CapStart <= BufMax /\ 0 < MaxReq
        BY JitAssumption
      <3>2. f # 0
        BY <1>4, TablesTyped
      <3> QED
        BY <1>1, <1>2, <1>7, <1>8, <3>1, <3>2 DEF WorkerOK
    <2> QED
      BY <1>7, <1>8, <2>1 DEF IInv
  <1>14. \A v \in Workers : Serving(workers'[v]) => ServedOK(Peer(v)', workers'[v], peers'[Peer(v)'])
    <2>1. ServedOK(Peer(w)', workers'[w], peers'[Peer(w)'])
      <3>1. sock[f] # NoPeer /\ Peer(w)' = sock[f]
        BY <1>4, <1>7, <1>8 DEF IInv, OnePlace, Peer
      <3>2. sock[f] \in Peers
        BY <1>4, <3>1, TablesTyped
      <3>3. peers[sock[f]].replies = 0 /\ peers[sock[f]].sent \in Nat
        BY <1>4, <3>2, TablesTyped DEF IInv, Unserved, PeerRecord
      <3>4. Start(sock[f], 0 + 1) = 0 /\ Len(Meant[sock[f]]) \in Nat
        BY <3>2, MeantTyped
      <3>5. 0 <= Len(Meant[sock[f]]) /\ 0 <= peers[sock[f]].sent /\ 0 - 0 = 0
        BY <3>3, <3>4
      <3> QED
        BY <1>7, <1>8, <3>1, <3>3, <3>4, <3>5 DEF ServedOK, PlainOK
    <2>2. \A v \in Workers \ {w} : Peer(v)' = Peer(v)
      BY <1>7, <1>8 DEF Peer
    <2> QED
      BY <1>7, <1>8, <2>1, <2>2 DEF IInv
  <1> QED
    BY <1>9, <1>10, <1>11, <1>12, <1>13, <1>14 DEF IInv

\* What is left of the buffer when u units are taken off its front.
LEMMA RestOf ==
  ASSUME NEW len \in Nat, NEW got \in Nat, NEW u \in 0..len, NEW x, x = len - u
  PROVE  x \in Nat /\ x <= len /\ got - x = (got - len) + u
  OBVIOUS

\* The response goes out and the next request moves to the start of the buffer.
LEMMA SendStep ==
  ASSUME IInv, NEW w \in Workers, Send(w)
  PROVE  IInv'
  <1> DEFINE r == workers[w]
             p == Peer(w)
             n == r.nserved
             q == [workers[w] EXCEPT !.nserved = @ + 1]
  <1>1. /\ r.pc = "send" /\ UNCHANGED <<backlog, sock, cfd, jobs, dbvars>>
        /\ peers' = IF peers[p].state = "left" THEN peers ELSE [peers EXCEPT ![p].replies = @ + 1]
        /\ workers' = [workers EXCEPT ![w] =
             IF q.last THEN [q EXCEPT !.pc = "close"]
             ELSE [q EXCEPT !.pc = "read", !.len = Rest(w)]]
    BY DEF Send
  <1>2. WorkerOK(w, r, g_worker_tids[w], g_worker_dbs) /\ ServedOK(p, r, peers[p])
    BY <1>1 DEF IInv, Serving
  <1>3. r.fd # 0 /\ r.fd \in Fds /\ p \in Peers /\ p = sock[r.fd] /\ n < MaxReq
    BY <1>1, <1>2, PeerOfWorker DEF WorkerOK, Peer
  <1>4. /\ Rest(w) \in Nat /\ Rest(w) <= r.len
        /\ Plain(p) => n + 1 <= Len(Meant[p]) /\ r.got - Rest(w) = Start(p, (n + 1) + 1)
    <2>1. PICK u \in 0..r.len : u = UsedOf(p, r.got - r.len, r.got)
      BY <1>1, <1>2 DEF ServedOK
    <2>2. n \in Nat /\ r.got \in Nat /\ r.len \in Nat
      BY WorkerTyped
    <2>3. Used(w) = u /\ Rest(w) = r.len - u
      BY <2>1 DEF Used, Base, Rest
    <2>4. Rest(w) \in Nat /\ Rest(w) <= r.len /\ r.got - Rest(w) = (r.got - r.len) + u
      BY <2>2, <2>3, RestOf
    <2>5. Plain(p) => n + 1 <= Len(Meant[p]) /\ r.got - Rest(w) = Start(p, (n + 1) + 1)
      <3>1. HAVE Plain(p)
      <3>2. /\ n < Len(Meant[p]) /\ Start(p, n + 2) <= r.got /\ n <= Len(Meant[p])
            /\ r.got - r.len = Start(p, n + 1)
        BY <1>1, <1>2, <3>1 DEF ServedOK, PlainOK
      <3>3. r.got <= Len(Stream[p])
        BY <1>1, <1>3, GotBounded DEF Serving
      <3>4. u = Start(p, n + 2) - Start(p, n + 1)
        BY <1>3, <2>3, <3>1, <3>2, <3>3, WorkerTyped, CompleteIs
      <3>5. PICK m \in Nat, l \in Nat : m = n /\ l = Len(Meant[p])
        BY <1>3, <2>2, MeantTyped
      <3>6. m + 1 <= l /\ (m + 1) + 1 = m + 2 /\ m + 1 \in Nat \ {0} /\ m + 2 \in Nat \ {0}
        BY <3>2, <3>5
      <3>7. PICK x \in Nat, y \in Nat : x = Start(p, n + 1) /\ y = Start(p, n + 2)
        BY <1>3, <3>5, <3>6, MeantTyped
      <3> HIDE DEF p, n
      <3>8. r.got - Rest(w) = x + u /\ u = y - x
        BY <2>4, <3>2, <3>4, <3>7
      <3>9. r.got - Rest(w) = y
        BY <3>7, <3>8
      <3> QED
        BY <3>5, <3>6, <3>7, <3>9
    <2> QED
      BY <2>4, <2>5
  <1>5. n + 1 \in 0..MaxReq /\ (~r.last => n + 1 < MaxReq)
    <2>1. n \in Nat /\ MaxReq \in Nat
      BY WorkerTyped
    <2>2. ~r.last => n + 1 < MaxReq
      BY <1>1, <1>2 DEF WorkerOK
    <2> QED
      BY <1>3, <2>1, <2>2
  <1>6. workers' \in [Workers -> WorkerRecord]
    <2>1. r \in WorkerRecord /\ workers \in [Workers -> WorkerRecord]
      BY WorkerTyped
    <2>2. [q EXCEPT !.pc = "close"] \in WorkerRecord
      BY <1>5, <2>1 DEF WorkerRecord
    <2>3. [q EXCEPT !.pc = "read", !.len = Rest(w)] \in WorkerRecord
      BY <1>4, <1>5, <2>1 DEF WorkerRecord
    <2> QED
      BY <1>1, <2>1, <2>2, <2>3
  <1>7. /\ \A v \in Workers \ {w} : workers'[v] = workers[v]
        /\ workers'[w].fd = r.fd /\ workers'[w].got = r.got
        /\ workers'[w].nserved = n + 1 /\ workers'[w].cap = r.cap /\ workers'[w].db = r.db
        /\ r.last => workers'[w].pc = "close" /\ workers'[w].len = r.len
        /\ ~r.last => workers'[w].pc = "read" /\ workers'[w].len = Rest(w)
    BY <1>1, WorkerTyped DEF WorkerRecord
  <1>8. /\ backlog' = backlog /\ sock' = sock /\ cfd' = cfd /\ jobs' = jobs
        /\ g_worker_tids' = g_worker_tids /\ g_worker_dbs' = g_worker_dbs
    BY <1>1 DEF dbvars
  <1>9. /\ peers' \in [Peers -> PeerRecord] /\ \A o \in Peers \ {p} : peers'[o] = peers[o]
        /\ peers'[p].state = peers[p].state /\ peers'[p].sent = peers[p].sent
        /\ peers[p].state = "here" => peers'[p].replies = peers[p].replies + 1
    <2> HIDE DEF p
    <2>1. peers \in [Peers -> PeerRecord]
      BY TablesTyped
    <2>2. CASE peers[p].state = "left"
      BY <1>1, <1>3, <2>1, <2>2
    <2>3. CASE peers[p].state # "left"
      <3>1. peers' = [peers EXCEPT ![p].replies = @ + 1]
        BY <1>1, <2>3
      <3> QED
        BY <1>3, <2>1, <3>1 DEF PeerRecord
    <2> QED
      BY <2>2, <2>3
  <1>10. peers[p].state # "away"
    BY <1>3, TablesTyped DEF IInv, PeersPlaced
  <1> HIDE DEF p, n
  <1>11. TypeOK'
    BY <1>6, <1>8, <1>9 DEF IInv, TypeOK, WorkerRecord, PeerRecord
  <1>12. OnePlace'
    <2>1. \A v \in Workers : workers'[v].fd = workers[v].fd
      BY <1>7
    <2> QED
      BY <1>8, <2>1 DEF IInv, OnePlace
  <1>13. PeersPlaced'
    <2>1. \A o \in Peers : peers'[o].state = peers[o].state
      BY <1>9
    <2>2. /\ \A i \in DOMAIN backlog : peers'[backlog[i]].state = peers[backlog[i]].state
          /\ \A f \in Fds : sock[f] # NoPeer => peers'[sock[f]].state = peers[sock[f]].state
      BY <2>1, TablesTyped
    <2> QED
      BY <1>8, <2>2 DEF IInv, PeersPlaced
  <1>14. Unserved'
    <2>1. \A o \in Peers : peers'[o].state = "away" => peers'[o].replies = 0
      BY <1>9, <1>10 DEF IInv, Unserved
    <2>2. \A i \in DOMAIN backlog : backlog[i] # p /\ backlog[i] \in Peers
      BY <1>3, TablesTyped DEF IInv, PeersPlaced
    <2>3. \A i \in DOMAIN jobs : sock[jobs[i]] # p /\ sock[jobs[i]] \in Peers
      <3>1. TAKE i \in DOMAIN jobs
      <3>2. jobs[i] \in Fds /\ jobs[i] # r.fd /\ sock[jobs[i]] # NoPeer
        BY TablesTyped DEF IInv, OnePlace
      <3> QED
        BY <1>3, <3>2, TablesTyped DEF IInv, PeersPlaced
    <2>4. cfd # 0 => sock[cfd] # p /\ sock[cfd] \in Peers
      <3>1. HAVE cfd # 0
      <3>2. cfd \in Fds /\ cfd # r.fd /\ sock[cfd] # NoPeer
        BY <1>3, <3>1, TablesTyped DEF IInv, OnePlace
      <3> QED
        BY <1>3, <3>2, TablesTyped DEF IInv, PeersPlaced
    <2> QED
      BY <1>8, <1>9, <2>1, <2>2, <2>3, <2>4 DEF IInv, Unserved
  <1>15. \A v \in Workers : WorkerOK(v, workers'[v], g_worker_tids'[v], g_worker_dbs')
    <2>1. WorkerOK(w, workers'[w], g_worker_tids'[w], g_worker_dbs')
      <3>1. r.len < r.cap /\ r.cap <= BufMax /\ g_worker_tids[w] = w
        BY <1>1, <1>2, <1>3 DEF WorkerOK
      <3>2. workers'[w].len < workers'[w].cap /\ workers'[w].len <= workers'[w].got
        <4>1. r.len <= r.got
          BY <1>2, <1>3 DEF WorkerOK
        <4> QED
          BY <1>4, <1>7, <3>1, <4>1, WorkerTyped
      <3> QED
        BY <1>2, <1>3, <1>5, <1>7, <1>8, <3>1, <3>2 DEF WorkerOK
    <2> QED
      BY <1>7, <1>8, <2>1 DEF IInv
  <1>17. Written'
    BY <1>9 DEF IInv, Written
  <1>16. \A v \in Workers : Serving(workers'[v]) => ServedOK(Peer(v)', workers'[v], peers'[Peer(v)'])
    <2>1. Peer(w)' = p
      BY <1>3, <1>7, <1>8 DEF Peer
    <2>2. Serving(workers'[w]) => ServedOK(p, workers'[w], peers'[p])
      <3>1. HAVE Serving(workers'[w])
      <3>2. ~r.last
        BY <1>7, <3>1 DEF Serving
      <3>3. /\ r.got <= peers[p].sent
            /\ Plain(p) => (peers[p].state = "here" => peers[p].replies = n)
        BY <1>1, <1>2 DEF ServedOK, PlainOK, n
      <3> QED
        BY <1>4, <1>7, <1>9, <3>2, <3>3 DEF ServedOK, PlainOK
    <2>3. \A v \in Workers \ {w} : Serving(workers[v]) => Peer(v)' = Peer(v) /\ Peer(v) \in Peers \ {p}
      <3>1. TAKE v \in Workers \ {w}
      <3>2. HAVE Serving(workers[v])
      <3>3. workers[v].fd # 0
        BY <3>2 DEF IInv, WorkerOK, Serving
      <3>4. workers[v].fd # r.fd
        BY <3>3 DEF IInv, OnePlace
      <3>5. workers[v].fd \in Fds /\ sock[workers[v].fd] \in Peers /\ Peer(v) \in Peers
        BY <3>3, PeerOfWorker
      <3>6. sock[workers[v].fd] # p
        BY <1>3, <3>4, <3>5, TablesTyped DEF IInv, PeersPlaced
      <3> QED
        BY <1>7, <1>8, <3>5, <3>6 DEF Peer
    <2> QED
      BY <1>7, <1>9, <2>1, <2>2, <2>3 DEF IInv
  <1> QED
    BY <1>11, <1>12, <1>13, <1>14, <1>15, <1>16, <1>17 DEF IInv

\* The worker closes its descriptor: the number is free and the peer is gone.
LEMMA CloseStep ==
  ASSUME IInv, NEW w \in Workers, Close(w)
  PROVE  IInv'
  <1> DEFINE r == workers[w]
             p == Peer(w)
             f == r.fd
  <1>1. /\ r.pc = "close" /\ UNCHANGED <<backlog, cfd, jobs, dbvars>>
        /\ sock' = [sock EXCEPT ![f] = NoPeer]
        /\ peers' = [peers EXCEPT ![p] = Absent]
        /\ workers' = [workers EXCEPT ![w] = IdleWorker]
    BY DEF Close, Closed
  <1>2. WorkerOK(w, r, g_worker_tids[w], g_worker_dbs)
    BY DEF IInv
  <1>3. f # 0 /\ f \in Fds /\ p \in Peers /\ p = sock[f]
    BY <1>1, <1>2, PeerOfWorker DEF WorkerOK, Peer
  <1>4. /\ backlog' = backlog /\ cfd' = cfd /\ jobs' = jobs
        /\ g_worker_tids' = g_worker_tids /\ g_worker_dbs' = g_worker_dbs
    BY <1>1 DEF dbvars
  <1>5. /\ workers' \in [Workers -> WorkerRecord]
        /\ \A v \in Workers \ {w} : workers'[v] = workers[v]
        /\ workers'[w].pc = "take" /\ workers'[w].fd = 0
        /\ workers'[w].got = 0 /\ workers'[w].len = 0 /\ workers'[w].nserved = 0
        /\ workers'[w].db = 0
    <2>1. 0 \in 0..MaxReq
      BY JitAssumption
    <2>2. IdleWorker \in WorkerRecord
      BY <2>1 DEF IdleWorker, WorkerRecord
    <2>3. workers \in [Workers -> WorkerRecord]
      BY WorkerTyped
    <2>4. /\ workers' \in [Workers -> WorkerRecord] /\ workers'[w] = IdleWorker
          /\ \A v \in Workers \ {w} : workers'[v] = workers[v]
      BY <1>1, <2>2, <2>3
    <2> QED
      BY <2>4 DEF IdleWorker
  <1> HIDE DEF p, f
  <1>6. /\ peers' \in [Peers -> PeerRecord] /\ \A q \in Peers \ {p} : peers'[q] = peers[q]
        /\ peers'[p].state = "away" /\ peers'[p].replies = 0 /\ peers'[p].sent = 0
    <2>1. Absent \in PeerRecord /\ peers \in [Peers -> PeerRecord]
      BY TablesTyped DEF Absent, PeerRecord
    <2> QED
      BY <1>1, <1>3, <2>1 DEF Absent
  <1>7. /\ sock' \in [Fds -> Peers \cup {NoPeer}] /\ sock'[f] = NoPeer
        /\ \A g \in Fds \ {f} : sock'[g] = sock[g]
    BY <1>1, <1>3, TablesTyped
  <1>8. \A g \in Fds \ {f} : sock[g] # p
    BY <1>3, TablesTyped DEF IInv, PeersPlaced
  <1>9. \A i \in DOMAIN jobs : jobs[i] \in Fds \ {f}
    BY TablesTyped DEF IInv, OnePlace, f
  <1>10. cfd # f /\ \A v \in Workers \ {w} : workers[v].fd # f
    BY <1>3 DEF IInv, OnePlace, f
  <1>11. TypeOK'
    BY <1>4, <1>5, <1>6, <1>7 DEF IInv, TypeOK, WorkerRecord, PeerRecord
  <1>12. OnePlace'
    <2>1. \A g \in Fds : sock'[g] # NoPeer <=>
            \/ cfd' = g \/ (\E i \in DOMAIN jobs' : jobs'[i] = g) \/ (\E v \in Workers : workers'[v].fd = g)
      <3>1. TAKE g \in Fds
      <3>2. CASE g = f
        BY <1>4, <1>5, <1>7, <1>9, <1>10, <3>2, TablesTyped
      <3>3. CASE g # f
        <4>1. (\E v \in Workers : workers'[v].fd = g) <=> (\E v \in Workers : workers[v].fd = g)
          BY <1>5, <3>3, TablesTyped DEF f
        <4> QED
          BY <1>4, <1>7, <3>3, <4>1 DEF IInv, OnePlace
      <3> QED
        BY <3>2, <3>3
    <2>2. \A i \in DOMAIN jobs', v \in Workers : jobs'[i] # workers'[v].fd
      BY <1>4, <1>5, TablesTyped DEF IInv, OnePlace
    <2>3. \A v \in Workers : workers'[v].fd # 0 => workers'[v].fd # cfd'
      BY <1>4, <1>5 DEF IInv, OnePlace
    <2>4. \A u, v \in Workers : workers'[u].fd # 0 /\ workers'[u].fd = workers'[v].fd => u = v
      BY <1>5 DEF IInv, OnePlace
    <2> QED
      BY <1>4, <2>1, <2>2, <2>3, <2>4 DEF IInv, OnePlace
  <1>13. \A i \in DOMAIN backlog : backlog[i] \in Peers \ {p}
    BY <1>3, TablesTyped DEF IInv, PeersPlaced
  <1>14. PeersPlaced'
    <2>1. \A g, h \in Fds : sock'[g] # NoPeer /\ sock'[g] = sock'[h] => g = h
      BY <1>7 DEF IInv, PeersPlaced
    <2>2. \A i \in DOMAIN backlog, g \in Fds : backlog[i] # sock'[g]
      BY <1>7, <1>13, TablesTyped DEF IInv, PeersPlaced
    <2>3. \A g \in Fds : sock'[g] # NoPeer => peers'[sock'[g]].state # "away"
      BY <1>6, <1>7, <1>8, TablesTyped DEF IInv, PeersPlaced
    <2>4. \A i \in DOMAIN backlog : peers'[backlog[i]].state # "away"
      BY <1>6, <1>13 DEF IInv, PeersPlaced
    <2> QED
      BY <1>4, <2>1, <2>2, <2>3, <2>4 DEF IInv, PeersPlaced
  <1>15. Unserved'
    <2>1. \A q \in Peers : peers'[q].state = "away" => peers'[q].replies = 0
      BY <1>6 DEF IInv, Unserved
    <2>2. \A i \in DOMAIN backlog : peers'[backlog[i]].replies = 0
      BY <1>6, <1>13 DEF IInv, Unserved
    <2>3. \A i \in DOMAIN jobs : sock'[jobs[i]] = sock[jobs[i]] /\ sock[jobs[i]] \in Peers \ {p}
      <3>1. \A i \in DOMAIN jobs : sock[jobs[i]] # NoPeer
        BY <1>9 DEF IInv, OnePlace
      <3> QED
        BY <1>7, <1>8, <1>9, <3>1, TablesTyped
    <2>4. cfd # 0 => sock'[cfd] = sock[cfd] /\ sock[cfd] \in Peers \ {p}
      <3>1. HAVE cfd # 0
      <3>2. cfd \in Fds \ {f} /\ sock[cfd] # NoPeer
        BY <1>10, <3>1, TablesTyped DEF IInv, OnePlace
      <3> QED
        BY <1>7, <1>8, <3>2, TablesTyped
    <2> QED
      BY <1>4, <1>6, <2>1, <2>2, <2>3, <2>4 DEF IInv, Unserved
  <1>16. \A v \in Workers : WorkerOK(v, workers'[v], g_worker_tids'[v], g_worker_dbs')
    <2>1. WorkerOK(w, workers'[w], g_worker_tids'[w], g_worker_dbs')
      BY <1>1, <1>2, <1>4, <1>5 DEF WorkerOK
    <2> QED
      BY <1>4, <1>5, <2>1 DEF IInv
  <1>18. Written'
    <2>1. \A q \in Peers : Len(Stream[q]) \in Nat
      BY JitAssumption, LenProperties
    <2> QED
      BY <1>6, <2>1 DEF IInv, Written
  <1>17. \A v \in Workers : Serving(workers'[v]) => ServedOK(Peer(v)', workers'[v], peers'[Peer(v)'])
    <2>1. ~Serving(workers'[w])
      BY <1>5 DEF Serving
    <2>2. \A v \in Workers \ {w} : Serving(workers[v]) => Peer(v)' = Peer(v) /\ Peer(v) \in Peers \ {p}
      <3>1. TAKE v \in Workers \ {w}
      <3>2. HAVE Serving(workers[v])
      <3>3. workers[v].fd # 0
        BY <3>2 DEF IInv, WorkerOK, Serving
      <3>4. workers[v].fd \in Fds /\ sock[workers[v].fd] \in Peers /\ Peer(v) \in Peers
        BY <3>3, PeerOfWorker
      <3>5. workers[v].fd \in Fds \ {f}
        BY <1>10, <3>4
      <3> QED
        BY <1>5, <1>7, <1>8, <3>4, <3>5 DEF Peer
    <2> QED
      BY <1>5, <1>6, <2>1, <2>2 DEF IInv
  <1> QED
    BY <1>11, <1>12, <1>14, <1>15, <1>16, <1>17, <1>18 DEF IInv

-----------------------------------------------------------------------------
(* The steps of main, of the kernel and of the peers.                        *)

\* A step after which every worker and every connection a worker serves are as
\* before keeps what the workers know.
LEMMA WorkersKept ==
  ASSUME IInv, workers' = workers, g_worker_tids' = g_worker_tids, g_worker_dbs' = g_worker_dbs,
         \A v \in Workers : Serving(workers[v]) =>
           /\ Peer(v)' = Peer(v) /\ peers'[Peer(v)].replies = peers[Peer(v)].replies
           /\ workers[v].got <= peers'[Peer(v)].sent
           /\ peers'[Peer(v)].state = "here" => peers[Peer(v)].state = "here"
  PROVE  /\ \A v \in Workers : WorkerOK(v, workers'[v], g_worker_tids'[v], g_worker_dbs')
         /\ \A v \in Workers : Serving(workers'[v]) => ServedOK(Peer(v)', workers'[v], peers'[Peer(v)'])
  <1>1. \A v \in Workers : WorkerOK(v, workers'[v], g_worker_tids'[v], g_worker_dbs')
    BY DEF IInv
  <1>2. \A v \in Workers : Serving(workers'[v]) => ServedOK(Peer(v)', workers'[v], peers'[Peer(v)'])
    <2>1. TAKE v \in Workers
    <2>2. HAVE Serving(workers'[v])
    <2>3. ServedOK(Peer(v), workers[v], peers[Peer(v)])
      BY <2>2 DEF IInv
    <2> QED
      BY <2>2, <2>3 DEF ServedOK, PlainOK
  <1> QED
    BY <1>1, <1>2

\* A peer in the backlog moves behind a free descriptor, which only main knows.
LEMMA AcceptStep ==
  ASSUME IInv, Accept
  PROVE  IInv'
  <1> DEFINE f == Lowest(FreeFds)
             p == Head(backlog)
  <1>1. /\ cfd = 0 /\ backlog # <<>> /\ FreeFds # {}
        /\ sock' = [sock EXCEPT ![f] = p] /\ cfd' = f /\ backlog' = Tail(backlog)
        /\ UNCHANGED <<peers, jobs, workers, dbvars>>
    BY DEF Accept
  <1>2. f \in Fds /\ sock[f] = NoPeer
    BY <1>1, LowestIsFree DEF FreeFds
  <1>3. /\ 1 \in DOMAIN backlog /\ p = backlog[1] /\ p \in Peers
        /\ backlog' \in Seq(Peers) /\ Len(backlog') <= Len(backlog)
        /\ \A i \in DOMAIN backlog' : i + 1 \in DOMAIN backlog /\ i + 1 # 1 /\ backlog'[i] = backlog[i + 1]
        /\ \A i, j \in DOMAIN backlog' : i + 1 = j + 1 => i = j
    BY <1>1, TablesTyped, Shifted
  <1> HIDE DEF f, p
  <1>4. /\ peers' = peers /\ jobs' = jobs /\ workers' = workers
        /\ g_worker_tids' = g_worker_tids /\ g_worker_dbs' = g_worker_dbs
    BY <1>1 DEF dbvars
  <1>5. /\ sock' \in [Fds -> Peers \cup {NoPeer}] /\ sock'[f] = p
        /\ \A g \in Fds \ {f} : sock'[g] = sock[g]
    BY <1>1, <1>2, <1>3, TablesTyped
  <1>6. TypeOK'
    <2>1. Len(backlog') <= Backlog
      <3>1. Len(backlog) <= Backlog /\ Len(backlog) \in Nat /\ Len(backlog') \in Nat /\ Backlog \in Nat
        BY <1>3, TablesTyped, JitAssumption DEF IInv, TypeOK
      <3> QED
        BY <1>3, <3>1
    <2> QED
      BY <1>1, <1>2, <1>3, <1>4, <1>5, <2>1 DEF IInv, TypeOK
  <1>7. /\ \A i \in DOMAIN jobs : jobs[i] \in Fds \ {f}
        /\ \A w \in Workers : workers[w].fd # f
    BY <1>2, TablesTyped DEF IInv, OnePlace
  <1>8. OnePlace'
    <2>1. \A g \in Fds : sock'[g] # NoPeer <=>
            \/ cfd' = g \/ (\E i \in DOMAIN jobs' : jobs'[i] = g) \/ (\E w \in Workers : workers'[w].fd = g)
      <3>1. p # NoPeer
        BY <1>3, TablesTyped
      <3>2. TAKE g \in Fds
      <3>3. CASE g = f
        BY <1>1, <1>5, <3>1, <3>3
      <3>4. CASE g # f
        <4>1. cfd # g /\ cfd' # g
          BY <1>1, <3>4, TablesTyped
        <4> QED
          BY <1>4, <1>5, <3>4, <4>1 DEF IInv, OnePlace
      <3> QED
        BY <3>3, <3>4
    <2> QED
      BY <1>1, <1>4, <1>7, <2>1 DEF IInv, OnePlace
  <1>9. \A g \in Fds : sock[g] # p
    BY <1>3 DEF IInv, PeersPlaced
  <1>10. PeersPlaced'
    <2>1. \A i, j \in DOMAIN backlog' : backlog'[i] = backlog'[j] => i = j
      BY <1>3 DEF IInv, PeersPlaced
    <2>2. \A g, h \in Fds : sock'[g] # NoPeer /\ sock'[g] = sock'[h] => g = h
      BY <1>5, <1>9 DEF IInv, PeersPlaced
    <2>3. \A i \in DOMAIN backlog', g \in Fds : backlog'[i] # sock'[g]
      <3>1. TAKE i \in DOMAIN backlog', g \in Fds
      <3>2. i + 1 \in DOMAIN backlog /\ i + 1 # 1 /\ backlog'[i] = backlog[i + 1]
        BY <1>3
      <3>3. backlog[i + 1] # p
        BY <1>3, <3>2 DEF IInv, PeersPlaced
      <3>4. backlog[i + 1] # sock[g]
        BY <3>2 DEF IInv, PeersPlaced
      <3> QED
        BY <1>5, <3>2, <3>3, <3>4
    <2>4. \A i \in DOMAIN backlog' : peers[backlog'[i]].state # "away"
      BY <1>3 DEF IInv, PeersPlaced
    <2>5. \A g \in Fds : sock'[g] # NoPeer => peers[sock'[g]].state # "away"
      BY <1>3, <1>5 DEF IInv, PeersPlaced
    <2> QED
      BY <1>4, <2>1, <2>2, <2>3, <2>4, <2>5 DEF PeersPlaced
  <1>11. Unserved'
    <2>1. peers[p].replies = 0
      BY <1>3 DEF IInv, Unserved
    <2>2. \A i \in DOMAIN backlog' : peers[backlog'[i]].replies = 0
      BY <1>3 DEF IInv, Unserved
    <2> QED
      BY <1>1, <1>4, <1>5, <1>7, <2>1, <2>2 DEF IInv, Unserved
  <1>12. \A v \in Workers : Serving(workers[v]) =>
           /\ Peer(v)' = Peer(v) /\ peers'[Peer(v)].replies = peers[Peer(v)].replies
           /\ workers[v].got <= peers'[Peer(v)].sent
           /\ peers'[Peer(v)].state = "here" => peers[Peer(v)].state = "here"
    <2>1. TAKE v \in Workers
    <2>2. HAVE Serving(workers[v])
    <2>3. workers[v].fd # 0
      BY <2>2 DEF IInv, WorkerOK, Serving
    <2>4. workers[v].fd \in Fds \ {f}
      BY <1>7, <2>3, PeerOfWorker
    <2> QED
      BY <1>4, <1>5, <2>2, <2>4 DEF Peer, IInv, ServedOK
  <1>20. Written'
    BY <1>4 DEF IInv, Written
  <1> QED
    BY <1>20, <1>4, <1>6, <1>8, <1>10, <1>11, <1>12, WorkersKept DEF IInv

\* main puts the descriptor into the channel.
LEMMA SendToChannelStep ==
  ASSUME IInv, cchan_send
  PROVE  IInv'
  <1>1. /\ cfd # 0 /\ Len(jobs) < ChanCap /\ jobs' = Append(jobs, cfd) /\ cfd' = 0
        /\ UNCHANGED <<remote, sock, workers, dbvars>>
    BY DEF cchan_send
  <1>2. cfd \in Fds
    BY <1>1, TablesTyped
  <1>3. /\ jobs' \in Seq(Fds) /\ Len(jobs') = Len(jobs) + 1
        /\ DOMAIN jobs' = DOMAIN jobs \cup {Len(jobs) + 1} /\ Len(jobs) + 1 \notin DOMAIN jobs
        /\ \A i \in DOMAIN jobs : jobs'[i] = jobs[i]
        /\ jobs'[Len(jobs) + 1] = cfd
    BY <1>1, <1>2, TablesTyped, Appended
  <1>4. /\ backlog' = backlog /\ peers' = peers /\ sock' = sock /\ workers' = workers
        /\ g_worker_tids' = g_worker_tids /\ g_worker_dbs' = g_worker_dbs
    BY <1>1 DEF remote, dbvars
  <1>5. TypeOK'
    <2>1. Len(jobs) \in Nat /\ ChanCap \in Nat
      BY TablesTyped, JitAssumption
    <2>2. Len(jobs') <= ChanCap
      BY <1>1, <1>3, <2>1
    <2> QED
      BY <1>1, <1>3, <1>4, <2>2 DEF IInv, TypeOK
  <1>6. OnePlace'
    <2> DEFINE n == Len(jobs) + 1
    <2> HIDE DEF n
    <2>1. /\ DOMAIN jobs' = DOMAIN jobs \cup {n} /\ n \notin DOMAIN jobs /\ jobs'[n] = cfd
          /\ \A i \in DOMAIN jobs : jobs'[i] = jobs[i]
      BY <1>3 DEF n
    <2>2. \A g \in Fds : (\E i \in DOMAIN jobs' : jobs'[i] = g) <=> cfd = g \/ \E i \in DOMAIN jobs : jobs[i] = g
      BY <2>1
    <2>3. \A g \in Fds : sock'[g] # NoPeer <=>
            \/ cfd' = g \/ (\E i \in DOMAIN jobs' : jobs'[i] = g) \/ (\E w \in Workers : workers'[w].fd = g)
      <3>1. \A g \in Fds : cfd' # g
        BY <1>1, TablesTyped
      <3> QED
        BY <1>4, <2>2, <3>1 DEF IInv, OnePlace
    <2>4. \A i \in DOMAIN jobs' : jobs'[i] # cfd'
      BY <1>1, <1>2, <2>1, TablesTyped
    <2>5. \A i \in DOMAIN jobs', w \in Workers : jobs'[i] # workers'[w].fd
      BY <1>1, <1>4, <2>1 DEF IInv, OnePlace
    <2>6. \A i, j \in DOMAIN jobs' : jobs'[i] = jobs'[j] => i = j
      BY <2>1 DEF IInv, OnePlace
    <2> QED
      BY <1>1, <1>4, <2>3, <2>4, <2>5, <2>6 DEF IInv, OnePlace
  <1>7. PeersPlaced'
    BY <1>4 DEF IInv, PeersPlaced
  <1>8. Unserved' /\ Written'
    BY <1>1, <1>3, <1>4 DEF IInv, Unserved, Written
  <1>9. \A v \in Workers : Peer(v)' = Peer(v)
    BY <1>4 DEF Peer
  <1>10. \A v \in Workers : Serving(workers[v]) => workers[v].got <= peers[Peer(v)].sent
    BY DEF IInv, ServedOK
  <1> QED
    BY <1>4, <1>5, <1>6, <1>7, <1>8, <1>9, <1>10, WorkersKept DEF IInv

\* The kernel completes a connection of a peer that had none.
LEMMA ConnectStep ==
  ASSUME IInv, NEW p \in Peers, Connect(p)
  PROVE  IInv'
  <1>1. /\ peers[p].state = "away" /\ Len(backlog) < Backlog /\ backlog' = Append(backlog, p)
        /\ peers' = [peers EXCEPT ![p].state = "here"]
        /\ UNCHANGED <<sock, cfd, jobs, workers, dbvars>>
    BY DEF Connect
  <1> DEFINE n == Len(backlog) + 1
  <1>2. /\ backlog' \in Seq(Peers) /\ Len(backlog') = n
        /\ DOMAIN backlog' = DOMAIN backlog \cup {n} /\ n \notin DOMAIN backlog
        /\ \A i \in DOMAIN backlog : backlog'[i] = backlog[i]
        /\ backlog'[n] = p
    BY <1>1, TablesTyped, Appended
  <1>3. Len(backlog') <= Backlog
    <2>1. Len(backlog) \in Nat /\ Backlog \in Nat
      BY TablesTyped, JitAssumption
    <2> QED
      BY <1>1, <1>2, <2>1
  <1> HIDE DEF n
  <1>4. /\ sock' = sock /\ cfd' = cfd /\ jobs' = jobs /\ workers' = workers
        /\ g_worker_tids' = g_worker_tids /\ g_worker_dbs' = g_worker_dbs
    BY <1>1 DEF dbvars
  <1>5. /\ peers' \in [Peers -> PeerRecord] /\ \A q \in Peers \ {p} : peers'[q] = peers[q]
        /\ peers'[p].state = "here" /\ peers'[p].replies = peers[p].replies
    BY <1>1, TablesTyped DEF PeerRecord
  <1>6. \A i \in DOMAIN backlog : backlog[i] \in Peers \ {p}
    BY <1>1, TablesTyped DEF IInv, PeersPlaced
  <1>7. \A f \in Fds : sock[f] # p
    <2>1. p # NoPeer
      BY TablesTyped
    <2> QED
      BY <1>1, <2>1 DEF IInv, PeersPlaced
  <1>8. \A f \in Fds : sock[f] # NoPeer => peers'[sock[f]] = peers[sock[f]]
    BY <1>5, <1>7, TablesTyped
  <1>9. TypeOK'
    BY <1>2, <1>3, <1>4, <1>5 DEF IInv, TypeOK, PeerRecord
  <1>10. OnePlace'
    BY <1>4 DEF IInv, OnePlace
  <1>11. PeersPlaced'
    <2>1. \A i, j \in DOMAIN backlog' : backlog'[i] = backlog'[j] => i = j
      BY <1>2, <1>6 DEF IInv, PeersPlaced
    <2>2. \A i \in DOMAIN backlog', f \in Fds : backlog'[i] # sock'[f]
      BY <1>2, <1>4, <1>7 DEF IInv, PeersPlaced
    <2>3. \A i \in DOMAIN backlog' : peers'[backlog'[i]].state # "away"
      BY <1>2, <1>5, <1>6 DEF IInv, PeersPlaced
    <2>4. \A f \in Fds : sock'[f] # NoPeer => peers'[sock'[f]].state # "away"
      BY <1>4, <1>8 DEF IInv, PeersPlaced
    <2> QED
      BY <1>4, <2>1, <2>2, <2>3, <2>4 DEF IInv, PeersPlaced
  <1>12. Unserved'
    <2>1. \A q \in Peers : peers'[q].state = "away" => peers'[q].replies = 0
      BY <1>5 DEF IInv, Unserved
    <2>2. \A i \in DOMAIN backlog' : peers'[backlog'[i]].replies = 0
      BY <1>1, <1>2, <1>5, <1>6 DEF IInv, Unserved
    <2>3. \A i \in DOMAIN jobs : peers'[sock[jobs[i]]].replies = 0
      BY <1>8, TablesTyped DEF IInv, Unserved, OnePlace
    <2>4. cfd # 0 => peers'[sock[cfd]].replies = 0
      BY <1>8, TablesTyped DEF IInv, Unserved, OnePlace
    <2> QED
      BY <1>4, <2>1, <2>2, <2>3, <2>4 DEF Unserved
  <1>13. \A v \in Workers : Serving(workers[v]) =>
           /\ Peer(v)' = Peer(v) /\ peers'[Peer(v)] = peers[Peer(v)]
           /\ workers[v].got <= peers[Peer(v)].sent
    <2>1. TAKE v \in Workers
    <2>2. HAVE Serving(workers[v])
    <2>3. workers[v].fd # 0
      BY <2>2 DEF IInv, WorkerOK, Serving
    <2>4. workers[v].fd \in Fds /\ sock[workers[v].fd] # NoPeer
      BY <2>3, PeerOfWorker, TablesTyped
    <2> QED
      BY <1>4, <1>8, <2>2, <2>4 DEF Peer, IInv, ServedOK
  <1>20. Written'
    <2>1. \A q \in Peers : peers'[q].sent = peers[q].sent
      BY <1>1, TablesTyped DEF PeerRecord
    <2> QED
      BY <2>1 DEF IInv, Written
  <1> QED
    BY <1>20, <1>4, <1>9, <1>10, <1>11, <1>12, <1>13, WorkersKept DEF IInv

\* A peer writes more, or leaves: what it wrote and was sent stays.
LEMMA PeerStep ==
  ASSUME IInv, NEW p \in Peers, Write(p) \/ Leave(p)
  PROVE  IInv'
  <1>1. /\ peers[p].state = "here"
        /\ peers' = [peers EXCEPT ![p].sent = @ + 1] \/ peers' = [peers EXCEPT ![p].state = "left"]
        /\ UNCHANGED <<backlog, sock, cfd, jobs, workers, dbvars>>
    BY DEF Write, Leave
  <1>2. /\ backlog' = backlog /\ sock' = sock /\ cfd' = cfd /\ jobs' = jobs /\ workers' = workers
        /\ g_worker_tids' = g_worker_tids /\ g_worker_dbs' = g_worker_dbs
    BY <1>1 DEF dbvars
  <1>3. /\ peers' \in [Peers -> PeerRecord] /\ \A q \in Peers \ {p} : peers'[q] = peers[q]
        /\ peers'[p].state \in {"here", "left"} /\ peers'[p].replies = peers[p].replies
        /\ peers'[p].sent \in {peers[p].sent, peers[p].sent + 1}
    <2>1. peers \in [Peers -> PeerRecord]
      BY TablesTyped
    <2>2. CASE peers' = [peers EXCEPT ![p].sent = @ + 1]
      BY <1>1, <2>1, <2>2 DEF PeerRecord
    <2>3. CASE peers' = [peers EXCEPT ![p].state = "left"]
      BY <1>1, <2>1, <2>3 DEF PeerRecord
    <2> QED
      BY <1>1, <2>2, <2>3
  <1>4. \A q \in Peers : /\ peers'[q].state = "away" <=> peers[q].state = "away"
                         /\ peers'[q].state = "here" => peers[q].state = "here"
                         /\ peers'[q].replies = peers[q].replies
                         /\ peers[q].sent <= peers'[q].sent
                         /\ peers[q].sent \in Nat /\ peers'[q].sent \in Nat
    <2>1. TAKE q \in Peers
    <2>2. peers[q].sent \in Nat
      BY TablesTyped DEF PeerRecord
    <2>3. CASE q = p
      BY <1>1, <1>3, <2>2, <2>3
    <2>4. CASE q # p
      BY <1>3, <2>2, <2>4
    <2> QED
      BY <2>3, <2>4
  <1>5. TypeOK'
    BY <1>2, <1>3 DEF IInv, TypeOK, PeerRecord
  <1>6. OnePlace'
    BY <1>2 DEF IInv, OnePlace
  <1>7. PeersPlaced'
    <2>1. \A i \in DOMAIN backlog : peers'[backlog[i]].state # "away"
      <3>1. TAKE i \in DOMAIN backlog
      <3>2. backlog[i] \in Peers
        BY TablesTyped
      <3>3. peers[backlog[i]].state # "away"
        BY DEF IInv, PeersPlaced
      <3> QED
        BY <1>4, <3>2, <3>3
    <2>2. \A f \in Fds : sock[f] # NoPeer => peers'[sock[f]].state # "away"
      BY <1>4, TablesTyped DEF IInv, PeersPlaced
    <2> QED
      BY <1>2, <2>1, <2>2 DEF IInv, PeersPlaced
  <1>8. Unserved'
    <2>1. \A q \in Peers : peers'[q].state = "away" => peers'[q].replies = 0
      BY <1>4 DEF IInv, Unserved
    <2>2. \A i \in DOMAIN backlog : peers'[backlog[i]].replies = 0
      <3>1. TAKE i \in DOMAIN backlog
      <3>2. backlog[i] \in Peers
        BY TablesTyped
      <3>3. peers[backlog[i]].replies = 0
        BY DEF IInv, Unserved
      <3> QED
        BY <1>4, <3>2, <3>3
    <2>3. \A f \in Fds : sock[f] # NoPeer => peers'[sock[f]].replies = peers[sock[f]].replies
      BY <1>4, TablesTyped
    <2>4. \A i \in DOMAIN jobs : peers'[sock[jobs[i]]].replies = 0
      BY <2>3, TablesTyped DEF IInv, Unserved, OnePlace
    <2>5. cfd # 0 => peers'[sock[cfd]].replies = 0
      BY <2>3, TablesTyped DEF IInv, Unserved, OnePlace
    <2> QED
      BY <1>2, <2>1, <2>2, <2>4, <2>5 DEF Unserved
  <1>9. \A v \in Workers : Serving(workers[v]) =>
           /\ Peer(v)' = Peer(v) /\ peers'[Peer(v)].replies = peers[Peer(v)].replies
           /\ workers[v].got <= peers'[Peer(v)].sent
           /\ peers'[Peer(v)].state = "here" => peers[Peer(v)].state = "here"
    <2>1. TAKE v \in Workers
    <2>2. HAVE Serving(workers[v])
    <2>3. workers[v].fd # 0
      BY <2>2 DEF IInv, WorkerOK, Serving
    <2>4. Peer(v) \in Peers /\ Peer(v)' = Peer(v)
      BY <1>2, <2>3, PeerOfWorker DEF Peer
    <2>5. workers[v].got <= peers[Peer(v)].sent /\ workers[v].got \in Nat
      BY <2>2, WorkerTyped DEF IInv, ServedOK
    <2>6. workers[v].got <= peers'[Peer(v)].sent
      BY <1>4, <2>4, <2>5
    <2> QED
      BY <1>4, <2>4, <2>6
  <1>20. Written'
    <2>1. SUFFICES ASSUME NEW q \in Peers PROVE peers'[q].sent <= Len(Stream[q])
      BY DEF Written
    <2>2. peers[q].sent <= Len(Stream[q]) /\ peers[q].sent \in Nat
      BY TablesTyped DEF IInv, Written, PeerRecord
    <2>3. Len(Stream[q]) \in Nat
      BY JitAssumption, LenProperties
    <2>4. CASE Write(p) /\ q = p
      <3>1. peers[q].sent < Len(Stream[q]) /\ peers'[q].sent = peers[q].sent + 1
        BY <2>4, TablesTyped DEF Write, PeerRecord
      <3> QED
        BY <2>2, <2>3, <3>1
    <2>5. CASE ~(Write(p) /\ q = p)
      <3>1. peers'[q].sent = peers[q].sent
        BY <2>5, TablesTyped DEF Write, Leave, PeerRecord
      <3> QED
        BY <2>2, <3>1
    <2> QED
      BY <2>4, <2>5
  <1> QED
    BY <1>20, <1>2, <1>5, <1>6, <1>7, <1>8, <1>9, WorkersKept DEF IInv

-----------------------------------------------------------------------------
(* The theorems.                                                             *)

\* A step of any thread, of the kernel or of a peer keeps the invariant.
LEMMA StepIInv == IInv /\ [Next]_vars => IInv'
  <1>1. SUFFICES ASSUME IInv, [Next]_vars PROVE IInv'
    OBVIOUS
  <1>2. CASE \E p \in Peers : Connect(p) \/ Write(p) \/ Leave(p)
    BY <1>1, <1>2, ConnectStep, PeerStep
  <1>3. CASE Accept
    BY <1>1, <1>3, AcceptStep
  <1>4. CASE cchan_send
    BY <1>1, <1>4, SendToChannelStep
  <1>5. ASSUME NEW w \in Workers, Worker(w) PROVE IInv'
    BY <1>1, <1>5, RegisterStep, TakeStep, EndStep, RecvStep, HandleStep, QueryStep, AnswerStep,
       SendStep, CloseStep DEF Worker
  <1>6. CASE UNCHANGED vars
    <2>1. /\ UNCHANGED <<remote, sock, cfd, jobs, workers, dbvars>>
          /\ backlog' = backlog /\ peers' = peers /\ sock' = sock /\ cfd' = cfd /\ jobs' = jobs
          /\ workers' = workers /\ g_worker_tids' = g_worker_tids /\ g_worker_dbs' = g_worker_dbs
      BY <1>6 DEF vars, remote, dbvars
    <2>2. TypeOK' /\ OnePlace' /\ PeersPlaced' /\ Unserved' /\ Written'
      BY <1>1, <2>1 DEF IInv, TypeOK, OnePlace, PeersPlaced, Unserved, Written
    <2>3. \A v \in Workers : Peer(v)' = Peer(v)
      BY <2>1 DEF Peer
    <2> QED
      BY <1>1, <2>1, <2>2, <2>3 DEF IInv
  <1> QED
    BY <1>1, <1>2, <1>3, <1>4, <1>5, <1>6 DEF Next

\* The inductive invariant of main, the workers and the kernel holds in every reachable
\* state, for any number of workers and peers.
THEOREM Invariance == Spec => []IInv
  <1> QED
    BY InitIInv, StepIInv, PTL DEF Spec

\* app.cy's queues and tables keep their bounds and types, for every number of
\* workers, peers and descriptors.
THEOREM ThreadsTyped == Spec => []TypeOK
  <1>1. IInv => TypeOK
    BY DEF IInv
  <1> QED
    BY <1>1, Invariance, PTL

\* Every open descriptor is with main, in the channel or with one worker, and a
\* number the kernel uses again is with no thread that held it before.
THEOREM DescriptorsAlwaysExclusive == Spec => []DescriptorsExclusive
  <1>1. IInv => DescriptorsExclusive
    BY OnePlaceExclusive DEF IInv
  <1> QED
    BY <1>1, Invariance, PTL

\* A plainly framed request that a full buffer does not hold is over HTTP_BUF_MAX.
LEMMA RefusedForSize ==
  ASSUME IInv, NEW w \in Workers, workers[w].fd # 0, Plain(Peer(w)), Reading(w), Full(w),
         workers[w].nserved < Len(Meant[Peer(w)])
  PROVE  Meant[Peer(w)][workers[w].nserved + 1].head
           + Meant[Peer(w)][workers[w].nserved + 1].body + 1 > BufMax
  <1> DEFINE r == workers[w]
             p == Peer(w)
             n == r.nserved
  <1>1. p \in Peers /\ r.pc = "read" /\ ~Complete(w) /\ r.len + 1 >= r.cap /\ r.cap >= BufMax
    BY PeerOfWorker DEF Reading, Full
  <1>2. PlainOK(p, r, peers[p]) /\ r.got <= Len(Stream[p])
    BY <1>1, GotBounded DEF IInv, Serving, ServedOK
  <1>3. ~(Start(p, n + 2) <= r.got) /\ r.got - r.len = Start(p, n + 1)
    BY <1>1, <1>2, CompleteIs, WorkerTyped DEF PlainOK
  <1>4. n \in Nat /\ r.got \in Nat /\ r.len \in Nat /\ r.cap \in Nat /\ BufMax \in Nat
    BY WorkerTyped
  <1>5. Units(Meant[p][n + 1]) = Start(p, n + 2) - Start(p, n + 1)
    BY <1>1, <1>4, RequestUnits
  <1>6. Len(Meant[p]) \in Nat /\ n + 1 \in 1..Len(Meant[p])
    BY <1>1, <1>4, MeantTyped
  <1>7. PICK h \in Nat, d \in Nat : h = Meant[p][n + 1].head /\ d = Meant[p][n + 1].body
    BY <1>1, <1>6, MeantTyped
  <1>8. PICK x \in Nat, y \in Nat : x = Start(p, n + 1) /\ y = Start(p, n + 2)
    <2>1. n + 1 \in Nat \ {0} /\ n + 2 \in Nat \ {0}
      BY <1>4
    <2>2. Start(p, n + 1) \in Nat /\ Start(p, n + 2) \in Nat
      BY <1>1, <2>1, MeantTyped
    <2> QED
      BY <2>2
  <1>9. h + d = y - x
    BY <1>5, <1>7, <1>8 DEF Units
  <1>10. PICK g \in Nat, l \in Nat, c \in Nat, m \in Nat :
           g = r.got /\ l = r.len /\ c = r.cap /\ m = BufMax
    BY <1>4
  <1>11. ~(y <= g) /\ g - l = x /\ l + 1 >= c /\ c >= m
    BY <1>1, <1>3, <1>8, <1>10
  <1>12. h + d + 1 > m
    BY <1>9, <1>11
  <1> QED
    BY <1>7, <1>10, <1>12

\* http_handle_client never writes behind its buffer, whatever recv returns and however
\* a head is misread, and never before it unless a number leaves the range of a long;
\* a plainly framed request is refused only when it does not fit: for every stream,
\* every first size and every HTTP_BUF_MAX.
THEOREM BuffersAlwaysBounded == Spec => []BufferBounded
  <1>1. IInv => BufferBounded
    <2>1. SUFFICES ASSUME IInv, NEW w \in Workers, workers[w].fd # 0
                   PROVE  /\ workers[w].len < workers[w].cap /\ workers[w].cap <= BufMax
                          /\ workers[w].pc = "wild" => ~InRange(Peer(w))
                          /\ (Plain(Peer(w)) /\ Reading(w) /\ Full(w)
                               /\ workers[w].nserved < Len(Meant[Peer(w)])) =>
                               Meant[Peer(w)][workers[w].nserved + 1].head
                                 + Meant[Peer(w)][workers[w].nserved + 1].body + 1 > BufMax
      BY DEF BufferBounded, Busy
    <2>2. workers[w].len < workers[w].cap /\ workers[w].cap <= BufMax
      BY <2>1 DEF IInv, WorkerOK
    <2>3. workers[w].pc = "wild" => ~InRange(Peer(w))
      BY <2>1 DEF IInv, Serving, ServedOK
    <2> QED
      BY <2>1, <2>2, <2>3, RefusedForSize
  <1> QED
    BY <1>1, Invariance, PTL

\* A plainly framed peer's pipelined requests are answered in order, each once, when
\* they are complete, whatever the other peers of the same workers write.
THEOREM RepliesAlwaysMatch == Spec => []RepliesMatchRequests
  <1>1. IInv => RepliesMatchRequests
    <2>1. SUFFICES ASSUME IInv, NEW w \in Workers, workers[w].pc \in {"read", "handle", "send"},
                          Plain(Peer(w))
                   PROVE  /\ workers[w].nserved <= Len(Meant[Peer(w)])
                          /\ Base(w) = Start(Peer(w), workers[w].nserved + 1)
                          /\ workers[w].got <= peers[Peer(w)].sent
                          /\ peers[Peer(w)].state = "here" => peers[Peer(w)].replies = workers[w].nserved
                          /\ workers[w].pc # "read" =>
                               /\ workers[w].nserved < Len(Meant[Peer(w)])
                               /\ Start(Peer(w), workers[w].nserved + 2) <= workers[w].got
      BY DEF RepliesMatchRequests
    <2>2. ServedOK(Peer(w), workers[w], peers[Peer(w)])
      BY <2>1 DEF IInv, Serving
    <2> QED
      BY <2>1, <2>2 DEF ServedOK, PlainOK, Base
  <1> QED
    BY <1>1, Invariance, PTL

\* No two workers are ever on one SQLite connection, and a connection in use is open,
\* whichever threads have registered and whichever opens failed.
THEOREM ConnectionsAlwaysPrivate == Spec => []ConnectionsPrivate
  <1>1. IInv => ConnectionsPrivate
    BY DEF IInv, WorkerOK, ConnectionsPrivate
  <1> QED
    BY <1>1, Invariance, PTL
=============================================================================
