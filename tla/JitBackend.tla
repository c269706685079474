----------------------------- MODULE JitBackend -----------------------------
(***************************************************************************)
(* jit_backend/app.cy: one thread accepts connections and passes their      *)
(* descriptors through a bounded channel to worker threads; a worker serves *)
(* the requests of one connection until it ends, then closes the descriptor *)
(* and takes the next.  What a peer writes is a sequence of units: the blank *)
(* line behind a head, a "content-length:" with the number behind it, a NUL  *)
(* byte, or any other text.                                                  *)
(***************************************************************************)
EXTENDS Integers, Sequences, FiniteSets

CONSTANTS
  Workers,      \* the worker threads (NUM_WORKERS of them)
  Peers,        \* who may connect
  NoPeer,       \* what a free descriptor leads to
  Stream,       \* the units each peer writes
  Meant,        \* the requests it means by them, pipelined or not
  LongHalf,     \* 2^63: a long is at least -LongHalf and below LongHalf
  MaxFd,        \* the largest descriptor number the kernel hands out
  Backlog,      \* listen(sfd, 128)
  ChanCap,      \* cchan_create(256, ...)
  MaxReq,       \* max_req, requests served on one connection
  CapStart,     \* the first size of a connection's buffer
  BufMax        \* HTTP_BUF_MAX

ASSUME JitAssumption ==
  /\ MaxFd \in Nat \ {0} /\ Backlog \in Nat \ {0} /\ ChanCap \in Nat \ {0}
  /\ MaxReq \in Nat \ {0}
  /\ CapStart \in 2..BufMax /\ BufMax \in Nat
  /\ NoPeer \notin Peers /\ 0 \notin Workers
  /\ LongHalf \in Nat /\ BufMax < LongHalf
  /\ \A p \in Peers :
       Stream[p] \in Seq([kind : {"text", "length", "blank", "nul"}, field : BOOLEAN, number : Nat])

VARIABLES
  backlog,        \* connections the kernel has completed, oldest first
  peers,          \* each peer: connected or not, units written, replies received
  sock,           \* the descriptor table: the peer an open descriptor leads to
  cfd,            \* main's cfd, a descriptor that is not in the channel yet, or 0
  jobs,           \* the channel
  workers,        \* each worker's local variables
  g_worker_tids,  \* slot -> the thread it belongs to, 0 before that thread ran
  g_worker_dbs    \* slots whose SQLite connection is open

vars == <<backlog, peers, sock, cfd, jobs, workers, g_worker_tids, g_worker_dbs>>
remote == <<backlog, peers>>
dbvars == <<g_worker_tids, g_worker_dbs>>

Fds == 1..MaxFd
Absent == [state |-> "away", sent |-> 0, replies |-> 0]
FreeFds == {f \in Fds : sock[f] = NoPeer}
Lowest(S) == CHOOSE f \in S : \A g \in S : f <= g

-----------------------------------------------------------------------------
(* The text of a head.  Units are numbered from 1; a buffer that begins       *)
(* behind unit b and ends with unit g holds the units b + 1 to g.             *)

\* strstr(buf, "\r\n\r\n"), which looks no further than the first NUL.
HeadEnds(p, b, g) ==
  {i \in (b + 1)..g : /\ Stream[p][i].kind = "blank"
                      /\ \A j \in (b + 1)..i : Stream[p][j].kind # "nul"}
header_end(p, b, g) == Lowest(HeadEnds(p, b, g)) - b

\* v * 10 + digit, unchecked: the number that is written, modulo the width of v.
Wrap(v) == ((v + LongHalf) % (2 * LongHalf)) - LongHalf

\* The first "content-length:" anywhere in the head counts, be it the name of a
\* field (.field), the end of a longer name or part of a value.
LengthTexts(p, b, e) == {i \in (b + 1)..e : Stream[p][i].kind = "length"}
content_length_of(p, b, e) ==
  IF LengthTexts(p, b, e) = {} THEN 0 ELSE Wrap(Stream[p][Lowest(LengthTexts(p, b, e))].number)

\* header_end + content_len, and the test that ends the reading of a request.
UsedOf(p, b, g) ==
  Wrap(header_end(p, b, g) + content_length_of(p, b, b + header_end(p, b, g)))
WholeIn(p, b, g) == HeadEnds(p, b, g) # {} /\ g - b >= UsedOf(p, b, g)

-----------------------------------------------------------------------------
(* What the peers mean, as RFC 9112 frames a stream: a head ends with the     *)
(* first blank line, and its body is as long as its Content-Length field says. *)

\* The k-th request begins behind .at units; its .head units are followed by .body.
StreamEnd(p) ==
  LET r == Meant[p][Len(Meant[p])] IN r.at + r.head + r.body
Start(p, k) == IF k <= Len(Meant[p]) THEN Meant[p][k].at ELSE StreamEnd(p)

FieldsOf(p, r) ==
  {i \in (r.at + 1)..(r.at + r.head) : Stream[p][i].kind = "length" /\ Stream[p][i].field}

ASSUME MeantAssumption ==
  \A p \in Peers :
    /\ Meant[p] \in Seq([at : Nat, head : Nat \ {0}, body : Nat]) /\ Meant[p] # <<>>
    /\ Meant[p][1].at = 0
    /\ \A k \in 1..(Len(Meant[p]) - 1) :
         Meant[p][k + 1].at = Meant[p][k].at + Meant[p][k].head + Meant[p][k].body
    /\ \A k \in 1..Len(Meant[p]) : LET r == Meant[p][k] IN
         /\ r.at + r.head <= Len(Stream[p]) /\ Stream[p][r.at + r.head].kind = "blank"
         /\ \A i \in (r.at + 1)..(r.at + r.head - 1) : Stream[p][i].kind # "blank"
         /\ r.body = IF FieldsOf(p, r) = {} THEN 0
                     ELSE Stream[p][Lowest(FieldsOf(p, r))].number
    /\ \A i \in (StreamEnd(p) + 1)..Len(Stream[p]) : Stream[p][i].kind # "blank"

\* Requests the backend frames as they are meant: no NUL in a head, no
\* "content-length:" before the field of that name, and a length a long can hold.
Plain(p) ==
  \A k \in 1..Len(Meant[p]) : LET r == Meant[p][k] IN
    /\ \A i \in (r.at + 1)..(r.at + r.head) : Stream[p][i].kind # "nul"
    /\ LengthTexts(p, r.at, r.at + r.head) # {} =>
         Stream[p][Lowest(LengthTexts(p, r.at, r.at + r.head))].field
    /\ r.head + r.body < LongHalf

\* Numbers that leave header_end + content_len below 2^63 wherever they stand.
InRange(p) ==
  \A i \in DOMAIN Stream[p] : Stream[p][i].kind = "length" => Stream[p][i].number + BufMax <= LongHalf

-----------------------------------------------------------------------------
(* The peers and the kernel.                                                  *)

Connect(p) ==
  /\ peers[p].state = "away" /\ Len(backlog) < Backlog
  /\ backlog' = Append(backlog, p)
  /\ peers' = [peers EXCEPT ![p].state = "here"]
  /\ UNCHANGED <<sock, cfd, jobs, workers, dbvars>>

Write(p) ==
  /\ peers[p].state = "here" /\ peers[p].sent < Len(Stream[p])
  /\ peers' = [peers EXCEPT ![p].sent = @ + 1]
  /\ UNCHANGED <<backlog, sock, cfd, jobs, workers, dbvars>>

\* The peer closes or resets the connection.
Leave(p) ==
  /\ peers[p].state = "here"
  /\ peers' = [peers EXCEPT ![p].state = "left"]
  /\ UNCHANGED <<backlog, sock, cfd, jobs, workers, dbvars>>

-----------------------------------------------------------------------------
(* main                                                                       *)

Accept ==
  /\ cfd = 0 /\ backlog # <<>> /\ FreeFds # {}
  /\ LET f == Lowest(FreeFds)
     IN  sock' = [sock EXCEPT ![f] = Head(backlog)] /\ cfd' = f
  /\ backlog' = Tail(backlog)
  /\ UNCHANGED <<peers, jobs, workers, dbvars>>

\* cchan_send_i32 waits while the channel is full.
cchan_send ==
  /\ cfd # 0 /\ Len(jobs) < ChanCap
  /\ jobs' = Append(jobs, cfd)
  /\ cfd' = 0
  /\ UNCHANGED <<remote, sock, workers, dbvars>>

-----------------------------------------------------------------------------
(* http_worker_loop and http_handle_client, which it calls.                   *)

IdleWorker ==
  [pc |-> "take", fd |-> 0, nserved |-> 0, got |-> 0, len |-> 0, cap |-> 0,
   last |-> FALSE, db |-> 0]

Register(w) ==
  /\ workers[w].pc = "start"
  /\ g_worker_tids' = [g_worker_tids EXCEPT ![w] = w]
  /\ workers' = [workers EXCEPT ![w].pc = "take"]
  /\ UNCHANGED <<remote, sock, cfd, jobs, g_worker_dbs>>

\* cchan_recv_i32, and the empty buffer http_handle_client begins with.
Take(w) ==
  /\ workers[w].pc = "take" /\ jobs # <<>>
  /\ workers' = [workers EXCEPT ![w] =
       [@ EXCEPT !.pc = "read", !.fd = Head(jobs), !.cap = CapStart]]
  /\ jobs' = Tail(jobs)
  /\ UNCHANGED <<remote, sock, cfd, dbvars>>

\* The worker's buffer holds the last len units of the got units received.
Peer(w) == sock[workers[w].fd]
Base(w) == workers[w].got - workers[w].len
Used(w) == UsedOf(Peer(w), Base(w), workers[w].got)
Complete(w) == WholeIn(Peer(w), Base(w), workers[w].got)

\* The buffer doubles when it is full, up to HTTP_BUF_MAX; recv leaves a byte for
\* the NUL behind the data.
Grown(len, cap) ==
  IF len + 1 < cap THEN cap ELSE IF 2 * cap > BufMax THEN BufMax ELSE 2 * cap
RoomWithoutNul(len, cap) == cap - len
Room(len, cap) == cap - len - 1

Reading(w) == workers[w].pc = "read" /\ ~Complete(w)
Full(w) == workers[w].len + 1 >= workers[w].cap /\ workers[w].cap >= BufMax
Unread(w) == peers[Peer(w)].sent - workers[w].got

\* The request does not fit.
TooBig(w) ==
  /\ Reading(w) /\ Full(w)
  /\ workers' = [workers EXCEPT ![w].pc = "close"]
  /\ UNCHANGED <<remote, sock, cfd, jobs, dbvars>>

\* recv returns any part of what has arrived and fits.
Recv(w) ==
  /\ Reading(w) /\ ~Full(w)
  /\ LET cap == Grown(workers[w].len, workers[w].cap)
     IN  \E n \in 1..Unread(w) :
           /\ n <= Room(workers[w].len, cap)
           /\ workers' = [workers EXCEPT ![w].len = @ + n, ![w].got = @ + n,
                                           ![w].cap = cap]
  /\ UNCHANGED <<remote, sock, cfd, jobs, dbvars>>

\* recv returns 0 or fails: the peer has left, or nothing came for SO_RCVTIMEO.
RecvFailsOnLeave(w) == peers[Peer(w)].state = "left"
RecvFails(w) == peers[Peer(w)].state = "left" \/ Unread(w) = 0
RecvEnds(w) ==
  /\ Reading(w) /\ ~Full(w) /\ RecvFails(w)
  /\ workers' = [workers EXCEPT ![w].pc = "close"]
  /\ UNCHANGED <<remote, sock, cfd, jobs, dbvars>>

\* A request is complete: body[content_len] is overwritten and app_handle begins.
\* A negative length may lie before the buffer: nothing more is said of the worker.
Handle(w) ==
  /\ workers[w].pc = "read" /\ Complete(w)
  /\ workers' = [workers EXCEPT ![w].pc = IF Used(w) < 0 THEN "wild" ELSE "handle"]
  /\ UNCHANGED <<remote, sock, cfd, jobs, dbvars>>

\* The connection of the slot whose thread is the caller, opened if it is not yet;
\* 0 when there is no such slot, or Sqlite.open fails (opens is FALSE).
Slots(w) == {i \in DOMAIN g_worker_tids : g_worker_tids[i] = w}
get_dbAny(w, opens) == Lowest(DOMAIN g_worker_tids)
get_db(w, opens) ==
  IF Slots(w) = {} THEN 0
  ELSE LET i == CHOOSE i \in Slots(w) : TRUE
       IN  IF i \in g_worker_dbs \/ opens THEN i ELSE 0

\* get_db()->query(...) of a handler, which does not test for NULL.
Query(w, opens) ==
  /\ workers[w].pc = "handle"
  /\ LET db == get_db(w, opens)
     IN  /\ workers' = [workers EXCEPT ![w].db = db,
                                        ![w].pc = IF db = 0 THEN "null" ELSE "handle"]
         /\ g_worker_dbs' = g_worker_dbs \cup ({db} \ {0})
  /\ UNCHANGED <<remote, sock, cfd, jobs, g_worker_tids>>

\* The head has no space: there is no method.
BadRequest(w) ==
  /\ workers[w].pc = "read" /\ Complete(w)
  /\ workers' = [workers EXCEPT ![w].pc = "close"]
  /\ UNCHANGED <<remote, sock, cfd, jobs, dbvars>>

\* app_handle returns 0.
NoAnswer(w) ==
  /\ workers[w].pc = "handle"
  /\ workers' = [workers EXCEPT ![w].pc = "close", ![w].db = 0]
  /\ UNCHANGED <<remote, sock, cfd, jobs, dbvars>>

\* close_after: what wants_close finds, or the limit.
Answer(w, wants_close) ==
  /\ workers[w].pc = "handle"
  /\ workers' = [workers EXCEPT ![w] =
       [@ EXCEPT !.pc = "send", !.db = 0,
                 !.last = wants_close \/ workers[w].nserved + 1 >= MaxReq]]
  /\ UNCHANGED <<remote, sock, cfd, jobs, dbvars>>

\* What the buffer keeps behind the request that was answered.
RestDropped(w) == 0
RestShort(w) == workers[w].len - Used(w) - 1
Rest(w) == workers[w].len - Used(w)

\* The response is written, in full unless the peer has left; then the connection
\* ends, or the next request moves to the start of the buffer.
Send(w) ==
  /\ workers[w].pc = "send"
  /\ peers' = IF peers[Peer(w)].state = "left" THEN peers
              ELSE [peers EXCEPT ![Peer(w)].replies = @ + 1]
  /\ LET r == [workers[w] EXCEPT !.nserved = @ + 1]
     IN  workers' = [workers EXCEPT ![w] =
           IF r.last THEN [r EXCEPT !.pc = "close"]
           ELSE [r EXCEPT !.pc = "read", !.len = Rest(w)]]
  /\ UNCHANGED <<backlog, sock, cfd, jobs, dbvars>>

\* close(cfd) after http_handle_client: the number is free, the connection gone.
CloseNothing(w) == sock
Closed(w) == [sock EXCEPT ![workers[w].fd] = NoPeer]
Close(w) ==
  /\ workers[w].pc = "close"
  /\ sock' = Closed(w)
  /\ peers' = [peers EXCEPT ![Peer(w)] = Absent]
  /\ workers' = [workers EXCEPT ![w] = IdleWorker]
  /\ UNCHANGED <<backlog, cfd, jobs, dbvars>>

-----------------------------------------------------------------------------
Init ==
  /\ backlog = <<>> /\ jobs = <<>> /\ cfd = 0
  /\ peers = [p \in Peers |-> Absent]
  /\ sock = [f \in Fds |-> NoPeer]
  /\ workers = [w \in Workers |-> [IdleWorker EXCEPT !.pc = "start"]]
  /\ g_worker_tids = [w \in Workers |-> 0]
  /\ g_worker_dbs = {}

Worker(w) ==
  \/ Register(w) \/ Take(w) \/ TooBig(w) \/ Recv(w) \/ RecvEnds(w) \/ BadRequest(w)
  \/ Handle(w) \/ (\E opens \in BOOLEAN : Query(w, opens)) \/ NoAnswer(w)
  \/ (\E c \in BOOLEAN : Answer(w, c)) \/ Send(w) \/ Close(w)

Next ==
  \/ \E p \in Peers : Connect(p) \/ Write(p) \/ Leave(p)
  \/ Accept \/ cchan_send
  \/ \E w \in Workers : Worker(w)

\* Every thread that can run does; a peer owes nothing, except that one which does
\* not read its response leaves at last (send has no timeout).
Fairness == WF_vars(Accept) /\ WF_vars(cchan_send) /\ \A w \in Workers : WF_vars(Worker(w))

Spec == Init /\ [][Next]_vars /\ Fairness

-----------------------------------------------------------------------------
(* Properties.                                                                *)

\* The queues, the descriptor table and each worker's variables keep their types.
TypeOK ==
  /\ backlog \in Seq(Peers) /\ jobs \in Seq(Fds) /\ cfd \in {0} \cup Fds
  /\ Len(backlog) <= Backlog /\ Len(jobs) <= ChanCap
  /\ peers \in [Peers -> [state : {"away", "here", "left"}, sent : Nat, replies : Nat]]
  /\ sock \in [Fds -> Peers \cup {NoPeer}]
  /\ workers \in [Workers ->
       [pc : {"start", "take", "read", "handle", "wild", "null", "send", "close"},
        fd : {0} \cup Fds,
        nserved : 0..MaxReq, got : Nat, len : Nat, cap : Nat, last : BOOLEAN,
        db : {0} \cup Workers]]
  /\ g_worker_tids \in [Workers -> {0} \cup Workers]
  /\ g_worker_dbs \subseteq Workers

Busy(w) == workers[w].fd # 0
Queued == {jobs[i] : i \in DOMAIN jobs}
InHand == {cfd} \ {0}
Held == {workers[w].fd : w \in {v \in Workers : Busy(v)}}

\* Numbers travel from main through the channel to the workers and are used again
\* by the kernel as soon as they are closed; still every open descriptor is in
\* exactly one place, at most one thread serves it, and none is lost or closed
\* while a thread uses it.
DescriptorsExclusive ==
  /\ Queued \cup InHand \cup Held = Fds \ FreeFds
  /\ Queued \cap InHand = {} /\ Queued \cap Held = {} /\ InHand \cap Held = {}
  /\ \A i, j \in DOMAIN jobs : jobs[i] = jobs[j] => i = j
  /\ \A v, w \in Workers : Busy(v) /\ workers[v].fd = workers[w].fd => v = w

\* The bytes received and the NUL behind them fit the buffer, which never outgrows
\* HTTP_BUF_MAX, however recv cuts the stream and whatever was taken for a request.
\* The byte behind a body lies in the buffer too unless a number in the stream is
\* so large that header_end + content_len leaves the range of a long.  And a
\* request that is framed plainly is refused for its size only when it and the NUL
\* are more than HTTP_BUF_MAX.
BufferBounded ==
  \A w \in Workers : Busy(w) =>
    LET p == Peer(w)
        n == workers[w].nserved
    IN  /\ workers[w].len < workers[w].cap /\ workers[w].cap <= BufMax
        /\ workers[w].pc = "wild" => ~InRange(p)
        /\ (Plain(p) /\ Reading(w) /\ Full(w) /\ n < Len(Meant[p])) =>
             Meant[p][n + 1].head + Meant[p][n + 1].body + 1 > BufMax

\* A peer whose requests are framed plainly gets its replies in order, each once and
\* only when it has written all of the request: what content_length_of finds in the
\* buffered text always leads to the request after the ones that were served, however
\* they are pipelined, and a peer that stayed has a reply to each of those.  Other
\* peers, whose heads mention a content-length elsewhere or write one no long can
\* hold, are served by the same workers and change nothing in this.
RepliesMatchRequests ==
  \A w \in Workers : (workers[w].pc \in {"read", "handle", "send"} /\ Plain(Peer(w))) =>
    LET p == Peer(w)
        n == workers[w].nserved
    IN  /\ n <= Len(Meant[p]) /\ Base(w) = Start(p, n + 1)
        /\ workers[w].got <= peers[p].sent
        /\ peers[p].state = "here" => peers[p].replies = n
        /\ workers[w].pc # "read" => n < Len(Meant[p]) /\ Start(p, n + 2) <= workers[w].got

\* SQLite runs without its own mutex (SQLITE_CONFIG_MULTITHREAD), because "every
\* worker already owns its own exclusive connection (get_db())" (app.cy:510): a
\* connection a worker uses is open and no other worker uses it, whichever threads
\* have entered their number in the table and whichever opens failed, now or before.
ConnectionsPrivate ==
  \A v, w \in Workers : workers[v].db # 0 =>
    /\ workers[v].db \in g_worker_dbs
    /\ workers[w].db = workers[v].db => v = w

\* "the worker that eventually inherits a genuinely stalled/idle connection blocks
\* forever instead of ever cycling back to pick up other queued work" (app.cy:364)
\* is what SO_RCVTIMEO prevents: every connection the kernel has completed reaches
\* a worker, though others send slowly, not at all, or without end, unless the
\* process has come to its end because a handler used a connection it did not get.
EveryoneIsServed ==
  \A p \in Peers :
    (\E i \in DOMAIN backlog : backlog[i] = p)
      ~> \E w \in Workers : (Busy(w) /\ Peer(w) = p) \/ workers[w].pc = "null"
=============================================================================
