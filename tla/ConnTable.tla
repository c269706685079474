------------------------------ MODULE ConnTable ------------------------------
(***************************************************************************)
(* Every handler of include/socket_server.h and include/request.h that      *)
(* adds, deletes or times out a connection of the client table:             *)
(* my_on_accept, the read and write handlers, http_dispatcher, resume_send  *)
(* and connection_timeout_sweep.                                            *)
(*                                                                         *)
(* The server is one thread around epoll_wait, so a handler is one atomic  *)
(* step; what interleaves is the order of the events, of the seconds and   *)
(* of the sweeps.                                                          *)
(*                                                                         *)
(* accept_time and last_activity are kept as the ages the code compares    *)
(* (now - accept_time, now - last_activity), saturated at AgeCap: no       *)
(* comparison distinguishes ages above the largest timeout, so time itself *)
(* is unbounded.  Requests that are proxied are the subject of             *)
(* ProxyExchange; here no connection is proxied.                           *)
(***************************************************************************)
EXTENDS ClientTable

CONSTANTS
  HeaderTimeout, BodyTimeout, IdleTimeout,  \* seconds, 0 = off
  SweepMax,        \* connections one sweep may close (256)
  MaxEvents,       \* events per epoll_wait (MAX_EVENTS, 32)
  Remotes,         \* the peer addresses clients connect from
  Listeners,       \* kinds of configured listener
  FwdReachable     \* outcomes of forward_connect that happen

ASSUME TimeAssumption ==
  /\ HeaderTimeout \in Nat /\ BodyTimeout \in Nat /\ IdleTimeout \in Nat
  /\ SweepMax \in Nat \ {0} /\ MaxEvents \in Nat \ {0}
  /\ AgeCap >= HeaderTimeout /\ AgeCap >= BodyTimeout /\ AgeCap >= IdleTimeout

ASSUME ConfigAssumption ==
  /\ Remotes \subseteq Ips \cup {NoIp}
  /\ Listeners \subseteq {"http", "tcp", "forward"}
  /\ FwdReachable \subseteq BOOLEAN

VARIABLES
  tab,      \* the table and the kernel's set of open client descriptors
  swept,    \* on_timer has run since the clock last advanced
  budget,   \* events left in the batch epoll_wait returned
  uptime    \* seconds since each open descriptor was accepted (observation only)

vars == <<tab, swept, budget, uptime>>

-----------------------------------------------------------------------------
(* my_on_accept.                                                             *)

Counted(p) == p # NoIp /\ MaxPerIp > 0

AtLimitOffByOne(T, p) == Counted(p) /\ T.ip_conn_counts[p] > MaxPerIp
AtLimit(T, p) == Counted(p) /\ T.ip_conn_counts[p] >= MaxPerIp

(* The new slot after the per-IP check: counted, peer stored, parser set up.  *)
Registered(T, f, p, l) ==
  LET c == [Conn(T, f) EXCEPT !.peer = p, !.is_http = (l = "http")]
      n == IF Counted(p)
           THEN [T.ip_conn_counts EXCEPT ![p] = @ + 1] ELSE T.ip_conn_counts
  IN  [WithConn(T, f, c) EXCEPT !.ip_conn_counts = n]

(* forward_on_accept: on a failed forward_connect the descriptor is closed    *)
(* but conn_del is not called.                                                *)
forward_on_accept(T, f, reachable) ==
  IF reachable
  THEN WithConn(T, f, [Conn(T, f) EXCEPT !.forward_active = TRUE])
  ELSE [T EXCEPT !.open = @ \ {f}]

(* setup is FALSE when a TLS step or event_add fails.                          *)
Accepted(T, f, p, l, setup, reachable) ==
  LET A == conn_add([T EXCEPT !.open = @ \cup {f}], f)
      R == Registered(A, f, p, l)
  IN  CASE FreeSlots(T) = {} -> T
        [] FreeSlots(T) # {} /\ AtLimit(T, p) -> conn_del(A, {f})
        [] FreeSlots(T) # {} /\ ~AtLimit(T, p) /\ ~setup -> conn_del(R, {f})
        [] FreeSlots(T) # {} /\ ~AtLimit(T, p) /\ setup /\ l = "forward" ->
             forward_on_accept(R, f, reachable)
        [] OTHER -> R

(* accept(2) returns the lowest unused descriptor number.                      *)
KernelFd(T) == {f \in Fds \ T.open : \A g \in Fds \ T.open : f <= g}

Step(T) ==
  /\ budget > 0
  /\ budget' = budget - 1
  /\ tab' = T
  /\ uptime' = [f \in Fds |-> IF f \in tab.open \cap T.open THEN uptime[f] ELSE 0]
  /\ UNCHANGED swept

Accept(p, l, setup, reachable) ==
  \E f \in KernelFd(tab) : Step(Accepted(tab, f, p, l, setup, reachable))

-----------------------------------------------------------------------------
(* Events on an accepted connection.  Only descriptors in the map reach the   *)
(* handlers; a response in progress leaves only EV_WRITE registered.          *)

Live(f) == f \in tab.open \cap Mapped(tab)
Readable(f) == Live(f) /\ ~Conn(tab, f).sending
HttpReadable(f) ==
  /\ Readable(f) /\ Conn(tab, f).is_http
  /\ ~Conn(tab, f).forward_active /\ ~Conn(tab, f).proxy_active

(* A read that does not complete a request: the head or the body goes on.      *)
HttpPartial(f, s) ==
  /\ HttpReadable(f)
  /\ s \in {"head", "body"} /\ (Conn(tab, f).state = "body" => s = "body")
  /\ Step(WithConn(tab, f, [Conn(tab, f) EXCEPT !.state = s, !.idle = 0]))

(* The parser refuses the bytes (res < 0).                                     *)
HttpBad(f) ==
  /\ HttpReadable(f)
  /\ Step(conn_del(tab, {f}))

(* A read that completes a request: http_dispatcher and the handler, which     *)
(* has sent all of the response, a part of it (resume_send goes on later) or   *)
(* has failed.                                                                 *)
Dispatched(T, f, ka, sent) ==
  LET c == [Conn(T, f) EXCEPT !.state = "done", !.ka = ka, !.idle = 0, !.served = TRUE]
      r == IF ka THEN http_parser_reset(c) ELSE c
  IN  CASE sent = "all" /\ ka    -> WithConn(T, f, r)
        [] sent = "all" /\ ~ka   -> conn_del(T, {f})
        [] sent = "part"         -> WithConn(T, f, [r EXCEPT !.sending = TRUE])
        [] sent = "fail"         -> conn_del(T, {f})

HttpRequest(f, ka, sent) ==
  /\ HttpReadable(f)
  /\ Step(Dispatched(tab, f, ka, sent))

(* resume_send on EV_WRITE: the response is finished or fails.  The decision   *)
(* to keep the connection is taken again, from the parser as it now is.  When  *)
(* the file cannot be read any more (TLS), the response is abandoned with only *)
(* EV_WRITE registered: a response that never ends.                            *)
SendFinished(T, f) ==
  IF Conn(T, f).ka
  THEN WithConn(T, f, [http_parser_reset(Conn(T, f)) EXCEPT !.sending = FALSE])
  ELSE conn_del(T, {f})

resume_send(f, ok) ==
  /\ Live(f) /\ Conn(tab, f).sending
  /\ Step(IF ok THEN SendFinished(tab, f) ELSE conn_del(tab, {f}))

(* Data on a raw TCP connection or on a relay: only last_activity changes.     *)
RawRead(f) ==
  /\ Readable(f) /\ (Conn(tab, f).forward_active \/ ~Conn(tab, f).is_http)
  /\ Step(WithConn(tab, f, [Conn(tab, f) EXCEPT !.idle = 0]))

(* forward_cleanup from a failed upstream send: the relay is dropped and the   *)
(* client connection stays, as a raw TCP connection.                           *)
ForwardSendError(f) ==
  /\ Readable(f) /\ Conn(tab, f).forward_active
  /\ Step(WithConn(tab, f, [Conn(tab, f) EXCEPT !.forward_active = FALSE, !.idle = 0]))

(* End of stream or error on the client, or on the upstream of a relay:        *)
(* forward_cleanup for a relay, conn_del for all.                              *)
Disconnect(f) ==
  /\ Readable(f) /\ ~Conn(tab, f).proxy_active
  /\ Step(conn_del(WithConn(tab, f, [Conn(tab, f) EXCEPT !.forward_active = FALSE]), {f}))

-----------------------------------------------------------------------------
(* Time and connection_timeout_sweep.                                          *)

Older(n) == IF n < AgeCap THEN n + 1 ELSE n

(* One second passes.  The loop comes back to epoll_wait at least once a       *)
(* second, and every turn runs on_timer first.                                 *)
Tick ==
  /\ swept
  /\ swept' = FALSE
  /\ tab' = [tab EXCEPT !.clients = [i \in Slots |->
       IF tab.clients[i].fd = 0 THEN tab.clients[i]
       ELSE [tab.clients[i] EXCEPT !.age = Older(@), !.idle = Older(@)]]]
  /\ uptime' = [f \in Fds |-> IF f \in tab.open THEN Older(uptime[f]) ELSE 0]
  /\ UNCHANGED budget

ExpiredLate(n, timeout) == timeout > 0 /\ n > timeout
Expired(n, timeout) == timeout > 0 /\ n >= timeout

TimedOut(c) ==
  \/ c.is_http /\ c.state \in {"start", "head"} /\ Expired(c.age, HeaderTimeout)
  \/ c.is_http /\ c.state = "body" /\ Expired(c.idle, BodyTimeout)
  \/ Expired(c.idle, IdleTimeout)

StaleWithRelays(c) == c.fd # 0 /\ ~c.proxy_active /\ TimedOut(c)

Stale(c) ==
  c.fd # 0 /\ ~c.forward_active /\ ~c.proxy_active /\ TimedOut(c)

(* The first SweepMax stale slots in index order, by descriptor.               *)
StaleFds(T) ==
  LET S == {i \in Slots : Stale(T.clients[i])}
  IN  {T.clients[i].fd : i \in {j \in S : Cardinality({k \in S : k < j}) < SweepMax}}

connection_timeout_sweep(T) == conn_del(T, StaleFds(T))

(* epoll_wait returns a new batch and on_timer runs before it is handled.      *)
Sweep ==
  /\ tab' = connection_timeout_sweep(tab)
  /\ swept' = TRUE
  /\ budget' = MaxEvents
  /\ uptime' = [f \in Fds |-> IF f \in tab'.open THEN uptime[f] ELSE 0]

-----------------------------------------------------------------------------
Init ==
  /\ tab = EmptyTable
  /\ swept = FALSE
  /\ budget = 0
  /\ uptime = [f \in Fds |-> 0]

Event ==
  \/ \E p \in Remotes, l \in Listeners, setup \in BOOLEAN, r \in FwdReachable :
       Accept(p, l, setup, r)
  \/ \E f \in Fds : \/ \E s \in {"head", "body"} : HttpPartial(f, s)
                    \/ HttpBad(f)
                    \/ \E ka \in BOOLEAN, sent \in {"all", "part", "fail"} :
                         HttpRequest(f, ka, sent)
                    \/ \E ok \in BOOLEAN : resume_send(f, ok)
                    \/ RawRead(f)
                    \/ ForwardSendError(f)
                    \/ Disconnect(f)

Next == Event \/ Tick \/ Sweep

Spec == Init /\ [][Next]_vars

-----------------------------------------------------------------------------
(* Properties.                                                                 *)

\* The table, the counters and the loop's variables keep their types.
TypeOK ==
  /\ tab \in Tables
  /\ swept \in BOOLEAN
  /\ budget \in 0..MaxEvents
  /\ uptime \in [Fds -> 0..AgeCap]

Holding(T, p) == {i \in Slots : T.clients[i].fd # 0 /\ T.clients[i].peer = p}

CountsExact(T) ==
  \A p \in Ips : T.ip_conn_counts[p] =
    IF MaxPerIp > 0 THEN Cardinality(Holding(T, p)) ELSE 0

Consistent(T) ==
  /\ \A f \in Mapped(T) : T.clients[get_conn(T, f)].fd = f
  /\ T.open \subseteq Mapped(T)

\* Whatever way connections end (refused at the limit, failed set-up, end of
\* stream, parse error, timeout), ip_conn_counts holds for every address exactly
\* the number of occupied slots whose peer it is: no path counts a connection
\* twice, forgets one, or decrements for one that was never counted.
IpCountExact == CountsExact(tab)

\* fd_to_index never leads to a slot that holds another descriptor, and every
\* descriptor the kernel still has open for a client can be found in it, so no
\* accepted connection is lost to the event loop.
TableConsistent == Consistent(tab)

\* The kernel never has more than max_connections_per_ip client connections of
\* one address open.
PerIpLimit ==
  MaxPerIp > 0 =>
    \A p \in Ips :
      Cardinality({f \in tab.open : Conn(tab, f).peer = p}) <= MaxPerIp

(* The connection in c has been due for l seconds: it is an HTTP connection     *)
(* that has not delivered its first head, or has been idle too long.            *)
Headless(c) == c.is_http /\ ~c.served /\ c.state \in {"start", "head"}

Late(c, l) ==
  /\ c.fd # 0 /\ ~c.forward_active
  /\ \/ HeaderTimeout > 0 /\ Headless(c) /\ c.age = HeaderTimeout + l
     \/ IdleTimeout > 0 /\ c.idle = IdleTimeout + l

(* The slots a failed forward_on_accept left behind that still name the number   *)
(* f, which now belongs to another connection.                                   *)
Orphans(T, f) == {i \in Slots : T.clients[i].fd = f /\ get_conn(T, f) # i}

\* The timeouts are kept although one sweep closes at most SweepMax connections,
\* from slot 0 on, while newcomers take the slots it frees and fall due again: a
\* connection that a sweep leaves open l seconds after its deadline is one of
\* more than (SweepMax - MaxEvents) * (l + 1) + MaxEvents. With 10000 slots, 256
\* and 32 nothing is more than 43 seconds late. A quota that is not larger than
\* the batch (SweepMax <= MaxEvents) bounds nothing. An orphaned slot is never
\* freed, and takes a place of every later sweep for itself: with one in the table
\* nothing is said.
DeadlinesKept ==
  SweepMax > MaxEvents /\ swept /\ (\A f \in Fds : Orphans(tab, f) = {}) =>
    \A i \in Slots, l \in 0..AgeCap :
      Late(tab.clients[i], l) =>
        (SweepMax - MaxEvents) * (l + 1) + MaxEvents < NumClients

(* f may be closed: it has been open for one of the timeouts, and is no relay.   *)
Due(T, up, f) ==
  /\ \E t \in {HeaderTimeout, BodyTimeout, IdleTimeout} : t > 0 /\ up[f] >= t
  /\ ~Conn(T, f).forward_active

\* Which connections a sweep may close: those older than one of the timeouts that
\* are no relays, and, because forward_on_accept closes a descriptor without
\* conn_del, those whose number an orphaned slot still names once that slot has
\* been idle for the idle timeout. Nothing else a slot or a number was used for
\* before (a reused slot, a reused number, a kept peer or flag) makes the sweep
\* close a fresh connection. That a slot with a left-over flag is never closed at
\* all is no violation of this.
FreshSpared ==
  [][Sweep => \A f \in tab.open \ tab'.open :
        \/ Due(tab, uptime, f)
        \/ \E i \in Orphans(tab, f) :
             /\ ~tab.clients[i].is_http
             /\ IdleTimeout > 0 /\ tab.clients[i].idle >= IdleTimeout]_vars
=============================================================================
