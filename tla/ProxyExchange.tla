---------------------------- MODULE ProxyExchange ----------------------------
(***************************************************************************)
(* The life of a proxied request in include/request.h: proxy_handler takes  *)
(* a target from the pool and a connection to it (new, or idle in the       *)
(* keep-alive pool), the upstream events connect it, send the request and   *)
(* relay the response, and proxy_cleanup ends the exchange.                 *)
(*                                                                         *)
(* The maps are keyed by descriptor numbers, and the kernel gives the       *)
(* lowest free number to the next socket, client or upstream.  A client     *)
(* that goes away is deleted from the client table only, so an exchange can *)
(* outlive its client and meet another connection under the same number;    *)
(* data that arrives while the parser is in HP_DONE runs proxy_handler      *)
(* again, which overwrites the exchange.  Both are in the model.            *)
(*                                                                         *)
(* All C globals are one record, srv, and the handlers are operators on it. *)
(* Every location of this server is a proxy location of one pool.  Streamed *)
(* request bodies and WebSocket tunnels (proxy_streaming) are not here.     *)
(***************************************************************************)
EXTENDS ClientTable, UpstreamPool

CONSTANTS
  Mode,            \* balance_mode of the pool
  HttpTargets,     \* the targets whose URL begins with http:// and closes its bracket
  Answers,         \* what the heads of the responses say
  Routes,          \* proxy_keepalive of the configured locations
  ProxyTimeout,    \* proxy_timeout, seconds
  ProxySweepMax,   \* exchanges one sweep may end (128)
  PoolSize,        \* keepalive_pool_size
  PoolIdle,        \* keepalive_idle_timeout, 0 = off
  MaxActive        \* bound: requests stop when a target counts this many

ASSUME ExchangeAssumption ==
  /\ Mode \in Modes
  /\ HttpTargets \subseteq Targets
  /\ Answers \subseteq {"open", "framed", "poolable"}
  /\ Routes \subseteq BOOLEAN
  /\ ProxyTimeout \in Nat \ {0}
  /\ ProxySweepMax \in Nat \ {0}
  /\ PoolSize \in Nat /\ PoolIdle \in Nat
  /\ MaxActive \in Nat

VARIABLES
  srv,      \* the C globals and the kernel's sockets
  phase,    \* "events", or "proxy": inside server_timeout_sweep
  todo,     \* proxy_timeout_sweep: stale[] still to be handled
  swept,    \* on_timer has run since the clock last advanced
  n_stale   \* how many exchanges the last sweep of this second collected

vars == <<srv, phase, todo, swept, n_stale>>

-----------------------------------------------------------------------------
(* proxy_state_t.  resp is what is known of the response on a keep-alive     *)
(* route: nothing yet, not framed by Content-Length, framed but closing, or  *)
(* resp_poolable.                                                            *)
Responses == {"none", "open", "framed", "poolable"}

ProxyState ==
  [up : {0} \cup Fds, target : Targets, keepalive : BOOLEAN, connected : BOOLEAN,
   age : 0..ProxyTimeout, pending : BOOLEAN, buffered : BOOLEAN, resp : Responses]

NoState ==
  [up |-> 0, target |-> 0, keepalive |-> FALSE, connected |-> FALSE,
   age |-> 0, pending |-> FALSE, buffered |-> FALSE, resp |-> "none"]

Servers ==
  [tab : Tables,
   states : [Fds -> ProxyState],                \* proxy_states
   tocli : [Fds -> {0} \cup Fds],               \* upstream_fd_to_client
   pool : Pools,
   pooled : SUBSET Fds,                         \* keepalive_pools
   idle : [Fds -> 0..(PoolIdle + 1)],           \* now - idle_since
   reg : [Fds -> SUBSET {"r", "w"}],            \* events registered with epoll
   sock : [Fds -> Targets \cup {NoTarget}],     \* open upstream sockets: the peer
   estab : SUBSET Fds,                          \* those whose connect succeeded
   stale : SUBSET Fds,                          \* closed with a write event in the batch
   torn : SUBSET Fds,                           \* pooled in mid-response (observation only)
   over : SUBSET Fds]                           \* their exchange was overwritten (observation only)

Exchanges(S) == {c \in Fds : S.states[c].up # 0}
Sockets(S) == {u \in Fds : S.sock[u] # NoTarget}
OpenFds(S) == S.tab.open \cup Sockets(S)
PooledFor(S, t) == {u \in S.pooled : S.sock[u] = t}

(* epoll_ctl on a closed descriptor fails.                                    *)
event_set(S, f, ev) == IF f \in OpenFds(S) THEN [S EXCEPT !.reg[f] = ev] ELSE S

(* close() also leaves the event loop; an event of the current batch may still *)
(* name the descriptor.                                                        *)
Reported(S, F) == {f \in F : "w" \in S.reg[f]}

CloseSockets(S, U) ==
  [S EXCEPT !.sock = [u \in Fds |-> IF u \in U THEN NoTarget ELSE @[u]],
            !.reg = [u \in Fds |-> IF u \in U THEN {} ELSE @[u]],
            !.idle = [u \in Fds |-> IF u \in U THEN 0 ELSE @[u]],
            !.pooled = @ \ U, !.estab = @ \ U, !.torn = @ \ U,
            !.stale = @ \cup Reported(S, U)]

WithClient(S, c, d) == [S EXCEPT !.tab = WithConn(@, c, d)]
DropClients(S, C) ==
  [S EXCEPT !.tab = conn_del(@, C), !.reg = [f \in Fds |-> IF f \in C THEN {} ELSE @[f]],
            !.stale = @ \cup Reported(S, C)]
DropClient(S, c) == DropClients(S, {c})

-----------------------------------------------------------------------------
(* keepalive_pool_put, proxy_cleanup.  A socket is pooled as torn; UpstreamData *)
(* takes the mark away when all of the response has been relayed.              *)

keepalive_pool_put(S, u, t) ==
  IF Cardinality(PooledFor(S, t)) < PoolSize
  THEN [S EXCEPT !.pooled = @ \cup {u}, !.idle[u] = 0, !.torn = @ \cup {u}]
  ELSE CloseSockets(S, {u})

UpstreamReleasedStillMapped(S, c) ==
  LET e == S.states[c]
      A == [S EXCEPT !.states[c] = NoState,
                     !.pool = upstream_pool_dec_conn(@, e.target)]
  IN  IF e.resp = "poolable"
      THEN keepalive_pool_put([A EXCEPT !.reg[e.up] = {}], e.up, e.target)
      ELSE CloseSockets(A, {e.up})

(* The upstream half: out of the event loop and of the map, pooled or closed,  *)
(* the pool's counter and proxy_states.                                        *)
UpstreamReleased(S, c) ==
  LET e == S.states[c]
      A == [S EXCEPT !.tocli[e.up] = 0, !.states[c] = NoState,
                     !.pool = upstream_pool_dec_conn(@, e.target)]
  IN  IF e.resp = "poolable"
      THEN keepalive_pool_put([A EXCEPT !.reg[e.up] = {}], e.up, e.target)
      ELSE CloseSockets(A, {e.up})

(* The client half, for whatever connection has the number now.                *)
ClientReleased(S, c, poolable) ==
  LET d == [Conn(S.tab, c) EXCEPT !.proxy_active = FALSE]
  IN  CASE get_conn(S.tab, c) = -1 -> S
        [] get_conn(S.tab, c) # -1 /\ poolable /\ d.ka ->
             event_set(WithClient(S, c, http_parser_reset(d)), c, {"r"})
        [] OTHER -> DropClient(WithClient(S, c, d), c)

proxy_cleanup(S, c) ==
  ClientReleased(UpstreamReleased(S, c), c, S.states[c].resp = "poolable")

-----------------------------------------------------------------------------
(* proxy_handler, called by http_dispatcher.                                   *)

(* keepalive_pool_take: the connection pooled last, up to the clock's second.  *)
keepalive_pool_take(S, t, k) ==
  LET C == IF k /\ t # NoTarget THEN PooledFor(S, t) ELSE {}
  IN  IF C = {} THEN {0} ELSE {u \in C : \A v \in C : S.idle[u] <= S.idle[v]}

(* http_error(502), then the end of http_dispatcher: a connection that the     *)
(* slot calls proxied is neither reset nor closed.                             *)
Refused(S, c) ==
  LET d == Conn(S.tab, c)
  IN  CASE d.proxy_active            -> S
        [] ~d.proxy_active /\ d.ka   -> WithClient(S, c, http_parser_reset(d))
        [] ~d.proxy_active /\ ~d.ka  -> DropClient(S, c)

FreeFds(S) == Fds \ OpenFds(S)
LowestFree(S) == CHOOSE f \in FreeFds(S) : \A g \in FreeFds(S) : f <= g

(* The exchange is stored and the connection marked as the proxy's.  An older   *)
(* exchange of the client is overwritten; its socket stays open and mapped.     *)
Stored(S, c, u, t, k, reused) ==
  LET e == [up |-> u, target |-> t, keepalive |-> k, connected |-> reused,
            age |-> 0, pending |-> TRUE, buffered |-> FALSE, resp |-> "none"]
  IN  [WithClient(S, c, [Conn(S.tab, c) EXCEPT !.proxy_active = TRUE])
         EXCEPT !.states[c] = e, !.tocli[u] = c,
                !.reg[u] = IF @ = {} THEN {"r", "w"} ELSE @,
                !.over = (@ \cup ({S.states[c].up} \ {0})) \ {u}]

Reused(S, c, u, t) ==
  Stored([S EXCEPT !.pooled = @ \ {u}, !.idle[u] = 0, !.torn = @ \ {u}], c, u, t, TRUE, TRUE)

Connecting(S, c, t, k) ==
  LET u == LowestFree(S) IN Stored([S EXCEPT !.sock[u] = t], c, u, t, k, FALSE)

(* v: what the pool gave (0 = nothing); alive: it passes the MSG_PEEK test;    *)
(* link: an address resolves and connect() starts.  A URL that is not http://, *)
(* or whose bracket is not closed, is refused with the target still counted.   *)
proxy_handler(S, c, start, k, v, alive, link) ==
  LET t == upstream_pool_resolve(S.pool, Mode, start)
      P == [S EXCEPT !.pool = AfterResolve(@, Mode)]
      I == [P EXCEPT !.pool = upstream_pool_inc_conn(@, t)]
      D == IF v # 0 THEN CloseSockets(I, {v}) ELSE I
  IN  CASE t = NoTarget                    -> Refused(P, c)
        [] t # NoTarget /\ t \notin HttpTargets -> Refused(I, c)
        [] t \in HttpTargets /\ v # 0 /\ alive  -> Reused(I, c, v, t)
        [] t \in HttpTargets /\ ~(v # 0 /\ alive) /\ link /\ FreeFds(D) # {} ->
             Connecting(D, c, t, k)
        [] OTHER -> Refused([D EXCEPT !.pool = upstream_pool_dec_conn(@, t)], c)

-----------------------------------------------------------------------------
(* Events.                                                                     *)

Step(S) ==
  /\ phase = "events"
  /\ srv' = S
  /\ UNCHANGED <<phase, todo, swept, n_stale>>

(* An event of the connection c itself.  What has taken over a number that was  *)
(* closed in this batch is not reported before the next one.                    *)
Live(c) == c \in srv.tab.open /\ c \notin srv.stale

Accept ==
  /\ FreeFds(srv) # {} /\ FreeSlots(srv.tab) # {}
  /\ LET f == LowestFree(srv)
         T == conn_add([srv.tab EXCEPT !.open = @ \cup {f}], f)
     IN  Step([srv EXCEPT !.tab = WithConn(T, f, [Conn(T, f) EXCEPT !.is_http = TRUE]),
                          !.reg[f] = {"r"}])

(* A read that completes a request, or any data when the parser is in HP_DONE.  *)
(* ka is read from the head, alive matters for a pooled connection, and link    *)
(* when there is none.                                                          *)
Request(c, ka, start, k, alive, link) ==
  /\ Live(c) /\ "r" \in srv.reg[c]
  /\ \A t \in Targets : srv.pool.active[t] < MaxActive
  /\ LET d == Conn(srv.tab, c)
         S == WithClient(srv, c, [d EXCEPT !.state = "done", !.ka = ka])
     IN  /\ d.state = "done" => ka = d.ka
         /\ \E v \in keepalive_pool_take(S, upstream_pool_resolve(S.pool, Mode, start), k) :
              /\ alive => v # 0 /\ link
              /\ Step(proxy_handler(S, c, start, k, v, alive, link))

(* End of stream, a receive error or a parse error: conn_del and no more.      *)
ClientGone(c) ==
  /\ Live(c) /\ "r" \in srv.reg[c]
  /\ Step(DropClient(srv, c))

(* An upstream event finds its exchange through the client's number.           *)
Owner(u) == srv.tocli[u]
Reaches(u, ev) ==
  /\ u \in Sockets(srv) /\ ev \in srv.reg[u] /\ get_conn(srv.tab, u) = -1
  /\ Owner(u) # 0 /\ srv.states[Owner(u)].up # 0

Ready(u, ev) == u \notin srv.stale /\ Reaches(u, ev)

(* proxy_on_upstream_write, with SO_ERROR set: the target is marked down.       *)
ConnectFailed(S, c) ==
  proxy_cleanup([S EXCEPT !.pool = upstream_pool_mark_down(@, S.states[c].target)], c)

UpstreamConnectError(u) ==
  /\ Ready(u, "w") /\ ~srv.states[Owner(u)].connected
  /\ Step(ConnectFailed(srv, Owner(u)))

(* The socket is writable: what is pending is sent whole, in part, or fails.    *)
Drained(S, u, sent) ==
  LET c == S.tocli[u]
      A == [S EXCEPT !.states[c].connected = TRUE]
  IN  CASE sent = "all"  -> event_set([A EXCEPT !.states[c].pending = FALSE], u, {"r"})
        [] sent = "part" -> A
        [] sent = "fail" -> proxy_cleanup(A, c)

UpstreamWrite(u, sent) ==
  /\ Ready(u, "w")
  /\ sent # "all" => srv.states[Owner(u)].pending
  /\ Step(Drained([srv EXCEPT !.estab = @ \cup {u}], u, sent))

(* A write event of the batch for a socket that has been closed since, when its *)
(* number is already a new socket, still connecting: SO_ERROR is 0 and write()  *)
(* says EAGAIN.                                                                 *)
StaleWrite(u) ==
  /\ u \in srv.stale /\ u \notin srv.estab /\ Reaches(u, "w")
  /\ Step(Drained([srv EXCEPT !.stale = @ \ {u}], u, "part"))

(* proxy_on_upstream_read: end of stream or error.                              *)
UpstreamEnd(u) ==
  /\ Ready(u, "r") /\ u \in srv.estab
  /\ Step(proxy_cleanup(srv, Owner(u)))

(* What the client does not take is buffered; the upstream socket leaves the    *)
(* event loop.  A client that is gone takes nothing.                            *)
Relayed(S, u, taken) ==
  LET c == S.tocli[u]
  IN  IF taken = "all" /\ get_conn(S.tab, c) # -1 THEN S
      ELSE event_set([S EXCEPT !.states[c].buffered = TRUE, !.reg[u] = {}], c, {"r", "w"})

(* Bytes of a response.  resp: what its head says, when this read completes the *)
(* head on a keep-alive route; last: Content-Length bytes have been counted.    *)
UpstreamData(u, resp, last, taken) ==
  LET c == Owner(u)
      e == srv.states[c]
      S == [srv EXCEPT !.states[c].resp = resp]
  IN  /\ Ready(u, "r") /\ u \in srv.estab
      /\ IF e.keepalive /\ e.resp = "none" THEN resp # "none" ELSE resp = e.resp
      /\ last => resp \in {"framed", "poolable"}
      /\ taken = "fail" => get_conn(srv.tab, c) # -1
      /\ Step(CASE taken = "fail"            -> proxy_cleanup(S, c)
                [] taken # "fail" /\ ~last   -> Relayed(S, u, taken)
                [] taken # "fail" /\ last    ->
                     [proxy_cleanup(Relayed(S, u, taken), c) EXCEPT !.torn = @ \ {u}])

(* my_on_write for a proxied connection: proxy_on_client_writable.              *)
ClientWritable(c, taken) ==
  LET e == srv.states[c]
      A == event_set([srv EXCEPT !.states[c].buffered = FALSE], e.up, {"r"})
  IN  /\ Live(c) /\ "w" \in srv.reg[c] /\ Conn(srv.tab, c).proxy_active /\ e.up # 0
      /\ Step(CASE ~e.buffered                    -> event_set(srv, c, {"r"})
                [] e.buffered /\ taken = "all"    -> event_set(A, c, {"r"})
                [] e.buffered /\ taken = "part"   -> srv
                [] e.buffered /\ taken = "fail"   -> proxy_cleanup(srv, c))

-----------------------------------------------------------------------------
(* Time and server_timeout_sweep.                                               *)

(* connect_start and idle_since are kept as ages, saturated where the code's   *)
(* comparisons no longer tell them apart.                                      *)
Older(n, cap) == IF n < cap THEN n + 1 ELSE n

Waiting(S, c) ==
  S.states[c].up # 0 /\ (~S.states[c].connected \/ S.states[c].up \notin S.estab)

Tick ==
  /\ phase = "events" /\ swept
  /\ swept' = FALSE /\ n_stale' = 0
  /\ srv' = [srv EXCEPT
       !.states = [c \in Fds |-> [srv.states[c] EXCEPT !.age =
                     IF Waiting(srv, c) THEN Older(srv.states[c].age, ProxyTimeout) ELSE 0]],
       !.idle = [u \in Fds |-> IF u \in srv.pooled THEN Older(@[u], PoolIdle + 1) ELSE 0],
       !.pool = PoolSecond(@)]
  /\ UNCHANGED <<phase, todo>>

DueLate(S) == {c \in Exchanges(S) : ~S.states[c].connected /\ S.states[c].age > ProxyTimeout}
Due(S) == {c \in Exchanges(S) : ~S.states[c].connected /\ S.states[c].age >= ProxyTimeout}

(* epoll_wait returns a batch and on_timer begins: proxy_timeout_sweep collects *)
(* at most ProxySweepMax exchanges, in the order of a hash map.                 *)
SweepStart ==
  /\ phase = "events"
  /\ \E D \in SUBSET Due(srv) :
       /\ D = Due(srv) \/ Cardinality(D) = ProxySweepMax
       /\ Cardinality(D) <= ProxySweepMax
       /\ todo' = D /\ n_stale' = Cardinality(D)
  /\ phase' = "proxy"
  /\ srv' = [srv EXCEPT !.stale = {}]
  /\ UNCHANGED swept

(* One turn of its second loop: 504, and the target is marked down.             *)
SweepOne(c) ==
  /\ phase = "proxy" /\ c \in todo
  /\ todo' = todo \ {c}
  /\ srv' = IF srv.states[c].up # 0 THEN ConnectFailed(srv, c) ELSE srv
  /\ UNCHANGED <<phase, swept, n_stale>>

(* connection_timeout_sweep: any connections the slot does not call proxied     *)
(* may be due (when they are is the subject of ConnTable).                      *)
Unproxied(S) == {c \in S.tab.open : ~Conn(S.tab, c).proxy_active}

Overdue(S) == {u \in S.pooled : PoolIdle > 0 /\ S.idle[u] > PoolIdle}

keepalive_pool_sweep(S) == CloseSockets(S, Overdue(S))

(* The rest of server_timeout_sweep; the events of the batch come next.         *)
SweepEnd ==
  /\ phase = "proxy" /\ todo = {}
  /\ phase' = "events"
  /\ \E C \in SUBSET Unproxied(srv) : srv' = keepalive_pool_sweep(DropClients(srv, C))
  /\ swept' = TRUE
  /\ UNCHANGED <<todo, n_stale>>

-----------------------------------------------------------------------------
Init ==
  /\ srv = [tab |-> EmptyTable,
            states |-> [c \in Fds |-> NoState],
            tocli |-> [u \in Fds |-> 0],
            pool |-> upstream_pool_register,
            pooled |-> {}, idle |-> [u \in Fds |-> 0], reg |-> [f \in Fds |-> {}],
            sock |-> [u \in Fds |-> NoTarget], estab |-> {}, stale |-> {}, torn |-> {},
            over |-> {}]
  /\ phase = "events" /\ todo = {} /\ swept = FALSE /\ n_stale = 0

Taken == {"all", "part", "fail"}

(* What rand() or a hash selects; the other modes do not use it.               *)
Starts == IF Mode \in {"round-robin", "least-conn"} THEN {0} ELSE Targets

Event ==
  \/ Accept
  \/ \E c \in Fds :
       \/ \E ka, alive, link \in BOOLEAN, k \in Routes, start \in Starts :
            Request(c, ka, start, k, alive, link)
       \/ ClientGone(c)
       \/ \E taken \in Taken : ClientWritable(c, taken)
  \/ \E u \in Fds :
       \/ UpstreamConnectError(u)
       \/ \E sent \in Taken : UpstreamWrite(u, sent)
       \/ StaleWrite(u)
       \/ UpstreamEnd(u)
       \/ \E resp \in Answers \cup {"none"}, last \in BOOLEAN, taken \in Taken :
            UpstreamData(u, resp, last, taken)

Next == Event \/ Tick \/ SweepStart \/ (\E c \in Fds : SweepOne(c)) \/ SweepEnd

Spec == Init /\ [][Next]_vars

-----------------------------------------------------------------------------
(* Properties.                                                                  *)

\* The maps, the pools and the loop's variables keep their types.
TypeOK ==
  /\ srv \in Servers
  /\ phase \in {"events", "proxy"} /\ todo \in SUBSET Fds
  /\ swept \in BOOLEAN /\ n_stale \in Nat

\* Numbers are reused, exchanges outlive their clients and sockets are pooled, and
\* still every open upstream socket is in exactly one place.  Idle in the pool, it
\* leads to no client.  Otherwise upstream_fd_to_client leads from it to the one
\* exchange that has it, which is an exchange with the target it is connected to;
\* only a socket whose exchange was overwritten (request.h:2002) leads elsewhere.
\* No number is a client connection and an upstream socket at once.
Routed ==
  /\ \A c \in Exchanges(srv) :
       LET e == srv.states[c] IN srv.sock[e.up] = e.target /\ srv.tocli[e.up] = c
  /\ \A u \in Sockets(srv) : u \in srv.pooled <=> srv.tocli[u] = 0
  /\ \A u \in Fds : srv.tocli[u] # 0 =>
       /\ u \in Sockets(srv)
       /\ u \notin srv.over => srv.states[srv.tocli[u]].up = u
  /\ srv.pooled \subseteq Sockets(srv)
  /\ srv.tab.open \cap Sockets(srv) = {}

\* active_connections of a target is exactly the number of its sockets that are
\* open and not idle in the keep-alive pool, although exchanges are orphaned,
\* overwritten, pooled, reused, refused and timed out.
ActiveExact ==
  \A t \in HttpTargets :
    srv.pool.active[t] = Cardinality({u \in Fds \ srv.pooled : srv.sock[u] = t})

\* An exchange that the code takes for connecting survives the sweep of the second
\* in which it reaches proxy_timeout only when that sweep has ended as many others
\* as it may (128), its client alive or gone and whatever the order of the hash map.
ConnectSwept ==
  phase = "events" /\ swept =>
    \/ n_stale = ProxySweepMax
    \/ \A c \in Exchanges(srv) : ~srv.states[c].connected => srv.states[c].age < ProxyTimeout

\* "A fully-relayed, Content-Length-framed response on a keepalive-enabled route
\* goes back to the idle pool instead of closing ... Every other case (... or
\* cleanup from an error/EOF path where resp_poolable was never set true) closes"
\* (request.h:1487): every pooled connection has delivered its whole response.
PooledClean == srv.torn = {}
=============================================================================
