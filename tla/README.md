# nanoproxy: TLA+ models and proofs

nanoproxy is a small HTTP server, reverse proxy, TCP/UDP forwarder and DNS
responder in C: one thread around `epoll_wait`, callbacks for every event, and
global hash maps keyed by descriptor numbers, with a multi-threaded demo backend beside it. This directory holds TLA+ models of
its stateful parts, TLC configurations that check them on small instances, and
TLAPS proofs of the safety properties that hold for every size.

## 1. Inventory

| part | source | state | operations |
|---|---|---|---|
| client table | `include/socket_server.h` | `clients[10000]`, `fd_to_index`, `ip_conn_counts` | `conn_add`, `conn_del`, `get_conn` |
| event loop | `include/socket_server.h` | the epoll set, the batch of events | `run_event_loop`, `my_on_accept`, `my_on_read`, `my_on_write` |
| HTTP dispatch, sending | `include/request.h` | parser and send state of a slot | `http_dispatcher`, `http_static_dir`, `resume_send` |
| connection timeouts | `include/request.h` | `accept_time`, `last_activity` | `connection_timeout_sweep` |
| reverse proxy | `include/request.h` | `proxy_states`, `upstream_fd_to_client` | `proxy_handler`, `proxy_on_upstream_write/read`, `proxy_on_client_writable`, `proxy_on_body_data`, `proxy_cleanup`, `proxy_timeout_sweep` |
| idle upstream connections | `include/request.h` | `keepalive_pools` | `keepalive_pool_take/put/sweep` |
| upstream pools | `include/request.h` | `upstream_pools`: health, counters, `rr_counter` | `upstream_pool_register/resolve/inc_conn/dec_conn/mark_down` |
| forwarding | `include/request.h` | `forward_states`, `forward_upstream_map` | `forward_on_accept`, `forward_on_upstream_event`, `forward_on_downstream_data`, `forward_cleanup` |
| HTTP parser | `include/http.h`, `include/stringbuf.h` | state, buffer, position, request | `http_parser_feed/reset/destroy` |
| DNS | `include/dns.h` | the table of names | `dns_decode_name`, `dns_build_response`, `dns_socket_handler` |
| JSON dictionary | `include/dict.h` | objects, arrays, the reader's heap | `dict_object_set/remove/sort_keys`, `dict_serialize_json/bson`, `dict_deserialize_json/bson`, `dict_find_path` |
| configuration | `include/config.h`, `server.c` | read once at start | `load_config` |
| JIT backend | `jit_backend/*.cy` | worker threads, channel, session map | `http_worker_loop`, `http_handle_client`, `session_get/put` |
| demo backend, pages | `backend/`, `public/` | a database | HTTP endpoints |

Interaction. The loop calls a handler per event; a handler runs to its end before
the next. Handlers reach each other's state through the global maps: the proxy and
the forwarder read and write slots of the client table, `proxy_cleanup` ends the
client connection, the sweep runs before the events of a batch that was collected
earlier. The JIT backend is a process of its own behind the proxy: its main thread
passes descriptors through a channel to worker threads, which share the session map and
the table of database connections. The kernel is another actor: it reuses the lowest free descriptor number
at once, so a number in a map may already be another connection.

Hard behaviours, in the order of their importance: (a) a number that is closed and
reused while a map or an event of the batch still holds it; (b) an exchange whose
client leaves, or whose client sends more data while it is in progress; (c) paths that
end a connection or an exchange without undoing all of its accounting; (d) timeouts
racing activity, under a quota per sweep; (e) wrap of the rotation counter;
(f) partial writes in both directions; (g) worker threads, a full channel and peers
that stall; (h) input cut anywhere, or made to loop, and fixed or growing buffers at
their limit; (i) an allocation that fails half way. `PROJECT.json` lists each as a hazard at its
line.

What makes each part correct: the table finds every open client and no other; the
per-address counters are exact; a timeout ends what it should and spares the rest; an
upstream event reaches its own exchange; the counters of a pool are exact; an idle
upstream connection is clean; a healthy target is found and none is starved; bytes are
relayed in order and to the end; a request is what the grammar says, however it was cut;
a file arrives whole; a DNS reply holds the configured records; an object is a map, and
what was saved is what is read.

## 2. Modules

A C global that several handlers change is a field of one record; a C function that
changes it is an operator from record to record with the C name; an action is a
handler. So an action contains the whole handler, with every function it calls. Where a
handler loops over its input and the question is whether the loop ends or what it holds
in between (`HttpParser`, `Dns`, `JitBackend`), a pass of the loop is an action.

- `ClientTable` (operators only): the table record `clients`, `fd_to_index`,
  `ip_conn_counts`, and `open`, the client descriptors the kernel has open.
  `conn_add`, `conn_del` (for a set of descriptors, as the sweep deletes several),
  `http_parser_reset`. `conn_add` does not write `proxy_active` and `forward_active`,
  so a slot keeps them; this is in the model.
- `ConnTable` extends it: accepts (table full, address at its limit, failed set-up,
  forward listener reachable or not), HTTP reads that continue, complete or break a
  request, responses sent whole, in part or failing, raw connections, relays, ends of
  stream, seconds, and `connection_timeout_sweep`. The response that a handler builds
  is abstracted to whether it was sent whole; the parser to the four states the
  timeouts distinguish. Times are kept as ages, saturated at `AgeCap`.
- `UpstreamPool` (operators only): the pool record and its functions. `Balancer`
  drives it through every order of requests, ends, failures and seconds, in each mode.
- `ProxyExchange` extends `ClientTable` and `UpstreamPool`: the composition. Its record
  `srv` holds the table, `proxy_states`, `upstream_fd_to_client`, the pool, the idle
  connections and the kernel's view (open upstream sockets, connected or not, what is
  registered with epoll, closed descriptors still named by the batch). The bytes of a
  response are abstracted to: its head arrived and says which framing, it is complete,
  the client took all or a part or failed. `server_timeout_sweep` is three steps,
  because `proxy_timeout_sweep` collects first and ends exchanges one by one.
- `Relay`: the bytes that `ProxyExchange` leaves out, of one relayed connection of each
  kind: a proxied request, the same on a keep-alive route with and without
  Content-Length, a WebSocket tunnel, a TCP forward. Its state is `pending`/`up_buf`,
  `downstream_buf`, `resp_header_buf`, the two pause flags and the events registered for
  the two sockets; bytes are numbered, so a lost or overtaken one shows.
- `HttpParser`: `http_parser_feed` on units of text (a request line, a header, a digit,
  a line end...), with the string buffer's growth and the length the code caches before
  its loop. `HttpSession` extends it to a whole connection: reads (a TLS record may leave bytes inside the TLS layer), dispatch,
  `http_static_dir` with ranges, HEAD, compression and refusals, `resume_send` on files
  and buffers, keep-alive, failing `malloc`. `HttpGrammar` is the parser's reference: a
  direct definition of when a text is complete, wrong or unfinished, and of its body;
  it extends `HttpSession` and is recursive, so the proofs stay clear of it.
- `DnsConfig` is what `load_config` makes of the `dns` section; `Dns` is the responder,
  over bytes; `DnsReader` is the reference: a resolver that reads a message from the
  wire. What a section promises (`Said`, `MembersNamed`, `Promised`) is stated apart from
  what `load_config` keeps (`Kept`, `RecordsOf`); which values are accepted, their order and
  the limits are shared (`Listed`, `Accepted`).
- `DictObject` (operators) and `Dict`: an object as an array of pairs under every
  sequence of calls, with failing allocations, and the lookup of a path in it. `DictMap` is the abstract specification,
  a map; `Dict` refines it with `map <- MapOf(obj)`. `Json` and `Bson` are the writers
  and readers as recursive functions; a reader carries the number of allocations that
  still succeed and of the heap blocks held. A double is finite, with its decimal digits, or
  infinite or NaN. `DictDocument` is a client of the whole interface, which builds, saves,
  edits and reads files. In the repository `config.h` reads JSON and looks keys up; the
  writers, BSON, removal, sorting and paths are library functions of `dict.h` that no other
  file calls.
- `JitBackend`: `main` (accept, send to the channel), the workers (one action per step of
  `http_handle_client` at which another thread or the peer can come between: take, recv,
  handle, query, send, close), the kernel's backlog and descriptor table, and the peers, who
  write a fixed stream one unit at a time, in their own time, and may leave. A unit is the
  blank line that ends a head, a `content-length:` with the number behind it (the field, or
  the same text elsewhere in the head), a NUL, or other text (`Stream`); `Meant` says which
  requests a peer means by them. A worker's buffer is three numbers: units received, units
  in the buffer, its size; where the head ends and what the length is are computed from the
  units as `strstr` and `content_length_of` do, in a `long` of `2 * LongHalf` values, so a
  wrong length or remainder shows as a wrong request. `get_db` may fail to open. After a
  write before the buffer (`"wild"`) or a use of the NULL that `get_db` returned (`"null"`)
  the model says nothing more of that worker. Units are not split, and the NULs that the
  handler writes behind method and target are taken to fall into its own head.
- `ConnTableProofs`, `ProxyExchangeProofs`, `UpstreamPoolProofs`, `BalancerProofs`,
  `JitBackendProofs`, `RelayProofs`, `HttpSessionProofs`, `DictProofs`: the proofs, each
  about the module of its name (`UpstreamPoolProofs` holds lemmas for the two that use
  the pool). `MC*`: values of the constants.

Fields marked "observation only" (`uptime`, `waits`, `answer`, `torn`, `over`) and `n_stale`, the size of the sweep's list, are not in the
code; no guard reads them.

## 3. Runs

| run | bounds | result |
|---|---|---|
| `conn_table` | 3 slots, a counted address and a Unix peer, limit 2, sweep quota 2, timeouts 1 s, forward targets that answer or not | holds, 0.48 M states |
| `proxy_exchange` | 2 slots, 3 descriptors, 1 target, keep-alive route, pool of 1, sweep quota 1, timeouts 1 s | holds, 0.50 M states |
| `proxy_pooled` | 1 slot, 2 targets, both routes, every framing | `PooledClean` is violated |
| `balancer` | 3 targets, counter modulo 8, up to 2 connections, all modes | holds, 48 k states |
| `jit_backend` | 2 workers, 2 peers, channel of 1, 3 requests per connection, buffer 2 growing to 4, a `long` of 5 bits | holds, 1.2 M states |
| `jit_liveness` | 1 worker, 3 peers, channel of 1, backlog of 2 | holds, 0.39 M states |
| `dict` | room for 1 pair growing, every kind of value, files edited in up to 2 places, 0 to 16 allocations before one fails | holds, 50 k states |
| `http` | reads of up to 4 units, buffer 5 growing to 20, bodies of 2, sends of up to 2 | holds, 0.18 M states |
| `http_freed` | the same | `FreedOnce` is violated |
| `relay` | 2 request and 5 response bytes, 4 of a raw client, reads of up to 3 | holds, 41 k states |
| `relay_raw` | tunnel and forward | `RawInOrder` is violated |
| `dns` | labels of 3, names of 4, 2 jumps, 5 records, a reply of 80 bytes | holds, 62 k states |

Why the bounds are enough. `conn_table`: two
connections of one address reach the limit with a third slot for the refusal or for a
peer that is not counted; three slots with quota two make a sweep leave a due connection
behind, and ages run to twice the timeout so that a late close is seen. The kernel hands
out the lowest free number, so as many descriptors as slots are enough: one more
connection is refused at once. `proxy_exchange`: with two clients there is a second
exchange to be confused with the first; three descriptors are one client and two upstream
sockets, enough for an overwritten exchange beside its successor, or two clients and a
socket; when a client leaves, its number becomes an upstream socket of the other, and back;
both may connect too long while a sweep ends only one of them. One target, one route and
one framing keep it small: an upstream that ends before its head is complete is closed as
one of a route without keep-alive is, and the theorems are for all of them. `balancer`: three targets is the smallest
number that is not a power of two and eight the smallest counter with two full turns.
`jit_backend`: two threads and a number between them are enough to share or lose it; the
plain stream holds a request that fills the buffer, a short one that shares it with the
next and one that is too big; the other has a mention of a length that wraps to a place
before the buffer. `jit_liveness`: with the worker, the channel and `main` each holding a
connection, the whole pipeline is blocked by the worker's peer.
`dict`: with room for one pair the second insertion grows the array; keys and strings at
and above their limits, characters that need escaping, nesting, numbers in both notations,
an infinite one, and the int64s `SafeInt` and `-SafeInt - 1` are among the values; every file of up to 18 characters is edited at every place, and every one of up to 7 at
two. `http`: the streams of `MCHttpSession` hold two pipelined requests, bodies by length
and by chunks, headers that repeat and contradict each other, lines, headers and bodies at
and above their limits, cut by every partition into reads; the files are empty or
larger than a send and a refill of the send buffer. `relay`: three response bytes of head and two of body,
with a buffer that holds part of either, pass every state of both pauses. `dns`: labels,
names, chunks and the reply each come out shorter, equal and longer than their limit;
pointers lead back, forward, to themselves and out of the datagram; labels hold a NUL or a
dot, and a key ends with one. The replies that do not fit are explored but `AnswersExact`
does not speak of them. `jit_backend`, `jit_liveness` and the runs of `Relay`, `Dns` and
`DictDocument` do not check for deadlock: a process that used a NULL connection, a relay or
an edited file has come to its end.
`MaxConns`, `MaxActive`, `AgeCap`, `MaxEvents`, `MaxEditLen`, `Fuels` and `MaxSend` are the
bounds on what is unbounded in the code.

What the passing runs show. `IpCountExact`, `TableConsistent`, `PerIpLimit`: no path of
about twenty loses or doubles a count or a map entry. `DeadlinesKept`: with the quota,
what a sweep leaves open `l` seconds after its deadline is one of more than
`(SweepMax - MaxEvents) * (l + 1) + MaxEvents` connections, so with 10000 slots, 256 and
32 nothing is more than 43 seconds late. The sweep starts at slot 0 and newcomers
take the low slots it frees, fall due in turn and use up a part of the next quota; so
the 40 sweeps that 10000 / 256 suggests are not enough (with four slots, a quota of two and
a batch of one TLC shows it), and with `SweepMax <= MaxEvents` TLC finds a schedule in
which a connection in a high slot stays for good. It holds as long as no slot is orphaned:
one that is takes a place in every sweep.
`FreshSpared`: nothing young is closed, except through a slot that `forward_on_accept` has
forgotten, which ends a later connection with the same number when its own idle time is up.
`Routed`: although
exchanges are orphaned and overwritten and numbers reused, an open upstream socket is idle
in the pool, and then leads to no client, or leads to the exchange that has it; only the
socket of an overwritten exchange leads to its successor.
`ActiveExact`: the counters of least-conn never drift (for `http://` targets that close
their bracket). `ConnectSwept`: what the code believes to
be connecting is ended in time, unless the sweep's quota was used up by others.
`AnswersHealthy`, `NoStarvation`: the choice of a target. `DescriptorsExclusive`,
`ConnectionsPrivate`: no two workers share a descriptor or a database connection, and a
connection in use is open. `BufferBounded`: however the stream is cut and whatever its
numbers wrap to, the buffer keeps room for its NUL; only a number beyond a `long` makes the
byte behind a body lie outside it; and a request is refused exactly when it does not fit.
`RepliesMatchRequests`: requests without a NUL, with the field as the first mention of a
length, and with a length a `long` holds, are answered in order, each once. `EveryoneIsServed`: no peer can keep the others
from a worker by stalling or by sending for ever.

`RequestInOrder`, `ResponseInOrder`: through both buffers and both pauses no byte of a
proxied request or response is lost, doubled or overtaken while the relay goes on, and one
that has ended left no gap. `ClosedComplete`: the end of
the upstream never cuts a response that is delimited by it. `RelayedToTheEnd`: a pause is
always followed by a resumption. `FeedExact`, `NoStaleLength`, `Returns`: the parser's
answer depends on the bytes only, not on the reads, and it ends. `LoopAdvances`: every
pass of its loop completes a request or moves on, so none is repeated. `BodiesExact`,
`NoFdLeak`, `Delivered`: what the client gets of a file, and what stays open. `AnswersExact`,
`HandlerReturns`: the reply as a resolver reads it, compared with what the section says but
for SRV priorities and weights and the end of texts over 511 bytes, and the end of every
decoding.
`RefinesMap`, `CallsRefine`, `PairsInRoom`: an object is a map, and each call the
operation its name says. `RoundTrip`, `FitsExactly`, `PathsResolve`: what is written is
read back (from BSON the same values; from JSON what JSON can say of them, and only when
every number is finite), into exactly the buffers it fits. `NoLeak`: whatever the file holds and
whichever allocation fails, the reader gives back what it took.

What the violations show. Each states a sentence of the repository's documentation or
comments, quoted in `findings`: a response cut in mid-body is pooled; a parser is reset
after its final teardown; a forward loses or reorders bytes under backpressure.

Fairness. `JitBackend`: weak fairness of `Accept`, of `cchan_send` and
of each worker's next step, which an operating system gives to threads that can run. A
worker in `recv` can always run at last, because SO_RCVTIMEO ends the call; a worker in
`send` runs when the peer reads or leaves, which the code does not enforce, so
`EveryoneIsServed` holds for peers that do one or the other. Accept waits while no
descriptor is free, as the code's loop repeats a failing `accept`. Peers are not fair.
The event loop's modules (`HttpSession`, `Relay`, `Dns`): weak fairness of the handlers,
because epoll is level-triggered and the loop reports whatever is registered and ready,
and of a socket that takes at least a byte at last. The code ends an HTTP client that
never does by the timeouts of `ConnTable`; it does not end a relayed one, so
`RelayedToTheEnd` is about peers that read or leave. A write that would block, an error and a peer that leaves
are never forced.

## 4. What the code does that a reader may not expect

These follow from the modelled lines and are kept in the models; those not in `findings`
contradict no property that is checked.

- A keep-alive connection that has been idle between two requests is closed by the
  *header* timeout, counted from accept (`request.h:2286`), not by `idle_timeout`.
- `forward_on_accept` closes the client when `forward_connect` fails, without `conn_del`:
  slot, map entry and count stay (`request.h:2626`). If the number is reused before the slot
  falls due, the slot is never freed, and each sweep closes whatever connection has the
  number then, relays and fresh ones too.
- Data that arrives while the parser is in `HP_DONE` overwrites the exchange
  (`request.h:2002`). What the old upstream answers is then framed and relayed as the
  response of the new exchange.
- A target whose URL is not `http://`, or does not close its bracket, is refused with its
  connection still counted (`request.h:1841`, `1858`): least-conn takes it for busy.
- A write event of a socket left over from an overwritten exchange marks its successor
  connected, and the connect timeout no longer applies to it (`request.h:1157`).
- `proxy_active` survives `conn_del` and `conn_add`; the next connection of the slot is
  exempt from the timeouts (`request.h:2280`).
- `rr_counter` wraps before the remainder is taken: a scan across the wrap may skip a
  healthy target and refuse the request (`request.h:1686`).
- On a keep-alive route the exchange ends with the last byte read, not the last byte the
  client took (`request.h:1373`), and the rest is freed (`1535`); a head of more than 16384 bytes is passed on by one
  `socket_write` whose result is ignored (`request.h:1274`).
- An upstream that answers before it has read the whole request, to a client that then
  stops reading, is registered again for reading only: the rest of the request stays
  (`request.h:1453`, `2214`).
- A Range over TLS is read in whole buffers past its end, and `send_remaining` wraps;
  `BodiesExact` leaves it out. The response to an empty file leaves its descriptor open.
  A response that was not sent at once is announced as keep-alive and then closed, as the
  parser was reset. `Range: bytes=-` is answered with the whole file as a 206, which is
  never compressed. A TLS record longer than one read waits for the next record.
- `http_parser_drain_body` and the return value 2 of `http_parser_feed` cannot be
  reached: `streaming_body` is set after the head was parsed and cleared by the reset.
- DNS: the room for a record is tested with two bytes too few (`dns.h:186`); a record
  that does not fit is counted with a short length; a name that runs off the end after a
  pointer is accepted; a question that is compressed outside itself reads differently in
  the reply; a configured name with a trailing dot never matches; the priority and weight
  of SRV records are never taken from a JSON file (`config.h:554`), as its numbers are
  never `DICT_INT64`; a text is cut to 511 bytes, although the log says that it will be
  split (`config.h:492`); names are compared as C strings (`dns.h:136`), so a label that
  holds a NUL or a dot is answered with the records of another name.
- JIT backend: `content_length_of` takes the first `content-length:` anywhere in the head,
  the end of `X-Content-Length:` too, and multiplies without a check (`app.cy:296-300`): a
  negative sum with `header_end` makes the NUL behind the body fall before the buffer. A
  failed `Sqlite.open` makes `get_db` return NULL, which the handlers use (`api.cy:139`).
- JSON: an infinite or undefined double is written as `inf` or `nan`, which the reader
  refuses (`dict.h:435`); a large int64 comes back as a string, other integers as doubles; an unterminated
  block comment leaves its last character to be parsed; keys with a `/` cannot be reached
  by a path.

## 5. Proofs

Every theorem is about the specification that TLC checks, for every value of the
constants that satisfies the named assumptions of the module, which TLC evaluates in each
run. Each rests on an inductive invariant, because no property is inductive by itself.

| module | theorems |
|---|---|
| `ConnTableProofs` | `TypeCorrect`, `TableAlwaysConsistent`, `IpCountAlwaysExact`, `PerIpLimitHolds`, `DeadlinesAlwaysKept`, `FreshAlwaysSpared` |
| `ProxyExchangeProofs` | `ServerTyped`, `AlwaysRouted`, `ActiveAlwaysExact`, `ConnectsAlwaysSwept` |
| `BalancerProofs` | `PoolTyped`, `AnswersAlwaysHealthy`, `NobodyStarves` |
| `JitBackendProofs` | `ThreadsTyped`, `DescriptorsAlwaysExclusive`, `BuffersAlwaysBounded`, `RepliesAlwaysMatch`, `ConnectionsAlwaysPrivate` |
| `RelayProofs` | `RelayTyped`, `RequestsInOrder`, `ResponsesInOrder`, `ClosedAfterTheLastByte` |
| `HttpSessionProofs` | `TypeCorrect`, `LengthFresh`, `ParserAdvances`, `BodiesAreExact`, `NoDescriptorLeaks` |
| `DictProofs` | `PairsAlwaysInRoom`, `DictImplementsMap`, `CallsImplementOperations`, `PathsAlwaysResolve` |

The arguments:

- The client table. `TableInv` is the type, `Consistent`, `CountsExact` and
  `WithinLimit`. `conn_del` decrements by the address stored in the slot the map leads to,
  so exact counts need the map and the slots to agree, and injectivity of the map (two
  descriptors never share a slot) follows from `Consistent`; `PerIpLimit` counts open
  descriptors, bounded by the occupied slots, which are bounded by the counter, which is
  bounded by the limit. The lemmas state what `conn_add`, `conn_del` for any set,
  `Registered` and an update of one slot preserve.
- The timeouts. `DeadlinesAlwaysKept` has the hypothesis `FALSE \notin FwdReachable` (no
  forward target is unreachable), under which no slot is orphaned. `Sound`: an occupied slot is the one its
  descriptor leads to, the descriptor is open and at least as old as the slot, and a free
  slot has neither exemption nor age (`Flags`); so a close is a close of what was found
  stale. `Backlog`: with a slot `l` seconds late, every sweep of those seconds has closed
  `SweepMax` slots below it (`QuotaBelow`: a stale slot that is left has a full quota of
  closed ones before it), and the events since have filled one each (`Touches`, for every
  handler), so the occupied slots below it have shrunk by `SweepMax - MaxEvents` a second
  and there must have been that many. `FreshAlwaysSpared` has no such hypothesis. Its
  invariant is `Aged`: a slot that its descriptor leads to is no older than the descriptor,
  and one that it does not lead to is no HTTP connection's, so that only the idle timeout
  can make it stale.
- The proxy. `Linked`: exchanges, `upstream_fd_to_client`, the idle pool and the kernel's
  sockets agree: a mapped socket that was not overwritten is the one its exchange has, every
  open socket is idle or mapped, and an idle one is not in the map, since otherwise an event
  on it, or its reuse, would reach an exchange of its former client. `CountedIn`: the counters count
  the sockets that are not idle, orphaned ones too, which is why an overwritten exchange
  does not unbalance them. For `ConnectSwept`, `NoOlder`: no handler makes a
  connecting exchange older; and while a sweep is under way that has not collected its
  full quota, what is due is still on its list (`Due(srv) \subseteq todo`).
- The balancer. `TurnComes`: a target that has waited `w` requests is pointed at by
  `rr_counter` within the rest of `2 * NumTargets - 1`, before the wrap or in the round that
  begins with it. The assumption `NumTargets <= CounterMod` is met by any pool that fits
  the 32-bit counter. `PoolTyped` takes the place of a run: the same counters are
  checked by TLC in `proxy_exchange`.
- The JIT backend. `OnePlace` and `PeersPlaced`: a descriptor is with `main`, in the
  channel or with one worker, a peer behind one descriptor; `Unserved`: whoever has not
  reached a worker has no reply; `WorkerOK` and `ServedOK`: a worker's counters are those
  of the stream of the peer behind its descriptor. `Meant` gives the
  requests of a stream as RFC 9112 frames them, each with its place (`at`), so that where a
  request starts needs no recursion; `MeantAssumption` ties it to the units of the stream.
  For a `Plain` stream the proof shows that the first blank line, the first mention of a
  length and the wrapped sum, as the code computes them from its buffer, lead to the end of
  the request that is meant. The bounds of the buffer hold for every stream: a complete
  request has a sum of at most what is buffered, and one that is not negative leaves a
  remainder that fits; `InRange` numbers cannot make it negative.
- The relay. `Held`: while `downstream_buf` holds bytes the upstream is out of the event
  loop, so nothing is read past them and its end is not seen before they are sent;
  `HeadKept`: `resp_header_buf` is in use only until the head is complete. When a relay ends
  its buffers are freed, and what remains is that what each side has received is a
  beginning of what was sent (`Unbroken`).
- The HTTP connection. `ParserInv`: the text and its NUL fit the buffer, the position is
  inside it, the cached length is the buffer's while the loop goes on, and a body that is
  being read is below its limit together with what was promised of it (`ParserOK`: a chunk
  is admitted before its bytes come, a counted body has not reached its length). The last
  part is why `LoopAdvances` holds in a body: there is always something left to take, so a
  pass that finds a byte takes one. `SessionInv`: `BodiesExact` is not
  inductive, because it says nothing of a body that is under way. `Delivering` does:
  what the client has of the last body, followed by what the send state still holds
  (`Left`: the rest of the buffer, then the rest of the file, or the window `sendfile` has
  yet to send), is the body it asked for, and `send_remaining` counts it (`Tally`), so that
  the send ends when nothing is left. After a failed write the body is a prefix
  (`CutShort`). `FileArmed` and `BodyArmed`: an open file or an unfinished body waits for
  the write event, so no other request is read before it is done; this is what keeps two
  responses apart and a descriptor from being overwritten. A 206 over TLS is exempt, as in
  the property, and a failed `malloc` (`oom`) ends the claim about bodies, not the one
  about descriptors. `SessionAssumption`: streams are sequences of units, the requests
  have the fields the handlers read, and a file's size fits `size_t`. The proof of
  `BodiesAreExact` first failed on `Range: bytes=-`; the reference `Wanted` had left it
  out, and the instance now has it.
- Paths. `dict_find_path` is a recursive function over the positions of the path;
  `Walked`: any account of the loop that satisfies its equation is the loop's (the first
  position at which two differ cannot exist), so an explicit account settles what a
  path of one or two segments leads to. An empty segment names nothing, and neither does
  the empty key: `NoEmptyKey` for the object, `ValuesAssumption` for the objects in it,
  which `dict_object_set` made too.
- The dictionary. `Sound`: typed pairs, within the allocation, no key twice; then
  `dict_object_find_key` finds the only pair of a key, and each call is a step of `DictMap`
  or a stutter. The theorems are about `DictSpec`; the run's specification adds files,
  with steps that leave the object as it is. `KeysAssumption`: keys are strings.

Only model-checked: `EveryoneIsServed`, `Returns`, `Delivered`, `RelayedToTheEnd` and
`HandlerReturns`, which are liveness under fairness; and `FeedExact`, `RoundTrip`,
`FitsExactly`, `NoLeak` and `AnswersExact`, which compare recursive parsers, writers and
readers with recursive references and would need induction over texts and nested values.
Both are out of the prover's reach. `LoopAdvances` is the safety half of `Returns`: with it
only the scheduling of the loop is left to TLC.

## 6. Not modelled

TLS handshakes and ciphers (a failure is a failure of the set-up or of a read),
allocation failures outside the parser, the dictionary and `http_static_dir`, kqueue, the
creation of listening sockets, UDP forwarding, logging, the mock recorder, MIME types, the
text of heads and the rewriting of header lines, the compressor itself, the resolution of
a path to a file and of a URI to a handler, the sections of the configuration other than
`dns`, the vendored containers, the JSON library, the routes and the session map of the JIT
backend, the demo application. A finite double is a
decimal number of at most 17 digits, which `%.17g` and `strtod` give back; beyond the
largest exponent it is an infinity; other rounding is not modelled. `Json` and `Bson` are
written character by character, because `FitsExactly`, `RoundTrip` and `NoLeak` are about
the bytes of a buffer and a file.

## 7. Plan

1. Done: the modules above, and proofs of every safety property that a run checks about
   the client table, the timeouts, the proxy, the balancer, the JIT backend, the relay, the
   HTTP connection and the object, except for the comparisons with recursive references.
2. The session map of the JIT backend; the choice of a handler by longest prefix.
