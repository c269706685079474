-------------------------------- MODULE Relay --------------------------------
(***************************************************************************)
(* The bytes of one relayed connection, in both directions, and the epoll  *)
(* events the relay has asked for on its two sockets: a proxied request    *)
(* ("plain", or on a keep-alive route "framed" by Content-Length and       *)
(* "unframed"), a WebSocket tunnel and a TCP port forward.  How exchanges  *)
(* are made, found and ended is in ProxyExchange and ConnTable.            *)
(*                                                                         *)
(* Byte i of a direction is the number i.  A read returns some of what the *)
(* peer has sent, a write takes any part of what it is given.  epoll is    *)
(* level-triggered; a socket without a registered event is silent.         *)
(***************************************************************************)
EXTENDS Integers, Sequences, FiniteSets

CONSTANTS
  Kinds,       \* the relays to check
  NRequest,    \* bytes of the request as proxy_handler rebuilt it
  NClient,     \* bytes the client sends in all (tunnel and forward)
  NResponse,   \* bytes the upstream sends in all
  HeadLen,     \* of those, the status line and the headers
  MaxHead,     \* a longer head is not parsed (16384)
  MaxAhead,    \* bytes an upstream may send before it has the whole request
  MaxRead      \* CHUNK_SIZE

ASSUME RelayAssumption ==
  /\ Kinds \subseteq {"plain", "framed", "unframed", "tunnel", "forward"}
  /\ {NRequest, NClient, NResponse, HeadLen, MaxHead, MaxRead} \subseteq Nat \ {0}
  /\ HeadLen <= NResponse /\ NRequest <= NClient /\ MaxAhead \in 0 .. NResponse

VARIABLES
  kind, ahead,  \* the relay, and how early its upstream answers
  connected,    \* ps->connected, fs->connected
  pending,      \* ps->pending, fs->up_buf: not yet sent to the upstream
  upgot,        \* what the upstream has received
  cread,        \* how many of the client's bytes have been read
  uread,        \* how many of the upstream's bytes have been read
  head,         \* keep-alive routes: "open", "parsed", or "raw" when it was given up
  hdr,          \* resp_header_buf: a head that is not complete
  down,         \* downstream_buf: not yet sent to the client
  clgot,        \* what the client has received
  cpaused, upaused,  \* client_paused, upstream_paused
  cev, uev,     \* events registered for the client's and the upstream's socket
  over          \* "no", or how the relay ended: "done", "eof", "error"

vars == <<kind, ahead, connected, pending, upgot, cread, uread, head, hdr, down, clgot,
          cpaused, upaused, cev, uev, over>>

Upward == <<connected, pending, upgot, cread, cpaused>>
Downward == <<uread, head, hdr, down, clgot, upaused>>
Transferred == <<connected, upgot, cread, cpaused, uread, head, clgot, upaused>>

Bytes(first, n) == [i \in 1 .. n |-> first + i - 1]
From(s, k) == SubSeq(s, k + 1, Len(s))
To(s, k) == SubSeq(s, 1, k)

Proxied == kind # "forward"
Keepalive == kind \in {"framed", "unframed"}

(* What the upstream has sent: a server that has not got the whole request  *)
(* may already answer, up to ahead bytes; raw peers send when they like.    *)
Answered ==
  IF kind \in {"tunnel", "forward"} \/ Len(upgot) >= NRequest THEN NResponse ELSE ahead

-----------------------------------------------------------------------------
(* proxy_on_upstream_write.  With nothing left to send, reads of the client *)
(* resume and the upstream is registered for reading only.                  *)
proxy_on_upstream_write(k) ==
  /\ over = "no" /\ Proxied /\ "w" \in uev
  /\ k <= Len(pending)
  /\ connected' = TRUE
  /\ upgot' = upgot \o To(pending, k)
  /\ pending' = From(pending, k)
  /\ cpaused' = (cpaused /\ pending' # <<>>)
  /\ cev' = IF cpaused /\ ~cpaused' THEN {"r"} ELSE cev
  /\ uev' = IF pending' = <<>> THEN {"r"} ELSE uev
  /\ UNCHANGED <<kind, ahead, cread, over, Downward>>

(* Mutant: what is buffered is noted, the upstream stays registered. *)
HoldStaysRegistered(rest) ==
  IF rest = <<>> THEN UNCHANGED <<down, upaused, cev, uev>>
  ELSE /\ down' = rest /\ upaused' = TRUE
       /\ cev' = {"r", "w"} /\ UNCHANGED uev

(* Mutant: one byte too many is copied. *)
HoldOneMore(rest) ==
  IF rest = <<>> THEN UNCHANGED <<down, upaused, cev, uev>>
  ELSE /\ down' = Append(rest, 0) /\ upaused' = TRUE
       /\ uev' = {} /\ cev' = {"r", "w"}

(* What the client did not take replaces downstream_buf; the upstream       *)
(* leaves the event loop until the client is writable.                      *)
Hold(rest) ==
  IF rest = <<>> THEN UNCHANGED <<down, upaused, cev, uev>>
  ELSE /\ down' = rest /\ upaused' = TRUE
       /\ uev' = {} /\ cev' = {"r", "w"}

(* A read of n bytes from the upstream. *)
UpstreamRead(n) ==
  /\ over = "no" /\ connected /\ "r" \in uev
  /\ uread + n <= Answered
  /\ uread' = uread + n

(* proxy_on_upstream_read: the client takes k of the n bytes. *)
RelayPlain(n, k) ==
  /\ kind \in {"plain", "tunnel"} /\ UpstreamRead(n) /\ k <= n
  /\ clgot' = clgot \o Bytes(uread + 1, k)
  /\ Hold(Bytes(uread + k + 1, n - k))
  /\ UNCHANGED <<kind, ahead, head, hdr, over, Upward>>

(* proxy_relay_upstream_keepalive: the head is collected first, given up    *)
(* when it gets too long (what the client does not take of it then is       *)
(* lost), and relayed with the body bytes that came with it.                *)
HeadMissing(n) == head = "open" /\ uread + n < HeadLen

CollectHead(n) ==
  /\ Keepalive /\ UpstreamRead(n) /\ HeadMissing(n)
  /\ Len(hdr) + n <= MaxHead
  /\ hdr' = hdr \o Bytes(uread + 1, n)
  /\ UNCHANGED <<kind, ahead, head, down, clgot, upaused, cev, uev, over, Upward>>

GiveUpHead(n, k) ==
  LET out == hdr \o Bytes(uread + 1, n)
  IN  /\ Keepalive /\ UpstreamRead(n) /\ HeadMissing(n)
      /\ Len(out) > MaxHead /\ k <= Len(out)
      /\ head' = "raw" /\ hdr' = <<>>
      /\ clgot' = clgot \o To(out, k)
      /\ UNCHANGED <<kind, ahead, down, upaused, cev, uev, over, Upward>>

(* proxy_cleanup, forward_cleanup: every buffer is freed with what it still  *)
(* holds, and no event of either socket is the relay's any more.            *)
Ended(how) ==
  /\ over' = how
  /\ pending' = <<>> /\ hdr' = <<>> /\ down' = <<>>
  /\ cev' = {} /\ uev' = {}

(* The exchange ends when the bytes that Content-Length announced have been *)
(* read, although the client may not have taken them.                       *)
AllRelayed(n) == kind = "framed" /\ head # "raw" /\ uread + n >= NResponse

RelayKeepalive(n, k) ==
  LET out == hdr \o Bytes(uread + 1, n)
  IN  /\ Keepalive /\ UpstreamRead(n) /\ ~HeadMissing(n) /\ k <= Len(out)
      /\ head' = IF head = "open" THEN "parsed" ELSE head
      /\ clgot' = clgot \o To(out, k)
      /\ IF AllRelayed(n) THEN Ended("done") /\ UNCHANGED upaused
         ELSE Hold(From(out, k)) /\ hdr' = <<>> /\ UNCHANGED <<pending, over>>
      /\ UNCHANGED <<kind, ahead, connected, upgot, cread, cpaused>>

(* The upstream has closed: proxy_cleanup deletes the client's connection. *)
UpstreamEof ==
  /\ over = "no" /\ connected /\ "r" \in uev
  /\ uread = NResponse
  /\ Ended("eof")
  /\ UNCHANGED <<kind, ahead, Transferred>>

(* Mutant: reads of the upstream resume after any write to the client. *)
DrainedAtAll(rest) == TRUE

Drained(rest) == rest = <<>>

(* Mutant: the upstream is not registered again. *)
ResumedForgotten == {}

ResumedEvents == {"r"}

(* proxy_on_client_writable *)
proxy_on_client_writable(k) ==
  /\ over = "no" /\ Proxied /\ "w" \in cev
  /\ k <= Len(down)
  /\ clgot' = clgot \o To(down, k)
  /\ down' = From(down, k)
  /\ IF Drained(down')
     THEN /\ cev' = {"r"}
          /\ upaused' = (upaused /\ down = <<>>)
          /\ uev' = IF upaused /\ down # <<>> THEN ResumedEvents ELSE uev
     ELSE UNCHANGED <<cev, uev, upaused>>
  /\ UNCHANGED <<kind, ahead, uread, head, hdr, over, Upward>>

(* Mutant: a connected upstream is written to, whatever is pending. *)
MustQueueUnconnected == ~connected

MustQueue == ~connected \/ pending # <<>>

(* proxy_on_body_data: n bytes of a tunnel's client, of which the upstream  *)
(* takes k unless older ones are waiting.                                   *)
proxy_on_body_data(n, k) ==
  /\ over = "no" /\ kind = "tunnel" /\ "r" \in cev
  /\ cread + n <= NClient
  /\ cread' = cread + n
  /\ IF MustQueue
     THEN /\ k = 0
          /\ pending' = pending \o Bytes(cread + 1, n)
          /\ UNCHANGED <<upgot, cpaused, cev, uev>>
     ELSE /\ k <= n
          /\ upgot' = upgot \o Bytes(cread + 1, k)
          /\ pending' = IF k < n THEN Bytes(cread + k + 1, n - k) ELSE pending
          /\ IF k = n THEN UNCHANGED <<cpaused, cev, uev>>
             ELSE cpaused' = TRUE /\ cev' = {} /\ uev' = {"r", "w"}
  /\ UNCHANGED <<kind, ahead, connected, over, Downward>>

-----------------------------------------------------------------------------
(* forward_on_upstream_event, EV_WRITE: connected, then one attempt to      *)
(* flush up_buf.                                                            *)
ForwardWritable(k) ==
  /\ over = "no" /\ kind = "forward" /\ "w" \in uev
  /\ k <= Len(pending)
  /\ connected' = TRUE
  /\ uev' = IF connected THEN uev ELSE {"r"}
  /\ upgot' = upgot \o To(pending, k)
  /\ pending' = From(pending, k)
  /\ UNCHANGED <<kind, ahead, cread, cpaused, cev, over, Downward>>

(* EV_READ: what the client does not take is not kept. *)
ForwardReadable(n, k) ==
  /\ kind = "forward" /\ UpstreamRead(n) /\ k <= n
  /\ clgot' = clgot \o Bytes(uread + 1, k)
  /\ UNCHANGED <<kind, ahead, head, hdr, down, upaused, cev, uev, over, Upward>>

(* forward_on_downstream_data: sent at once when connected, whatever waits  *)
(* in up_buf.                                                               *)
forward_on_downstream_data(n, k) ==
  /\ over = "no" /\ kind = "forward" /\ "r" \in cev
  /\ cread + n <= NClient
  /\ cread' = cread + n
  /\ k <= IF connected THEN n ELSE 0
  /\ upgot' = upgot \o Bytes(cread + 1, k)
  /\ pending' = pending \o Bytes(cread + k + 1, n - k)
  /\ uev' = IF connected /\ k < n THEN {"r", "w"} ELSE uev
  /\ UNCHANGED <<kind, ahead, connected, cpaused, cev, over, Downward>>

(* A read or a write on either socket fails, or the client goes away. *)
Broken ==
  /\ over = "no"
  /\ Ended("error")
  /\ UNCHANGED <<kind, ahead, Transferred>>

-----------------------------------------------------------------------------
(* The end of proxy_handler, and forward_on_accept. *)
Init ==
  /\ kind \in Kinds /\ ahead \in 0 .. MaxAhead
  /\ connected = FALSE
  /\ pending = IF Proxied THEN Bytes(1, NRequest) ELSE <<>>
  /\ cread = Len(pending)
  /\ upgot = <<>> /\ uread = 0 /\ head = "open" /\ hdr = <<>> /\ down = <<>> /\ clgot = <<>>
  /\ cpaused = FALSE /\ upaused = FALSE
  /\ cev = {"r"} /\ uev = {"r", "w"}
  /\ over = "no"

Sizes == 0 .. (NClient + NResponse)
Some == 1 .. MaxRead

SendUp == \E k \in Sizes : (pending # <<>> => k > 0) /\ proxy_on_upstream_write(k)
Respond ==
  \E n \in Some, k \in Sizes :
    RelayPlain(n, k) \/ CollectHead(n) \/ GiveUpHead(n, k) \/ RelayKeepalive(n, k)
SendDown == \E k \in Sizes : (down # <<>> => k > 0) /\ proxy_on_client_writable(k)
WouldBlock == pending # <<>> /\ (proxy_on_upstream_write(0) \/ ForwardWritable(0))
Forwarding ==
  \/ \E k \in Sizes : (pending # <<>> => k > 0) /\ ForwardWritable(k)
  \/ \E n \in Some, k \in Sizes : ForwardReadable(n, k)
ClientSends ==
  \E n \in Some, k \in Sizes : proxy_on_body_data(n, k) \/ forward_on_downstream_data(n, k)

Next ==
  \/ SendUp \/ Respond \/ SendDown \/ UpstreamEof \/ WouldBlock \/ Forwarding
  \/ ClientSends \/ Broken

(* The loop reports what is registered and ready; peers read and answer.    *)
Spec ==
  /\ Init /\ [][Next]_vars
  /\ WF_vars(SendUp) /\ WF_vars(Respond) /\ WF_vars(SendDown) /\ WF_vars(UpstreamEof)

-----------------------------------------------------------------------------
\* Every buffer holds bytes of its own direction, and what is read is bounded.
TypeOK ==
  /\ kind \in Kinds /\ ahead \in 0 .. MaxAhead /\ over \in {"no", "done", "eof", "error"}
  /\ head \in {"open", "parsed", "raw"}
  /\ connected \in BOOLEAN /\ cpaused \in BOOLEAN /\ upaused \in BOOLEAN
  /\ cev \subseteq {"r", "w"} /\ uev \subseteq {"r", "w"}
  /\ cread \in 0 .. NClient /\ uread \in 0 .. NResponse
  /\ pending \in Seq(1 .. NClient) /\ upgot \in Seq(1 .. NClient)
  /\ \A s \in {hdr, down, clgot} : s \in Seq(1 .. NResponse)

(* What was delivered has no gap. *)
Unbroken(got) == got = Bytes(1, Len(got))

\* proxy_on_upstream_write, proxy_on_body_data: what the upstream has received
\* and what is still pending are, in this order, all that was read from the
\* client, and a relay that has ended has left no gap.  (A forward sends past
\* what waits in up_buf.)
RequestInOrder ==
  Proxied => IF over = "no" THEN upgot \o pending = Bytes(1, cread) ELSE Unbroken(upgot)

\* proxy_on_upstream_read and proxy_on_client_writable on a proxied request: at
\* every moment what the client has received, the buffered rest and the head
\* being collected are, in this order, all that was read from the upstream;
\* nothing is overwritten, reordered or sent past the buffer, and a response
\* that ends early has no gap.  (A head given up as too long is excepted: what
\* the client does not take of it is lost at request.h:1274.  A response that
\* ends need not be whole: what is buffered when the last byte of a framed one is
\* read is freed at request.h:1535.  ClosedComplete is about the others.)
ResponseInOrder ==
  kind \in {"plain", "framed", "unframed"} /\ head # "raw" =>
    IF over = "no" THEN clgot \o down \o hdr = Bytes(1, uread) ELSE Unbroken(clgot)

\* README.md:59, "full bidirectional backpressure": while the client has not
\* taken what is buffered for it, the upstream of a request is not read, and so
\* the end of the upstream cannot delete a client that has bytes to come.
ClosedComplete ==
  kind \in {"plain", "unframed"} /\ head # "raw" /\ over = "eof" => clgot = Bytes(1, NResponse)

\* A request whose upstream answers after it has read it is relayed to its end,
\* whatever the sockets take at a time, unless one of them fails.
RelayedToTheEnd ==
  (kind = "plain" /\ ahead = 0) ~> over # "no"

\* README.md:60 and README.md:73, "the connection becomes a raw bidirectional
\* tunnel", "Bidirectional relay with buffered backpressure": each side receives
\* what the other has sent, in order and without gaps.
RawInOrder ==
  /\ \E n \in 0 .. NResponse : clgot = Bytes(1, n)
  /\ \E n \in 0 .. NClient : upgot = Bytes(1, n)
=============================================================================
