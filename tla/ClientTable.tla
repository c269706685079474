----------------------------- MODULE ClientTable -----------------------------
(***************************************************************************)
(* The data structures of include/socket_server.h that hold the accepted   *)
(* connections: clients[], the map fd_to_index and the per-address counters *)
(* ip_conn_counts, with the two functions that change them, conn_add and    *)
(* conn_del.  The table is one record and its functions are operators on    *)
(* that record, so that a handler is the composition of what it calls.      *)
(***************************************************************************)
EXTENDS Integers, FiniteSets

CONSTANTS
  NumClients,      \* NUM_CLIENTS, the length of clients[]
  MaxFd,           \* the largest descriptor number the kernel hands out
  Ips,             \* peer addresses that have an ip_key (AF_INET, AF_INET6)
  NoIp,            \* the peer_addr of an empty slot, or of a Unix socket peer
  MaxPerIp,        \* max_connections_per_ip, 0 = unlimited
  AgeCap           \* bound: ages in seconds are saturated here

ASSUME TableAssumption ==
  /\ NumClients \in Nat \ {0}
  /\ MaxFd \in Nat \ {0}
  /\ NoIp \notin Ips
  /\ MaxPerIp \in Nat
  /\ IsFiniteSet(Ips)
  /\ AgeCap \in Nat

Slots == 1..NumClients
Fds == 1..MaxFd
Peers == Ips \cup {NoIp}

\* HP_REQUEST_LINE with nothing received, HP_REQUEST_LINE/HP_HEADERS with a part
\* of the head received, HP_BODY, HP_DONE.
ParserStates == {"start", "head", "body", "done"}

-----------------------------------------------------------------------------
(* struct client_data, as far as the table's operations read it.            *)
ClientData ==
  [fd : {0} \cup Fds, peer : Peers, is_http : BOOLEAN,
   age : 0..AgeCap, idle : 0..AgeCap,
   state : ParserStates, ka : BOOLEAN, served : BOOLEAN, sending : BOOLEAN,
   proxy_active : BOOLEAN, forward_active : BOOLEAN]

EmptySlot ==
  [fd |-> 0, peer |-> NoIp, is_http |-> FALSE, age |-> 0, idle |-> 0,
   state |-> "start", ka |-> FALSE, served |-> FALSE, sending |-> FALSE,
   proxy_active |-> FALSE, forward_active |-> FALSE]

Tables ==
  [clients : [Slots -> ClientData], fd_to_index : [Fds -> Slots \cup {-1}],
   ip_conn_counts : [Ips -> Nat], open : SUBSET Fds]

EmptyTable ==
  [clients |-> [i \in Slots |-> EmptySlot],
   fd_to_index |-> [f \in Fds |-> -1],
   ip_conn_counts |-> [p \in Ips |-> 0],
   open |-> {}]

FreeSlots(T) == {i \in Slots : T.clients[i].fd = 0}
FirstFree(T) == CHOOSE i \in FreeSlots(T) : \A j \in FreeSlots(T) : i <= j

get_conn(T, f) == T.fd_to_index[f]
Mapped(T) == {f \in Fds : get_conn(T, f) # -1}
Conn(T, f) == T.clients[get_conn(T, f)]
WithConn(T, f, c) == [T EXCEPT !.clients[get_conn(T, f)] = c]

(* conn_add writes every field below except the two flags: a slot keeps the  *)
(* proxy_active and forward_active of its previous connection.               *)
NewClientKeepsPeer(c, f) ==
  [c EXCEPT !.fd = f, !.is_http = FALSE, !.age = 0, !.idle = 0,
            !.state = "start", !.ka = FALSE, !.served = FALSE, !.sending = FALSE]

NewClient(c, f) ==
  [c EXCEPT !.fd = f, !.peer = NoIp, !.is_http = FALSE, !.age = 0, !.idle = 0,
            !.state = "start", !.ka = FALSE, !.served = FALSE, !.sending = FALSE]

conn_add(T, f) ==
  LET i == FirstFree(T)
  IN  [T EXCEPT !.clients[i] = NewClient(T.clients[i], f), !.fd_to_index[f] = i]

(* conn_del, for the set F of descriptors a handler deletes: descriptors that *)
(* are not in the map are ignored, the per-IP counter stops at zero, and      *)
(* close() ends the descriptor.  A vacated slot keeps peer_addr and the two    *)
(* flags; the fields conn_add writes before anything reads them again are      *)
(* forgotten here.                                                             *)
Vacated(c) ==
  [c EXCEPT !.fd = 0, !.is_http = FALSE, !.age = 0, !.idle = 0, !.state = "start",
            !.ka = FALSE, !.served = FALSE, !.sending = FALSE]

Deleted(T, F) == {get_conn(T, f) : f \in F \cap Mapped(T)}

DecrementedTwice(T, p, D) ==
  T.ip_conn_counts[p] - 2 * Cardinality({i \in D : T.clients[i].peer = p})

Decremented(T, p, D) ==
  LET n == Cardinality({i \in D : T.clients[i].peer = p})
  IN  IF T.ip_conn_counts[p] > n THEN T.ip_conn_counts[p] - n ELSE 0

conn_delKeepsIndex(T, F) ==
  [T EXCEPT !.clients = [i \in Slots |->
              IF i \in Deleted(T, F) THEN Vacated(T.clients[i]) ELSE T.clients[i]],
            !.ip_conn_counts = [p \in Ips |-> Decremented(T, p, Deleted(T, F))],
            !.open = @ \ (F \cap Mapped(T))]

conn_del(T, F) ==
  [clients |-> [i \in Slots |->
     IF i \in Deleted(T, F)
     THEN Vacated(T.clients[i])
     ELSE T.clients[i]],
   fd_to_index |-> [f \in Fds |-> IF f \in F THEN -1 ELSE get_conn(T, f)],
   ip_conn_counts |-> [p \in Ips |-> Decremented(T, p, Deleted(T, F))],
   open |-> T.open \ (F \cap Mapped(T))]

(* http_parser_reset: a parser that has seen nothing; accept_time is not set.  *)
http_parser_reset(c) == [c EXCEPT !.state = "start", !.ka = FALSE]
=============================================================================
