----------------------------- MODULE Negotiate ------------------------------
(***************************************************************************)
(* How a client and the servers of one replication chain make their        *)
(* connections (tcp/socket_negotiate.rs, the accept loop of tcp/mod.rs,    *)
(* AsyncTcpStore::build).  A client connects to the head and to the tail;  *)
(* each server connects to its predecessor on the client's behalf; the     *)
(* head joins the two connections it gets for a client.                    *)
(*                                                                         *)
(* On a connection the acceptor says that it is ready, the other side says *)
(* what it is and the client's id, and the acceptor answers with the id.   *)
(* Each of these is read whole or not at all here (Reader keeps a part).   *)
(***************************************************************************)
EXTENDS Integers, Sequences, FiniteSets, SequencesExt

CONSTANTS
    Servers,       \* 1..n, the head first
    Clients        \* the ids, of which each starts once

Last_ == CHOOSE s \in Servers : \A t \in Servers : t <= s

\* A connection: who accepts it, for whom, and from whom it comes.
Conns == [server : Servers, id : Clients, kind : {"client", "server"}]
Conn(s, c, k) == [server |-> s, id |-> c, kind |-> k]
NoConn == Conn(0, 0, "none")

VARIABLES
    conn,       \* connection -> its two streams, and what the acceptor has read
    client,     \* client -> its steps so far: it connects, then reads and answers
    linked,     \* server -> the clients handed to a worker (worker_for_client)
    failed
vars == <<conn, client, linked, failed>>

\* state: "closed", "opened", "accepted" or "handed" to a worker; in and out are
\* the streams to and from the acceptor; type and id, what it has read; up, the
\* connection to the predecessor, on which ready was read and said the messages
\* were written.
Closed == [state |-> "closed", in |-> <<>>, out |-> <<>>, type |-> "none", id |-> FALSE,
           up |-> NoConn, ready |-> FALSE]

\* The connections of a client, in the order in which it reads from them.
Streams(c) == IF Last_ = 1 THEN <<Conn(1, c, "client")>>
              ELSE <<Conn(Last_, c, "client"), Conn(1, c, "client")>>

NegotiateInit ==
    /\ conn = [k \in Conns |-> Closed]
    /\ client = [c \in Clients |-> 0]
    /\ linked = [s \in Servers |-> {}] /\ failed = {}

-----------------------------------------------------------------------------
(* The client.                                                             *)

\* replicated_new_tcp, new_tcp: connect to all.
Connect(c) ==
    /\ client[c] = 0
    /\ client' = [client EXCEPT ![c] = 1]
    /\ conn' = [k \in Conns |-> IF k \in Range(Streams(c)) THEN [Closed EXCEPT !.state = "opened"] ELSE conn[k]]
    /\ UNCHANGED <<linked, failed>>

\* build, first loop: wait for a server, then say what and who this is.
Introduce(c) ==
    /\ client[c] \in 1..Len(Streams(c))
    /\ LET k == Streams(c)[client[c]]
       IN  /\ conn[k].out # <<>>
           /\ conn' = [conn EXCEPT ![k].out = Tail(@), ![k].in = @ \o <<"kind", "id">>]
    /\ client' = [client EXCEPT ![c] = @ + 1]
    /\ UNCHANGED <<linked, failed>>

\* build, second loop: wait for the answers.
Answered(c) ==
    /\ client[c] \in (Len(Streams(c)) + 1)..(2 * Len(Streams(c)))
    /\ LET k == Streams(c)[client[c] - Len(Streams(c))]
       IN  /\ conn[k].out # <<>>
           /\ conn' = [conn EXCEPT ![k].out = Tail(@)]
           /\ failed' = IF Head(conn[k].out) = "id" THEN failed ELSE failed \cup {"answer"}
    /\ client' = [client EXCEPT ![c] = @ + 1]
    /\ UNCHANGED linked

Connected(c) == client[c] > 2 * Len(Streams(c))

-----------------------------------------------------------------------------
(* A server.                                                               *)

\* ACCEPT: got_connection greets, and registers the connection.
Accept(k) ==
    /\ conn[k].state = "opened" /\ failed = {}
    /\ conn' = [conn EXCEPT ![k].state = "accepted", ![k].out = Append(@, "ready")]
    /\ UNCHANGED <<client, linked, failed>>

\* A faulty variant: the second client replaces the first.
HandOverLost(s, c) ==
    /\ linked' = [linked EXCEPT ![s] = {c}]
    /\ UNCHANGED failed

\* worker_for_client.insert.
HandOver(s, c) ==
    /\ linked' = [linked EXCEPT ![s] = @ \cup {c}]
    /\ failed' = IF c \in linked[s] THEN failed \cup {"duplicate"} ELSE failed

\* handle_event on a connection reads what is there, up to the id.
Event(k) == conn[k].state = "accepted" /\ failed = {}

\* What has arrived ends before the id.
ReadPart(k) ==
    /\ Event(k) /\ ~conn[k].id /\ conn[k].type = "none" /\ conn[k].in # <<>>
    /\ conn' = [conn EXCEPT ![k].in = Tail(@), ![k].type = k.kind]
    /\ UNCHANGED <<client, linked, failed>>

HasId(k) == conn[k].id \/ Len(conn[k].in) >= (IF conn[k].type = "none" THEN 2 ELSE 1)

\* The connection once its type and id are read.
Read(k) ==
    IF conn[k].id THEN conn[k]
    ELSE [conn[k] EXCEPT !.id = TRUE, !.type = k.kind,
                         !.in = IF conn[k].type = "none" THEN Tail(Tail(@)) ELSE Tail(@)]

\* Position::Solo.
Solo(k) ==
    /\ Event(k) /\ Last_ = 1 /\ HasId(k)
    /\ conn' = [conn EXCEPT ![k] = [Read(k) EXCEPT !.state = "handed", !.out = Append(@, "id")]]
    /\ HandOver(1, k.id)
    /\ UNCHANGED client

\* Position::Tail and Mid, first: connect to the predecessor.
ConnectUp(k) ==
    /\ Event(k) /\ k.server > 1 /\ HasId(k) /\ conn[k].up = NoConn
    /\ LET up == Conn(k.server - 1, k.id, "server")
       IN  conn' = [conn EXCEPT ![k] = [Read(k) EXCEPT !.up = up],
                                ![up] = [Closed EXCEPT !.state = "opened"]]
    /\ UNCHANGED <<client, linked, failed>>

\* Position::Tail and Mid, later: when the predecessor is ready, tell it; when it
\* has answered, answer.  Every event that gets past `ready` writes again.
LinkUp(k) ==
    /\ Event(k) /\ k.server > 1 /\ conn[k].up # NoConn
    /\ LET up == conn[k].up
           out == IF conn[k].ready THEN conn[up].out ELSE Tail(conn[up].out)
       IN  /\ conn[up].out # <<>>
           /\ conn' = [conn EXCEPT ![k].ready = TRUE,
                                   ![k].out = IF out = <<>> THEN @ ELSE Append(@, "id"),
                                   ![k].state = IF out = <<>> THEN @ ELSE "handed",
                                   ![up].in = @ \o <<"kind", "id">>,
                                   ![up].out = IF out = <<>> THEN <<>> ELSE Tail(out)]
           /\ IF out = <<>> THEN UNCHANGED <<linked, failed>> ELSE HandOver(k.server, k.id)
    /\ UNCHANGED client

\* The other connection of the client at the head.
Other(k) == Conn(1, k.id, IF k.kind = "client" THEN "server" ELSE "client")

\* Position::Head, the first of the two connections: a server is answered at once.
HeadFirst(k) ==
    /\ Event(k) /\ k.server = 1 /\ Last_ > 1 /\ HasId(k) /\ ~conn[k].id
    /\ ~(conn[Other(k)].state = "accepted" /\ conn[Other(k)].id)
    /\ conn' = [conn EXCEPT ![k] = [Read(k) EXCEPT !.out = IF k.kind = "server" THEN Append(@, "id") ELSE @]]
    /\ UNCHANGED <<client, linked, failed>>

\* The second: the two are joined, the client is answered.
HeadJoin(k) ==
    /\ Event(k) /\ k.server = 1 /\ Last_ > 1 /\ HasId(k) /\ ~conn[k].id
    /\ conn[Other(k)].state = "accepted" /\ conn[Other(k)].id
    /\ conn' = [conn EXCEPT
           ![k] = [Read(k) EXCEPT !.state = "handed", !.out = Append(@, "id")],
           ![Other(k)].state = "handed",
           ![Other(k)].out = IF k.kind = "server" THEN Append(@, "id") ELSE @]
    /\ HandOver(1, k.id)
    /\ UNCHANGED client

Serve(k) ==
    Accept(k) \/ ReadPart(k) \/ Solo(k) \/ ConnectUp(k) \/ LinkUp(k) \/ HeadFirst(k) \/ HeadJoin(k)

ClientSteps(c) == Connect(c) \/ Introduce(c) \/ Answered(c)

NegotiateNext ==
    \/ \E c \in Clients : ClientSteps(c)
    \/ \E k \in Conns : Serve(k)

\* Clients and servers run, and the network delivers.
Fairness ==
    /\ \A c \in Clients : WF_vars(ClientSteps(c))
    /\ \A k \in Conns : WF_vars(Serve(k))

-----------------------------------------------------------------------------
(* Properties.                                                             *)

\* A client that has its answers is linked through the whole chain: every server
\* has handed its connections to a worker.
ConnectedIsLinked == \A c \in Clients : Connected(c) => \A s \in Servers : c \in linked[s]

\* The answers are the client's id, and no id comes twice (the assertions of
\* build and of the accept loop).
NegotiationAsserts == failed = {}

\* Every client gets its answers.
EveryClientConnects == \A c \in Clients : <>Connected(c)

=============================================================================
