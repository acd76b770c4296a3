----------------------------- MODULE TcpServer ------------------------------
(***************************************************************************)
(* TcpServer and TcpClient (shared/network/src/tcp.rs): the connections of *)
(* the centralized server, and the clients at their other end              *)
(* (architectures/centralized/client/src/app.rs).  One task accepts        *)
(* connections, one task per connection reads and writes it, one task      *)
(* forwards what is sent, and the owner of the server reads two channels.  *)
(*                                                                         *)
(* An identity can have several connections: nothing prevents a client     *)
(* from connecting again before the server has noticed that its old        *)
(* connection is gone.  The snapshots that the server broadcasts are       *)
(* numbered in the order in which they are sent.                           *)
(***************************************************************************)
EXTENDS Naturals, Sequences, FiniteSets

CONSTANTS
    TcpPeers,       \* the identities that can answer a challenge
    TcpConnections, \* connections of one identity at one time
    TcpQueue,       \* bound on the unread messages and disconnections
    TcpBroadcasts   \* bound on the number of broadcasts

ASSUME TcpServerAssumption ==
    /\ IsFiniteSet(TcpPeers)
    /\ TcpConnections \in Nat /\ TcpQueue \in Nat /\ TcpBroadcasts \in Nat

VARIABLES
    conn,          \* the state of each connection
    table,         \* clients: the connection whose sender an identity maps to
    inbox,         \* incoming_msg_stream
    closed,        \* disconnected_rx
    sendq,         \* send_msg: what the forwarding task has still to forward
    chan,          \* what each connection has still to write
    seen,          \* the last snapshot that the client at the other end received
    broadcastsSent \* the number of broadcasts so far

tcpVars == <<conn, table, inbox, closed, sendq, chan, seen, broadcastsSent>>

Connections == TcpPeers \X (1 .. TcpConnections)

ConnStates == {"none", "challenged", "open", "joined"}

IsOpen(c) == conn[c] \in {"open", "joined"}

\* Every channel and the table keep their types, and a channel ends with its connection.
TcpTypeOK ==
    /\ conn \in [Connections -> ConnStates]
    /\ table \in [TcpPeers -> 0 .. TcpConnections]
    /\ inbox \in Seq([from : TcpPeers, msg : {"Join", "Other"}])
    /\ closed \in Seq(TcpPeers)
    /\ sendq \in Seq([to : TcpPeers, snapshot : 1 .. TcpBroadcasts])
    /\ chan \in [Connections -> Seq(1 .. TcpBroadcasts)]
    /\ \A c \in Connections : chan[c] # <<>> => IsOpen(c)
    /\ seen \in [Connections -> 0 .. TcpBroadcasts]
    /\ broadcastsSent \in 0 .. TcpBroadcasts

\* TcpServer::start
TcpInit ==
    /\ conn = [c \in Connections |-> "none"]
    /\ table = [p \in TcpPeers |-> 0]
    /\ inbox = <<>>
    /\ closed = <<>>
    /\ sendq = <<>>
    /\ chan = [c \in Connections |-> <<>>]
    /\ seen = [c \in Connections |-> 0]
    /\ broadcastsSent = 0

\* A connection is accepted and sent its challenge.
Accept(c) ==
    /\ conn[c] = "none"
    /\ conn' = [conn EXCEPT ![c] = "challenged"]
    /\ chan' = [chan EXCEPT ![c] = <<>>]
    /\ seen' = [seen EXCEPT ![c] = 0]
    /\ UNCHANGED <<table, inbox, closed, sendq, broadcastsSent>>

\* TcpClient::connect has signed the challenge, which proves the identity: the
\* sender of this connection takes the place of an earlier one in the table.
Authenticate(c) ==
    /\ conn[c] = "challenged"
    /\ conn' = [conn EXCEPT ![c] = "open"]
    /\ table' = [table EXCEPT ![c[1]] = c[2]]
    /\ UNCHANGED <<inbox, closed, sendq, chan, seen, broadcastsSent>>

\* No answer, or one that does not prove an identity.
RejectHandshake(c) ==
    /\ conn[c] = "challenged"
    /\ conn' = [conn EXCEPT ![c] = "none"]
    /\ UNCHANGED <<table, inbox, closed, sendq, chan, seen, broadcastsSent>>

\* The client's App::run asks to join once, as soon as it is connected.
ReceiveJoin(c) ==
    /\ conn[c] = "open"
    /\ Len(inbox) < TcpQueue
    /\ conn' = [conn EXCEPT ![c] = "joined"]
    /\ inbox' = Append(inbox, [from |-> c[1], msg |-> "Join"])
    /\ UNCHANGED <<table, closed, sendq, chan, seen, broadcastsSent>>

\* Then it passes on what the client's state machine wants to send.
ReceiveOther(c) ==
    /\ conn[c] = "joined"
    /\ Len(inbox) < TcpQueue
    /\ inbox' = Append(inbox, [from |-> c[1], msg |-> "Other"])
    /\ UNCHANGED <<conn, table, closed, sendq, chan, seen, broadcastsSent>>

\* The stream ends: whatever the table holds for the identity is removed and a
\* disconnection is reported.
CloseConnection(c) ==
    /\ IsOpen(c)
    /\ Len(closed) < TcpQueue
    /\ conn' = [conn EXCEPT ![c] = "none"]
    /\ table' = [table EXCEPT ![c[1]] = 0]
    /\ closed' = Append(closed, c[1])
    /\ chan' = [chan EXCEPT ![c] = <<>>]
    /\ UNCHANGED <<inbox, sendq, seen, broadcastsSent>>

\* A frame that does not decode, a second challenge response, or a failed write
\* returns with ? from handle_connection: the entry stays and nobody is told.
AbortConnection(c) ==
    /\ IsOpen(c)
    /\ conn' = [conn EXCEPT ![c] = "none"]
    /\ chan' = [chan EXCEPT ![c] = <<>>]
    /\ UNCHANGED <<table, inbox, closed, sendq, seen, broadcastsSent>>

\* broadcast: a message for every identity of the table, in the order of its keys.
Broadcast ==
    \E order \in [1 .. Cardinality({p \in TcpPeers : table[p] # 0}) -> TcpPeers] :
       /\ broadcastsSent < TcpBroadcasts
       /\ {order[i] : i \in DOMAIN order} = {p \in TcpPeers : table[p] # 0}
       /\ broadcastsSent' = broadcastsSent + 1
       /\ sendq' = sendq \o
             [i \in DOMAIN order |-> [to |-> order[i], snapshot |-> broadcastsSent + 1]]
       /\ UNCHANGED <<conn, table, inbox, closed, chan, seen>>

\* The forwarding task hands a message to the connection in the table now, which
\* may not be the one that was there when the message was sent.
Forward ==
    /\ sendq # <<>>
    /\ LET m == Head(sendq)
           c == <<m.to, table[m.to]>>
       IN  chan' = IF c \in Connections /\ IsOpen(c)
                   THEN [chan EXCEPT ![c] = Append(@, m.snapshot)] ELSE chan
    /\ sendq' = Tail(sendq)
    /\ UNCHANGED <<conn, table, inbox, closed, seen, broadcastsSent>>

\* The connection writes a message; the client's App takes the snapshot for its
\* coordinator state and hands it to its state machine.
Deliver(c) ==
    /\ IsOpen(c) /\ chan[c] # <<>>
    /\ seen' = [seen EXCEPT ![c] = Head(chan[c])]
    /\ chan' = [chan EXCEPT ![c] = Tail(@)]
    /\ UNCHANGED <<conn, table, inbox, closed, sendq, broadcastsSent>>

\* Mutant of NextEvent: a disconnection takes the messages of the client along.
NextEventDropsMessages ==
    \/ /\ inbox # <<>>
       /\ inbox' = Tail(inbox)
       /\ UNCHANGED <<conn, table, closed, sendq, chan, seen, broadcastsSent>>
    \/ /\ closed # <<>>
       /\ closed' = Tail(closed)
       /\ inbox' = SelectSeq(inbox, LAMBDA m : m.from # Head(closed))
       /\ UNCHANGED <<conn, table, sendq, chan, seen, broadcastsSent>>

\* next(): select! takes whichever branch is ready first.
NextEvent ==
    \/ /\ inbox # <<>>
       /\ inbox' = Tail(inbox)
       /\ UNCHANGED <<conn, table, closed, sendq, chan, seen, broadcastsSent>>
    \/ /\ closed # <<>>
       /\ closed' = Tail(closed)
       /\ UNCHANGED <<conn, table, inbox, sendq, chan, seen, broadcastsSent>>

TcpNext ==
    \/ \E c \in Connections :
          \/ Accept(c)
          \/ Authenticate(c)
          \/ RejectHandshake(c)
          \/ ReceiveJoin(c)
          \/ ReceiveOther(c)
          \/ CloseConnection(c)
          \/ AbortConnection(c)
          \/ Deliver(c)
    \/ Broadcast
    \/ Forward
    \/ NextEvent

TcpSpec == TcpInit /\ [][TcpNext]_tcpVars

-----------------------------------------------------------------------------
(* Properties. *)

\* A client never goes back to an older coordinator on one connection: the one
\* forwarding task and the channel of each connection keep the order of the
\* broadcasts, whatever connects and disconnects in between.
SnapshotsInOrder ==
    [][\A c \in Connections : conn[c] # "none" => seen'[c] >= seen[c]]_tcpVars

Notifications == INSTANCE ClientNotifications WITH
    Peers <- TcpPeers,
    Messages <- {"Join", "Other"},
    MaxConnections <- TcpConnections,
    MaxQueue <- TcpQueue,
    sessions <- [p \in TcpPeers |->
                   Cardinality({c \in Connections : c[1] = p /\ IsOpen(c)})],
    incoming <- inbox,
    disconnected <- closed

\* The server delivers to its owner what ClientNotifications says, which is what
\* the model of the centralized server relies on: nothing lost from the queues,
\* one disconnection for each connection that ends, unless it aborts.
ImplementsNotifications == Notifications!NotificationsSpec

\* The server keeps its tables typed, gives each client its coordinators in order, and
\* implements the notifications that the centralized server is modelled with.
DeliversInOrder ==
    /\ []TcpTypeOK
    /\ SnapshotsInOrder
    /\ ImplementsNotifications
=============================================================================
