------------------------- MODULE ClientNotifications ------------------------
(***************************************************************************)
(* What TcpServer (shared/network/src/tcp.rs) promises to the program that *)
(* owns it: the messages of authenticated clients in one queue, their      *)
(* disconnections in another one, and no order between the two.  A         *)
(* connection may also end without a notification.  TcpServer implements   *)
(* this specification; CentralizedServer relies on it.                     *)
(***************************************************************************)
EXTENDS Naturals, Sequences

CONSTANTS
    Peers,          \* the identities that can answer a challenge
    Messages,       \* what they send
    MaxConnections, \* connections of one identity at one time
    MaxQueue        \* bound on the unread messages and disconnections

ASSUME TcpAssumption == MaxConnections \in Nat /\ MaxQueue \in Nat

VARIABLES
    sessions,    \* the number of authenticated connections of each identity
    incoming,    \* incoming_msg_stream
    disconnected \* disconnected_rx

notificationVars == <<sessions, incoming, disconnected>>

NotificationsTypeOK ==
    /\ sessions \in [Peers -> 0 .. MaxConnections]
    /\ incoming \in Seq([from : Peers, msg : Messages])
    /\ disconnected \in Seq(Peers)

NotificationsInit ==
    /\ sessions = [p \in Peers |-> 0]
    /\ incoming = <<>>
    /\ disconnected = <<>>

SessionOpens(p) ==
    /\ sessions[p] < MaxConnections
    /\ sessions' = [sessions EXCEPT ![p] = @ + 1]
    /\ UNCHANGED <<incoming, disconnected>>

MessageArrives(p, msg) ==
    /\ sessions[p] > 0
    /\ Len(incoming) < MaxQueue
    /\ incoming' = Append(incoming, [from |-> p, msg |-> msg])
    /\ UNCHANGED <<sessions, disconnected>>

SessionCloses(p) ==
    /\ sessions[p] > 0
    /\ Len(disconnected) < MaxQueue
    /\ sessions' = [sessions EXCEPT ![p] = @ - 1]
    /\ disconnected' = Append(disconnected, p)
    /\ UNCHANGED incoming

\* A failed write or an undecodable frame ends a connection silently.
SessionAborts(p) ==
    /\ sessions[p] > 0
    /\ sessions' = [sessions EXCEPT ![p] = @ - 1]
    /\ UNCHANGED <<incoming, disconnected>>

\* next(): the owner takes a message or a disconnection, in no fixed order.
TakeMessage(from, msg) ==
    /\ incoming # <<>>
    /\ Head(incoming) = [from |-> from, msg |-> msg]
    /\ incoming' = Tail(incoming)
    /\ UNCHANGED <<sessions, disconnected>>

TakeDisconnection(from) ==
    /\ disconnected # <<>>
    /\ Head(disconnected) = from
    /\ disconnected' = Tail(disconnected)
    /\ UNCHANGED <<sessions, incoming>>

\* What happens without the owner.
SessionStep ==
    \E p \in Peers :
       \/ SessionOpens(p)
       \/ \E msg \in Messages : MessageArrives(p, msg)
       \/ SessionCloses(p)
       \/ SessionAborts(p)

NotificationsNext ==
    \/ SessionStep
    \/ \E p \in Peers, msg \in Messages : TakeMessage(p, msg)
    \/ \E p \in Peers : TakeDisconnection(p)

NotificationsSpec == NotificationsInit /\ [][NotificationsNext]_notificationVars
=============================================================================
