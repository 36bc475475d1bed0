---------------------------- MODULE RedisFanout ----------------------------
(***************************************************************************)
(* How an event sent at one server process reaches the sockets of the      *)
(* others: RedisBroker of backend/app/websocket/redis_broker.py and its    *)
(* two users, send_to_user with _handle_chat_pubsub (chat_socket.py) and   *)
(* broadcast with _handle_group_pubsub (group_socket.py).  An address is a *)
(* user or a group; the connection managers appear only as the sockets     *)
(* they would write to.                                                    *)
(***************************************************************************)
EXTENDS Naturals, Sequences

CONSTANTS
    Instances,     \* server processes
    Addresses,     \* users and groups events are sent to
    Sockets,
    InstanceOf,    \* the process of a socket
    AddressOf,     \* the address a socket listens for
    Events         \* the events sent, each once

VARIABLES
    enabled,    \* the processes whose broker is connected and subscribed
    sent,       \* events a process has handed to send_to_user or broadcast
    inbox,      \* per process, the messages Redis delivered to its subscription
    writes      \* pairs <<event, socket>>: written to the socket

vars == <<enabled, sent, inbox, writes>>

LocalSockets(i, a) ==
    {s \in Sockets : InstanceOf[s] = i /\ AddressOf[s] = a}

Init ==
    /\ enabled = {} /\ sent = {} /\ writes = {}
    /\ inbox = [i \in Instances |-> <<>>]

-----------------------------------------------------------------------------
\* RedisBroker.initialize: connect, subscribe by pattern, start the listener.
Initialize(i) ==
    /\ i \notin enabled
    /\ enabled' = enabled \cup {i}
    /\ UNCHANGED <<sent, inbox, writes>>

\* Redis hands a published payload to every subscriber.  redis-py reports the
\* type "pmessage" for a subscription made with psubscribe.
Published(e, a, i) ==
    [j \in Instances |->
        IF j \in enabled
        THEN Append(inbox[j], [type |-> "pmessage", event |-> e, to |-> a,
                               source |-> i])
        ELSE inbox[j]]

\* The local sockets are written to, then the event is published; publish
\* logs an error and drops the event.
SendEvent(i, e, a) ==
    /\ e \notin sent
    /\ sent' = sent \cup {e}
    /\ writes' = writes \cup {<<e, s>> : s \in LocalSockets(i, a)}
    /\ \/ i \in enabled /\ inbox' = Published(e, a, i)
       \/ i \notin enabled /\ UNCHANGED inbox
    /\ UNCHANGED enabled

\* _handle_chat_pubsub and _handle_group_pubsub.
Callback(i, m) ==
    IF m.source = i THEN {}
    ELSE {<<m.event, s>> : s \in LocalSockets(i, m.to)}

\* One round of _listen_loop.
Listen(i) ==
    /\ i \in enabled /\ inbox[i] # <<>>
    /\ inbox' = [inbox EXCEPT ![i] = Tail(@)]
    /\ writes' = IF Head(inbox[i]).type # "message" THEN writes
                 ELSE writes \cup Callback(i, Head(inbox[i]))
    /\ UNCHANGED <<enabled, sent>>

Next ==
    \E i \in Instances :
        \/ Initialize(i)
        \/ Listen(i)
        \/ \E e \in Events, a \in Addresses : SendEvent(i, e, a)

Spec == Init /\ [][Next]_vars /\ \A i \in Instances : WF_vars(Listen(i))

-----------------------------------------------------------------------------
\* docs/validation/concurrency-and-scale.md: whichever replica holds a socket
\* of the addressee receives a published event and writes it to the socket.
ReachesEveryReplica ==
    \A i \in Instances : \A s \in Sockets : \A e \in Events :
        (/\ InstanceOf[s] = i
         /\ \E k \in DOMAIN inbox[i] :
                inbox[i][k].event = e /\ inbox[i][k].to = AddressOf[s])
            ~> <<e, s>> \in writes
=============================================================================
