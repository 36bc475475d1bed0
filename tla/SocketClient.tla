---------------------------- MODULE SocketClient ----------------------------
(***************************************************************************)
(* WebSocketManager of frontend/src/lib/websocket.ts: one manager, shared  *)
(* by the hooks that show a conversation, and the sockets it has opened,   *)
(* each with the readyState and the pending events the browser keeps.      *)
(*                                                                         *)
(* The handlers of a socket write to the manager, not to the socket they   *)
(* belong to, so a socket the manager no longer refers to still acts.      *)
(* Payloads are numbered in the order they are sent.  A token is data: a   *)
(* call may come with the current token or with another one.  The ping a   *)
(* heartbeat writes changes no state and is left out.                      *)
(***************************************************************************)
EXTENDS Naturals, Sequences

CONSTANTS
    maxReconnectAttempts,
    QueueCap,      \* the bound of sendQueue, 100 in the code
    MaxSockets,    \* bound: sockets ever opened
    MaxPayloads    \* bound: payloads ever sent

ASSUME BoundAssumption ==
    /\ maxReconnectAttempts \in Nat /\ QueueCap \in Nat \ {0}
    /\ MaxSockets \in Nat \ {0} /\ MaxPayloads \in Nat

VARIABLES
    readyState,    \* per socket; "none" before it is created
    ws,            \* the socket the manager refers to, 0 for null
    status,           \* "idle": no hook has made the manager yet
    reconnectAttempts,
    reconnectTimer,   \* "none", "armed", or "spent": fired but not reset
    heartbeat,        \* heartbeatTimer is set
    isConnecting,
    isIntentionallyClosed,
    sendQueue,
    sent,          \* payloads sent so far
    written,       \* payloads written to a socket, in order
    shed           \* payloads the full queue dropped

vars == <<readyState, ws, status, reconnectAttempts, reconnectTimer, heartbeat,
          isConnecting, isIntentionallyClosed, sendQueue, sent, written, shed>>
queueing == <<sendQueue, sent, written, shed>>

SocketIds == 1..MaxSockets
Payloads  == 1..MaxPayloads

ReadyState == {"none", "connecting", "open", "closing", "closed"}
SocketStatus == {"idle", "connecting", "connected", "reconnecting",
                 "disconnected", "error"}

TypeOK ==
    /\ readyState \in [SocketIds -> ReadyState]
    /\ ws \in 0..MaxSockets
    /\ status \in SocketStatus
    /\ reconnectAttempts \in 0..maxReconnectAttempts
    /\ reconnectTimer \in {"none", "armed", "spent"}
    /\ heartbeat \in BOOLEAN
    /\ isConnecting \in BOOLEAN /\ isIntentionallyClosed \in BOOLEAN
    /\ sendQueue \in Seq(Payloads) /\ Len(sendQueue) <= QueueCap
    /\ sent \in 0..MaxPayloads
    /\ written \in Seq(Payloads)
    /\ shed \in SUBSET Payloads

Init ==
    /\ readyState = [s \in SocketIds |-> "none"]
    /\ ws = 0
    /\ status = "idle"
    /\ reconnectAttempts = 0
    /\ reconnectTimer = "none"
    /\ heartbeat = FALSE
    /\ isConnecting = FALSE /\ isIntentionallyClosed = FALSE
    /\ sendQueue = <<>> /\ sent = 0 /\ written = <<>> /\ shed = {}

-----------------------------------------------------------------------------
isOpen == ws # 0 /\ readyState[ws] = "open"

Fresh == {s \in SocketIds : readyState[s] = "none"}

\* closeConnection: close the socket referred to; one already closed stays so.
Closing(states) ==
    [s \in SocketIds |->
        IF s = ws /\ states[s] \in {"connecting", "open"} THEN "closing"
                                                          ELSE states[s]]

\* The rest of connect, once it did not return early: a new socket is opened,
\* and one that is open is closed first.  A socket that is still connecting is
\* only no longer referred to.
Dial(states) ==
    \E s \in Fresh :
        /\ \A t \in Fresh : s <= t
        /\ readyState' = [states EXCEPT ![s] = "connecting"]
        /\ ws' = s
        /\ isConnecting' = TRUE

\* attemptReconnect, from a state with the given isConnecting and status.
AttemptReconnect(connecting, shown) ==
    \/ /\ reconnectTimer # "none" \/ connecting
       /\ status' = shown
       /\ UNCHANGED <<reconnectAttempts, reconnectTimer>>
    \/ /\ reconnectTimer = "none" /\ ~connecting
       /\ reconnectAttempts' = reconnectAttempts + 1
       /\ reconnectTimer' = "armed"
       /\ status' = "reconnecting"

\* Mutant: a close event leaves the heartbeat running.
HeartbeatGoesOn == UNCHANGED heartbeat
StopHeartbeat == heartbeat' = FALSE

\* Mutant: the bound of the queue is one too high.
FullTooLate == Len(sendQueue) > QueueCap
Full == Len(sendQueue) >= QueueCap

\* flushQueue, in the onopen of a socket; states are the readyStates by then.
\* Mutant: the queue is emptied also when nothing can be written.
FlushInVain(states) ==
    /\ sendQueue' = <<>>
    /\ written' = IF ws # 0 /\ states[ws] = "open" THEN written \o sendQueue
                                                  ELSE written
\* Mutant: one payload is written instead of all.
FlushOne(states) ==
    IF ws # 0 /\ states[ws] = "open" /\ sendQueue # <<>>
    THEN written' = Append(written, Head(sendQueue))
         /\ sendQueue' = Tail(sendQueue)
    ELSE UNCHANGED <<written, sendQueue>>
FlushQueue(states) ==
    IF ws # 0 /\ states[ws] = "open"
    THEN written' = written \o sendQueue /\ sendQueue' = <<>>
    ELSE UNCHANGED <<written, sendQueue>>

-----------------------------------------------------------------------------
(* Calls of the hooks.  A manager that was released has no hook left.       *)

\* connect: a hook mounts, with the current token or another one.
Connect(otherToken) ==
    /\ ~isIntentionallyClosed /\ ~isConnecting
    /\ isOpen => otherToken
    /\ status' = IF isOpen THEN "reconnecting" ELSE "connecting"
    /\ Dial(IF isOpen THEN Closing(readyState) ELSE readyState)
    /\ UNCHANGED <<reconnectAttempts, reconnectTimer, heartbeat,
                   isIntentionallyClosed, queueing>>

\* Mutant: a released manager that still listens connects again.
RefreshAfterRelease ==
    /\ status # "idle" /\ ~isConnecting
    /\ status' = "connecting"
    /\ Dial(IF isOpen THEN Closing(readyState) ELSE readyState)
    /\ UNCHANGED <<reconnectAttempts, reconnectTimer, heartbeat,
                   isIntentionallyClosed, queueing>>

\* refreshToken with another token; a released manager still listens.
RefreshToken ==
    /\ status # "idle"
    /\ ~isIntentionallyClosed /\ ~isConnecting
    /\ status' = "connecting"
    /\ Dial(IF isOpen THEN Closing(readyState) ELSE readyState)
    /\ UNCHANGED <<reconnectAttempts, reconnectTimer, heartbeat,
                   isIntentionallyClosed, queueing>>

\* send on an open socket.
SendNow ==
    /\ isOpen /\ sent < MaxPayloads
    /\ sent' = sent + 1
    /\ written' = Append(written, sent + 1)
    /\ UNCHANGED <<readyState, ws, status, reconnectAttempts, reconnectTimer,
                   heartbeat, isConnecting, isIntentionallyClosed, sendQueue,
                   shed>>

\* send otherwise: the payload is queued, a full queue drops its oldest, and
\* a reconnection is asked for.
SendLater ==
    /\ status # "idle" /\ ~isIntentionallyClosed
    /\ ~isOpen /\ sent < MaxPayloads
    /\ sent' = sent + 1
    /\ sendQueue' = Append(IF Full THEN Tail(sendQueue) ELSE sendQueue, sent + 1)
    /\ shed' = IF Full THEN shed \cup {Head(sendQueue)} ELSE shed
    /\ IF reconnectAttempts < maxReconnectAttempts
       THEN AttemptReconnect(isConnecting, status)
       ELSE UNCHANGED <<status, reconnectAttempts, reconnectTimer>>
    /\ UNCHANGED <<readyState, ws, heartbeat, isConnecting,
                   isIntentionallyClosed, written>>

\* release, when the last hook has unmounted: disconnect.
Release ==
    /\ status # "idle" /\ ~isIntentionallyClosed
    /\ isIntentionallyClosed' = TRUE
    /\ StopHeartbeat
    /\ reconnectTimer' = "none"
    /\ readyState' = Closing(readyState)
    /\ ws' = 0
    /\ status' = "disconnected"
    /\ UNCHANGED <<reconnectAttempts, isConnecting, queueing>>

-----------------------------------------------------------------------------
(* Events of the browser.                                                   *)

\* Mutant: the flag is not reset.
OpenKeepsFlag(s) ==
    /\ readyState[s] = "connecting"
    /\ readyState' = [readyState EXCEPT ![s] = "open"]
    /\ reconnectAttempts' = 0 /\ heartbeat' = TRUE /\ status' = "connected"
    /\ FlushQueue(readyState')
    /\ UNCHANGED <<ws, reconnectTimer, isConnecting, isIntentionallyClosed, sent,
                   shed>>

\* onopen, of any socket: the queue is flushed if the manager's is open.
BrowserOpen(s) ==
    /\ readyState[s] = "connecting"
    /\ readyState' = [readyState EXCEPT ![s] = "open"]
    /\ reconnectAttempts' = 0
    /\ FlushQueue(readyState')
    /\ heartbeat' = TRUE
    /\ isConnecting' = FALSE
    /\ status' = "connected"
    /\ UNCHANGED <<ws, reconnectTimer, isIntentionallyClosed, sent, shed>>

\* onclose, of any socket, after onerror if error holds.
Closed(s, error, policyRejected) ==
    LET handshakeFailed ==
            error /\ isConnecting /\ readyState[s] = "connecting"
        shown == IF error THEN "error" ELSE status
    IN  /\ readyState' = [readyState EXCEPT ![s] = "closed"]
        /\ StopHeartbeat
        /\ isConnecting' = FALSE
        /\ \/ /\ isIntentionallyClosed
              /\ status' = "disconnected"
              /\ UNCHANGED <<reconnectAttempts, reconnectTimer>>
           \/ /\ ~isIntentionallyClosed
              /\ handshakeFailed \/ policyRejected
              /\ status' = "error"
              /\ UNCHANGED <<reconnectAttempts, reconnectTimer>>
           \/ /\ ~isIntentionallyClosed
              /\ ~handshakeFailed /\ ~policyRejected
              /\ reconnectAttempts < maxReconnectAttempts
              /\ AttemptReconnect(FALSE, shown)
           \/ /\ ~isIntentionallyClosed
              /\ ~handshakeFailed /\ ~policyRejected
              /\ reconnectAttempts >= maxReconnectAttempts
              /\ status' = "disconnected"
              /\ UNCHANGED <<reconnectAttempts, reconnectTimer>>
        /\ UNCHANGED <<ws, isIntentionallyClosed, queueing>>

\* The handshake fails.
Fail(s) == readyState[s] = "connecting" /\ Closed(s, TRUE, FALSE)

\* The server or the network ends an open connection, with or without an
\* error event, and with a policy code or another one.
Drop(s) ==
    /\ readyState[s] = "open"
    /\ \E error, policyRejected \in BOOLEAN : Closed(s, error, policyRejected)

\* The close the manager asked for completes.
CloseDone(s) ==
    /\ readyState[s] = "closing"
    /\ \E error \in BOOLEAN : Closed(s, error, FALSE)

\* The reconnection timer fires, and is not reset.
TimerFires ==
    /\ reconnectTimer = "armed"
    /\ reconnectTimer' = "spent"
    /\ ~isIntentionallyClosed
    /\ \/ isConnecting /\ UNCHANGED <<readyState, ws, status, isConnecting>>
       \/ /\ ~isConnecting
          /\ status' = IF isOpen THEN "reconnecting" ELSE "connecting"
          /\ Dial(IF isOpen THEN Closing(readyState) ELSE readyState)
    /\ UNCHANGED <<reconnectAttempts, heartbeat, isIntentionallyClosed,
                   queueing>>

-----------------------------------------------------------------------------
\* A handshake and a close come to an end.
Settles(s) == BrowserOpen(s) \/ Fail(s) \/ CloseDone(s)

Next ==
    \/ \E otherToken \in BOOLEAN : Connect(otherToken)
    \/ RefreshToken \/ SendNow \/ SendLater \/ Release
    \/ \E s \in SocketIds : Settles(s) \/ Drop(s)
    \/ TimerFires

\* The browser ends every handshake and close and fires every timer.
Fairness == WF_vars(TimerFires) /\ \A s \in SocketIds : WF_vars(Settles(s))

Spec == Init /\ [][Next]_vars /\ Fairness

-----------------------------------------------------------------------------
(* Properties.                                                              *)

\* What send is given is written in that order, each payload once, to one
\* socket or another, whatever connections come, overlap and go; a payload
\* not yet written is queued, unless the full queue shed it.
FifoWithoutLoss ==
    LET all == written \o sendQueue
    IN  /\ \A i, j \in DOMAIN all : i < j => all[i] < all[j]
        /\ {all[i] : i \in DOMAIN all} = (1..sent) \ shed

\* What can be written at once is not queued behind: when the socket the
\* manager refers to is open, nothing is left in the queue.
OpenSocketDrained == isOpen => sendQueue = <<>>

\* A released manager opens no socket again: no timer, close event, token
\* refresh or late handshake makes it.
ReleasedStaysClosed ==
    [][isIntentionallyClosed => isIntentionallyClosed'
                                /\ Fresh' = Fresh /\ ws' = 0]_vars

\* The heartbeat stops with the connections: it runs only while a socket that
\* opened has not reported its close.
HeartbeatHasSocket ==
    heartbeat => \E s \in SocketIds : readyState[s] \in {"open", "closing"}

\* The flag that makes connect return early is not left set, although the
\* close of another socket and the release of the manager interfere with it.
ConnectingEnds == isConnecting ~> ~isConnecting

\* docs/architecture/REALTIME_ARCHITECTURE.md: reconnect with backoff on
\* failure.  A client that lost its socket and has attempts left opens another
\* one, or shows that it has none.
DropIsRetried ==
    (/\ ws # 0 /\ readyState[ws] = "closed"
     /\ reconnectAttempts < maxReconnectAttempts)
    ~> \/ ws = 0 \/ readyState[ws] # "closed"
       \/ status \in {"error", "disconnected"}
       \/ Fresh = {}     \* the bound of the model
=============================================================================
