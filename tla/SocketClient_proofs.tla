------------------------ MODULE SocketClient_proofs ------------------------
(***************************************************************************)
(* Theorems about SocketClient, for any number of sockets, payloads and    *)
(* attempts and any size of the send queue: the payloads keep their order  *)
(* and none is lost, the heartbeat stops, and a released manager stays     *)
(* closed.                                                                 *)
(***************************************************************************)
EXTENDS SocketClient, TLAPS

-----------------------------------------------------------------------------
(* Sequences in ascending order.                                            *)

Elems(s) == {s[i] : i \in DOMAIN s}
Ascending(s) == \A i, j \in DOMAIN s : i < j => s[i] < s[j]

\* The elements of two sequences are those of their concatenation, which
\* ascends exactly when both do and the first stays below the second.
LEMMA Concatenation ==
    ASSUME NEW s \in Seq(Payloads), NEW t \in Seq(Payloads)
    PROVE  /\ s \o t \in Seq(Payloads)
           /\ Elems(s \o t) = Elems(s) \cup Elems(t)
           /\ Ascending(s \o t) <=>
                 /\ Ascending(s) /\ Ascending(t)
                 /\ \A x \in Elems(s), y \in Elems(t) : x < y
<1> DEFINE c == s \o t
<1>1. /\ c \in Seq(Payloads) /\ Len(c) = Len(s) + Len(t)
      /\ \A i \in 1..Len(s) : c[i] = s[i]
      /\ \A i \in 1..Len(t) : c[i + Len(s)] = t[i]
      /\ Len(s) \in Nat /\ Len(t) \in Nat
      /\ DOMAIN c = 1..Len(c) /\ DOMAIN s = 1..Len(s) /\ DOMAIN t = 1..Len(t)
  OBVIOUS
<1> HIDE DEF c
<1>2. \A i \in DOMAIN c : \/ i \in DOMAIN s
                          \/ i - Len(s) \in DOMAIN t /\ c[i] = t[i - Len(s)]
  <2> TAKE i \in DOMAIN c
  <2>1. CASE i <= Len(s)
    BY <1>1, <2>1
  <2>2. CASE i > Len(s)
    <3>1. i - Len(s) \in 1..Len(t) /\ (i - Len(s)) + Len(s) = i
      BY <1>1, <2>2
    <3> QED BY <1>1, <3>1
  <2> QED BY <1>1, <2>1, <2>2
<1>3. \A i \in DOMAIN s : i \in DOMAIN c /\ c[i] = s[i]
  BY <1>1
<1>4. \A i \in DOMAIN t : i + Len(s) \in DOMAIN c /\ c[i + Len(s)] = t[i]
  BY <1>1
<1>5. Elems(c) = Elems(s) \cup Elems(t)
  BY <1>2, <1>3, <1>4 DEF Elems
<1>6. ASSUME Ascending(c)
      PROVE  /\ Ascending(s) /\ Ascending(t)
             /\ \A x \in Elems(s), y \in Elems(t) : x < y
  <2>1. Ascending(s)
    BY <1>3, <1>6 DEF Ascending
  <2>2. Ascending(t)
    <3> SUFFICES ASSUME NEW i \in DOMAIN t, NEW j \in DOMAIN t, i < j
                 PROVE  t[i] < t[j]
      BY DEF Ascending
    <3>1. i + Len(s) < j + Len(s)
      BY <1>1
    <3> QED BY <1>4, <1>6, <3>1 DEF Ascending
  <2>3. \A i \in DOMAIN s, j \in DOMAIN t : s[i] < t[j]
    <3> TAKE i \in DOMAIN s, j \in DOMAIN t
    <3>1. i < j + Len(s)
      BY <1>1
    <3> QED BY <1>3, <1>4, <1>6, <3>1 DEF Ascending
  <2> QED BY <2>1, <2>2, <2>3 DEF Elems
<1>7. ASSUME Ascending(s), Ascending(t),
             \A x \in Elems(s), y \in Elems(t) : x < y
      PROVE  Ascending(c)
  <2> SUFFICES ASSUME NEW i \in DOMAIN c, NEW j \in DOMAIN c, i < j
               PROVE  c[i] < c[j]
    BY DEF Ascending
  <2>1. CASE i \in DOMAIN s /\ j \in DOMAIN s
    BY <1>3, <1>7, <2>1 DEF Ascending
  <2>2. CASE i \in DOMAIN s /\ j \notin DOMAIN s
    BY <1>2, <1>3, <1>7, <2>2 DEF Elems
  <2>3. CASE i \notin DOMAIN s
    <3>1. /\ i - Len(s) \in DOMAIN t /\ j - Len(s) \in DOMAIN t
          /\ c[i] = t[i - Len(s)]
          /\ j \notin DOMAIN s
          /\ i - Len(s) < j - Len(s)
      BY <1>1, <1>2, <2>3
    <3>2. c[j] = t[j - Len(s)]
      BY <1>2, <3>1
    <3> QED BY <1>7, <3>1, <3>2 DEF Ascending
  <2> QED BY <2>1, <2>2, <2>3
<1> QED BY <1>1, <1>5, <1>6, <1>7 DEF c

\* An element that is above all others is put at the end.
LEMMA Appended ==
    ASSUME NEW s \in Seq(Payloads), NEW x \in Payloads
    PROVE  /\ Append(s, x) \in Seq(Payloads)
           /\ Elems(Append(s, x)) = Elems(s) \cup {x}
           /\ Ascending(s) /\ (\A y \in Elems(s) : y < x)
                 => Ascending(Append(s, x))
<1>1. <<x>> \in Seq(Payloads) /\ Append(s, x) = s \o <<x>>
  OBVIOUS
<1>2. Elems(<<x>>) = {x} /\ Ascending(<<x>>)
  BY DEF Elems, Ascending
<1> DEFINE t == <<x>>
<1>3. t \in Seq(Payloads) /\ Elems(t) = {x} /\ Ascending(t)
      /\ Append(s, x) = s \o t
  BY <1>1, <1>2
<1> HIDE DEF t
<1>4. /\ s \o t \in Seq(Payloads)
      /\ Elems(s \o t) = Elems(s) \cup Elems(t)
      /\ Ascending(s) /\ Ascending(t)
         /\ (\A y \in Elems(s), z \in Elems(t) : y < z) => Ascending(s \o t)
  BY <1>3, Concatenation
<1> QED BY <1>3, <1>4

\* The head of an ascending sequence is in its tail no more.
LEMMA Tailed ==
    ASSUME NEW s \in Seq(Payloads), s # <<>>, Ascending(s)
    PROVE  /\ Tail(s) \in Seq(Payloads) /\ Head(s) \in Elems(s)
           /\ Ascending(Tail(s))
           /\ Elems(Tail(s)) = Elems(s) \ {Head(s)}
<1> DEFINE h == <<Head(s)>>
           t == Tail(s)
<1>1. Head(s) \in Payloads /\ Head(s) = s[1] /\ 1 \in DOMAIN s
  OBVIOUS
<1>2. /\ t \in Seq(Payloads) /\ Len(t) = Len(s) - 1
      /\ \A i \in 1..Len(t) : t[i] = s[i + 1]
  OBVIOUS
<1>3. h \in Seq(Payloads) /\ Elems(h) = {Head(s)}
  BY <1>1 DEF Elems
<1>4. s = h \o t
  BY <1>1, <1>2
<1> HIDE DEF h, t
<1>5. /\ Elems(s) = Elems(h) \cup Elems(t)
      /\ Ascending(t) /\ \A x \in Elems(h), y \in Elems(t) : x < y
  BY <1>2, <1>3, <1>4, Concatenation
<1>6. Head(s) \notin Elems(t)
  BY <1>1, <1>3, <1>5 DEF Payloads
<1> QED
  <2>1. Elems(t) = Elems(s) \ {Head(s)} /\ Head(s) \in Elems(s)
    BY <1>3, <1>5, <1>6
  <2> QED BY <1>2, <1>5, <2>1 DEF t

-----------------------------------------------------------------------------
(* Type correctness, the release and the heartbeat.                         *)

USE DEF ReadyState, SocketStatus

\* A released manager refers to no socket, and while a heartbeat runs a socket
\* that opened has not reported its close.
ManagerInv ==
    /\ TypeOK
    /\ isIntentionallyClosed => ws = 0
    /\ HeartbeatHasSocket
    /\ OpenSocketDrained

\* Closing a socket does not change its place among those that opened.
LEMMA ClosingStates ==
    ASSUME TypeOK
    PROVE  /\ Closing(readyState) \in [SocketIds -> ReadyState]
           /\ \A s \in SocketIds :
                 /\ Closing(readyState)[s] = "none" <=> readyState[s] = "none"
                 /\ readyState[s] \in {"open", "closing"}
                       => Closing(readyState)[s] \in {"open", "closing"}
                 /\ Closing(readyState)[s] = "open" => readyState[s] = "open"
BY DEF Closing, TypeOK

\* A new socket is dialled: the manager refers to it, and the heartbeat loses
\* no socket it had.
LEMMA Dialled ==
    ASSUME TypeOK, HeartbeatHasSocket, UNCHANGED heartbeat,
           \/ Dial(readyState) \/ Dial(Closing(readyState))
    PROVE  /\ readyState' \in [SocketIds -> ReadyState]
           /\ ws' \in 0..MaxSockets /\ isConnecting' \in BOOLEAN
           /\ ~isOpen'
           /\ HeartbeatHasSocket'
<1>1. PICK states \in {readyState, Closing(readyState)}, s \in Fresh :
          /\ readyState' = [states EXCEPT ![s] = "connecting"]
          /\ ws' = s /\ isConnecting' = TRUE
  BY DEF Dial
<1>2. /\ states \in [SocketIds -> ReadyState]
      /\ states[s] = "none" /\ s \in SocketIds
      /\ \A t \in SocketIds : readyState[t] \in {"open", "closing"}
                                 => states[t] \in {"open", "closing"}
  BY ClosingStates DEF Fresh, TypeOK
<1>3. readyState'[s] = "connecting"
      /\ \A t \in SocketIds \ {s} : readyState'[t] = states[t]
  BY <1>1, <1>2
<1>4. ws' \in 0..MaxSockets
  BY <1>1, <1>2, BoundAssumption DEF SocketIds
<1>5. HeartbeatHasSocket'
  BY <1>2, <1>3 DEF HeartbeatHasSocket
<1> QED BY <1>1, <1>2, <1>3, <1>4, <1>5 DEF isOpen

\* The hooks and the timer dial only before the release.
LEMMA ManagerDials ==
    ASSUME ManagerInv,
           \/ \E otherToken \in BOOLEAN : Connect(otherToken)
           \/ RefreshToken
           \/ TimerFires
    PROVE  ManagerInv'
<1>1. /\ UNCHANGED <<heartbeat, reconnectAttempts, isIntentionallyClosed,
                     queueing>>
      /\ ~isIntentionallyClosed
  BY DEF Connect, RefreshToken, TimerFires
<1>2. /\ status' \in SocketStatus
      /\ reconnectTimer' \in {"none", "armed", "spent"}
  BY DEF Connect, RefreshToken, TimerFires, ManagerInv, TypeOK
<1>3. CASE Dial(readyState) \/ Dial(Closing(readyState))
  <2>1. TypeOK'
    BY <1>1, <1>2, <1>3, Dialled DEF ManagerInv, TypeOK, queueing
  <2> QED
    BY <1>1, <1>3, <2>1, Dialled DEF ManagerInv, OpenSocketDrained
<1>4. CASE UNCHANGED <<readyState, ws, status, isConnecting>>
  BY <1>1, <1>2, <1>4
  DEF ManagerInv, TypeOK, HeartbeatHasSocket, OpenSocketDrained, isOpen,
      queueing
<1> QED
  BY <1>3, <1>4 DEF Connect, RefreshToken, TimerFires

\* A reconnection is asked for when attempts are left.
LEMMA AttemptType ==
    ASSUME TypeOK, reconnectAttempts < maxReconnectAttempts, NEW connecting,
           NEW shown \in SocketStatus,
           AttemptReconnect(connecting, shown)
    PROVE  /\ reconnectAttempts' \in 0..maxReconnectAttempts
           /\ reconnectTimer' \in {"none", "armed", "spent"}
           /\ status' \in SocketStatus
BY BoundAssumption DEF AttemptReconnect, TypeOK

\* Putting a payload at the end of the queue keeps the queue in its bound.
LEMMA QueueType ==
    ASSUME TypeOK, SendLater
    PROVE  /\ sendQueue' \in Seq(Payloads) /\ Len(sendQueue') <= QueueCap
           /\ sent' \in 0..MaxPayloads /\ shed' \in SUBSET Payloads
<1>1. sent + 1 \in Payloads /\ sent' = sent + 1
  BY BoundAssumption DEF SendLater, TypeOK, Payloads
<1>2. CASE Full
  <2>1. sendQueue # <<>>
    BY <1>2, BoundAssumption DEF Full, TypeOK
  <2>2. /\ Tail(sendQueue) \in Seq(Payloads) /\ Head(sendQueue) \in Payloads
        /\ Len(Tail(sendQueue)) = Len(sendQueue) - 1
    BY <2>1 DEF TypeOK
  <2>3. sendQueue' = Append(Tail(sendQueue), sent + 1)
        /\ shed' = shed \cup {Head(sendQueue)}
    BY <1>2 DEF SendLater
  <2> DEFINE t == Tail(sendQueue)
  <2>4. t \in Seq(Payloads) /\ Len(t) = Len(sendQueue) - 1
    BY <2>2
  <2> HIDE DEF t
  <2>5. /\ Append(t, sent + 1) \in Seq(Payloads)
        /\ Len(Append(t, sent + 1)) = Len(sendQueue)
    BY <1>1, <2>4 DEF TypeOK
  <2>6. sent' \in 0..MaxPayloads
    BY <1>1, BoundAssumption DEF Payloads
  <2> QED BY <2>2, <2>3, <2>5, <2>6 DEF TypeOK, t
<1>3. CASE ~Full
  <2>1. sendQueue' = Append(sendQueue, sent + 1) /\ shed' = shed
    BY <1>3 DEF SendLater
  <2> QED BY <1>1, <1>3, <2>1, BoundAssumption DEF Full, TypeOK, Payloads
<1> QED BY <1>2, <1>3

\* Sending changes the queue and what was written, and no socket.
LEMMA ManagerSends ==
    ASSUME ManagerInv, SendNow \/ SendLater
    PROVE  ManagerInv'
<1>1. UNCHANGED <<readyState, ws, heartbeat, isConnecting,
                  isIntentionallyClosed>>
  BY DEF SendNow, SendLater
<1>2. CASE SendNow
  <2>1. sent + 1 \in Payloads
    BY <1>2, BoundAssumption DEF SendNow, ManagerInv, TypeOK, Payloads
  <2>2. TypeOK'
    BY <1>2, <2>1 DEF SendNow, ManagerInv, TypeOK, Payloads
  <2> QED
    BY <1>1, <1>2, <2>2
    DEF SendNow, ManagerInv, HeartbeatHasSocket, OpenSocketDrained, isOpen
<1>3. CASE SendLater
  <2>1. /\ reconnectAttempts' \in 0..maxReconnectAttempts
        /\ reconnectTimer' \in {"none", "armed", "spent"}
        /\ status' \in SocketStatus
    BY <1>3, AttemptType DEF SendLater, ManagerInv, TypeOK
  <2>2. TypeOK'
    <3>1. /\ sendQueue' \in Seq(Payloads) /\ Len(sendQueue') <= QueueCap
          /\ sent' \in 0..MaxPayloads /\ shed' \in SUBSET Payloads
          /\ written' = written
      BY <1>3, QueueType DEF ManagerInv, SendLater
    <3> QED BY <1>1, <2>1, <3>1 DEF ManagerInv, TypeOK
  <2> QED
    BY <1>1, <1>3, <2>2
    DEF SendLater, ManagerInv, HeartbeatHasSocket, OpenSocketDrained, isOpen
<1> QED BY <1>2, <1>3

\* The release drops the socket and the heartbeat.
LEMMA ManagerRelease == ManagerInv /\ Release => ManagerInv'
<1> SUFFICES ASSUME ManagerInv, Release PROVE ManagerInv'
  OBVIOUS
<1>1. TypeOK'
  <2>1. readyState' \in [SocketIds -> ReadyState]
    BY ClosingStates DEF Release, ManagerInv
  <2>2. ws' \in 0..MaxSockets
    BY BoundAssumption DEF Release
  <2> QED
    BY <2>1, <2>2 DEF Release, StopHeartbeat, ManagerInv, TypeOK, queueing
<1> QED
  BY <1>1 DEF Release, StopHeartbeat, ManagerInv, HeartbeatHasSocket,
              OpenSocketDrained, isOpen

\* The handshake of any socket ends well: the manager's own socket, if open,
\* finds the queue empty afterwards.
LEMMA ManagerOpens ==
    ASSUME ManagerInv, NEW s \in SocketIds, BrowserOpen(s)
    PROVE  ManagerInv'
<1>1. readyState'[s] = "open"
      /\ readyState' \in [SocketIds -> ReadyState]
  BY DEF BrowserOpen, ManagerInv, TypeOK
<1>2. /\ written' \in Seq(Payloads) /\ sendQueue' \in Seq(Payloads)
      /\ Len(sendQueue') <= QueueCap
      /\ ws # 0 /\ readyState'[ws] = "open" => sendQueue' = <<>>
  <2>1. /\ written \o sendQueue \in Seq(Payloads)
        /\ <<>> \in Seq(Payloads) /\ Len(<<>>) <= QueueCap
    BY Concatenation, BoundAssumption DEF ManagerInv, TypeOK
  <2> QED BY <2>1 DEF BrowserOpen, FlushQueue, ManagerInv, TypeOK
<1>3. TypeOK'
  <2>1. reconnectAttempts' \in 0..maxReconnectAttempts
    BY BoundAssumption DEF BrowserOpen
  <2> QED BY <1>1, <1>2, <2>1 DEF BrowserOpen, ManagerInv, TypeOK
<1> QED
  BY <1>1, <1>2, <1>3 DEF BrowserOpen, ManagerInv, HeartbeatHasSocket,
                          OpenSocketDrained, isOpen

\* A socket closes: the heartbeat stops with it.
LEMMA ManagerCloses ==
    ASSUME ManagerInv, NEW s \in SocketIds, NEW error \in BOOLEAN,
           NEW policyRejected \in BOOLEAN, Closed(s, error, policyRejected)
    PROVE  ManagerInv'
<1>1. /\ readyState' = [readyState EXCEPT ![s] = "closed"]
      /\ heartbeat' = FALSE /\ isConnecting' = FALSE
      /\ UNCHANGED <<ws, isIntentionallyClosed, queueing>>
  BY DEF Closed, StopHeartbeat
<1>2. /\ reconnectAttempts' \in 0..maxReconnectAttempts
      /\ reconnectTimer' \in {"none", "armed", "spent"}
      /\ status' \in SocketStatus
  <2> DEFINE shown == IF error THEN "error" ELSE status
  <2>1. shown \in SocketStatus
    BY DEF ManagerInv, TypeOK
  <2> HIDE DEF shown
  <2>2. \/ /\ status' \in {"disconnected", "error"}
           /\ UNCHANGED <<reconnectAttempts, reconnectTimer>>
        \/ /\ reconnectAttempts < maxReconnectAttempts
           /\ AttemptReconnect(FALSE, shown)
    BY DEF Closed, shown
  <2> QED BY <2>1, <2>2, AttemptType DEF ManagerInv, TypeOK
<1>3. TypeOK'
  BY <1>1, <1>2 DEF ManagerInv, TypeOK, queueing
<1>4. \A t \in SocketIds : readyState'[t] = "open" => readyState[t] = "open"
  BY <1>1 DEF ManagerInv, TypeOK
<1>5. isOpen' => isOpen
  BY <1>1, <1>3, <1>4 DEF isOpen, ManagerInv, TypeOK, SocketIds
<1> QED
  BY <1>1, <1>3, <1>5
  DEF ManagerInv, HeartbeatHasSocket, OpenSocketDrained, queueing

\* No socket exists at the start.
LEMMA ManagerInit == Init => ManagerInv
<1> SUFFICES ASSUME Init PROVE ManagerInv
  OBVIOUS
<1>1. /\ <<>> \in Seq(Payloads) /\ Len(<<>>) <= QueueCap
      /\ 0 \in 0..MaxSockets /\ 0 \in 0..maxReconnectAttempts
      /\ 0 \in 0..MaxPayloads
  BY BoundAssumption
<1>2. TypeOK
  BY <1>1 DEF Init, TypeOK
<1> QED
  BY <1>2 DEF Init, ManagerInv, HeartbeatHasSocket, OpenSocketDrained

\* Every step keeps the invariant: one case per action.
LEMMA ManagerNext == ManagerInv /\ [Next]_vars => ManagerInv'
<1> SUFFICES ASSUME ManagerInv, [Next]_vars PROVE ManagerInv'
  OBVIOUS
<1>1. CASE \/ \E otherToken \in BOOLEAN : Connect(otherToken)
           \/ RefreshToken \/ TimerFires
  BY <1>1, ManagerDials
<1>2. CASE SendNow \/ SendLater
  BY <1>2, ManagerSends
<1>3. CASE Release
  BY <1>3, ManagerRelease
<1>4. CASE \E s \in SocketIds : Settles(s) \/ Drop(s)
  BY <1>4, ManagerOpens, ManagerCloses DEF Settles, Fail, CloseDone, Drop
<1>5. CASE UNCHANGED vars
  BY <1>5
  DEF vars, ManagerInv, TypeOK, HeartbeatHasSocket, OpenSocketDrained, isOpen
<1> QED BY <1>1, <1>2, <1>3, <1>4, <1>5 DEF Next

\* The invariant holds in every reachable state.
LEMMA ManagerInvariant == Spec => []ManagerInv
BY ManagerInit, ManagerNext, PTL DEF Spec

-----------------------------------------------------------------------------
(* The order of the payloads.                                               *)

\* FifoWithoutLoss without the concatenation: what was written and what is
\* queued ascend, the first below the second, and make up what was sent, except
\* for what the full queue shed.
FifoInv ==
    /\ Ascending(written) /\ Ascending(sendQueue)
    /\ \A x \in Elems(written), y \in Elems(sendQueue) : x < y
    /\ Elems(written) \cup Elems(sendQueue) = (1..sent) \ shed
    /\ shed \subseteq 1..sent

\* FifoInv says as much as the property.
LEMMA FifoInvSuffices == TypeOK /\ FifoInv => FifoWithoutLoss
<1> SUFFICES ASSUME TypeOK, FifoInv PROVE FifoWithoutLoss
  OBVIOUS
<1> DEFINE all == written \o sendQueue
<1>1. Elems(all) = (1..sent) \ shed /\ Ascending(all)
  BY Concatenation DEF FifoInv, TypeOK
<1> QED BY <1>1 DEF FifoWithoutLoss, Elems, Ascending

\* The empty sequence.
LEMMA NoElems == Elems(<<>>) = {} /\ Ascending(<<>>)
BY DEF Elems, Ascending

\* A payload that is sent is above all that were sent before.
LEMMA NextPayload ==
    ASSUME TypeOK, FifoInv, sent < MaxPayloads
    PROVE  /\ sent + 1 \in Payloads
           /\ 1..(sent + 1) = (1..sent) \cup {sent + 1}
           /\ sent + 1 \notin 1..sent
           /\ \A x \in Elems(written) \cup Elems(sendQueue) : x < sent + 1
<1>1. sent \in Nat /\ sent + 1 \in Payloads
  BY BoundAssumption DEF TypeOK, Payloads
<1>2. \A x \in Elems(written) \cup Elems(sendQueue) : x \in 1..sent
  BY DEF FifoInv
<1> QED BY <1>1, <1>2

\* The socket is open, so nothing is queued behind which to write.
LEMMA FifoSendNow ==
    ASSUME ManagerInv, FifoInv, SendNow
    PROVE  FifoInv'
<1>1. sendQueue = <<>> /\ sendQueue' = sendQueue /\ shed' = shed
      /\ sent' = sent + 1 /\ written' = Append(written, sent + 1)
  BY DEF SendNow, ManagerInv, OpenSocketDrained
<1>2. /\ sent + 1 \in Payloads
      /\ 1..(sent + 1) = (1..sent) \cup {sent + 1} /\ sent + 1 \notin 1..sent
      /\ \A x \in Elems(written) : x < sent + 1
  BY NextPayload DEF SendNow, ManagerInv
<1>3. Elems(written') = Elems(written) \cup {sent + 1} /\ Ascending(written')
  BY <1>1, <1>2, Appended DEF ManagerInv, TypeOK, FifoInv
<1> QED BY <1>1, <1>2, <1>3, NoElems DEF FifoInv

\* The queue in which a payload is put: without its head, if it is full.
LEMMA FifoSendLater ==
    ASSUME ManagerInv, FifoInv, SendLater
    PROVE  FifoInv'
<1>1. /\ sent + 1 \in Payloads
      /\ 1..(sent + 1) = (1..sent) \cup {sent + 1} /\ sent + 1 \notin 1..sent
      /\ \A x \in Elems(written) \cup Elems(sendQueue) : x < sent + 1
  BY NextPayload DEF SendLater, ManagerInv
<1>2. PICK q \in Seq(Payloads) :
          /\ Ascending(q)
          /\ sendQueue' = Append(q, sent + 1)
          /\ \/ q = sendQueue /\ shed' = shed
             \/ \E h \in Elems(sendQueue) : /\ Elems(q) = Elems(sendQueue) \ {h}
                                            /\ shed' = shed \cup {h}
  <2>1. CASE Full
    <3>1. /\ sendQueue \in Seq(Payloads) /\ sendQueue # <<>>
          /\ Ascending(sendQueue)
      BY <2>1, BoundAssumption DEF Full, ManagerInv, TypeOK, FifoInv
    <3>2. sendQueue' = Append(Tail(sendQueue), sent + 1)
          /\ shed' = shed \cup {Head(sendQueue)}
      BY <2>1 DEF SendLater
    <3>3. /\ Tail(sendQueue) \in Seq(Payloads)
          /\ Head(sendQueue) \in Elems(sendQueue)
          /\ Ascending(Tail(sendQueue))
          /\ Elems(Tail(sendQueue)) = Elems(sendQueue) \ {Head(sendQueue)}
      BY <3>1, Tailed
    <3> QED BY <3>2, <3>3
  <2>2. CASE ~Full
    BY <2>2 DEF SendLater, ManagerInv, TypeOK, FifoInv
  <2> QED BY <2>1, <2>2
<1>3. Elems(q) \subseteq Elems(sendQueue)
  BY <1>2
<1>4. Elems(sendQueue') = Elems(q) \cup {sent + 1} /\ Ascending(sendQueue')
  BY <1>1, <1>2, <1>3, Appended
<1>5. written' = written /\ sent' = sent + 1
  BY DEF SendLater
<1>6. \A h \in Elems(sendQueue) : h \notin Elems(written) /\ h \in 1..sent
  BY DEF FifoInv
<1>7. Elems(written) \cup Elems(sendQueue') = (1..(sent + 1)) \ shed'
  BY <1>1, <1>2, <1>4, <1>6 DEF FifoInv
<1>8. shed' \subseteq 1..(sent + 1)
  BY <1>1, <1>2, <1>6 DEF FifoInv
<1>9. \A x \in Elems(written), y \in Elems(sendQueue') : x < y
  BY <1>1, <1>3, <1>4 DEF FifoInv
<1> QED BY <1>4, <1>5, <1>7, <1>8, <1>9 DEF FifoInv

\* A flush moves the queue, in its order, behind what was written.
LEMMA FifoOpens ==
    ASSUME ManagerInv, FifoInv, NEW s \in SocketIds, BrowserOpen(s)
    PROVE  FifoInv'
<1>1. UNCHANGED <<sent, shed>>
  BY DEF BrowserOpen
<1>2. CASE written' = written \o sendQueue /\ sendQueue' = <<>>
  <2>1. /\ Elems(written') = Elems(written) \cup Elems(sendQueue)
        /\ Ascending(written')
    BY <1>2, Concatenation DEF FifoInv, ManagerInv, TypeOK
  <2>2. Elems(sendQueue') = {} /\ Ascending(sendQueue')
    BY <1>2, NoElems
  <2> QED BY <1>1, <2>1, <2>2 DEF FifoInv
<1>3. CASE UNCHANGED <<written, sendQueue>>
  BY <1>1, <1>3 DEF FifoInv
<1> QED BY <1>2, <1>3 DEF BrowserOpen, FlushQueue

\* Only sending and the end of a handshake move payloads.
LEMMA FifoNext == ManagerInv /\ FifoInv /\ [Next]_vars => FifoInv'
<1> SUFFICES ASSUME ManagerInv, FifoInv, [Next]_vars PROVE FifoInv'
  OBVIOUS
<1>1. CASE \E s \in SocketIds : BrowserOpen(s)
  BY <1>1, FifoOpens
<1>2. CASE SendNow
  BY <1>2, FifoSendNow
<1>3. CASE SendLater
  BY <1>3, FifoSendLater
<1>4. CASE UNCHANGED queueing
  BY <1>4 DEF queueing, FifoInv
<1> QED
  BY <1>1, <1>2, <1>3, <1>4
  DEF Next, Connect, RefreshToken, Release, Settles, Fail, CloseDone, Drop,
      Closed, TimerFires, vars, queueing

-----------------------------------------------------------------------------
(* The theorems.                                                            *)

\* Types are kept: the send queue stays in its bound, and no more attempts are
\* counted than maxReconnectAttempts.
THEOREM ClientTypeCorrect == Spec => []TypeOK
<1>1. ManagerInv => TypeOK
  BY DEF ManagerInv
<1> QED BY <1>1, ManagerInvariant, PTL

\* Payloads are written in the order they were sent, over all the sockets of a
\* manager; one that is neither written nor queued was shed by the full queue.
THEOREM Fifo == Spec => []FifoWithoutLoss
<1>1. Init => FifoInv
  BY NoElems DEF Init, FifoInv
<1>2. ManagerInv => TypeOK
  BY DEF ManagerInv
<1> QED
  BY <1>1, <1>2, FifoNext, FifoInvSuffices, ManagerInvariant, PTL DEF Spec

\* Nothing is left in the queue when the manager's socket is open.
THEOREM Drained == Spec => []OpenSocketDrained
<1>1. ManagerInv => OpenSocketDrained
  BY DEF ManagerInv
<1> QED BY <1>1, ManagerInvariant, PTL

\* The heartbeat runs only while a socket that opened has not closed.
THEOREM HeartbeatStops == Spec => []HeartbeatHasSocket
<1>1. ManagerInv => HeartbeatHasSocket
  BY DEF ManagerInv
<1> QED BY <1>1, ManagerInvariant, PTL

\* A released manager opens no socket and refers to none, whatever handlers and
\* timers of its sockets are still to come.
THEOREM ReleaseIsFinal == Spec => ReleasedStaysClosed
<1> DEFINE Stays == isIntentionallyClosed => isIntentionallyClosed'
                                             /\ Fresh' = Fresh /\ ws' = 0
<1>1. ManagerInv /\ [Next]_vars => [Stays]_vars
  <2> SUFFICES ASSUME ManagerInv, Next, isIntentionallyClosed
               PROVE  isIntentionallyClosed' /\ Fresh' = Fresh /\ ws' = 0
    OBVIOUS
  <2>1. ws = 0
    BY DEF ManagerInv
  <2>2. CASE \E s \in SocketIds : Settles(s) \/ Drop(s)
    <3>1. PICK s \in SocketIds, to \in {"open", "closed"} :
             /\ readyState' = [readyState EXCEPT ![s] = to]
             /\ readyState[s] # "none"
             /\ UNCHANGED <<ws, isIntentionallyClosed>>
      BY <2>2 DEF Settles, BrowserOpen, Fail, CloseDone, Drop, Closed
    <3>2. Fresh' = Fresh
      BY <3>1 DEF Fresh, ManagerInv, TypeOK
    <3> QED BY <2>1, <3>1, <3>2
  <2>3. CASE SendNow
    BY <2>1, <2>3 DEF SendNow, isOpen
  <2> QED BY <2>2, <2>3 DEF Next, Connect, RefreshToken, SendLater, Release,
                            TimerFires
<1>2. Spec => [][Stays]_vars
  BY <1>1, ManagerInvariant, PTL DEF Spec
<1> QED BY <1>2 DEF ReleasedStaysClosed
=============================================================================
