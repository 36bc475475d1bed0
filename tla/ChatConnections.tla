-------------------------- MODULE ChatConnections --------------------------
(***************************************************************************)
(* The chat WebSocket gateway of backend/app/websocket: the connection     *)
(* manager of every server process (chat_socket.py), the handler coroutine *)
(* that serves one socket, and the presence counter the processes share    *)
(* through Redis (redis_broker.py).                                        *)
(*                                                                         *)
(* A handler runs alone until it awaits: an action is the code between two *)
(* awaits.  Every socket is one connection attempt, used once, and is its  *)
(* own device: the frontend opens /ws/chat/{peer} without a device_id, so  *)
(* the handler draws a fresh one.                                          *)
(***************************************************************************)
EXTENDS Integers, FiniteSets

CONSTANTS
    Instances,        \* server processes
    Users,
    Sockets,          \* connection attempts
    InstanceOf,       \* the process that accepts a socket
    UserOf,           \* the authenticated user of a socket
    PeerOf,           \* the other end of its conversation
    NoPeer,           \* no user: a loop outside every conversation
    SyncOnConnect,    \* the sockets opened with ?sync_since=
    MaxEvents         \* bound: client events, failures, expiries and kills

ASSUME FiniteAssumption == IsFiniteSet(Sockets) /\ IsFiniteSet(Users)
ASSUME SocketAssumption ==
    /\ InstanceOf \in [Sockets -> Instances]
    /\ UserOf \in [Sockets -> Users]
    /\ PeerOf \in [Sockets -> Users]
    /\ NoPeer \notin Users
    /\ SyncOnConnect \subseteq Sockets
    /\ MaxEvents \in Nat

VARIABLES
    enabled,     \* redis_broker.enabled, per process
    pc,          \* where the handler of a socket is
    up,          \* sockets whose transport is open
    active,      \* the sockets in active_connections
    userCount,   \* user_connection_count, per process and user
    presence,    \* ws:user:{id}:count in Redis: its value and whether it has a TTL
    counted,     \* sockets with an INCR applied and no DECR yet
    cast,        \* the _send_local loop a handler is in
    reaped,      \* sockets a _send_local loop has disconnected
    events       \* client events, failures, expiries and kills so far

vars == <<enabled, pc, up, active, userCount, presence, counted, cast,
          reaped, events>>

-----------------------------------------------------------------------------
(* Where a handler can be.  "closed": it left through an except clause.     *)
(* "crashed": an exception left it from outside the try.  "killed": its     *)
(* process stopped.                                                         *)

Casting  == {"announce", "relay", "echo", "push", "farewell"}
Ended    == {"closed", "crashed", "killed"}
Serving  == {"incr", "ttl1", "ttl", "sync", "open", "leaving", "decr",
             "delete", "touch"} \cup Casting
Location == {"new"} \cup Serving \cup Ended
Left     == {"decr", "delete", "touch", "farewell", "closed", "killed"}

Owner(s) == <<InstanceOf[s], UserOf[s]>>
Conversation(s) == <<InstanceOf[s], UserOf[s], PeerOf[s]>>

\* The sockets of a user registered in a process.
Registered(p) == {s \in active : Owner(s) = p}
CountedOf(u) == {s \in counted : UserOf[s] = u}

Absent == [n |-> 0, ttl |-> FALSE]

\* A loop that has not asked the dictionary for its first key yet.
NewCast == [keys |-> 0, seen |-> {}, peer |-> NoPeer, size |-> 0,
            sent |-> {}, failed |-> {}]

\* Mutants: the count is not kept from going below zero; it goes to zero early.
Unclamped(n) == n
ClampedEarly(n) == IF n > 1 THEN n ELSE 0
AtLeastZero(n) == IF n > 0 THEN n ELSE 0

TypeOK ==
    /\ enabled \in [Instances -> BOOLEAN]
    /\ pc \in [Sockets -> Location]
    /\ up \in SUBSET Sockets
    /\ active \in SUBSET Sockets
    /\ userCount \in [Instances \X Users -> Nat]
    /\ presence \in [Users -> [n : Int, ttl : BOOLEAN]]
    /\ counted \in SUBSET Sockets
    /\ cast \in [Sockets -> [keys : Nat, seen : SUBSET Users,
                             peer : Users \cup {NoPeer}, size : Nat,
                             sent : SUBSET Sockets, failed : SUBSET Sockets]]
    /\ reaped \in SUBSET Sockets
    /\ events \in 0..MaxEvents

Init ==
    /\ enabled \in [Instances -> BOOLEAN]
    /\ pc = [s \in Sockets |-> "new"]
    /\ up = {} /\ active = {} /\ counted = {} /\ reaped = {}
    /\ userCount = [p \in Instances \X Users |-> 0]
    /\ presence = [u \in Users |-> Absent]
    /\ cast = [s \in Sockets |-> NewCast]
    /\ events = 0

-----------------------------------------------------------------------------
\* Mutant: the count goes down once per conversation that empties.
DisconnectCountsEmptied(dropped) ==
    LET emptied == {PeerOf[t] : t \in {x \in dropped \cap active :
                       ~ \E y \in active \ dropped :
                             Conversation(y) = Conversation(x)}}
    IN  /\ active' = active \ dropped
        /\ userCount' = [p \in DOMAIN userCount |->
               IF \E t \in dropped : Owner(t) = p
               THEN AtLeastZero(userCount[p] - Cardinality(emptied))
               ELSE userCount[p]]

\* Mutant: a user whose count is zero is taken to have no socket.
DisconnectTrustsCount(dropped) ==
    LET known == {t \in dropped : userCount[Owner(t)] > 0}
    IN  /\ active' = active \ known
        /\ userCount' = [p \in DOMAIN userCount |->
               AtLeastZero(userCount[p]
                             - Cardinality({t \in known : Owner(t) = p}))]

(* ChatConnectionManager.disconnect, called on every socket of dropped, all *)
(* of one user and process, in some order and without an await between two  *)
(* calls.  A call on a conversation with no socket left returns early; any  *)
(* other call decrements the count, also when its own socket is no longer   *)
(* there.  In a conversation that dropped empties, the calls after the one  *)
(* that removes the last socket return early.                               *)

Disconnect(dropped) ==
    LET open(t)  == \E x \in active : Conversation(x) = Conversation(t)
        stays(t) == \E x \in active \ dropped :
                        Conversation(x) = Conversation(t)
        least == {t \in dropped : t \in active \/ stays(t)}
        most  == {t \in dropped : open(t)}
    IN  /\ active' = active \ dropped
        /\ \E calls \in Cardinality(least)..Cardinality(most) :
               userCount' = [p \in DOMAIN userCount |->
                   IF \E t \in dropped : Owner(t) = p
                   THEN AtLeastZero(userCount[p] - calls)
                   ELSE userCount[p]]

\* A client event or a mishap; MaxEvents bounds them.
Event == events < MaxEvents /\ events' = events + 1

Goto(s, where) == pc' = [pc EXCEPT ![s] = where]

\* Enter a _send_local loop, or go anywhere else.
Enter(s, where) ==
    /\ Goto(s, where)
    /\ cast' = [cast EXCEPT ![s] = NewCast]

Joined(s) == IF s \in SyncOnConnect THEN "sync" ELSE "open"

-----------------------------------------------------------------------------
(* A connection is accepted and registered; without Redis its rank among    *)
(* the user's connections is the local count.                               *)

Connect(s) ==
    /\ pc[s] = "new"
    /\ up' = up \cup {s}
    /\ active' = active \cup {s}
    /\ userCount' = [userCount EXCEPT ![Owner(s)] = @ + 1]
    /\ Enter(s, CASE enabled[InstanceOf[s]] -> "incr"
                  [] ~enabled[InstanceOf[s]] /\ userCount[Owner(s)] = 0
                        -> "announce"
                  [] OTHER -> Joined(s))
    /\ UNCHANGED <<enabled, presence, counted, reaped, events>>

\* Mutant: an INCR whose reply is lost is sent again.
IncrTwice(s) ==
    /\ pc[s] = "incr"
    /\ presence' = [presence EXCEPT ![UserOf[s]].n = @ + 2]
    /\ counted' = counted \cup {s}
    /\ Goto(s, IF presence'[UserOf[s]].n = 1 THEN "ttl1" ELSE "ttl")
    /\ UNCHANGED <<enabled, up, active, userCount, cast, reaped, events>>

\* increment_presence, INCR: a key that exists keeps its TTL.  What it
\* returned is remembered in pc: "ttl1" when the connection is the first.
Incr(s) ==
    /\ pc[s] = "incr"
    /\ presence' = [presence EXCEPT ![UserOf[s]].n = @ + 1]
    /\ counted' = counted \cup {s}
    /\ Goto(s, IF presence'[UserOf[s]].n = 1 THEN "ttl1" ELSE "ttl")
    /\ UNCHANGED <<enabled, up, active, userCount, cast, reaped,
                   events>>

\* increment_presence, EXPIRE; a key that went away in between stays absent.
SetTtl(s) ==
    /\ pc[s] \in {"ttl1", "ttl"}
    /\ presence' = [presence EXCEPT ![UserOf[s]].ttl =
                        presence[UserOf[s]] # Absent]
    /\ Enter(s, IF pc[s] = "ttl1" THEN "announce" ELSE Joined(s))
    /\ UNCHANGED <<enabled, up, active, userCount, counted, reaped,
                   events>>

\* Either call raises: it is logged, 0 is returned and nothing announced.
JoinFails(s) ==
    /\ pc[s] \in {"incr", "ttl1", "ttl"}
    /\ Event
    /\ Enter(s, Joined(s))
    /\ UNCHANGED <<enabled, up, active, userCount, presence, counted, reaped>>

\* sync_since: the reply holds datetime values, which send_json cannot
\* encode, so it raises unless nothing was missed.  This is outside the try.
SyncReply(s) ==
    /\ pc[s] = "sync"
    /\ \/ Goto(s, "open") /\ UNCHANGED up
       \/ Goto(s, "crashed") /\ up' = up \ {s}
    /\ UNCHANGED <<enabled, active, userCount, presence, counted, cast,
                   reaped, events>>

-----------------------------------------------------------------------------
(* The receive loop.                                                        *)

\* A typing or message_read event, relayed to the peer.
Relay(s) ==
    /\ pc[s] = "open" /\ s \in up
    /\ Event
    /\ Enter(s, "relay")
    /\ UNCHANGED <<enabled, up, active, userCount, presence, counted, reaped>>

\* A message that was accepted, pushed to the user's own sockets first.
Message(s) ==
    /\ pc[s] = "open" /\ s \in up
    /\ Event
    /\ Enter(s, "echo")
    /\ UNCHANGED <<enabled, up, active, userCount, presence, counted, reaped>>

\* The transport closes, at the client's end or in the network.
Hangup(s) ==
    /\ s \in up
    /\ up' = up \ {s}
    /\ UNCHANGED <<enabled, pc, active, userCount, presence, counted, cast,
                   reaped, events>>

\* receive_json reports the closed transport.
ReceiveDisconnect(s) ==
    /\ pc[s] = "open" /\ s \notin up
    /\ Goto(s, "leaving")
    /\ UNCHANGED <<enabled, up, active, userCount, presence, counted, cast,
                   reaped, events>>

\* Anything else in the loop raises: a malformed frame, a query, a sync reply.
Fault(s) ==
    /\ pc[s] = "open" /\ s \in up
    /\ Event
    /\ Goto(s, "leaving")
    /\ UNCHANGED <<enabled, up, active, userCount, presence, counted, cast,
                   reaped>>

-----------------------------------------------------------------------------
(* _send_local: two nested loops over live dictionaries.  Python raises     *)
(* RuntimeError when a dictionary has changed size since the loop over it   *)
(* began and the loop asks for its next key.                                *)

Target(s) == IF pc[s] = "echo" THEN UserOf[s] ELSE PeerOf[s]
Excluded(s) == IF pc[s] \in {"relay", "echo"} THEN {s} ELSE {}

\* The sockets of one conversation of the user a loop sends to.
Under(s, peer) ==
    {t \in active : Conversation(t) = <<InstanceOf[s], Target(s), peer>>}
Keys(i) ==
    Cardinality({Conversation(t) : t \in {x \in active : InstanceOf[x] = i}})

InnerOpen(s)    == cast[s].peer # NoPeer
InnerChanged(s) ==
    /\ InnerOpen(s)
    /\ cast[s].size = 0 \/ cast[s].size # Cardinality(Under(s, cast[s].peer))
InnerNext(s)    ==
    IF InnerOpen(s)
    THEN Under(s, cast[s].peer) \ (cast[s].sent \cup Excluded(s)) ELSE {}
OuterChanged(s) ==
    /\ cast[s].keys # 0 /\ InnerNext(s) = {}
    /\ cast[s].keys # Keys(InstanceOf[s])
OuterNext(s)    == {p \in Users \ cast[s].seen : Under(s, p) \ Excluded(s) # {}}
\* The size of a dictionary changed under the loop.
Changed(s) == InnerChanged(s) \/ OuterChanged(s)

\* Where a handler goes that has disconnected sockets.  A conversation without
\* any is popped, and the next socket makes a new map: a loop inside it holds
\* the old one, empty for good, which is remembered as size 0.
EnterDropping(s, where) ==
    LET emptied(t) == /\ InnerOpen(t)
                      /\ Under(t, cast[t].peer) \cap active' = {}
    IN  /\ Goto(s, where)
        /\ cast' = [t \in Sockets |->
                       CASE t = s -> NewCast
                         [] t # s /\ emptied(t) -> [cast[t] EXCEPT !.size = 0]
                         [] OTHER -> cast[t]]

\* A message holds a datetime, which send_json cannot encode.
Encodable(kind) == kind \notin {"echo", "push"}

\* send_json to t: a closed transport raises or takes the frame in vain.
Send(s, t, c) ==
    \/ /\ Encodable(pc[s])
       /\ cast' = [cast EXCEPT ![s] = [c EXCEPT !.sent = @ \cup {t}]]
    \/ /\ t \notin up \/ ~Encodable(pc[s])
       /\ cast' = [cast EXCEPT ![s] = [c EXCEPT !.sent = @ \cup {t},
                                                !.failed = @ \cup {t}]]

\* The loop goes on inside the conversation it is in.
SendInner(s) ==
    /\ pc[s] \in Casting /\ ~InnerChanged(s)
    /\ \E t \in InnerNext(s) : Send(s, t, cast[s])
    /\ UNCHANGED <<enabled, pc, up, active, userCount, presence, counted,
                   reaped, events>>

\* The loop takes the next conversation of the user.
SendOuter(s) ==
    /\ pc[s] \in Casting /\ ~Changed(s) /\ InnerNext(s) = {}
    /\ \E p \in OuterNext(s) : \E t \in Under(s, p) \ Excluded(s) :
           Send(s, t, [keys |-> Keys(InstanceOf[s]),
                       seen |-> cast[s].seen \cup {p}, peer |-> p,
                       size |-> Cardinality(Under(s, p)),
                       sent |-> cast[s].sent, failed |-> cast[s].failed])
    /\ UNCHANGED <<enabled, pc, up, active, userCount, presence, counted,
                   reaped, events>>

\* Mutant: the loop waits for the dictionary to have its size back.
SendWaits(s) == FALSE /\ UNCHANGED vars

\* RuntimeError leaves the loop before the failed sockets are disconnected.
\* Outside the try it leaves the handler: at once before the receive loop, and
\* from the except clause after it.
SendRaises(s) ==
    /\ pc[s] \in Casting /\ Changed(s)
    /\ Enter(s, CASE pc[s] = "announce" -> "crashed"
                  [] pc[s] = "farewell" -> "closed"
                  [] OTHER -> "leaving")
    /\ up' = IF pc[s] = "announce" THEN up \ {s} ELSE up
    /\ UNCHANGED <<enabled, active, userCount, presence, counted, reaped, events>>

\* The loop is over: the sockets that failed are disconnected, the payload is
\* published (RedisFanout models what becomes of it), and the handler goes on.
SendEnds(s) ==
    /\ pc[s] \in Casting /\ ~Changed(s)
    /\ InnerNext(s) = {} /\ OuterNext(s) = {}
    /\ Disconnect(cast[s].failed)
    /\ reaped' = reaped \cup cast[s].failed
    /\ \/ pc[s] = "announce" /\ EnterDropping(s, Joined(s))
       \/ pc[s] \in {"relay", "push"} /\ EnterDropping(s, "open")
       \/ pc[s] = "echo" /\ EnterDropping(s, "push")
       \/ pc[s] = "echo" /\ EnterDropping(s, "open")    \* the sender is shadow banned
       \/ pc[s] = "farewell" /\ EnterDropping(s, "closed")
    /\ UNCHANGED <<enabled, up, presence, counted, events>>

-----------------------------------------------------------------------------
(* The except clauses of the handler.                                       *)

\* Mutant: the connections left are read before the socket is disconnected.
LeaveReadsFirst(s) ==
    /\ pc[s] = "leaving"
    /\ Disconnect({s})
    /\ up' = up \ {s}
    /\ EnterDropping(s, CASE enabled[InstanceOf[s]] -> "decr"
                          [] ~enabled[InstanceOf[s]] /\ userCount[Owner(s)] = 0
                                -> "farewell"
                          [] OTHER -> "closed")
    /\ UNCHANGED <<enabled, presence, counted, reaped, events>>

\* The socket is disconnected; without Redis the connections left are the
\* local count.  A runtime error also closes the transport.
Leave(s) ==
    /\ pc[s] = "leaving"
    /\ Disconnect({s})
    /\ up' = up \ {s}
    /\ EnterDropping(s, CASE enabled[InstanceOf[s]] -> "decr"
                          [] ~enabled[InstanceOf[s]] /\ userCount'[Owner(s)] = 0
                                -> "farewell"
                          [] OTHER -> "closed")
    /\ UNCHANGED <<enabled, presence, counted, reaped, events>>

\* Mutant: the key is deleted below zero only.
DecrBelowZero(s) ==
    /\ pc[s] = "decr"
    /\ presence' = [presence EXCEPT ![UserOf[s]].n = @ - 1]
    /\ counted' = counted \ {s}
    /\ Goto(s, IF presence'[UserOf[s]].n < 0 THEN "delete" ELSE "touch")
    /\ UNCHANGED <<enabled, up, active, userCount, cast, reaped, events>>

\* decrement_presence, DECR: on an absent key it makes -1, without a TTL.
Decr(s) ==
    /\ pc[s] = "decr"
    /\ presence' = [presence EXCEPT ![UserOf[s]].n = @ - 1]
    /\ counted' = counted \ {s}
    /\ Goto(s, IF presence'[UserOf[s]].n <= 0 THEN "delete" ELSE "touch")
    /\ UNCHANGED <<enabled, up, active, userCount, cast, reaped,
                   events>>

\* The key is deleted, whatever its value is by now.
DeleteKey(s) ==
    /\ pc[s] = "delete"
    /\ presence' = [presence EXCEPT ![UserOf[s]] = Absent]
    /\ Enter(s, "farewell")
    /\ UNCHANGED <<enabled, up, active, userCount, counted, reaped,
                   events>>

\* The TTL is renewed; other connections are left.
Touch(s) ==
    /\ pc[s] = "touch"
    /\ presence' = [presence EXCEPT ![UserOf[s]].ttl =
                        presence[UserOf[s]] # Absent]
    /\ Goto(s, "closed")
    /\ UNCHANGED <<enabled, up, active, userCount, counted, cast, reaped, events>>

\* A call raises: 0 is returned, as if no connection was left.
LeaveFails(s) ==
    /\ pc[s] \in {"decr", "delete", "touch"}
    /\ Event
    /\ Enter(s, "farewell")
    /\ UNCHANGED <<enabled, up, active, userCount, presence, counted, reaped>>

-----------------------------------------------------------------------------
(* Redis and the processes.                                                 *)

\* The 60 s TTL runs out: a ping does not renew it.
Expire(u) ==
    /\ presence[u].ttl
    /\ Event
    /\ presence' = [presence EXCEPT ![u] = Absent]
    /\ UNCHANGED <<enabled, pc, up, active, userCount, counted, cast, reaped>>

\* A process is stopped with its handlers; Redis keeps what they counted.
Kill(i) ==
    LET mine == {s \in Sockets : InstanceOf[s] = i /\ pc[s] # "new"}
    IN  /\ \E s \in mine : pc[s] \in Serving
        /\ Event
        /\ pc' = [s \in Sockets |-> IF s \in mine THEN "killed" ELSE pc[s]]
        /\ cast' = [s \in Sockets |-> IF s \in mine THEN NewCast ELSE cast[s]]
        /\ up' = up \ mine
        /\ active' = active \ mine
        /\ reaped' = reaped \ mine
        /\ userCount' = [p \in DOMAIN userCount |->
                            IF p[1] = i THEN 0 ELSE userCount[p]]
        /\ UNCHANGED <<enabled, presence, counted>>

-----------------------------------------------------------------------------
\* The steps the event loop takes once a socket is accepted.
Handle(s) ==
    \/ Incr(s) \/ SetTtl(s) \/ JoinFails(s) \/ SyncReply(s)
    \/ ReceiveDisconnect(s)
    \/ SendInner(s) \/ SendOuter(s) \/ SendRaises(s) \/ SendEnds(s)
    \/ Leave(s) \/ Decr(s) \/ DeleteKey(s) \/ Touch(s) \/ LeaveFails(s)

\* What clients and the network do.
Client(s) == Connect(s) \/ Relay(s) \/ Message(s) \/ Fault(s) \/ Hangup(s)

Next ==
    \/ \E s \in Sockets : Handle(s) \/ Client(s)
    \/ \E u \in Users : Expire(u)
    \/ \E i \in Instances : Kill(i)

\* The event loop runs every handler that can run.
Fairness == \A s \in Sockets : WF_vars(Handle(s))

Spec == Init /\ [][Next]_vars /\ Fairness

-----------------------------------------------------------------------------
(* Properties.                                                              *)

\* The local count of a user's connections never exceeds the sockets that are
\* registered, whichever sockets the send loops and the handlers disconnect,
\* and in which order (disconnect is called twice for a socket that failed).
CountNeverOver ==
    \A p \in Instances \X Users :
        userCount[p] <= Cardinality(Registered(p))

\* Only a failed send makes the count drift: a user none of whose sockets was
\* ever disconnected by a send loop is counted exactly.
CountExactWithoutReaping ==
    \A p \in Instances \X Users :
        (\A s \in reaped : Owner(s) # p)
            => userCount[p] = Cardinality(Registered(p))

\* The counter in Redis never exceeds the connections that were counted and
\* not yet discounted, through every interleaving of INCR, EXPIRE, DECR, DEL,
\* expiry, failing call and killed process.
PresenceNeverOver ==
    \A u \in Users : presence[u].n <= Cardinality(CountedOf(u))

\* A handler that left through its except clauses is no longer registered,
\* and no send goes to its socket again.
CleanExitUnregisters ==
    \A s \in Sockets : pc[s] \in Left => s \notin active

\* The last counted connection of a user to leave announces the user offline:
\* no expiry, failure or order of the others makes it believe it is not last.
LastLeaverAnnounces ==
    [][\A s \in Sockets :
          (pc[s] = "decr" /\ pc'[s] # "killed" /\ CountedOf(UserOf[s])' = {})
              => pc'[s] \in {"decr", "delete", "farewell"}]_vars

\* The same without Redis: the last registered socket to leave announces it.
LastLocalLeaverAnnounces ==
    [][\A s \in Sockets :
          (/\ pc[s] = "leaving" /\ pc'[s] \in Left \ {"killed"}
           /\ ~enabled[InstanceOf[s]] /\ Registered(Owner(s))' = {})
              => pc'[s] = "farewell"]_vars

\* A connection whose transport is gone does not stay with the gateway: its
\* handler ends.
HangupEndsHandler ==
    \A s \in Sockets : (pc[s] \in Serving /\ s \notin up) ~> pc[s] \in Ended
=============================================================================
