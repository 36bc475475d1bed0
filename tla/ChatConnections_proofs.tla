----------------------- MODULE ChatConnections_proofs -----------------------
(***************************************************************************)
(* Proofs about ChatConnections, for any number of processes, users and    *)
(* sockets and any bound on the events.                                    *)
(*                                                                         *)
(* The counts are compared with cardinalities, so most steps come down to  *)
(* how a set of sockets grows and shrinks; those facts are the lemmas.     *)
(***************************************************************************)
EXTENDS ChatConnections, FiniteSetTheorems, TLAPS

\* Any set of sockets is finite, and counting it gives a natural number.
LEMMA SocketSets ==
    ASSUME NEW S \in SUBSET Sockets
    PROVE  IsFiniteSet(S) /\ Cardinality(S) \in Nat
<1>1. IsFiniteSet(S)
  BY FiniteAssumption, FS_Subset
<1> QED BY <1>1, FS_CardinalityType

\* A smaller set of sockets counts no more.
LEMMA SocketSubsets ==
    ASSUME NEW S \in SUBSET Sockets, NEW T \in SUBSET S
    PROVE  Cardinality(T) <= Cardinality(S)
BY SocketSets, FS_Subset

\* Removing a subset removes its count.
LEMMA SocketDifference ==
    ASSUME NEW S \in SUBSET Sockets, NEW T \in SUBSET Sockets
    PROVE  Cardinality(S \ T) = Cardinality(S) - Cardinality(S \cap T)
<1>1. IsFiniteSet(S) BY SocketSets
<1> QED BY <1>1, FS_Difference

\* The number of conversations in a process is a natural number.
LEMMA KeysType ==
    ASSUME active \in SUBSET Sockets, NEW i
    PROVE  Keys(i) \in Nat
<1> DEFINE X == {x \in active : InstanceOf[x] = i}
           T == {Conversation(t) : t \in X}
           f == [x \in X |-> Conversation(x)]
<1>1. IsFiniteSet(X)
  BY SocketSets
<1>2. f \in Surjection(X, T)
  BY DEF Surjection
<1>3. IsFiniteSet(T)
  <2> HIDE DEF X, T, f
  <2> QED BY <1>1, <1>2, FS_Surjection
<1> QED
  <2> HIDE DEF X, f
  <2> QED BY <1>3, FS_CardinalityType DEF Keys, T, X

\* What disconnect leaves behind has the right types.
LEMMA DisconnectType ==
    ASSUME TypeOK, NEW dropped \in SUBSET Sockets, Disconnect(dropped)
    PROVE  /\ active' \in SUBSET Sockets
           /\ userCount' \in [Instances \X Users -> Nat]
<1> DEFINE stays(t) == \E x \in active \ dropped :
                           Conversation(x) = Conversation(t)
           least == {t \in dropped : t \in active \/ stays(t)}
           most == {t \in dropped : \E x \in active :
                        Conversation(x) = Conversation(t)}
<1>1. Cardinality(least) \in Nat /\ Cardinality(most) \in Nat
  BY SocketSets
<1>2. PICK calls \in Cardinality(least)..Cardinality(most) :
          userCount' = [p \in DOMAIN userCount |->
              IF \E t \in dropped : Owner(t) = p
              THEN AtLeastZero(userCount[p] - calls) ELSE userCount[p]]
  BY DEF Disconnect
<1>3. calls \in Int
  <2> HIDE DEF least, most
  <2> QED BY <1>1
<1>4. \A p \in Instances \X Users :
          AtLeastZero(userCount[p] - calls) \in Nat
  BY <1>3 DEF TypeOK, AtLeastZero
<1>5. active' \in SUBSET Sockets
  BY DEF Disconnect, TypeOK
<1> QED BY <1>2, <1>4, <1>5 DEF TypeOK

-----------------------------------------------------------------------------
(* Type correctness.                                                        *)

\* The loop record of a socket that sends: what Send does to it.
LEMMA SendType ==
    ASSUME TypeOK, NEW s \in Sockets, NEW t \in Sockets,
           NEW c \in [keys : Nat, seen : SUBSET Users,
                      peer : Users \cup {NoPeer}, size : Nat,
                      sent : SUBSET Sockets, failed : SUBSET Sockets],
           Send(s, t, c)
    PROVE  cast' \in [Sockets -> [keys : Nat, seen : SUBSET Users,
                          peer : Users \cup {NoPeer}, size : Nat,
                          sent : SUBSET Sockets, failed : SUBSET Sockets]]
<1> DEFINE Loops == [keys : Nat, seen : SUBSET Users,
                     peer : Users \cup {NoPeer}, size : Nat,
                     sent : SUBSET Sockets, failed : SUBSET Sockets]
           delivered == [c EXCEPT !.sent = @ \cup {t}]
           refused == [c EXCEPT !.sent = @ \cup {t}, !.failed = @ \cup {t}]
<1>1. delivered \in Loops
  OBVIOUS
<1>2. refused \in Loops
  OBVIOUS
<1>3. \/ cast' = [cast EXCEPT ![s] = delivered]
      \/ cast' = [cast EXCEPT ![s] = refused]
  BY DEF Send
<1>4. cast \in [Sockets -> Loops]
  BY DEF TypeOK
<1> QED
  <2> HIDE DEF Loops, delivered, refused
  <2>1. cast' \in [Sockets -> Loops]
    BY <1>1, <1>2, <1>3, <1>4
  <2> QED BY <2>1 DEF Loops

\* Entering a loop or leaving one keeps both functions well typed.
LEMMA EnterType ==
    ASSUME TypeOK, NEW s \in Sockets, NEW where \in Location, Enter(s, where)
    PROVE  /\ pc' \in [Sockets -> Location]
           /\ cast' \in [Sockets -> [keys : Nat, seen : SUBSET Users,
                          peer : Users \cup {NoPeer}, size : Nat,
                          sent : SUBSET Sockets, failed : SUBSET Sockets]]
BY DEF Enter, Goto, TypeOK, NewCast

\* So is where a handler goes that disconnected sockets.
LEMMA EnterDroppingType ==
    ASSUME TypeOK, NEW s \in Sockets, NEW where \in Location,
           EnterDropping(s, where)
    PROVE  /\ pc' \in [Sockets -> Location]
           /\ cast' \in [Sockets -> [keys : Nat, seen : SUBSET Users,
                          peer : Users \cup {NoPeer}, size : Nat,
                          sent : SUBSET Sockets, failed : SUBSET Sockets]]
<1>1. pc' \in [Sockets -> Location]
  BY DEF EnterDropping, Goto, TypeOK
<1> DEFINE Loop == [keys : Nat, seen : SUBSET Users,
                   peer : Users \cup {NoPeer}, size : Nat,
                   sent : SUBSET Sockets, failed : SUBSET Sockets]
<1>2. cast \in [Sockets -> Loop]
  BY DEF TypeOK
<1>3. NewCast \in Loop
  BY DEF NewCast
<1>4. ASSUME NEW r \in Loop PROVE [r EXCEPT !.size = 0] \in Loop
  OBVIOUS
<1> HIDE DEF Loop
<1>5. ASSUME NEW t \in Sockets
      PROVE  cast[t] \in Loop /\ [cast[t] EXCEPT !.size = 0] \in Loop
  <2>1. cast[t] \in Loop
    BY <1>2
  <2> QED BY <2>1, <1>4
<1>6. cast' \in [Sockets -> Loop]
  BY <1>3, <1>5 DEF EnterDropping
<1> QED BY <1>1, <1>6 DEF Loop

\* The counter of one user changes, and its TTL does not.
LEMMA CounterType ==
    ASSUME TypeOK, NEW u \in Users, NEW n \in Int,
           presence' = [presence EXCEPT ![u].n = n]
    PROVE  /\ presence' \in [Users -> [n : Int, ttl : BOOLEAN]]
           /\ presence'[u].n = n
           /\ \A v \in Users \ {u} : presence'[v] = presence[v]
<1> DEFINE r == [presence[u] EXCEPT !.n = n]
<1>1. presence \in [Users -> [n : Int, ttl : BOOLEAN]]
  BY DEF TypeOK
<1>2. r \in [n : Int, ttl : BOOLEAN] /\ r.n = n
  BY <1>1
<1>3. presence' = [presence EXCEPT ![u] = r]
  OBVIOUS
<1> QED
  <2> HIDE DEF r
  <2> QED BY <1>1, <1>2, <1>3

\* The steps of a handler keep the types.
LEMMA HandleType ==
    ASSUME TypeOK, NEW s \in Sockets, Handle(s)
    PROVE  TypeOK'
<1> USE SocketAssumption
<1> DEFINE Loops == [keys : Nat, seen : SUBSET Users,
                     peer : Users \cup {NoPeer}, size : Nat,
                     sent : SUBSET Sockets, failed : SUBSET Sockets]
<1>0. Joined(s) \in Location /\ Owner(s) \in Instances \X Users
  BY DEF Joined, Location, Serving, Owner
<1>1. CASE Incr(s)
  <2>0. presence[UserOf[s]].n + 1 \in Int
    BY DEF TypeOK
  <2>1. presence' \in [Users -> [n : Int, ttl : BOOLEAN]]
    BY <1>1, <2>0, CounterType DEF Incr
  <2>2. pc' \in [Sockets -> Location]
    BY <1>1 DEF Incr, Goto, TypeOK, Location, Serving
  <2> QED BY <1>1, <2>1, <2>2 DEF Incr, TypeOK
<1>2. CASE SetTtl(s)
  <2>1. pc' \in [Sockets -> Location] /\ cast' \in [Sockets -> Loops]
    BY <1>0, <1>2, EnterType DEF SetTtl, Location, Serving, Casting
  <2> QED BY <1>2, <2>1 DEF SetTtl, TypeOK
<1>3. CASE JoinFails(s)
  <2>1. pc' \in [Sockets -> Location] /\ cast' \in [Sockets -> Loops]
    BY <1>0, <1>3, EnterType DEF JoinFails
  <2> QED BY <1>3, <2>1 DEF JoinFails, Event, TypeOK
<1>4. CASE SyncReply(s)
  BY <1>4 DEF SyncReply, Goto, TypeOK, Location, Serving, Ended
<1>5. CASE ReceiveDisconnect(s)
  BY <1>5 DEF ReceiveDisconnect, Goto, TypeOK, Location, Serving
<1>6. CASE SendInner(s)
  <2>1. PICK t \in InnerNext(s) : Send(s, t, cast[s])
    BY <1>6 DEF SendInner
  <2>2. t \in Sockets /\ cast[s] \in Loops
    BY <2>1 DEF InnerNext, Under, TypeOK
  <2>3. cast' \in [Sockets -> Loops]
    BY <2>1, <2>2, SendType
  <2> QED BY <1>6, <2>3 DEF SendInner, TypeOK
<1>7. CASE SendOuter(s)
  <2>1. PICK p \in OuterNext(s) : \E t \in Under(s, p) \ Excluded(s) :
            Send(s, t, [keys |-> Keys(InstanceOf[s]),
                        seen |-> cast[s].seen \cup {p}, peer |-> p,
                        size |-> Cardinality(Under(s, p)),
                        sent |-> cast[s].sent, failed |-> cast[s].failed])
    BY <1>7 DEF SendOuter
  <2> DEFINE c == [keys |-> Keys(InstanceOf[s]),
                   seen |-> cast[s].seen \cup {p}, peer |-> p,
                   size |-> Cardinality(Under(s, p)),
                   sent |-> cast[s].sent, failed |-> cast[s].failed]
  <2>2. PICK t \in Under(s, p) \ Excluded(s) : Send(s, t, c)
    BY <2>1
  <2>3. t \in Sockets /\ p \in Users
    BY <2>1, <2>2 DEF Under, OuterNext, TypeOK
  <2>4. Keys(InstanceOf[s]) \in Nat
    BY KeysType DEF TypeOK
  <2>5. Cardinality(Under(s, p)) \in Nat
    BY SocketSets DEF Under, TypeOK
  <2>6. c \in Loops
    <3>1. cast[s] \in Loops
      BY DEF TypeOK
    <3> QED BY <2>3, <2>4, <2>5, <3>1
  <2>7. cast' \in [Sockets -> Loops]
    <3> HIDE DEF c
    <3> QED BY <2>2, <2>3, <2>6, SendType
  <2> QED BY <1>7, <2>7 DEF SendOuter, TypeOK
<1>8. CASE SendRaises(s)
  <2>1. PICK where \in {"crashed", "closed", "leaving"} : Enter(s, where)
    BY <1>8 DEF SendRaises
  <2>2. pc' \in [Sockets -> Location] /\ cast' \in [Sockets -> Loops]
    BY <2>1, EnterType DEF Location, Serving, Ended
  <2> QED BY <1>8, <2>2 DEF SendRaises, TypeOK
<1>9. CASE SendEnds(s)
  <2>1. PICK where \in {Joined(s), "open", "push", "closed"} : EnterDropping(s, where)
    BY <1>9 DEF SendEnds
  <2>2. pc' \in [Sockets -> Location] /\ cast' \in [Sockets -> Loops]
    BY <1>0, <2>1, EnterDroppingType DEF Location, Serving, Ended, Casting
  <2>3. cast[s].failed \in SUBSET Sockets
    BY DEF TypeOK
  <2>4. /\ active' \in SUBSET Sockets
        /\ userCount' \in [Instances \X Users -> Nat]
    BY <1>9, <2>3, DisconnectType DEF SendEnds
  <2> QED BY <1>9, <2>2, <2>3, <2>4 DEF SendEnds, TypeOK
<1>10. CASE Leave(s)
  <2>1. PICK where \in {"decr", "farewell", "closed"} : EnterDropping(s, where)
    BY <1>10 DEF Leave
  <2>2. pc' \in [Sockets -> Location] /\ cast' \in [Sockets -> Loops]
    BY <2>1, EnterDroppingType DEF Location, Serving, Ended, Casting
  <2>3. /\ active' \in SUBSET Sockets
        /\ userCount' \in [Instances \X Users -> Nat]
    BY <1>10, DisconnectType DEF Leave
  <2> QED BY <1>10, <2>2, <2>3 DEF Leave, TypeOK
<1>11. CASE Decr(s)
  <2>0. presence[UserOf[s]].n - 1 \in Int
    BY DEF TypeOK
  <2>1. presence' \in [Users -> [n : Int, ttl : BOOLEAN]]
    BY <1>11, <2>0, CounterType DEF Decr
  <2>2. pc' \in [Sockets -> Location]
    BY <1>11 DEF Decr, Goto, TypeOK, Location, Serving
  <2> QED BY <1>11, <2>1, <2>2 DEF Decr, TypeOK
<1>12. CASE DeleteKey(s)
  <2>1. pc' \in [Sockets -> Location] /\ cast' \in [Sockets -> Loops]
    BY <1>12, EnterType DEF DeleteKey, Location, Serving, Casting
  <2> QED BY <1>12, <2>1 DEF DeleteKey, TypeOK, Absent
<1>13. CASE Touch(s)
  BY <1>13 DEF Touch, Goto, TypeOK, Location, Ended
<1>14. CASE LeaveFails(s)
  <2>1. pc' \in [Sockets -> Location] /\ cast' \in [Sockets -> Loops]
    BY <1>14, EnterType DEF LeaveFails, Location, Serving, Casting
  <2> QED BY <1>14, <2>1 DEF LeaveFails, Event, TypeOK
<1> QED
  BY <1>1, <1>2, <1>3, <1>4, <1>5, <1>6, <1>7, <1>8, <1>9, <1>10, <1>11, <1>12,
     <1>13, <1>14 DEF Handle

\* The steps of clients, of Redis and of a stopped process keep the types.
LEMMA OtherType ==
    ASSUME TypeOK,
           \/ \E s \in Sockets : Client(s)
           \/ \E u \in Users : Expire(u)
           \/ \E i \in Instances : Kill(i)
    PROVE  TypeOK'
<1> USE SocketAssumption
<1> DEFINE Loops == [keys : Nat, seen : SUBSET Users,
                     peer : Users \cup {NoPeer}, size : Nat,
                     sent : SUBSET Sockets, failed : SUBSET Sockets]
<1>1. ASSUME NEW s \in Sockets, Client(s)
      PROVE  TypeOK'
  <2>1. CASE Connect(s)
    <3>1. PICK where \in {"incr", "announce", "sync", "open"} : Enter(s, where)
      BY <2>1 DEF Connect, Joined
    <3>2. pc' \in [Sockets -> Location] /\ cast' \in [Sockets -> Loops]
      BY <3>1, EnterType DEF Location, Serving, Casting
    <3>3. userCount' \in [Instances \X Users -> Nat]
      BY <2>1 DEF Connect, Owner, TypeOK
    <3> QED BY <2>1, <3>2, <3>3 DEF Connect, TypeOK
  <2>2. CASE Relay(s) \/ Message(s)
    <3>1. PICK where \in {"relay", "echo"} : Enter(s, where)
      BY <2>2 DEF Relay, Message
    <3>2. pc' \in [Sockets -> Location] /\ cast' \in [Sockets -> Loops]
      BY <3>1, EnterType DEF Location, Serving, Casting
    <3> QED BY <2>2, <3>2 DEF Relay, Message, Event, TypeOK
  <2>3. CASE Fault(s)
    BY <2>3 DEF Fault, Goto, Event, TypeOK, Location, Serving
  <2>4. CASE Hangup(s)
    BY <2>4 DEF Hangup, TypeOK
  <2> QED BY <1>1, <2>1, <2>2, <2>3, <2>4 DEF Client
<1>2. ASSUME NEW u \in Users, Expire(u)
      PROVE  TypeOK'
  BY <1>2 DEF Expire, Event, TypeOK, Absent
<1>3. ASSUME NEW i \in Instances, Kill(i)
      PROVE  TypeOK'
  <2>1. pc' \in [Sockets -> Location]
    BY <1>3 DEF Kill, TypeOK, Location, Ended
  <2>2. cast' \in [Sockets -> Loops]
    BY <1>3 DEF Kill, TypeOK, NewCast
  <2>3. userCount' \in [Instances \X Users -> Nat]
    BY <1>3 DEF Kill, TypeOK
  <2> QED BY <1>3, <2>1, <2>2, <2>3 DEF Kill, Event, TypeOK
<1> QED BY <1>1, <1>2, <1>3

\* Every step keeps the types, a stuttering one too.
LEMMA StepType == TypeOK /\ [Next]_vars => TypeOK'
<1>1. TypeOK /\ Next => TypeOK'
  BY HandleType, OtherType DEF Next
<1>2. TypeOK /\ UNCHANGED vars => TypeOK'
  BY DEF TypeOK, vars
<1> QED BY <1>1, <1>2

\* Every variable of the gateway always has the type it is declared with; in
\* particular the local count of a user's connections never goes below zero.
THEOREM TypeCorrect == Spec => []TypeOK
<1>1. Init => TypeOK
  BY SocketAssumption DEF Init, TypeOK, Location, Absent, NewCast
<1> QED BY <1>1, StepType, PTL DEF Spec

-----------------------------------------------------------------------------
(* The counter in Redis.                                                    *)

\* What makes PresenceNeverOver inductive: a socket is counted only by its
\* own INCR, which comes once.
PresenceInv ==
    /\ TypeOK
    /\ PresenceNeverOver
    /\ \A s \in Sockets : pc[s] \in {"new", "incr"} => s \notin counted

\* Counting one socket more, or one less, moves the bound by at most one.
LEMMA CountedChanges ==
    ASSUME TypeOK, NEW s \in Sockets, NEW u \in Users
    PROVE  /\ IsFiniteSet(CountedOf(u))
           /\ Cardinality(CountedOf(u)) \in Nat
           /\ counted' = counted \cup {s} /\ UserOf[s] = u /\ s \notin counted
                => Cardinality(CountedOf(u))' = Cardinality(CountedOf(u)) + 1
           /\ counted' = counted \ {s} /\ UserOf[s] = u
                => Cardinality(CountedOf(u))' >= Cardinality(CountedOf(u)) - 1
           /\ (counted' = counted \cup {s} \/ counted' = counted \ {s})
              /\ UserOf[s] # u
                => Cardinality(CountedOf(u))' = Cardinality(CountedOf(u))
<1>1. IsFiniteSet(CountedOf(u)) /\ Cardinality(CountedOf(u)) \in Nat
  BY SocketSets DEF CountedOf, TypeOK
<1>2. ASSUME counted' = counted \cup {s}, UserOf[s] = u, s \notin counted
      PROVE  Cardinality(CountedOf(u))' = Cardinality(CountedOf(u)) + 1
  <2>1. CountedOf(u)' = CountedOf(u) \cup {s} /\ s \notin CountedOf(u)
    BY <1>2 DEF CountedOf
  <2> QED BY <1>1, <2>1, FS_AddElement
<1>3. ASSUME counted' = counted \ {s}, UserOf[s] = u
      PROVE  Cardinality(CountedOf(u))' >= Cardinality(CountedOf(u)) - 1
  <2>1. CountedOf(u)' = CountedOf(u) \ {s}
    BY <1>3 DEF CountedOf
  <2> QED BY <1>1, <2>1, FS_RemoveElement
<1>4. ASSUME counted' = counted \cup {s} \/ counted' = counted \ {s},
             UserOf[s] # u
      PROVE  Cardinality(CountedOf(u))' = Cardinality(CountedOf(u))
  <2>1. CountedOf(u)' = CountedOf(u)
    BY <1>4 DEF CountedOf
  <2> QED BY <2>1
<1> QED BY <1>1, <1>2, <1>3, <1>4

\* A step that touches neither the counter nor who was counted.
LEMMA PresenceUntouched ==
    ASSUME PresenceInv, TypeOK', UNCHANGED <<presence, counted>>,
           \A s \in Sockets : pc'[s] \in {"new", "incr"}
                                 => pc[s] \in {"new", "incr"} \/ s \notin counted
    PROVE  PresenceInv'
<1>1. \A u \in Users : CountedOf(u)' = CountedOf(u)
  BY DEF CountedOf
<1>2. PresenceNeverOver'
  BY <1>1 DEF PresenceInv, PresenceNeverOver
<1>3. \A s \in Sockets : pc'[s] \in {"new", "incr"} => s \notin counted'
  BY DEF PresenceInv
<1> QED BY <1>2, <1>3 DEF PresenceInv

\* The key of one user is deleted or its TTL changes, its value at most
\* dropping to zero.
LEMMA PresenceLowered ==
    ASSUME PresenceInv, TypeOK', NEW u \in Users, UNCHANGED counted,
           presence'[u].n = presence[u].n \/ presence'[u].n = 0,
           \A v \in Users \ {u} : presence'[v] = presence[v],
           \A s \in Sockets : pc'[s] \in {"new", "incr"}
                                 => pc[s] \in {"new", "incr"}
    PROVE  PresenceInv'
<1>1. \A v \in Users : /\ CountedOf(v)' = CountedOf(v)
                       /\ Cardinality(CountedOf(v)) \in Nat
  BY SocketSets DEF CountedOf, PresenceInv, TypeOK
<1>2. PresenceNeverOver'
  <2>1. \A v \in Users : presence'[v].n <= Cardinality(CountedOf(v))
    BY <1>1 DEF PresenceInv, PresenceNeverOver, TypeOK
  <2> QED BY <1>1, <2>1 DEF PresenceNeverOver
<1>3. \A s \in Sockets : pc'[s] \in {"new", "incr"} => s \notin counted'
  BY DEF PresenceInv
<1> QED BY <1>2, <1>3 DEF PresenceInv

LEMMA PresenceHandle ==
    ASSUME PresenceInv, TypeOK', NEW s \in Sockets, Handle(s)
    PROVE  PresenceInv'
<1> USE SocketAssumption
<1>0. TypeOK /\ UserOf[s] \in Users /\ pc \in [Sockets -> Location]
  BY DEF PresenceInv, TypeOK
<1>1. CASE Incr(s)
  <2> DEFINE u == UserOf[s]
  <2>1. /\ counted' = counted \cup {s} /\ s \notin counted
        /\ presence' = [presence EXCEPT ![u].n = presence[u].n + 1]
    BY <1>1 DEF Incr, PresenceInv
  <2>2. presence[u].n \in Int
    BY <1>0 DEF TypeOK
  <2>3. presence[u].n + 1 \in Int
    BY <2>2
  <2>4. /\ presence'[u].n = presence[u].n + 1
        /\ \A v \in Users \ {u} : presence'[v] = presence[v]
    BY <1>0, <2>1, <2>3, CounterType
  <2>5. presence'[u].n <= Cardinality(CountedOf(u))'
    <3>1. /\ Cardinality(CountedOf(u)) \in Nat
          /\ Cardinality(CountedOf(u))' = Cardinality(CountedOf(u)) + 1
      BY <1>0, <2>1, CountedChanges
    <3>2. presence[u].n <= Cardinality(CountedOf(u))
      BY <1>0 DEF PresenceInv, PresenceNeverOver
    <3> QED BY <2>2, <2>4, <3>1, <3>2
  <2>6. \A v \in Users \ {u} : presence'[v].n <= Cardinality(CountedOf(v))'
    <3> TAKE v \in Users \ {u}
    <3>1. Cardinality(CountedOf(v))' = Cardinality(CountedOf(v))
      BY <1>0, <2>1, CountedChanges
    <3> QED BY <2>4, <3>1 DEF PresenceInv, PresenceNeverOver
  <2>7. PresenceNeverOver'
    BY <2>5, <2>6 DEF PresenceNeverOver
  <2>8. \A t \in Sockets : pc'[t] \in {"new", "incr"} => t \notin counted'
    BY <1>0, <1>1, <2>1 DEF Incr, Goto, PresenceInv
  <2> QED BY <2>7, <2>8 DEF PresenceInv
<1>2. CASE SetTtl(s) \/ Touch(s)
  <2>1. /\ UNCHANGED counted
        /\ presence' = [presence EXCEPT ![UserOf[s]].ttl =
                            presence[UserOf[s]] # Absent]
        /\ \E where \in Location \ {"new", "incr"} :
               pc' = [pc EXCEPT ![s] = where]
    BY <1>2 DEF SetTtl, Touch, Enter, Goto, Joined, Location, Serving, Casting,
                Ended
  <2>2. /\ presence'[UserOf[s]].n = presence[UserOf[s]].n
        /\ \A v \in Users \ {UserOf[s]} : presence'[v] = presence[v]
    BY <1>0, <2>1 DEF TypeOK
  <2>3. \A t \in Sockets : pc'[t] \in {"new", "incr"} => pc[t] \in {"new", "incr"}
    BY <1>0, <2>1
  <2> QED BY <1>0, <2>1, <2>2, <2>3, PresenceLowered
<1>3. CASE DeleteKey(s)
  <2>1. /\ presence'[UserOf[s]].n = 0
        /\ \A v \in Users \ {UserOf[s]} : presence'[v] = presence[v]
    BY <1>0, <1>3 DEF DeleteKey, Absent, TypeOK
  <2>2. \A t \in Sockets : pc'[t] \in {"new", "incr"} => pc[t] \in {"new", "incr"}
    BY <1>0, <1>3 DEF DeleteKey, Enter, Goto
  <2> QED BY <1>0, <1>3, <2>1, <2>2, PresenceLowered DEF DeleteKey
<1>4. CASE Decr(s)
  <2> DEFINE u == UserOf[s]
  <2>1. /\ counted' = counted \ {s}
        /\ presence' = [presence EXCEPT ![u].n = presence[u].n - 1]
    BY <1>4 DEF Decr
  <2>2. presence[u].n \in Int
    BY <1>0 DEF TypeOK
  <2>3. presence[u].n - 1 \in Int
    BY <2>2
  <2>4. /\ presence'[u].n = presence[u].n - 1
        /\ \A v \in Users \ {u} : presence'[v] = presence[v]
    BY <1>0, <2>1, <2>3, CounterType
  <2>5. presence'[u].n <= Cardinality(CountedOf(u))'
    <3>1. /\ Cardinality(CountedOf(u)) \in Nat
          /\ Cardinality(CountedOf(u))' >= Cardinality(CountedOf(u)) - 1
      BY <1>0, <2>1, CountedChanges
    <3>2. presence[u].n <= Cardinality(CountedOf(u))
      BY <1>0 DEF PresenceInv, PresenceNeverOver
    <3>3. Cardinality(CountedOf(u))' \in Nat
      BY SocketSets DEF CountedOf, TypeOK
    <3> QED BY <2>2, <2>4, <3>1, <3>2, <3>3
  <2>6. \A v \in Users \ {u} : presence'[v].n <= Cardinality(CountedOf(v))'
    <3> TAKE v \in Users \ {u}
    <3>1. Cardinality(CountedOf(v))' = Cardinality(CountedOf(v))
      BY <1>0, <2>1, CountedChanges
    <3> QED BY <2>4, <3>1 DEF PresenceInv, PresenceNeverOver
  <2>7. PresenceNeverOver'
    BY <2>5, <2>6 DEF PresenceNeverOver
  <2>8. \A t \in Sockets : pc'[t] \in {"new", "incr"} => t \notin counted'
    BY <1>0, <1>4, <2>1 DEF Decr, Goto, PresenceInv
  <2> QED BY <2>7, <2>8 DEF PresenceInv
<1>5. CASE SendInner(s) \/ SendOuter(s)
  BY <1>5, PresenceUntouched DEF SendInner, SendOuter
<1>6. CASE \/ JoinFails(s) \/ SyncReply(s) \/ ReceiveDisconnect(s)
           \/ SendRaises(s) \/ SendEnds(s) \/ Leave(s) \/ LeaveFails(s)
  <2>1. UNCHANGED <<presence, counted>>
    BY <1>6 DEF JoinFails, SyncReply, ReceiveDisconnect, SendRaises, SendEnds,
                Leave, LeaveFails
  <2>2. \E where \in Location \ {"new", "incr"} : pc' = [pc EXCEPT ![s] = where]
    BY <1>6 DEF JoinFails, SyncReply, ReceiveDisconnect, SendRaises, SendEnds,
                Leave, LeaveFails, Enter, EnterDropping, Goto, Joined, Location, Serving,
                Casting, Ended
  <2> QED BY <1>0, <2>1, <2>2, PresenceUntouched
<1> QED BY <1>1, <1>2, <1>3, <1>4, <1>5, <1>6 DEF Handle

LEMMA PresenceOther ==
    ASSUME PresenceInv, TypeOK',
           \/ \E s \in Sockets : Client(s)
           \/ \E u \in Users : Expire(u)
           \/ \E i \in Instances : Kill(i)
    PROVE  PresenceInv'
<1>0. TypeOK
  BY DEF PresenceInv
<1>1. ASSUME NEW s \in Sockets, Client(s)
      PROVE  PresenceInv'
  <2>1. UNCHANGED <<presence, counted>>
    BY <1>1 DEF Client, Connect, Relay, Message, Fault, Hangup
  <2>2. \A t \in Sockets : pc'[t] \in {"new", "incr"} => pc[t] \in {"new", "incr"}
    BY <1>0, <1>1 DEF Client, Connect, Relay, Message, Fault, Hangup, Enter,
                      Goto, TypeOK
  <2> QED BY <2>1, <2>2, PresenceUntouched
<1>2. ASSUME NEW u \in Users, Expire(u)
      PROVE  PresenceInv'
  <2>1. /\ presence'[u].n = 0 /\ UNCHANGED <<pc, counted>>
        /\ \A v \in Users \ {u} : presence'[v] = presence[v]
    BY <1>0, <1>2 DEF Expire, Absent, TypeOK
  <2> QED BY <2>1, PresenceLowered
<1>3. ASSUME NEW i \in Instances, Kill(i)
      PROVE  PresenceInv'
  <2>1. UNCHANGED <<presence, counted>>
    BY <1>3 DEF Kill
  <2>2. \A t \in Sockets : pc'[t] \in {"new", "incr"} => pc[t] \in {"new", "incr"}
    BY <1>0, <1>3 DEF Kill, TypeOK
  <2> QED BY <2>1, <2>2, PresenceUntouched
<1> QED BY <1>1, <1>2, <1>3

LEMMA PresenceStep == PresenceInv /\ [Next]_vars => PresenceInv'
<1>1. PresenceInv /\ Next => PresenceInv'
  <2> SUFFICES ASSUME PresenceInv, Next PROVE PresenceInv'
    OBVIOUS
  <2>1. TypeOK'
    BY StepType DEF PresenceInv
  <2> QED BY <2>1, PresenceHandle, PresenceOther DEF Next
<1>2. PresenceInv /\ UNCHANGED vars => PresenceInv'
  <2> SUFFICES ASSUME PresenceInv, UNCHANGED vars PROVE PresenceInv'
    OBVIOUS
  <2>1. TypeOK' /\ UNCHANGED <<pc, presence, counted>>
    BY StepType DEF PresenceInv, vars
  <2> QED BY <2>1, PresenceUntouched
<1> QED BY <1>1, <1>2

LEMMA PresenceInit == Init => PresenceInv
<1> SUFFICES ASSUME Init PROVE PresenceInv
  OBVIOUS
<1>1. TypeOK
  BY SocketAssumption DEF Init, TypeOK, Location, Absent, NewCast
<1>2. PresenceNeverOver
  <2> SUFFICES ASSUME NEW u \in Users
               PROVE  presence[u].n <= Cardinality(CountedOf(u))
    BY DEF PresenceNeverOver
  <2>1. presence[u].n = 0
    BY DEF Init, Absent
  <2>2. Cardinality(CountedOf(u)) \in Nat
    BY <1>1, SocketSets DEF CountedOf, TypeOK
  <2> QED BY <2>1, <2>2
<1> QED BY <1>1, <1>2 DEF PresenceInv, Init

LEMMA PresenceInvariant == Spec => []PresenceInv
BY PresenceInit, PresenceStep, PTL DEF Spec

\* The counter in Redis never exceeds the connections that were counted and
\* not discounted yet, for any number of processes, failures, expiries and
\* stopped processes: the presence of redis_broker.py errs on one side only.
THEOREM PresenceBounded == Spec => []PresenceNeverOver
<1>1. PresenceInv => PresenceNeverOver
  BY DEF PresenceInv
<1> QED BY <1>1, PresenceInvariant, PTL

\* The place of a handler changes only by its own steps, or with its process.
LEMMA OwnSteps ==
    ASSUME TypeOK, [Next]_vars, NEW s \in Sockets
    PROVE  \/ pc'[s] = pc[s]
           \/ Handle(s) \/ Client(s)
           \/ pc'[s] = "killed"
<1>0. pc \in [Sockets -> Location]
  BY DEF TypeOK
<1>1. ASSUME NEW t \in Sockets, Handle(t) \/ Client(t), t # s
      PROVE  pc'[s] = pc[s]
  <2>1. CASE Handle(t)
    BY <1>0, <1>1, <2>1 DEF Handle, Incr, SetTtl, JoinFails, SyncReply,
        ReceiveDisconnect, SendInner, SendOuter, SendRaises, SendEnds, Leave,
        Decr, DeleteKey, Touch, LeaveFails, Enter, EnterDropping, Goto
  <2>2. CASE Client(t)
    BY <1>0, <1>1, <2>2 DEF Client, Connect, Relay, Message, Fault, Hangup,
        Enter, EnterDropping, Goto
  <2> QED BY <1>1, <2>1, <2>2
<1>2. ASSUME NEW u \in Users, Expire(u)
      PROVE  pc'[s] = pc[s]
  BY <1>2 DEF Expire
<1>3. ASSUME NEW i \in Instances, Kill(i)
      PROVE  pc'[s] = pc[s] \/ pc'[s] = "killed"
  BY <1>0, <1>3 DEF Kill
<1>4. CASE UNCHANGED vars
  BY <1>4 DEF vars
<1> QED BY <1>1, <1>2, <1>3, <1>4 DEF Next

\* The last counted connection of a user to leave announces the user offline:
\* decrement_presence tells it that none is left, or fails.
THEOREM LastLeaver == Spec => LastLeaverAnnounces
<1> USE SocketAssumption
<1> DEFINE Announces ==
        \A s \in Sockets :
            (pc[s] = "decr" /\ pc'[s] # "killed" /\ CountedOf(UserOf[s])' = {})
                => pc'[s] \in {"decr", "delete", "farewell"}
<1>1. ASSUME PresenceInv, PresenceInv', [Next]_vars
      PROVE  Announces
  <2> SUFFICES ASSUME NEW s \in Sockets, pc[s] = "decr", pc'[s] # "killed",
                      CountedOf(UserOf[s])' = {}
               PROVE  pc'[s] \in {"decr", "delete", "farewell"}
    OBVIOUS
  <2>0. pc \in [Sockets -> Location] /\ UserOf[s] \in Users
    BY <1>1 DEF PresenceInv, TypeOK
  <2>1. CASE Decr(s)
    <3>1. presence'[UserOf[s]].n <= 0
      <4>1. presence'[UserOf[s]].n <= Cardinality(CountedOf(UserOf[s])')
        BY <1>1, <2>0 DEF PresenceInv, PresenceNeverOver
      <4>2. Cardinality(CountedOf(UserOf[s])') = 0
        BY FS_EmptySet
      <4> QED BY <4>1, <4>2
    <3> QED BY <2>0, <2>1, <3>1 DEF Decr, Goto
  <2>2. CASE LeaveFails(s)
    BY <2>0, <2>2 DEF LeaveFails, Enter, Goto
  <2>3. ASSUME Handle(s), ~Decr(s), ~LeaveFails(s)
        PROVE  pc'[s] = pc[s]
    BY <2>3 DEF Handle, Incr, SetTtl, JoinFails, SyncReply, ReceiveDisconnect,
        SendInner, SendOuter, SendRaises, SendEnds, Leave, DeleteKey, Touch,
        Casting
  <2>4. ASSUME Client(s)
        PROVE  pc'[s] = pc[s]
    BY <2>4 DEF Client, Connect, Relay, Message, Fault, Hangup
  <2> QED BY <1>1, <2>1, <2>2, <2>3, <2>4, OwnSteps DEF PresenceInv
<1>2. PresenceInv /\ PresenceInv' /\ [Next]_vars => [Announces]_vars
  BY <1>1
<1> QED BY <1>2, PresenceInvariant, PTL DEF Spec, LastLeaverAnnounces

-----------------------------------------------------------------------------
(* The connection managers.                                                 *)

\* The handlers that have not come to their except clause, or just have.
Before == Serving \ Left

\* What makes the properties of the local count inductive: a socket that is
\* served stays registered until its handler or a send loop disconnects it.
CountInv ==
    /\ TypeOK
    /\ CountNeverOver
    /\ CountExactWithoutReaping
    /\ CleanExitUnregisters
    /\ \A s \in Sockets : pc[s] = "new" => s \notin active
    /\ \A s \in Sockets : pc[s] \in Before => s \in active \cup reaped

\* The sockets a user has in a process: finite, and counted by a number.
LEMMA RegisteredSets ==
    ASSUME active \in SUBSET Sockets, NEW p
    PROVE  /\ Registered(p) \in SUBSET Sockets
           /\ IsFiniteSet(Registered(p))
           /\ Cardinality(Registered(p)) \in Nat
BY SocketSets DEF Registered

\* disconnect keeps the count of a user at or below the user's sockets: it
\* decrements at least once for every socket it removes.
LEMMA DisconnectNeverOver ==
    ASSUME TypeOK, TypeOK', CountNeverOver,
           NEW dropped \in SUBSET Sockets, Disconnect(dropped)
    PROVE  CountNeverOver'
<1> DEFINE stays(t) == \E x \in active \ dropped :
                           Conversation(x) = Conversation(t)
           least == {t \in dropped : t \in active \/ stays(t)}
           most == {t \in dropped : \E x \in active :
                        Conversation(x) = Conversation(t)}
<1>1. PICK calls \in Cardinality(least)..Cardinality(most) :
          userCount' = [p \in DOMAIN userCount |->
              IF \E t \in dropped : Owner(t) = p
              THEN AtLeastZero(userCount[p] - calls) ELSE userCount[p]]
  BY DEF Disconnect
<1>2. Cardinality(least) \in Nat /\ Cardinality(most) \in Nat
  BY SocketSets
<1>3. calls \in Int /\ calls >= Cardinality(least)
  <2> HIDE DEF least, most
  <2> QED BY <1>2
<1>4. SUFFICES ASSUME NEW p \in Instances \X Users
               PROVE  userCount'[p] <= Cardinality(Registered(p))'
  BY DEF CountNeverOver
<1>5. /\ userCount[p] \in Nat /\ userCount[p] <= Cardinality(Registered(p))
      /\ Cardinality(Registered(p)) \in Nat /\ Cardinality(Registered(p))' \in Nat
  <2>1. Registered(p)' \in SUBSET Sockets
    BY DEF Registered, TypeOK
  <2>2. Cardinality(Registered(p)') \in Nat
    BY <2>1, SocketSets
  <2> QED BY <2>2, RegisteredSets DEF TypeOK, CountNeverOver
<1>6. Registered(p)' = Registered(p) \ dropped
  BY DEF Disconnect, Registered
<1>7. CASE \E t \in dropped : Owner(t) = p
  <2>1. Cardinality(Registered(p))'
            = Cardinality(Registered(p)) - Cardinality(Registered(p) \cap dropped)
    BY <1>6, RegisteredSets, SocketDifference DEF TypeOK
  <2>2. /\ Cardinality(Registered(p) \cap dropped) \in Nat
        /\ Cardinality(Registered(p) \cap dropped) <= Cardinality(least)
    <3>1. Registered(p) \cap dropped \in SUBSET least /\ least \in SUBSET Sockets
      BY DEF Registered
    <3> HIDE DEF least
    <3> QED BY <3>1, SocketSubsets, SocketSets
  <2>3. userCount'[p] = AtLeastZero(userCount[p] - calls)
    BY <1>1, <1>7 DEF TypeOK
  <2>4. userCount'[p] = userCount[p] - calls \/ userCount'[p] = 0
    BY <2>3 DEF AtLeastZero
  <2>5. calls >= Cardinality(Registered(p) \cap dropped)
    <3> HIDE DEF least, most
    <3> QED BY <1>2, <1>3, <2>2
  <2> HIDE DEF least, most
  <2> QED BY <1>3, <1>5, <2>1, <2>2, <2>4, <2>5
<1>8. CASE ~ \E t \in dropped : Owner(t) = p
  <2>1. Registered(p)' = Registered(p)
    BY <1>6, <1>8 DEF Registered
  <2>2. userCount'[p] = userCount[p]
    BY <1>1, <1>8 DEF TypeOK
  <2> QED BY <1>5, <2>1, <2>2
<1> QED BY <1>7, <1>8

\* disconnect of one registered socket takes one off the count of its user.
LEMMA DisconnectOne ==
    ASSUME TypeOK, NEW s \in Sockets, s \in active, Disconnect({s}),
           userCount[Owner(s)] = Cardinality(Registered(Owner(s)))
    PROVE  userCount'[Owner(s)] = Cardinality(Registered(Owner(s)))'
<1> DEFINE least == {t \in {s} : t \in active \/
                        \E x \in active \ {s} : Conversation(x) = Conversation(t)}
           most == {t \in {s} : \E x \in active : Conversation(x) = Conversation(t)}
<1>0. Owner(s) \in Instances \X Users
  BY SocketAssumption DEF Owner
<1>1. least = {s} /\ most = {s}
  OBVIOUS
<1>2. Cardinality({s}) = 1
  BY FS_Singleton
<1>3. PICK calls \in Cardinality(least)..Cardinality(most) :
          userCount' = [p \in DOMAIN userCount |->
              IF \E t \in {s} : Owner(t) = p
              THEN AtLeastZero(userCount[p] - calls) ELSE userCount[p]]
  BY DEF Disconnect
<1>4. calls = 1
  <2> HIDE DEF least, most
  <2> QED BY <1>1, <1>2
<1>5. userCount'[Owner(s)] = AtLeastZero(userCount[Owner(s)] - 1)
  BY <1>0, <1>3, <1>4 DEF TypeOK
<1>6. Registered(Owner(s))' = Registered(Owner(s)) \ {s}
  BY DEF Disconnect, Registered
<1>7. s \in Registered(Owner(s)) /\ IsFiniteSet(Registered(Owner(s)))
  BY RegisteredSets DEF Registered, TypeOK
<1>8. /\ Cardinality(Registered(Owner(s)))' = Cardinality(Registered(Owner(s))) - 1
      /\ Cardinality(Registered(Owner(s))) \in Nat
      /\ Cardinality(Registered(Owner(s)))' \in Nat
  <2>1. IsFiniteSet(Registered(Owner(s)) \ {s})
    BY <1>7, FS_RemoveElement
  <2> QED BY <1>6, <1>7, <2>1, FS_RemoveElement, FS_CardinalityType
<1> QED BY <1>5, <1>8 DEF AtLeastZero

\* disconnect does not concern the users it is not called for.
LEMMA DisconnectElsewhere ==
    ASSUME TypeOK, NEW dropped \in SUBSET Sockets, Disconnect(dropped),
           NEW p \in Instances \X Users, \A t \in dropped : Owner(t) # p
    PROVE  userCount'[p] = userCount[p] /\ Registered(p)' = Registered(p)
<1>1. userCount'[p] = userCount[p]
  BY DEF Disconnect, TypeOK
<1>2. Registered(p)' = Registered(p)
  BY DEF Disconnect, Registered
<1> QED BY <1>1, <1>2

\* A handler moves on, and no connection manager changes.
LEMMA CountUntouched ==
    ASSUME CountInv, TypeOK', UNCHANGED <<active, userCount, reaped>>,
           \A t \in Sockets :
               \/ pc'[t] = pc[t]
               \/ pc[t] \in Before /\ pc'[t] \in Before \cup {"crashed"}
               \/ pc[t] \in Left /\ pc'[t] \in Left
    PROVE  CountInv'
<1>1. \A p : Registered(p)' = Registered(p)
  BY DEF Registered
<1>2. CountNeverOver' /\ CountExactWithoutReaping'
  BY <1>1 DEF CountInv, CountNeverOver, CountExactWithoutReaping
<1>3. /\ Left \cap (Before \cup {"crashed", "new"}) = {}
      /\ {"crashed", "new"} \cap Before = {}
  BY DEF Before, Left, Serving, Casting
<1>4. CleanExitUnregisters'
  BY <1>3 DEF CountInv, CleanExitUnregisters
<1>5. /\ \A s \in Sockets : pc'[s] = "new" => s \notin active'
      /\ \A s \in Sockets : pc'[s] \in Before => s \in active' \cup reaped'
  BY <1>3 DEF CountInv
<1> QED BY <1>2, <1>4, <1>5 DEF CountInv

\* The steps of a handler that leave the connection managers alone.
LEMMA CountQuietHandle ==
    ASSUME CountInv, TypeOK', NEW s \in Sockets, Handle(s), ~SendEnds(s), ~Leave(s)
    PROVE  CountInv'
<1>0. pc \in [Sockets -> Location]
  BY DEF CountInv, TypeOK
<1>1. UNCHANGED <<active, userCount, reaped>>
  BY DEF Handle, Incr, SetTtl, JoinFails, SyncReply, ReceiveDisconnect,
         SendInner, SendOuter, SendRaises, Decr, DeleteKey, Touch, LeaveFails
<1>2. /\ \A t \in Sockets \ {s} : pc'[t] = pc[t]
      /\ \/ pc'[s] = pc[s]
         \/ pc[s] \in Before /\ pc'[s] \in Before \cup {"crashed"}
         \/ pc[s] \in Left /\ pc'[s] \in Left
  <2> USE <1>0 DEF Before, Left, Serving, Casting
  <2>1. CASE Incr(s) \/ SetTtl(s) \/ JoinFails(s)
    BY <2>1 DEF Incr, SetTtl, JoinFails, Enter, Goto, Joined
  <2>2. CASE SyncReply(s) \/ ReceiveDisconnect(s)
    BY <2>2 DEF SyncReply, ReceiveDisconnect, Goto
  <2>3. CASE SendInner(s) \/ SendOuter(s)
    BY <2>3 DEF SendInner, SendOuter
  <2>4. CASE SendRaises(s)
    BY <2>4 DEF SendRaises, Enter, Goto
  <2>5. CASE Decr(s) \/ DeleteKey(s) \/ Touch(s) \/ LeaveFails(s)
    BY <2>5 DEF Decr, DeleteKey, Touch, LeaveFails, Enter, Goto
  <2> QED BY <2>1, <2>2, <2>3, <2>4, <2>5 DEF Handle
<1> QED BY <1>1, <1>2, CountUntouched

\* The end of a send loop: the users whose sockets failed are no longer exact.
LEMMA CountSendEnds ==
    ASSUME CountInv, TypeOK', NEW s \in Sockets, SendEnds(s)
    PROVE  CountInv'
<1> DEFINE dropped == cast[s].failed
<1>0. /\ TypeOK /\ dropped \in SUBSET Sockets /\ Disconnect(dropped)
      /\ active' = active \ dropped /\ reaped' = reaped \cup dropped
      /\ pc \in [Sockets -> Location]
  BY DEF SendEnds, CountInv, TypeOK, Disconnect
<1> HIDE DEF dropped
<1>1. CountNeverOver'
  BY <1>0, DisconnectNeverOver DEF CountInv
<1>2. CountExactWithoutReaping'
  <2> SUFFICES ASSUME NEW p \in Instances \X Users,
                      \A t \in reaped' : Owner(t) # p
               PROVE  userCount'[p] = Cardinality(Registered(p)')
    BY DEF CountExactWithoutReaping, Owner
  <2>1. userCount'[p] = userCount[p] /\ Registered(p)' = Registered(p)
    BY <1>0, DisconnectElsewhere
  <2>2. \A t \in reaped : Owner(t) # p
    BY <1>0
  <2> QED BY <2>1, <2>2 DEF CountInv, CountExactWithoutReaping
<1>3. \E where \in {"sync", "open", "push", "closed"} :
          /\ pc' = [pc EXCEPT ![s] = where]
          /\ \/ pc[s] \in Before /\ where \in Before
             \/ pc[s] \in Left /\ where \in Left
  <2>1. {"announce", "relay", "push", "echo", "sync", "open"} \subseteq Before
    BY DEF Before, Left, Serving, Casting
  <2>2. {"farewell", "closed"} \subseteq Left
    BY DEF Left
  <2>3. CASE pc[s] = "farewell"
    <3>1. pc' = [pc EXCEPT ![s] = "closed"]
      BY <2>3 DEF SendEnds, EnterDropping, Goto
    <3> QED BY <2>2, <2>3, <3>1
  <2>4. CASE pc[s] # "farewell"
    <3>1. pc[s] \in {"announce", "relay", "push", "echo"}
      BY <2>4 DEF SendEnds
    <3>2. PICK where \in {"sync", "open", "push"} : pc' = [pc EXCEPT ![s] = where]
      BY <2>4 DEF SendEnds, EnterDropping, Goto, Joined
    <3>3. pc[s] \in Before /\ where \in Before
      BY <2>1, <3>1
    <3> QED BY <3>2, <3>3
  <2> QED BY <2>3, <2>4
<1>4. Left \cap (Before \cup {"new"}) = {} /\ "new" \notin Before
  BY DEF Before, Left, Serving, Casting
<1>5. CleanExitUnregisters'
  BY <1>0, <1>3, <1>4 DEF CountInv, CleanExitUnregisters
<1>6. /\ \A t \in Sockets : pc'[t] = "new" => t \notin active'
      /\ \A t \in Sockets : pc'[t] \in Before => t \in active' \cup reaped'
  BY <1>0, <1>3, <1>4 DEF CountInv
<1> QED BY <1>1, <1>2, <1>5, <1>6 DEF CountInv

\* The except clause: one socket is disconnected, exactly if it was not before.
LEMMA CountLeave ==
    ASSUME CountInv, TypeOK', NEW s \in Sockets, Leave(s)
    PROVE  CountInv'
<1>0. /\ TypeOK /\ {s} \in SUBSET Sockets /\ Disconnect({s})
      /\ active' = active \ {s} /\ reaped' = reaped
      /\ pc \in [Sockets -> Location] /\ pc[s] = "leaving"
  BY DEF Leave, CountInv, TypeOK, Disconnect
<1>1. CountNeverOver'
  BY <1>0, DisconnectNeverOver DEF CountInv
<1>2. CountExactWithoutReaping'
  <2> SUFFICES ASSUME NEW p \in Instances \X Users,
                      \A t \in reaped : Owner(t) # p
               PROVE  userCount'[p] = Cardinality(Registered(p)')
    BY <1>0 DEF CountExactWithoutReaping, Owner
  <2>0. userCount[p] = Cardinality(Registered(p))
    BY DEF CountInv, CountExactWithoutReaping
  <2>1. CASE Owner(s) # p
    <3>1. userCount'[p] = userCount[p] /\ Registered(p)' = Registered(p)
      BY <1>0, <2>1, DisconnectElsewhere
    <3> QED BY <2>0, <3>1
  <2>2. CASE Owner(s) = p
    <3>1. s \in active
      BY <1>0, <2>2 DEF CountInv, Before, Serving, Left, Casting
    <3> QED BY <1>0, <2>0, <2>2, <3>1, DisconnectOne
  <2> QED BY <2>1, <2>2
<1>3. \E where \in {"decr", "farewell", "closed"} : pc' = [pc EXCEPT ![s] = where]
  BY DEF Leave, EnterDropping, Goto
<1>4. /\ Left \cap (Before \cup {"new"}) = {} /\ "new" \notin Before
      /\ {"decr", "farewell", "closed"} \subseteq Left
  BY DEF Before, Left, Serving, Casting
<1>5. CleanExitUnregisters'
  BY <1>0, <1>3, <1>4 DEF CountInv, CleanExitUnregisters
<1>6. /\ \A t \in Sockets : pc'[t] = "new" => t \notin active'
      /\ \A t \in Sockets : pc'[t] \in Before => t \in active' \cup reaped'
  BY <1>0, <1>3, <1>4 DEF CountInv
<1> QED BY <1>1, <1>2, <1>5, <1>6 DEF CountInv

\* A connection is registered and counted.
LEMMA CountConnect ==
    ASSUME CountInv, TypeOK', NEW s \in Sockets, Connect(s)
    PROVE  CountInv'
<1>0. /\ TypeOK /\ s \notin active /\ active' = active \cup {s}
      /\ reaped' = reaped /\ pc \in [Sockets -> Location]
      /\ userCount' = [userCount EXCEPT ![Owner(s)] = @ + 1]
      /\ Owner(s) \in Instances \X Users
  BY SocketAssumption DEF Connect, CountInv, TypeOK, Owner
<1>1. ASSUME NEW p \in Instances \X Users
      PROVE  \/ /\ userCount'[p] = userCount[p]
                /\ Cardinality(Registered(p)') = Cardinality(Registered(p))
             \/ /\ userCount'[p] = userCount[p] + 1
                /\ Cardinality(Registered(p)') = Cardinality(Registered(p)) + 1
  <2>1. CASE Owner(s) # p
    <3>1. Registered(p)' = Registered(p)
      BY <1>0, <2>1 DEF Registered, Owner
    <3>2. userCount'[p] = userCount[p]
      BY <1>0, <2>1 DEF TypeOK
    <3> QED BY <3>1, <3>2
  <2>2. CASE Owner(s) = p
    <3>1. Registered(p)' = Registered(p) \cup {s} /\ s \notin Registered(p)
      BY <1>0, <2>2 DEF Registered, Owner
    <3>2. IsFiniteSet(Registered(p))
      BY <1>0, RegisteredSets DEF TypeOK
    <3>3. Cardinality(Registered(p)') = Cardinality(Registered(p)) + 1
      BY <3>1, <3>2, FS_AddElement
    <3>4. userCount'[p] = userCount[p] + 1
      BY <1>0, <2>2 DEF TypeOK
    <3> QED BY <3>3, <3>4
  <2> QED BY <2>1, <2>2
<1>2. \A p \in Instances \X Users :
          userCount[p] \in Nat /\ Cardinality(Registered(p)) \in Nat
  BY <1>0, RegisteredSets DEF TypeOK
<1>3. CountNeverOver'
  BY <1>1, <1>2 DEF CountInv, CountNeverOver
<1>4. CountExactWithoutReaping'
  BY <1>0, <1>1, <1>2 DEF CountInv, CountExactWithoutReaping, Owner
<1>5. \E where \in {"incr", "announce", "sync", "open"} :
          pc' = [pc EXCEPT ![s] = where]
  BY DEF Connect, Enter, Goto, Joined
<1>6. {"incr", "announce", "sync", "open"} \cap (Left \cup {"new"}) = {}
  BY DEF Left
<1>7. CleanExitUnregisters'
  BY <1>0, <1>5, <1>6 DEF CountInv, CleanExitUnregisters
<1>8. /\ \A t \in Sockets : pc'[t] = "new" => t \notin active'
      /\ \A t \in Sockets : pc'[t] \in Before => t \in active' \cup reaped'
  BY <1>0, <1>5, <1>6 DEF CountInv
<1> QED BY <1>3, <1>4, <1>7, <1>8 DEF CountInv

\* A process stops: its count and its sockets are gone together.
LEMMA CountKill ==
    ASSUME CountInv, TypeOK', NEW i \in Instances, Kill(i)
    PROVE  CountInv'
<1> DEFINE mine == {s \in Sockets : InstanceOf[s] = i /\ pc[s] # "new"}
<1>0. /\ TypeOK /\ pc \in [Sockets -> Location] /\ active \in SUBSET Sockets
      /\ active' = active \ mine /\ reaped' = reaped \ mine
      /\ pc' = [s \in Sockets |-> IF s \in mine THEN "killed" ELSE pc[s]]
      /\ userCount' = [p \in Instances \X Users |->
                          IF p[1] = i THEN 0 ELSE userCount[p]]
  BY DEF Kill, CountInv, TypeOK
<1>1. ASSUME NEW p \in Instances \X Users, p[1] = i
      PROVE  userCount'[p] = 0 /\ Cardinality(Registered(p)') = 0
  <2>1. userCount'[p] = 0
    BY <1>0, <1>1
  <2>2. Registered(p)' = {}
    BY <1>0, <1>1 DEF Registered, Owner, CountInv
  <2> QED BY <2>1, <2>2, FS_EmptySet
<1>2. ASSUME NEW p \in Instances \X Users, p[1] # i
      PROVE  /\ userCount'[p] = userCount[p] /\ Registered(p)' = Registered(p)
             /\ (\A s \in reaped' : Owner(s) # p) => \A s \in reaped : Owner(s) # p
  <2>1. \A s \in mine : Owner(s) # p
    BY <1>2 DEF Owner
  <2>2. userCount'[p] = userCount[p]
    BY <1>0, <1>2
  <2> HIDE DEF mine
  <2>3. Registered(p)' = Registered(p)
    BY <1>0, <2>1 DEF Registered, Owner
  <2> QED BY <1>0, <2>1, <2>2, <2>3
<1>3. CountNeverOver'
  BY <1>1, <1>2 DEF CountInv, CountNeverOver
<1>4. CountExactWithoutReaping'
  BY <1>1, <1>2 DEF CountInv, CountExactWithoutReaping, Owner
<1>5. CleanExitUnregisters'
  BY <1>0 DEF CountInv, CleanExitUnregisters
<1>6. \A t \in Sockets : pc'[t] = "new" => t \notin active'
  BY <1>0 DEF CountInv
<1>7. \A t \in Sockets : pc'[t] \in Before => t \in active' \cup reaped'
  BY <1>0 DEF CountInv, Before, Left
<1> QED BY <1>3, <1>4, <1>5, <1>6, <1>7 DEF CountInv

LEMMA CountStep == CountInv /\ [Next]_vars => CountInv'
<1> SUFFICES ASSUME CountInv, [Next]_vars PROVE CountInv'
  OBVIOUS
<1>0. TypeOK' /\ pc \in [Sockets -> Location]
  BY StepType DEF CountInv, TypeOK
<1>1. ASSUME NEW s \in Sockets, Handle(s)
      PROVE  CountInv'
  BY <1>0, <1>1, CountQuietHandle, CountSendEnds, CountLeave
<1>2. ASSUME NEW s \in Sockets, Client(s)
      PROVE  CountInv'
  <2>1. CASE Connect(s)
    BY <1>0, <2>1, CountConnect
  <2>2. CASE Relay(s) \/ Message(s) \/ Fault(s) \/ Hangup(s)
    <3>1. UNCHANGED <<active, userCount, reaped>>
      BY <2>2 DEF Relay, Message, Fault, Hangup
    <3>2. \A t \in Sockets :
              \/ pc'[t] = pc[t]
              \/ pc[t] = "open" /\ pc'[t] \in {"relay", "echo", "leaving"}
      <4>1. CASE Hangup(s)
        BY <4>1 DEF Hangup
      <4>2. CASE Relay(s) \/ Message(s) \/ Fault(s)
        <5>1. pc[s] = "open"
          BY <4>2 DEF Relay, Message, Fault
        <5>2. PICK where \in {"relay", "echo", "leaving"} :
                  pc' = [pc EXCEPT ![s] = where]
          BY <4>2 DEF Relay, Message, Fault, Enter, Goto
        <5> QED BY <1>0, <5>1, <5>2
      <4> QED BY <2>2, <4>1, <4>2
    <3>3. {"open", "relay", "echo", "leaving"} \subseteq Before
      BY DEF Before, Serving, Left, Casting
    <3> QED BY <1>0, <3>1, <3>2, <3>3, CountUntouched
  <2> QED BY <1>2, <2>1, <2>2 DEF Client
<1>3. ASSUME NEW u \in Users, Expire(u)
      PROVE  CountInv'
  BY <1>0, <1>3, CountUntouched DEF Expire
<1>4. ASSUME NEW i \in Instances, Kill(i)
      PROVE  CountInv'
  BY <1>0, <1>4, CountKill
<1>5. CASE UNCHANGED vars
  BY <1>0, <1>5, CountUntouched DEF vars
<1> QED BY <1>1, <1>2, <1>3, <1>4, <1>5 DEF Next

LEMMA CountInit == Init => CountInv
<1> SUFFICES ASSUME Init PROVE CountInv
  OBVIOUS
<1>1. TypeOK
  BY SocketAssumption DEF Init, TypeOK, Location, Absent, NewCast
<1>2. \A p \in Instances \X Users : userCount[p] = 0 /\ Registered(p) = {}
  BY DEF Init, Registered
<1>3. CountNeverOver /\ CountExactWithoutReaping
  BY <1>2, FS_EmptySet DEF CountNeverOver, CountExactWithoutReaping
<1>4. \A s \in Sockets : pc[s] = "new" /\ s \notin active
  BY DEF Init
<1>5. "new" \notin Before
  BY DEF Before, Serving, Casting
<1> QED BY <1>1, <1>3, <1>4, <1>5 DEF CountInv, CleanExitUnregisters

LEMMA CountInvariant == Spec => []CountInv
BY CountInit, CountStep, PTL DEF Spec

\* A connection manager never counts more connections of a user than it has
\* registered, whoever calls disconnect and however often.
THEOREM CountBounded == Spec => []CountNeverOver
<1>1. CountInv => CountNeverOver
  BY DEF CountInv
<1> QED BY <1>1, CountInvariant, PTL

\* The count of a user none of whose sockets failed in a send loop is exact.
THEOREM CountExact == Spec => []CountExactWithoutReaping
<1>1. CountInv => CountExactWithoutReaping
  BY DEF CountInv
<1> QED BY <1>1, CountInvariant, PTL

\* A handler that left through its except clauses is not registered any more.
THEOREM ExitUnregisters == Spec => []CleanExitUnregisters
<1>1. CountInv => CleanExitUnregisters
  BY DEF CountInv
<1> QED BY <1>1, CountInvariant, PTL

\* Without Redis, the last registered socket of a user in the process to leave
\* announces the user offline: the count it sees can only be too low.
THEOREM LastLocalLeaver == Spec => LastLocalLeaverAnnounces
<1> USE SocketAssumption
<1> DEFINE Announces ==
        \A s \in Sockets :
            (/\ pc[s] = "leaving" /\ pc'[s] \in Left \ {"killed"}
             /\ ~enabled[InstanceOf[s]] /\ Registered(Owner(s))' = {})
                => pc'[s] = "farewell"
<1>1. ASSUME CountInv, CountInv', [Next]_vars
      PROVE  Announces
  <2> SUFFICES ASSUME NEW s \in Sockets, pc[s] = "leaving",
                      pc'[s] \in Left \ {"killed"}, ~enabled[InstanceOf[s]],
                      Registered(Owner(s))' = {}
               PROVE  pc'[s] = "farewell"
    OBVIOUS
  <2>0. pc \in [Sockets -> Location] /\ Owner(s) \in Instances \X Users
    BY <1>1 DEF CountInv, TypeOK, Owner
  <2>1. CASE Leave(s)
    <3>1. userCount'[Owner(s)] <= Cardinality(Registered(Owner(s))')
      BY <1>1, <2>0 DEF CountInv, CountNeverOver
    <3>2. userCount'[Owner(s)] \in Nat
      BY <1>1, <2>0 DEF CountInv, TypeOK
    <3>3. userCount'[Owner(s)] = 0
      BY <3>1, <3>2, FS_EmptySet
    <3> QED BY <2>0, <2>1, <3>3 DEF Leave, EnterDropping, Goto
  <2>2. ASSUME Handle(s), ~Leave(s)
        PROVE  pc'[s] = pc[s]
    BY <2>2 DEF Handle, Incr, SetTtl, JoinFails, SyncReply, ReceiveDisconnect,
        SendInner, SendOuter, SendRaises, SendEnds, Decr, DeleteKey, Touch,
        LeaveFails, Casting
  <2>3. ASSUME Client(s)
        PROVE  pc'[s] = pc[s]
    BY <2>3 DEF Client, Connect, Relay, Message, Fault, Hangup
  <2>4. "leaving" \notin Left
    BY DEF Left
  <2> QED BY <1>1, <2>1, <2>2, <2>3, <2>4, OwnSteps DEF CountInv
<1>2. CountInv /\ CountInv' /\ [Next]_vars => [Announces]_vars
  BY <1>1
<1> QED BY <1>2, CountInvariant, PTL DEF Spec, LastLocalLeaverAnnounces

=============================================================================
