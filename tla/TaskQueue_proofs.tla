-------------------------- MODULE TaskQueue_proofs -------------------------
(* Theorems about TaskQueue, for any tasks and any configuration: what the   *)
(* shutdown waits for is exact, so an orderly stop leaves no task unrun.     *)
EXTENDS TaskQueue, TLAPS

\* What is inductive: the types, the count, and that the state of a stopped
\* process is drained.
TaskInv == TaskTypeOK /\ CountExact /\ StoppedDrained

\* Nothing is queued before the process serves.
LEMMA TaskInvInit == TaskInit => TaskInv
BY TasksAssumption DEF TaskInit, TaskInv, TaskTypeOK, Workers, CountExact, StoppedDrained

\* A queue of length 0 is empty, and one that is not empty has a head and is
\* one longer than its tail.
LEMMA QueueFacts ==
    ASSUME NEW q \in Seq(Tasks)
    PROVE  /\ Len(q) \in Nat /\ (Len(q) = 0 <=> q = <<>>)
           /\ q # <<>> => /\ Head(q) \in Tasks /\ Tail(q) \in Seq(Tasks)
                          /\ Len(Tail(q)) = Len(q) - 1
           /\ \A t \in Tasks : /\ Append(q, t) \in Seq(Tasks)
                               /\ Len(Append(q, t)) = Len(q) + 1
OBVIOUS

\* Every step keeps the types, the count and the drained state.
LEMMA TaskInvStep ==
    ASSUME TaskInv, TaskNext
    PROVE  TaskInv'
<1> USE DEF TaskInv, TaskTypeOK, CountExact, StoppedDrained
<1>0. /\ Len(queue) \in Nat /\ (Len(queue) = 0 <=> queue = <<>>)
      /\ Len(<<>>) = 0 /\ <<>> \in Seq(Tasks)
  BY QueueFacts
<1>1. CASE initialize
  <2>1. worker' \in Workers
    BY <1>1 DEF initialize, WorkerOf, Workers
  <2> QED BY <1>1, <2>1 DEF initialize
<1>2. ASSUME NEW task \in Tasks, schedule(task)
      PROVE  TaskInv'
  BY <1>0, <1>2, QueueFacts DEF schedule
<1>3. CASE get
  BY <1>0, <1>3, QueueFacts, TasksAssumption DEF get
<1>4. CASE TaskEnds
  <2>1. unfinished = Len(queue) + 1
    BY <1>4 DEF TaskEnds
  <2> QED BY <1>0, <1>4, <2>1 DEF TaskEnds
<1>5. CASE Shutdown
  BY <1>5 DEF Shutdown
<1>6. CASE Joined
  <2>1. queue = <<>> /\ running = NoTask
    BY <1>0, <1>6 DEF Joined
  <2> QED BY <1>0, <1>6, <2>1 DEF Joined, Workers
<1>7. CASE Crash
  BY <1>0, <1>7 DEF Crash, Workers
<1> QED BY <1>1, <1>2, <1>3, <1>4, <1>5, <1>6, <1>7 DEF TaskNext

\* The count of join() is exact in every behaviour, and a process that stopped
\* in order has run every task it accepted, whichever worker it started.
THEOREM DrainedOnStop == TaskSpec => [](CountExact /\ StoppedDrained)
<1>1. TaskInv /\ UNCHANGED taskVars => TaskInv'
  BY DEF TaskInv, TaskTypeOK, CountExact, StoppedDrained, taskVars
<1>2. TaskInv => CountExact /\ StoppedDrained
  BY DEF TaskInv
<1> QED BY TaskInvInit, TaskInvStep, <1>1, <1>2, PTL DEF TaskSpec
=============================================================================
