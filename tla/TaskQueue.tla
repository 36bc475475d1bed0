----------------------------- MODULE TaskQueue -----------------------------
(* app/core/task_queue.py within the lifespan of app/main.py: the queue that *)
(* media uploads put their post-processing on, its worker, and the shutdown  *)
(* that waits for the queue.                                                 *)
EXTENDS Naturals, Sequences

CONSTANTS
  Tasks, NoTask,
  Backends   \* the values of TASK_QUEUE_BACKEND the process may start with

ASSUME TasksAssumption == NoTask \notin Tasks

VARIABLES
  stage,      \* of the process: starting, serving, stopping, stopped, killed
  worker,     \* which loop worker_task runs, or none
  queue,      \* the asyncio.Queue
  unfinished, \* what join() waits to become 0
  running,    \* the task the worker awaits
  ran         \* history: the tasks that were run to their end

taskVars == <<stage, worker, queue, unfinished, running, ran>>

Workers == {"off", "inprocess", "redis", "none"}

Pending == {queue[i] : i \in 1..Len(queue)} \cup ({running} \cap Tasks)

TaskTypeOK ==
  /\ stage \in {"starting", "serving", "stopping", "stopped", "killed"}
  /\ worker \in Workers
  /\ queue \in Seq(Tasks)
  /\ unfinished \in Nat
  /\ running \in Tasks \cup {NoTask}
  /\ ran \subseteq Tasks

TaskInit ==
  /\ stage = "starting" /\ worker = "off"
  /\ queue = <<>> /\ unfinished = 0
  /\ running = NoTask /\ ran = {}

(* The worker a backend starts; every failure of Redis and of its libraries  *)
(* falls through to the in-process loop.                                     *)
WorkerOf(backend) ==
  CASE backend = "redis" -> {"redis", "inprocess"}
    [] backend \in {"celery", "rq"} -> {"none", "inprocess"}
    [] OTHER -> {"inprocess"}

initialize ==
  /\ stage = "starting"
  /\ stage' = "serving"
  /\ \E backend \in Backends : worker' \in WorkerOf(backend)
  /\ UNCHANGED <<queue, unfinished, running, ran>>

\* A task is scheduled at most once in a behaviour.
schedule(task) ==
  /\ stage = "serving" /\ task \notin Pending \cup ran
  /\ queue' = Append(queue, task)
  /\ unfinished' = unfinished + 1
  /\ UNCHANGED <<stage, worker, running, ran>>

(* Only the in-process loop reads the queue: _redis_worker_loop polls a list *)
(* in Redis, and with celery or rq there is no loop.                         *)
get ==
  /\ stage \in {"serving", "stopping"} /\ worker = "inprocess"
  /\ running = NoTask /\ queue # <<>>
  /\ running' = Head(queue) /\ queue' = Tail(queue)
  /\ UNCHANGED <<stage, worker, unfinished, ran>>

(* Mutants: an exception that leaves the loop, and one that skips task_done. *)
TaskEndsLoop ==
  /\ stage \in {"serving", "stopping"} /\ running # NoTask
  /\ worker' \in {worker, "none"}
  /\ running' = NoTask /\ ran' = ran \cup {running}
  /\ unfinished' = unfinished - 1
  /\ UNCHANGED <<stage, queue>>

TaskLeavesCount ==
  /\ stage \in {"serving", "stopping"} /\ running # NoTask
  /\ running' = NoTask /\ ran' = ran \cup {running}
  /\ unfinished' \in {unfinished, unfinished - 1}
  /\ UNCHANGED <<stage, worker, queue>>

(* The task returns or raises; both end in task_done.                        *)
TaskEnds ==
  /\ stage \in {"serving", "stopping"} /\ running # NoTask
  /\ running' = NoTask /\ ran' = ran \cup {running}
  /\ unfinished' = unfinished - 1
  /\ UNCHANGED <<stage, worker, queue>>

(* The server is told to stop and has answered its last request.             *)
Shutdown ==
  /\ stage = "serving"
  /\ stage' = "stopping"
  /\ UNCHANGED <<worker, queue, unfinished, running, ran>>

(* join() returns, and the worker is cancelled.                              *)
Joined ==
  /\ stage = "stopping" /\ unfinished = 0
  /\ stage' = "stopped" /\ worker' = "off"
  /\ UNCHANGED <<queue, unfinished, running, ran>>

(* The process dies, and the queue with it.                                  *)
Crash ==
  /\ stage \in {"serving", "stopping"}
  /\ stage' = "killed" /\ worker' = "off"
  /\ queue' = <<>> /\ running' = NoTask
  /\ UNCHANGED <<unfinished, ran>>

TaskNext ==
  \/ initialize \/ \E task \in Tasks : schedule(task)
  \/ get \/ TaskEnds \/ Shutdown \/ Joined \/ Crash

(* The event loop resumes a coroutine whose await is over, and a task ends:  *)
(* its awaits are calls of ffmpeg and of Pillow on one file.                 *)
TaskFairness == WF_taskVars(get) /\ WF_taskVars(TaskEnds) /\ WF_taskVars(Joined)

TaskSpec == TaskInit /\ [][TaskNext]_taskVars /\ TaskFairness

---------------------------------------------------------------------------
(* The count that join() waits for is the number of tasks queued or run.     *)
CountExact ==
  stage # "killed" => unfinished = Len(queue) + (IF running = NoTask THEN 0 ELSE 1)

(* A server that has stopped in order has left no scheduled task unrun.      *)
StoppedDrained == stage = "stopped" => queue = <<>> /\ running = NoTask

(* A task that was scheduled is run, also when the tasks before it raise and *)
(* when the shutdown begins first, unless the process dies: as long as the   *)
(* worker is the in-process one.                                             *)
TasksRun ==
  \A task \in Tasks :
    (task \in Pending /\ worker = "inprocess") ~> (task \in ran \/ stage = "killed")

(* The shutdown does not hang on the queue with the in-process worker.       *)
ShutdownEnds ==
  (stage = "stopping" /\ worker = "inprocess") ~> stage \in {"stopped", "killed"}

(* docs/validation/system-validation-report.md: background tasks fall back   *)
(* to the in-process queue when Redis fails; a task scheduled under any of   *)
(* the supported backends is run.                                            *)
TasksRunOnEveryBackend ==
  \A task \in Tasks : task \in Pending ~> (task \in ran \/ stage = "killed")
=============================================================================
