----------------------------- MODULE WorkerPool ------------------------------
(***************************************************************************)
(* namespace WorkerPool of src/src/server_workers.hpp: TaskQueue (a        *)
(* std::queue under a mutex and a condition variable) and WorkerPool (the  *)
(* threads that pop and run tasks, and the destructor that joins them).    *)
(*                                                                         *)
(* push() and pop() hold the mutex for their whole body and give it up     *)
(* only inside condition.wait, so each critical section is one action.     *)
(* `stop` is a plain bool: the destructor writes it and the workers read   *)
(* it with no lock.  The writer does nothing afterwards but join, so every *)
(* value a racing read may return is the value before or after the write,  *)
(* both of which the order of Destroy and CheckStop already gives.         *)
(*                                                                         *)
(* A definition marked "Variant" is a plausible slip in the definition     *)
(* after it.  No action uses it: it shows that a property can fail.        *)
(***************************************************************************)
EXTENDS Naturals, Sequences, FiniteSets, Functions

CONSTANTS
    Workers,            \* the threads started by the constructor
    Tasks,              \* identities of the closures handed to push()
    NoTask              \* what a thread without a task holds

ASSUME WorkersAssumption == IsFiniteSet(Workers)
ASSUME NoTaskAssumption == NoTask \notin Tasks

VARIABLES
    tasks,              \* TaskQueue::tasks
    pc,                 \* where each thread is in its loop
    held,               \* the local variable `task` of each thread
    stop,               \* WorkerPool::stop
    main,               \* the owner of the pool: "serving", "joining", "destroyed"
    terminated,         \* std::terminate was called
    pushed,             \* history: the arguments of push(), in order
    done,               \* history: the tasks that ran to their end
    dropped             \* history: the tasks lost with the frame of `break`

vars == <<tasks, pc, held, stop, main, terminated, pushed, done, dropped>>

PC == {"ready",         \* about to lock the mutex in pop(), or woken in it
       "waiting",       \* inside condition.wait
       "popped",        \* back from pop(), before the test of stop
       "running",       \* inside task()
       "exited"}        \* out of the loop

At(label) == {w \in Workers : pc[w] = label}

Pushed == Range(pushed)
Queued == Range(tasks)
Held(label) == {held[w] : w \in At(label)}

Init ==
    /\ tasks = <<>>
    /\ pc = [w \in Workers |-> "ready"]
    /\ held = [w \in Workers |-> NoTask]
    /\ stop = FALSE
    /\ main = "serving"
    /\ terminated = FALSE
    /\ pushed = <<>>
    /\ done = {}
    /\ dropped = {}

------------------------------------------------------------------------------
(***************************************************************************)
(* TaskQueue                                                               *)
(***************************************************************************)

\* Variant: no thread is told of the new task.
NotifyNobody == pc' = pc

\* condition.notify_one(): some waiter leaves the wait; none when nobody waits.
NotifyOne ==
    \/ \E w \in At("waiting") : pc' = [pc EXCEPT ![w] = "ready"]
    \/ At("waiting") = {} /\ pc' = pc

\* Variant: only the push that ends an empty queue notifies.
WakeWhenEmpty ==
    IF tasks = <<>> THEN NotifyOne ELSE NotifyNobody

Wake == NotifyOne

Push(t) ==
    /\ ~terminated
    /\ main = "serving"
    /\ t \notin Pushed
    /\ tasks' = Append(tasks, t)
    /\ pushed' = Append(pushed, t)
    /\ Wake
    /\ UNCHANGED <<held, stop, main, terminated, done, dropped>>

\* Variant: the predicate of the wait also asks for stop.
SleepUnlessStopped == IF stop THEN "exited" ELSE "waiting"

Sleep == "waiting"

\* The predicate of condition.wait is false: the thread gives up the mutex.
PopEmpty(w) ==
    /\ ~terminated
    /\ pc[w] = "ready"
    /\ tasks = <<>>
    /\ pc' = [pc EXCEPT ![w] = Sleep]
    /\ UNCHANGED <<tasks, held, stop, main, terminated, pushed, done, dropped>>

TakeFront == tasks' = Tail(tasks)

\* The predicate is true: move the front of the queue out and return it.
PopTask(w) ==
    /\ ~terminated
    /\ pc[w] = "ready"
    /\ tasks # <<>>
    /\ held' = [held EXCEPT ![w] = Head(tasks)]
    /\ TakeFront
    /\ pc' = [pc EXCEPT ![w] = "popped"]
    /\ UNCHANGED <<stop, main, terminated, pushed, done, dropped>>

\* condition.wait may return without a notification and test its predicate.
SpuriousWake(w) ==
    /\ ~terminated
    /\ pc[w] = "waiting"
    /\ pc' = [pc EXCEPT ![w] = "ready"]
    /\ UNCHANGED <<tasks, held, stop, main, terminated, pushed, done, dropped>>

------------------------------------------------------------------------------
(***************************************************************************)
(* WorkerPool                                                              *)
(***************************************************************************)

\* Variant: the loop does not look at stop.
StopIgnored == FALSE

StopSeen == stop

\* Variant: the local `task` outlives the iteration.
KeepTask(w) == held' = held

ReleaseTask(w) == held' = [held EXCEPT ![w] = NoTask]

\* if (stop) break;  -- the task just popped is destroyed with the local.
CheckStop(w) ==
    /\ ~terminated
    /\ pc[w] = "popped"
    /\ \/ /\ StopSeen
          /\ pc' = [pc EXCEPT ![w] = "exited"]
          /\ ReleaseTask(w)
          /\ dropped' = dropped \cup {held[w]}
       \/ /\ ~StopSeen
          /\ pc' = [pc EXCEPT ![w] = "running"]
          /\ UNCHANGED <<held, dropped>>
    /\ UNCHANGED <<tasks, stop, main, terminated, pushed, done>>

\* task() returns and the loop starts again.
FinishTask(w) ==
    /\ ~terminated
    /\ pc[w] = "running"
    /\ pc' = [pc EXCEPT ![w] = "ready"]
    /\ ReleaseTask(w)
    /\ done' = done \cup {held[w]}
    /\ UNCHANGED <<tasks, stop, main, terminated, pushed, dropped>>

\* An exception leaves task(): the thread function has no handler for it.
TaskThrows(w) ==
    /\ ~terminated
    /\ pc[w] = "running"
    /\ terminated' = TRUE
    /\ UNCHANGED <<tasks, pc, held, stop, main, pushed, done, dropped>>

\* ~WorkerPool(): stop = true, with neither the mutex nor a notification.
Destroy ==
    /\ ~terminated
    /\ main = "serving"
    /\ stop' = TRUE
    /\ main' = "joining"
    /\ UNCHANGED <<tasks, pc, held, terminated, pushed, done, dropped>>

\* Every join() has returned.
Joined ==
    /\ ~terminated
    /\ main = "joining"
    /\ At("exited") = Workers
    /\ main' = "destroyed"
    /\ UNCHANGED <<tasks, pc, held, stop, terminated, pushed, done, dropped>>

WorkerStep(w) == PopEmpty(w) \/ PopTask(w) \/ CheckStop(w) \/ FinishTask(w)

Next ==
    \/ \E t \in Tasks : Push(t)
    \/ \E w \in Workers : \/ PopEmpty(w)
                          \/ PopTask(w)
                          \/ SpuriousWake(w)
                          \/ CheckStop(w)
                          \/ FinishTask(w)
                          \/ TaskThrows(w)
    \/ Destroy
    \/ Joined

(***************************************************************************)
(* A thread that can take a step of its loop eventually takes one (the     *)
(* operating system schedules it, the mutex is held for bounded time and a *)
(* handler returns), and join() returns once its thread has ended.         *)
(***************************************************************************)
Fairness ==
    /\ \A w \in Workers : WF_vars(WorkerStep(w))
    /\ WF_vars(Joined)

Spec == Init /\ [][Next]_vars

FairSpec == Spec /\ Fairness

------------------------------------------------------------------------------
(***************************************************************************)
(* Properties                                                              *)
(***************************************************************************)

\* Types, and a thread holds a task exactly between pop() and its end.
TypeOK ==
    /\ tasks \in Seq(Tasks)
    /\ pc \in [Workers -> PC]
    /\ held \in [Workers -> Tasks \cup {NoTask}]
    /\ stop \in BOOLEAN
    /\ main \in {"serving", "joining", "destroyed"}
    /\ terminated \in BOOLEAN
    /\ pushed \in Seq(Tasks)
    /\ done \subseteq Tasks
    /\ dropped \subseteq Tasks
    /\ \A w \in Workers : held[w] = NoTask <=> pc[w] \notin {"popped", "running"}

\* The hazard of every condition variable: a thread asleep while there is
\* work nobody awake will come for.  push() signals under the mutex and pop()
\* tests under the same mutex, so as long as a thread waits, there are at
\* least as many threads on their way to the queue as there are tasks in it.
NoLostWakeup ==
    At("waiting") # {} => Len(tasks) <= Cardinality(At("ready"))

\* A closure given to push() is at any time in exactly one place -- the queue,
\* one thread, done or dropped -- and is dropped only by the destructor; no
\* request is served twice and none disappears while the server runs.
TaskConservation ==
    /\ Pushed = Queued \cup Held("popped") \cup Held("running")
                  \cup done \cup dropped
    /\ IsInjective(tasks)
    /\ \A v, w \in Workers : held[v] = held[w] /\ held[v] # NoTask => v = w
    /\ \A w \in Workers : held[w] \notin Queued \cup done \cup dropped
    /\ Queued \cap (done \cup dropped) = {}
    /\ done \cap dropped = {}
    /\ dropped # {} => stop

\* A thread leaves the loop only with a task in its hands: the destructor
\* signals nobody and the predicate of the wait does not ask for stop, so it
\* returns only if the queue still fed every thread, and it destroys exactly
\* one unanswered request per thread.
ExitNeedsTask ==
    /\ Cardinality(At("exited")) = Cardinality(dropped)
    /\ main = "destroyed" => Cardinality(dropped) = Cardinality(Workers)

\* A task that was pushed runs to its end, unless the pool is destroyed or
\* a task throws.
EveryTaskRuns ==
    \A t \in Tasks : t \in Pushed ~> (t \in done \/ stop \/ terminated)

\* The destructor returns when enough tasks are left to get every thread out
\* of pop() once more.
JoinEndsWithEnoughTasks ==
    (/\ main = "joining"
     /\ Len(tasks) + Cardinality(At("popped")) >= Cardinality(Workers \ At("exited")))
       ~> (main = "destroyed" \/ terminated)

------------------------------------------------------------------------------
(***************************************************************************)
(* The pool implements the service the event loop relies on.               *)
(***************************************************************************)
Status(t) ==
    IF t \in Queued THEN "queued"
    ELSE IF t \in Held("popped") THEN "taken"
    ELSE IF t \in Held("running") THEN "running"
    ELSE IF t \in done THEN "done"
    ELSE IF t \in dropped THEN "discarded"
    ELSE "new"

Service == INSTANCE TaskService WITH
               accepted <- pushed,
               status <- [t \in Tasks |-> Status(t)],
               closed <- stop,
               crashed <- terminated

\* Every step of the threads is a step of TaskService or invisible there.
ImplementsTaskService == Service!SSpec
==============================================================================
