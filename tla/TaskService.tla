----------------------------- MODULE TaskService -----------------------------
(***************************************************************************)
(* What the rest of the server is promised by the worker pool, without     *)
(* threads, mutex or condition variable: a task submitted from the event   *)
(* loop is taken in the order of submission, runs at most once, starts     *)
(* only while the service is open, and is thrown away only after it was    *)
(* closed.  An exception that leaves a task ends everything.               *)
(***************************************************************************)
EXTENDS Naturals, Sequences

CONSTANT Tasks          \* identities of the closures handed to push()

VARIABLES
    accepted,           \* the tasks submitted so far, in order
    status,             \* where each task is in its life
    closed,             \* no task may start any more
    crashed             \* the process has ended

svars == <<accepted, status, closed, crashed>>

Statuses == {"new", "queued", "taken", "running", "done", "discarded"}

STypeOK ==
    /\ accepted \in Seq(Tasks)
    /\ status \in [Tasks -> Statuses]
    /\ closed \in BOOLEAN
    /\ crashed \in BOOLEAN

SInit ==
    /\ accepted = <<>>
    /\ status = [t \in Tasks |-> "new"]
    /\ closed = FALSE
    /\ crashed = FALSE

MoveTo(t, from, to) ==
    /\ ~crashed
    /\ status[t] = from
    /\ status' = [status EXCEPT ![t] = to]

Submit(t) ==
    /\ ~closed
    /\ MoveTo(t, "new", "queued")
    /\ accepted' = Append(accepted, t)
    /\ UNCHANGED <<closed, crashed>>

\* First in, first out: every task accepted before t has left the queue.
Take(t) ==
    /\ MoveTo(t, "queued", "taken")
    /\ \E i \in DOMAIN accepted :
          /\ accepted[i] = t
          /\ \A j \in 1 .. i - 1 : status[accepted[j]] # "queued"
    /\ UNCHANGED <<accepted, closed, crashed>>

Start(t) ==
    /\ ~closed
    /\ MoveTo(t, "taken", "running")
    /\ UNCHANGED <<accepted, closed, crashed>>

Complete(t) ==
    /\ MoveTo(t, "running", "done")
    /\ UNCHANGED <<accepted, closed, crashed>>

Discard(t) ==
    /\ closed
    /\ MoveTo(t, "taken", "discarded")
    /\ UNCHANGED <<accepted, closed, crashed>>

Crash(t) ==
    /\ ~crashed
    /\ status[t] = "running"
    /\ crashed' = TRUE
    /\ UNCHANGED <<accepted, status, closed>>

Close ==
    /\ ~crashed
    /\ ~closed
    /\ closed' = TRUE
    /\ UNCHANGED <<accepted, status, crashed>>

SNext ==
    \/ Close
    \/ \E t \in Tasks : \/ Submit(t)
                        \/ Take(t)
                        \/ Start(t)
                        \/ Complete(t)
                        \/ Discard(t)
                        \/ Crash(t)

SSpec == SInit /\ [][SNext]_svars
==============================================================================
