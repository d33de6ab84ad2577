---------------------------- MODULE MCWorkerPool -----------------------------
(* Three threads, so that two may sleep while one works, and four tasks, so  *)
(* that the queue can outnumber the threads or run dry before them.          *)
EXTENDS WorkerPool, TLC

CONSTANTS w1, w2, w3, t1, t2, t3, t4

MCWorkers == {w1, w2, w3}
MCTasks == {t1, t2, t3, t4}
==============================================================================
