-------------------------- MODULE WorkerPoolProofs ---------------------------
(***************************************************************************)
(* Proofs about WorkerPool, for every finite set of threads and every set  *)
(* of tasks.                                                               *)
(***************************************************************************)
EXTENDS WorkerPool, FiniteSetTheorems, SequenceTheorems, TLAPS

------------------------------------------------------------------------------
(* Types                                                                    *)

LEMMA InitType == Init => TypeOK
BY EmptySeq, NoTaskAssumption DEF Init, TypeOK, PC

LEMMA NextType == TypeOK /\ [Next]_vars => TypeOK'
<1> SUFFICES ASSUME TypeOK, [Next]_vars
             PROVE  TypeOK'
  OBVIOUS
<1> USE NoTaskAssumption DEF TypeOK, PC
<1>1. ASSUME NEW t \in Tasks, Push(t)
      PROVE  TypeOK'
  <2>1. tasks' \in Seq(Tasks) /\ pushed' \in Seq(Tasks)
    BY <1>1 DEF Push
  <2>2. pc' \in [Workers -> PC]
    BY <1>1 DEF Push, Wake, NotifyOne, At
  <2>3. \A w \in Workers : held[w] = NoTask <=> pc'[w] \notin {"popped", "running"}
    BY <1>1 DEF Push, Wake, NotifyOne, At
  <2> QED
    BY <1>1, <2>1, <2>2, <2>3 DEF Push
<1>2. ASSUME NEW w \in Workers, PopEmpty(w)
      PROVE  TypeOK'
  BY <1>2 DEF PopEmpty, Sleep
<1>3. ASSUME NEW w \in Workers, PopTask(w)
      PROVE  TypeOK'
  <2>1. Head(tasks) \in Tasks /\ tasks' \in Seq(Tasks)
    BY <1>3 DEF PopTask, TakeFront
  <2> QED
    BY <1>3, <2>1 DEF PopTask
<1>4. ASSUME NEW w \in Workers, SpuriousWake(w)
      PROVE  TypeOK'
  BY <1>4 DEF SpuriousWake
<1>5. ASSUME NEW w \in Workers, CheckStop(w)
      PROVE  TypeOK'
  BY <1>5 DEF CheckStop, ReleaseTask
<1>6. ASSUME NEW w \in Workers, FinishTask(w)
      PROVE  TypeOK'
  BY <1>6 DEF FinishTask, ReleaseTask
<1>7. ASSUME NEW w \in Workers, TaskThrows(w)
      PROVE  TypeOK'
  BY <1>7 DEF TaskThrows
<1>8. CASE Destroy
  BY <1>8 DEF Destroy
<1>9. CASE Joined
  BY <1>9 DEF Joined
<1>10. CASE UNCHANGED vars
  BY <1>10 DEF vars
<1> QED
  BY <1>1, <1>2, <1>3, <1>4, <1>5, <1>6, <1>7, <1>8, <1>9, <1>10 DEF Next

\* Every variable keeps its type, and a thread holds a task exactly from the
\* return of pop() to the end of task().
THEOREM TypeCorrect == Spec => []TypeOK
BY InitType, NextType, PTL DEF Spec

------------------------------------------------------------------------------
(* No wakeup is lost                                                        *)

\* The threads at a label are finitely many.
LEMMA AtFinite ==
    ASSUME NEW label
    PROVE  /\ IsFiniteSet(At(label))
           /\ Cardinality(At(label)) \in Nat
BY WorkersAssumption, FS_Subset, FS_CardinalityType DEF At

\* A thread that enters a label adds at most one to their number, and exactly
\* one when it was elsewhere.
LEMMA AtGrows ==
    ASSUME TypeOK, NEW w \in Workers, NEW label \in PC, pc[w] # label,
           pc' = [pc EXCEPT ![w] = label]
    PROVE  Cardinality(At(label)') = Cardinality(At(label)) + 1
<1>1. At(label)' = At(label) \cup {w}
  BY DEF At, TypeOK
<1>2. w \notin At(label)
  BY DEF At
<1> QED
  BY <1>1, <1>2, AtFinite, FS_AddElement

\* A thread that leaves a label takes one from their number.
LEMMA AtShrinks ==
    ASSUME TypeOK, NEW w \in Workers, NEW label \in PC, NEW to \in PC \ {label},
           pc[w] = label, pc' = [pc EXCEPT ![w] = to]
    PROVE  Cardinality(At(label)') = Cardinality(At(label)) - 1
<1>1. At(label)' = At(label) \ {w}
  BY DEF At, TypeOK
<1>2. w \in At(label)
  BY DEF At
<1> QED
  BY <1>1, <1>2, AtFinite, FS_RemoveElement

\* Threads that move between other labels leave a label as it was.
LEMMA AtUntouched ==
    ASSUME TypeOK, NEW w \in Workers, NEW label, NEW to \in PC \ {label},
           pc[w] # label, pc' = [pc EXCEPT ![w] = to]
    PROVE  At(label)' = At(label)
BY DEF At, TypeOK

LEMMA InitWakeup == Init => NoLostWakeup
BY DEF Init, NoLostWakeup, At

LEMMA NextWakeup == TypeOK /\ NoLostWakeup /\ [Next]_vars => NoLostWakeup'
<1> SUFFICES ASSUME TypeOK, NoLostWakeup, [Next]_vars, At("waiting")' # {}
             PROVE  Len(tasks') <= Cardinality(At("ready")')
  BY DEF NoLostWakeup
<1> Len(tasks) \in Nat /\ Cardinality(At("ready")) \in Nat
  BY AtFinite DEF TypeOK
<1> {"ready", "waiting", "popped", "running", "exited"} = PC
  BY DEF PC
<1>1. ASSUME NEW t \in Tasks, Push(t)
      PROVE  Len(tasks') <= Cardinality(At("ready")')
  <2>1. Len(tasks') = Len(tasks) + 1
    BY <1>1 DEF Push, TypeOK
  <2>2. CASE At("waiting") = {} /\ pc' = pc
    BY <2>2 DEF At
  <2>3. ASSUME NEW w \in At("waiting"), pc' = [pc EXCEPT ![w] = "ready"]
        PROVE  Len(tasks') <= Cardinality(At("ready")')
    <3>1. w \in Workers /\ pc[w] = "waiting"
      BY DEF At
    <3>2. Cardinality(At("ready")') = Cardinality(At("ready")) + 1
      BY <2>3, <3>1, AtGrows
    <3>3. Len(tasks) <= Cardinality(At("ready"))
      BY DEF NoLostWakeup
    <3> QED
      BY <2>1, <3>2, <3>3
  <2> QED
    BY <1>1, <2>2, <2>3 DEF Push, Wake, NotifyOne
<1>2. ASSUME NEW w \in Workers, PopEmpty(w)
      PROVE  Len(tasks') <= Cardinality(At("ready")')
  <2>1. Len(tasks') = 0
    BY <1>2 DEF PopEmpty
  <2>2. Cardinality(At("ready")') \in Nat
    <3>1. At("ready")' \subseteq At("ready")
      BY <1>2 DEF PopEmpty, Sleep, At, TypeOK
    <3> QED
      BY <3>1, AtFinite, FS_Subset, FS_CardinalityType
  <2> QED
    BY <2>1, <2>2
<1>3. ASSUME NEW w \in Workers, PopTask(w)
      PROVE  Len(tasks') <= Cardinality(At("ready")')
  <2>1. Len(tasks') = Len(tasks) - 1
    BY <1>3 DEF PopTask, TakeFront, TypeOK
  <2>2. Cardinality(At("ready")') = Cardinality(At("ready")) - 1
    BY <1>3, AtShrinks DEF PopTask
  <2>3. At("waiting")' = At("waiting")
    BY <1>3, AtUntouched DEF PopTask
  <2> QED
    BY <2>1, <2>2, <2>3 DEF NoLostWakeup
<1>4. ASSUME NEW w \in Workers, SpuriousWake(w)
      PROVE  Len(tasks') <= Cardinality(At("ready")')
  <2>1. w \in At("waiting") /\ tasks' = tasks
    BY <1>4 DEF SpuriousWake, At
  <2>2. Cardinality(At("ready")') = Cardinality(At("ready")) + 1
    BY <1>4, AtGrows DEF SpuriousWake
  <2> QED
    BY <2>1, <2>2 DEF NoLostWakeup
<1>5. ASSUME NEW w \in Workers, CheckStop(w)
      PROVE  Len(tasks') <= Cardinality(At("ready")')
  <2>1. PICK to \in {"exited", "running"} : pc' = [pc EXCEPT ![w] = to]
    BY <1>5 DEF CheckStop
  <2>2. pc[w] = "popped" /\ tasks' = tasks
    BY <1>5 DEF CheckStop
  <2>3. At("ready")' = At("ready") /\ At("waiting")' = At("waiting")
    BY <2>1, <2>2, AtUntouched
  <2> QED
    BY <2>2, <2>3 DEF NoLostWakeup
<1>6. ASSUME NEW w \in Workers, FinishTask(w)
      PROVE  Len(tasks') <= Cardinality(At("ready")')
  <2>1. At("waiting")' = At("waiting") /\ tasks' = tasks
    BY <1>6, AtUntouched DEF FinishTask
  <2>2. Cardinality(At("ready")') = Cardinality(At("ready")) + 1
    BY <1>6, AtGrows DEF FinishTask
  <2> QED
    BY <2>1, <2>2 DEF NoLostWakeup
<1>7. CASE tasks' = tasks /\ pc' = pc
  BY <1>7 DEF NoLostWakeup, At
<1> QED
  BY <1>1, <1>2, <1>3, <1>4, <1>5, <1>6, <1>7
     DEF Next, TaskThrows, Destroy, Joined, vars

\* While a thread sleeps in condition.wait there are at least as many threads
\* on their way to the queue as tasks in it: no number of threads, pushes and
\* spurious wakeups leaves a request behind a sleeping pool.
THEOREM WakeupsNotLost == Spec => []NoLostWakeup
<1>1. Init => TypeOK /\ NoLostWakeup
  BY InitType, InitWakeup
<1>2. TypeOK /\ NoLostWakeup /\ [Next]_vars => (TypeOK /\ NoLostWakeup)'
  BY NextType, NextWakeup
<1> QED
  BY <1>1, <1>2, PTL DEF Spec

------------------------------------------------------------------------------
(* Every task is in one place                                               *)

\* Appending a value that is not there keeps the elements distinct.
LEMMA AppendDistinct ==
    ASSUME NEW S, NEW s \in Seq(S), NEW e \in S, NEW r, r = Append(s, e),
           IsInjective(s),
           e \notin Range(s)
    PROVE  /\ Range(r) = Range(s) \cup {e}
           /\ IsInjective(r)
<1>1. /\ DOMAIN r = 1 .. Len(s) + 1
      /\ DOMAIN s = 1 .. Len(s)
      /\ Len(s) \in Nat
      /\ r[Len(s) + 1] = e
      /\ \A i \in 1 .. Len(s) : r[i] = s[i]
  OBVIOUS
<1>2. Range(r) = Range(s) \cup {e}
  <2>1. \A i \in 1 .. Len(s) + 1 : i \in 1 .. Len(s) \/ i = Len(s) + 1
    BY <1>1
  <2>2. 1 .. Len(s) \subseteq 1 .. Len(s) + 1 /\ Len(s) + 1 \in 1 .. Len(s) + 1
    BY <1>1
  <2> QED
    BY <1>1, <2>1, <2>2 DEF Range
<1>3. IsInjective(r)
  <2> SUFFICES ASSUME NEW i \in DOMAIN r, NEW j \in DOMAIN r, r[i] = r[j]
               PROVE  i = j
    BY DEF IsInjective
  <2>1. \A k \in 1 .. Len(s) : r[k] # e
    BY <1>1 DEF Range
  <2> QED
    BY <1>1, <2>1 DEF IsInjective
<1> QED
  BY <1>2, <1>3

\* The head of a sequence without repetitions is not in its tail.
LEMMA TailDistinct ==
    ASSUME NEW S, NEW s \in Seq(S), s # <<>>, NEW r, r = Tail(s),
           IsInjective(s)
    PROVE  /\ Range(s) = Range(r) \cup {Head(s)}
           /\ Head(s) \notin Range(r)
           /\ IsInjective(r)
<1>1. /\ DOMAIN r = 1 .. Len(s) - 1
      /\ DOMAIN s = 1 .. Len(s)
      /\ Len(s) \in Nat \ {0}
      /\ Head(s) = s[1]
      /\ \A i \in 1 .. Len(s) - 1 : r[i] = s[i + 1]
  BY HeadTailProperties, EmptySeq
<1>2. \A i \in 1 .. Len(s) : i = 1 \/ (i - 1 \in 1 .. Len(s) - 1 /\ s[i] = r[i - 1])
  BY <1>1
<1>3. \A i \in 1 .. Len(s) - 1 : i + 1 \in 1 .. Len(s) /\ i + 1 # 1
  BY <1>1
<1>4. Range(s) = Range(r) \cup {Head(s)}
  <2>1. ASSUME NEW i \in DOMAIN s
        PROVE  s[i] \in Range(r) \cup {Head(s)}
    BY <1>1, <1>2 DEF Range
  <2>2. ASSUME NEW i \in DOMAIN r
        PROVE  r[i] \in Range(s)
    BY <1>1, <1>3 DEF Range
  <2>3. Head(s) \in Range(s)
    BY <1>1 DEF Range
  <2> QED
    BY <2>1, <2>2, <2>3 DEF Range
<1>5. Head(s) \notin Range(r)
  BY <1>1, <1>3 DEF Range, IsInjective
<1>6. IsInjective(r)
  <2> SUFFICES ASSUME NEW i \in DOMAIN r, NEW j \in DOMAIN r, r[i] = r[j]
               PROVE  i = j
    BY DEF IsInjective
  <2>1. i + 1 = j + 1
    BY <1>1, <1>3 DEF IsInjective
  <2> QED
    BY <1>1, <2>1
<1> QED
  BY <1>4, <1>5, <1>6

LEMMA InitConservation == Init => TaskConservation
BY DEF Init, TaskConservation, Pushed, Queued, Held, At, Range, IsInjective

LEMMA NextConservation ==
    TypeOK /\ TaskConservation /\ [Next]_vars => TaskConservation'
<1> SUFFICES ASSUME TypeOK, TaskConservation, [Next]_vars
             PROVE  TaskConservation'
  OBVIOUS
<1> USE NoTaskAssumption
<1>1. ASSUME NEW t \in Tasks, Push(t)
      PROVE  TaskConservation'
  <2>1. /\ Queued' = Queued \cup {t}
        /\ IsInjective(tasks')
    <3>1. t \notin Queued
      BY <1>1 DEF Push, TaskConservation
    <3>2. IsInjective(tasks)
      BY DEF TaskConservation
    <3> QED
      BY <1>1, <3>1, <3>2, AppendDistinct DEF Push, Queued, TypeOK
  <2>2. Pushed' = Pushed \cup {t}
    <3>1. /\ pushed' = Append(pushed, t)
          /\ pushed \in Seq(Tasks)
      BY <1>1 DEF Push, TypeOK
    <3>2. /\ DOMAIN pushed' = DOMAIN pushed \cup {Len(pushed) + 1}
          /\ pushed'[Len(pushed) + 1] = t
          /\ \A i \in DOMAIN pushed : pushed'[i] = pushed[i]
      BY <3>1
    <3> QED
      BY <3>2 DEF Pushed, Range
  <2>3. /\ t \notin done \cup dropped
        /\ \A w \in Workers : held[w] # t
    <3>1. t \notin Pushed
      BY <1>1 DEF Push
    <3>2. \A w \in Workers : held[w] = t => w \in At("popped") \cup At("running")
      BY DEF TypeOK, PC, At
    <3> QED
      BY <3>1, <3>2 DEF TaskConservation, Held
  <2>4. Held("popped")' = Held("popped") /\ Held("running")' = Held("running")
    BY <1>1 DEF Push, Wake, NotifyOne, Held, At, TypeOK
  <2>5. UNCHANGED <<held, done, dropped, stop>>
    BY <1>1 DEF Push
  <2> QED
    BY <2>1, <2>2, <2>3, <2>4, <2>5 DEF TaskConservation
<1>2. ASSUME NEW w \in Workers,
             \/ PopEmpty(w)
             \/ SpuriousWake(w)
      PROVE  TaskConservation'
  <2>1. Held("popped")' = Held("popped") /\ Held("running")' = Held("running")
    BY <1>2 DEF PopEmpty, Sleep, SpuriousWake, Held, At, TypeOK
  <2>2. UNCHANGED <<tasks, pushed, held, done, dropped, stop>>
    BY <1>2 DEF PopEmpty, SpuriousWake
  <2> QED
    BY <2>1, <2>2 DEF TaskConservation, Pushed, Queued
<1>3. ASSUME NEW w \in Workers, PopTask(w)
      PROVE  TaskConservation'
  <2> DEFINE t == Head(tasks)
  <2>1. /\ Queued = Queued' \cup {t}
        /\ t \notin Queued'
        /\ IsInjective(tasks')
    <3>1. tasks \in Seq(Tasks) /\ tasks # <<>> /\ tasks' = Tail(tasks)
      BY <1>3 DEF PopTask, TakeFront, TypeOK
    <3>2. IsInjective(tasks)
      BY DEF TaskConservation
    <3> QED
      BY <3>1, <3>2, TailDistinct DEF Queued
  <2>2. t \in Tasks /\ held' = [held EXCEPT ![w] = t] /\ held[w] = NoTask
    BY <1>3, HeadTailProperties DEF PopTask, TypeOK
  <2>3. Held("popped")' = Held("popped") \cup {t} /\ Held("running")' = Held("running")
    BY <1>3, <2>2 DEF PopTask, Held, At, TypeOK, PC
  <2>4. UNCHANGED <<pushed, done, dropped, stop>>
    BY <1>3 DEF PopTask
  <2>5. \A v \in Workers : held'[v] = IF v = w THEN t ELSE held[v]
    BY <2>2 DEF TypeOK
  <2>6. \A v \in Workers : held[v] # t
    BY <2>1 DEF TaskConservation
  <2>7. /\ \A u, v \in Workers : held'[u] = held'[v] /\ held'[u] # NoTask => u = v
        /\ \A v \in Workers : held'[v] \notin Queued' \cup done \cup dropped
    BY <2>1, <2>5, <2>6 DEF TaskConservation
  <2> QED
    BY <2>1, <2>3, <2>4, <2>7 DEF TaskConservation, Pushed
<1>4. ASSUME NEW w \in Workers, CheckStop(w)
      PROVE  TaskConservation'
  <2>1. pc[w] = "popped" /\ held[w] \in Tasks /\ held[w] # NoTask
    BY <1>4 DEF CheckStop, TypeOK
  <2>2. UNCHANGED <<tasks, pushed, done, stop>> /\ Queued' = Queued /\ Pushed' = Pushed
    BY <1>4 DEF CheckStop, Queued, Pushed
  <2>3. CASE stop
    <3>1. /\ pc' = [pc EXCEPT ![w] = "exited"]
          /\ held' = [held EXCEPT ![w] = NoTask]
          /\ dropped' = dropped \cup {held[w]}
      BY <1>4, <2>3 DEF CheckStop, StopSeen, ReleaseTask
    <3>2. \A v \in Workers : held'[v] = IF v = w THEN NoTask ELSE held[v]
      BY <3>1 DEF TypeOK
    <3>3. \A v \in Workers : pc'[v] = IF v = w THEN "exited" ELSE pc[v]
      BY <3>1 DEF TypeOK
    <3>4. Held("popped") = Held("popped")' \cup {held[w]} /\ Held("running")' = Held("running")
      BY <2>1, <3>2, <3>3 DEF Held, At
    <3>5. NoTask \notin Queued \cup done \cup dropped
      BY DEF TypeOK, Queued, Range
    <3>6. held[w] \notin Queued \cup done \cup dropped
      BY DEF TaskConservation
    <3>7. \A v \in Workers : v # w => held[v] # held[w]
      BY <2>1 DEF TaskConservation
    <3>8. \A v \in Workers : held'[v] \notin Queued' \cup done' \cup dropped'
      BY <2>1, <2>2, <3>1, <3>2, <3>5, <3>7 DEF TaskConservation
    <3>9. \A u, v \in Workers : held'[u] = held'[v] /\ held'[u] # NoTask => u = v
      BY <3>2 DEF TaskConservation
    <3> QED
      BY <2>2, <2>3, <3>1, <3>4, <3>6, <3>8, <3>9 DEF TaskConservation
  <2>4. CASE ~stop
    <3>1. /\ pc' = [pc EXCEPT ![w] = "running"]
          /\ UNCHANGED <<held, dropped>>
      BY <1>4, <2>4 DEF CheckStop, StopSeen
    <3>2. \A v \in Workers : pc'[v] = IF v = w THEN "running" ELSE pc[v]
      BY <3>1 DEF TypeOK
    <3>3. Held("popped")' \cup Held("running")' = Held("popped") \cup Held("running")
      BY <2>1, <3>1, <3>2 DEF Held, At
    <3> QED
      BY <2>2, <3>1, <3>3 DEF TaskConservation
  <2> QED
    BY <2>3, <2>4
<1>5. ASSUME NEW w \in Workers, FinishTask(w)
      PROVE  TaskConservation'
  <2>1. pc[w] = "running" /\ held[w] \in Tasks /\ held[w] # NoTask
    BY <1>5 DEF FinishTask, TypeOK
  <2>2. UNCHANGED <<tasks, pushed, dropped, stop>> /\ Queued' = Queued /\ Pushed' = Pushed
    BY <1>5 DEF FinishTask, Queued, Pushed
  <2>3. /\ pc' = [pc EXCEPT ![w] = "ready"]
        /\ held' = [held EXCEPT ![w] = NoTask]
        /\ done' = done \cup {held[w]}
    BY <1>5 DEF FinishTask, ReleaseTask
  <2>4. \A v \in Workers : held'[v] = IF v = w THEN NoTask ELSE held[v]
    BY <2>3 DEF TypeOK
  <2>5. \A v \in Workers : pc'[v] = IF v = w THEN "ready" ELSE pc[v]
    BY <2>3 DEF TypeOK
  <2>6. Held("running") = Held("running")' \cup {held[w]} /\ Held("popped")' = Held("popped")
    BY <2>1, <2>4, <2>5 DEF Held, At
  <2>7. NoTask \notin Queued \cup done \cup dropped
    BY DEF TypeOK, Queued, Range
  <2>8. held[w] \notin Queued \cup done \cup dropped
    BY DEF TaskConservation
  <2>9. \A v \in Workers : v # w => held[v] # held[w]
    BY <2>1 DEF TaskConservation
  <2>10. \A v \in Workers : held'[v] \notin Queued' \cup done' \cup dropped'
    BY <2>1, <2>2, <2>3, <2>4, <2>7, <2>9 DEF TaskConservation
  <2>11. \A u, v \in Workers : held'[u] = held'[v] /\ held'[u] # NoTask => u = v
    BY <2>4 DEF TaskConservation
  <2> QED
    BY <2>2, <2>3, <2>6, <2>8, <2>10, <2>11 DEF TaskConservation
<1>6. CASE UNCHANGED <<tasks, pc, held, pushed, done, dropped>> /\ (stop => stop')
  BY <1>6 DEF TaskConservation, Pushed, Queued, Held, At
<1> QED
  BY <1>1, <1>2, <1>3, <1>4, <1>5, <1>6 DEF Next, TaskThrows, Destroy, Joined, vars

\* Each closure given to push() is in the queue, in one thread, done or
\* dropped, and in one of these only: no request is served twice or vanishes.
THEOREM TasksConserved == Spec => []TaskConservation
<1>1. Init => TypeOK /\ TaskConservation
  BY InitType, InitConservation
<1>2. TypeOK /\ TaskConservation /\ [Next]_vars => (TypeOK /\ TaskConservation)'
  BY NextType, NextConservation
<1> QED
  BY <1>1, <1>2, PTL DEF Spec

------------------------------------------------------------------------------
(* A thread leaves the pool only with a task                                *)

\* ExitNeedsTask with what the destructor has seen once every join returned.
ExitInv ==
    /\ IsFiniteSet(dropped)
    /\ Cardinality(At("exited")) = Cardinality(dropped)
    /\ main = "destroyed" => At("exited") = Workers

LEMMA InitExit == Init => ExitInv
BY FS_EmptySet DEF Init, ExitInv, At

LEMMA NextExit == TypeOK /\ TaskConservation /\ ExitInv /\ [Next]_vars => ExitInv'
<1> SUFFICES ASSUME TypeOK, TaskConservation, ExitInv, [Next]_vars
             PROVE  ExitInv'
  OBVIOUS
<1> {"ready", "waiting", "popped", "running", "exited"} = PC
  BY DEF PC
<1>1. ASSUME At("exited")' = At("exited"), UNCHANGED <<main, dropped>>
      PROVE  ExitInv'
  BY <1>1 DEF ExitInv
<1>2. ASSUME NEW t \in Tasks, Push(t)
      PROVE  ExitInv'
  <2>1. At("exited")' = At("exited")
    BY <1>2 DEF Push, Wake, NotifyOne, At, TypeOK
  <2> QED
    BY <1>1, <1>2, <2>1 DEF Push
<1>3. ASSUME NEW w \in Workers,
             PopEmpty(w) \/ PopTask(w) \/ SpuriousWake(w) \/ FinishTask(w)
      PROVE  ExitInv'
  <2>1. At("exited")' = At("exited")
    BY <1>3 DEF PopEmpty, Sleep, PopTask, SpuriousWake, FinishTask, At, TypeOK
  <2> QED
    BY <1>1, <1>3, <2>1 DEF PopEmpty, PopTask, SpuriousWake, FinishTask
<1>4. ASSUME NEW w \in Workers, CheckStop(w)
      PROVE  ExitInv'
  <2>1. pc[w] = "popped" /\ main' = main
    BY <1>4 DEF CheckStop
  <2>2. CASE stop
    <3>1. /\ pc' = [pc EXCEPT ![w] = "exited"]
          /\ dropped' = dropped \cup {held[w]}
      BY <1>4, <2>2 DEF CheckStop, StopSeen
    <3>2. held[w] \notin dropped
      BY DEF TaskConservation
    <3>3. /\ IsFiniteSet(dropped')
          /\ Cardinality(dropped') = Cardinality(dropped) + 1
      BY <3>1, <3>2, FS_AddElement DEF ExitInv
    <3>4. Cardinality(At("exited")') = Cardinality(At("exited")) + 1
      BY <2>1, <3>1, AtGrows
    <3>5. main = "destroyed" => At("exited")' = Workers
      BY <2>1 DEF ExitInv, At
    <3> QED
      BY <2>1, <3>3, <3>4, <3>5 DEF ExitInv
  <2>3. CASE ~stop
    <3>1. pc' = [pc EXCEPT ![w] = "running"] /\ dropped' = dropped
      BY <1>4, <2>3 DEF CheckStop, StopSeen
    <3>2. At("exited")' = At("exited")
      BY <2>1, <3>1, AtUntouched
    <3> QED
      BY <1>1, <2>1, <3>1, <3>2
  <2> QED
    BY <2>2, <2>3
<1>5. CASE Destroy
  BY <1>5 DEF Destroy, ExitInv, At
<1>6. CASE Joined
  BY <1>6 DEF Joined, ExitInv, At
<1>7. CASE UNCHANGED <<pc, main, dropped>>
  BY <1>7 DEF ExitInv, At
<1> QED
  BY <1>2, <1>3, <1>4, <1>5, <1>6, <1>7 DEF Next, TaskThrows, vars

\* As many tasks are lost as threads have ended, and the destructor returns
\* only after it lost one for every thread: without that many requests still
\* queued it never returns.
THEOREM DestructorNeedsTasks == Spec => []ExitNeedsTask
<1>1. Init => TypeOK /\ TaskConservation /\ ExitInv
  BY InitType, InitConservation, InitExit
<1>2. TypeOK /\ TaskConservation /\ ExitInv /\ [Next]_vars
        => (TypeOK /\ TaskConservation /\ ExitInv)'
  BY NextType, NextConservation, NextExit
<1>3. ExitInv => ExitNeedsTask
  BY DEF ExitInv, ExitNeedsTask
<1> QED
  BY <1>1, <1>2, <1>3, PTL DEF Spec

------------------------------------------------------------------------------
(* The pool implements TaskService                                          *)

\* The queue holds the youngest of the pushed tasks, in the order of push().
QueueOrder ==
    /\ IsInjective(pushed)
    /\ Len(tasks) <= Len(pushed)
    /\ \A i \in 1 .. Len(tasks) : tasks[i] = pushed[Len(pushed) - Len(tasks) + i]

LEMMA InitOrder == Init => QueueOrder
BY DEF Init, QueueOrder, IsInjective

LEMMA NextOrder == TypeOK /\ QueueOrder /\ [Next]_vars => QueueOrder'
<1> SUFFICES ASSUME TypeOK, QueueOrder, [Next]_vars
             PROVE  QueueOrder'
  OBVIOUS
<1> /\ tasks \in Seq(Tasks) /\ pushed \in Seq(Tasks)
    /\ Len(tasks) \in Nat /\ Len(pushed) \in Nat
  BY DEF TypeOK
<1>1. ASSUME NEW t \in Tasks, Push(t)
      PROVE  QueueOrder'
  <2>1. /\ tasks' = Append(tasks, t)
        /\ pushed' = Append(pushed, t)
        /\ t \notin Range(pushed)
    BY <1>1 DEF Push, Pushed
  <2>2. IsInjective(pushed')
    BY <2>1, AppendDistinct DEF QueueOrder
  <2>3. Len(tasks') = Len(tasks) + 1 /\ Len(pushed') = Len(pushed) + 1
    BY <2>1
  <2>4. ASSUME NEW i \in 1 .. Len(tasks')
        PROVE  tasks'[i] = pushed'[Len(pushed') - Len(tasks') + i]
    <3>1. CASE i = Len(tasks) + 1
      BY <2>1, <2>3, <3>1
    <3>2. CASE i \in 1 .. Len(tasks)
      <4> DEFINE k == Len(pushed) - Len(tasks) + i
      <4>1. k \in 1 .. Len(pushed)
        BY <3>2 DEF QueueOrder
      <4>2. tasks'[i] = tasks[i] /\ pushed'[k] = pushed[k]
        BY <2>1, <3>2, <4>1
      <4>3. tasks[i] = pushed[k]
        BY <3>2 DEF QueueOrder
      <4>4. k = Len(pushed') - Len(tasks') + i
        BY <2>3
      <4> QED
        BY <4>2, <4>3, <4>4
    <3> QED
      BY <2>3, <3>1, <3>2
  <2> QED
    BY <2>2, <2>3, <2>4 DEF QueueOrder
<1>2. ASSUME NEW w \in Workers, PopTask(w)
      PROVE  QueueOrder'
  <2>1. tasks # <<>> /\ tasks' = Tail(tasks) /\ pushed' = pushed
    BY <1>2 DEF PopTask, TakeFront
  <2>2. /\ Len(tasks') = Len(tasks) - 1
        /\ \A i \in 1 .. Len(tasks') : tasks'[i] = tasks[i + 1]
    BY <2>1, HeadTailProperties
  <2>3. ASSUME NEW i \in 1 .. Len(tasks')
        PROVE  tasks'[i] = pushed'[Len(pushed') - Len(tasks') + i]
    <3>1. i + 1 \in 1 .. Len(tasks) /\ tasks'[i] = tasks[i + 1]
      BY <2>2
    <3>2. tasks[i + 1] = pushed[Len(pushed) - Len(tasks) + (i + 1)]
      BY <3>1 DEF QueueOrder
    <3>3. Len(pushed) - Len(tasks) + (i + 1) = Len(pushed') - Len(tasks') + i
      BY <2>1, <2>2
    <3> QED
      BY <2>1, <3>1, <3>2, <3>3
  <2> QED
    BY <2>1, <2>2, <2>3 DEF QueueOrder
<1>3. ASSUME UNCHANGED <<tasks, pushed>>
      PROVE  QueueOrder'
  BY <1>3 DEF QueueOrder
<1>4. ASSUME NEW w \in Workers,
             \/ PopEmpty(w) \/ SpuriousWake(w)
             \/ CheckStop(w) \/ FinishTask(w) \/ TaskThrows(w)
      PROVE  QueueOrder'
  BY <1>3, <1>4 DEF PopEmpty, SpuriousWake, CheckStop, FinishTask, TaskThrows
<1>5. CASE Destroy \/ Joined \/ UNCHANGED vars
  BY <1>3, <1>5 DEF Destroy, Joined, vars
<1> QED
  BY <1>1, <1>2, <1>4, <1>5 DEF Next

\* The abstract status of the tasks.
status == [t \in Tasks |-> Status(t)]

\* How one task moves while every other one stays.
LEMMA StatusMove ==
    ASSUME NEW t \in Tasks, NEW to,
           Status(t)' = to,
           \A u \in Tasks \ {t} : Status(u)' = Status(u)
    PROVE  status' = [status EXCEPT ![t] = to]
BY DEF status

LEMMA PushMoves ==
    ASSUME TypeOK, TaskConservation, NEW t \in Tasks, Push(t)
    PROVE  /\ status[t] = "new"
           /\ status' = [status EXCEPT ![t] = "queued"]
<1>1. t \notin Queued /\ t \notin Held("popped") /\ t \notin Held("running")
      /\ t \notin done /\ t \notin dropped
  BY DEF Push, TaskConservation
<1>2. Status(t) = "new"
  BY <1>1 DEF Status
<1>3. Queued' = Queued \cup {t}
  BY <1>1, AppendDistinct DEF Push, Queued, TypeOK, TaskConservation
<1>4. Held("popped")' = Held("popped") /\ Held("running")' = Held("running")
  BY DEF Push, Wake, NotifyOne, Held, At, TypeOK
<1>5. done' = done /\ dropped' = dropped
  BY DEF Push
<1>6. Status(t)' = "queued"
  BY <1>3 DEF Status
<1>7. \A u \in Tasks \ {t} : Status(u)' = Status(u)
  BY <1>3, <1>4, <1>5 DEF Status
<1> QED
  BY <1>2, <1>6, <1>7, StatusMove DEF status

LEMMA PopMoves ==
    ASSUME TypeOK, TaskConservation, NEW w \in Workers, PopTask(w)
    PROVE  /\ Head(tasks) \in Tasks
           /\ status[Head(tasks)] = "queued"
           /\ status' = [status EXCEPT ![Head(tasks)] = "taken"]
<1> PICK t : t = Head(tasks)
  OBVIOUS
<1>1. tasks \in Seq(Tasks) /\ tasks # <<>> /\ tasks' = Tail(tasks)
  BY DEF PopTask, TakeFront, TypeOK
<1>2. t \in Tasks
  BY <1>1, HeadTailProperties
<1>3. Queued = Queued' \cup {t} /\ t \notin Queued'
  BY <1>1, TailDistinct DEF Queued, TaskConservation
<1>4. held' = [held EXCEPT ![w] = t] /\ pc' = [pc EXCEPT ![w] = "popped"]
      /\ pc[w] = "ready"
  BY DEF PopTask
<1>5. /\ \A v \in Workers : held'[v] = IF v = w THEN t ELSE held[v]
      /\ \A v \in Workers : pc'[v] = IF v = w THEN "popped" ELSE pc[v]
  BY <1>4 DEF TypeOK
<1>6. Held("popped")' = Held("popped") \cup {t} /\ Held("running")' = Held("running")
  BY <1>4, <1>5 DEF Held, At
<1>7. done' = done /\ dropped' = dropped
  BY DEF PopTask
<1>8. Status(t) = "queued"
  BY <1>3 DEF Status
<1>9. Status(t)' = "taken"
  BY <1>3, <1>6 DEF Status
<1>10. \A u \in Tasks \ {t} : Status(u)' = Status(u)
  BY <1>3, <1>6, <1>7 DEF Status
<1> QED
  BY <1>2, <1>8, <1>9, <1>10, StatusMove DEF status

\* What a thread holds after pop() is in no other place.
LEMMA HeldAlone ==
    ASSUME TypeOK, TaskConservation, NEW w \in Workers,
           pc[w] \in {"popped", "running"}
    PROVE  /\ held[w] \in Tasks
           /\ held[w] \notin Queued \cup done \cup dropped
           /\ \A v \in Workers : held[v] = held[w] => v = w
           /\ Status(held[w]) = IF pc[w] = "popped" THEN "taken" ELSE "running"
<1>1. held[w] \in Tasks /\ held[w] # NoTask
  BY DEF TypeOK
<1>2. held[w] \notin Queued \cup done \cup dropped
  BY DEF TaskConservation
<1>3. \A v \in Workers : held[v] = held[w] => v = w
  BY <1>1 DEF TaskConservation
<1>4. held[w] \in Held("popped") <=> pc[w] = "popped"
  BY <1>3 DEF Held, At
<1>5. held[w] \in Held("running") <=> pc[w] = "running"
  BY <1>3 DEF Held, At
<1>6. Status(held[w]) = IF pc[w] = "popped" THEN "taken" ELSE "running"
  <2>1. CASE pc[w] = "popped"
    BY <1>2, <1>4, <2>1 DEF Status
  <2>2. CASE pc[w] = "running"
    BY <1>2, <1>4, <1>5, <2>2 DEF Status
  <2> QED
    BY <2>1, <2>2
<1> QED
  BY <1>1, <1>2, <1>3, <1>6

LEMMA CheckStopMoves ==
    ASSUME TypeOK, TaskConservation, NEW w \in Workers, CheckStop(w)
    PROVE  /\ held[w] \in Tasks
           /\ status[held[w]] = "taken"
           /\ status' = [status EXCEPT
                            ![held[w]] = IF stop THEN "discarded" ELSE "running"]
<1> PICK t : t = held[w]
  OBVIOUS
<1>1. pc[w] = "popped" /\ Queued' = Queued /\ done' = done
  BY DEF CheckStop, Queued
<1>2. /\ t \in Tasks
      /\ t \notin Queued \cup done \cup dropped
      /\ \A v \in Workers : held[v] = t => v = w
      /\ Status(t) = "taken"
  BY <1>1, HeldAlone
<1>3. CASE stop
  <2>1. /\ pc' = [pc EXCEPT ![w] = "exited"]
        /\ held' = [held EXCEPT ![w] = NoTask]
        /\ dropped' = dropped \cup {t}
    BY <1>3 DEF CheckStop, StopSeen, ReleaseTask
  <2>2. /\ \A v \in Workers : held'[v] = IF v = w THEN NoTask ELSE held[v]
        /\ \A v \in Workers : pc'[v] = IF v = w THEN "exited" ELSE pc[v]
    BY <2>1 DEF TypeOK
  <2>3. Held("popped")' = Held("popped") \ {t} /\ Held("running")' = Held("running")
    BY <1>1, <1>2, <2>2 DEF Held, At
  <2>4. t \notin Held("running")
    BY <1>1, <1>2 DEF Held, At
  <2>5. Status(t)' = "discarded"
    BY <1>1, <1>2, <2>1, <2>3, <2>4 DEF Status
  <2>6. \A u \in Tasks \ {t} : Status(u)' = Status(u)
    BY <1>1, <2>1, <2>3 DEF Status
  <2> QED
    BY <1>2, <1>3, <2>5, <2>6, StatusMove DEF status
<1>4. CASE ~stop
  <2>1. /\ pc' = [pc EXCEPT ![w] = "running"]
        /\ held' = held
        /\ dropped' = dropped
    BY <1>4 DEF CheckStop, StopSeen
  <2>2. \A v \in Workers : pc'[v] = IF v = w THEN "running" ELSE pc[v]
    BY <2>1 DEF TypeOK
  <2>3. /\ Held("popped")' = Held("popped") \ {t}
        /\ Held("running")' = Held("running") \cup {t}
    BY <1>1, <1>2, <2>1, <2>2 DEF Held, At
  <2>4. Status(t)' = "running"
    BY <1>1, <1>2, <2>3 DEF Status
  <2>5. \A u \in Tasks \ {t} : Status(u)' = Status(u)
    BY <1>1, <2>1, <2>3 DEF Status
  <2> QED
    BY <1>2, <1>4, <2>4, <2>5, StatusMove DEF status
<1> QED
  BY <1>3, <1>4 DEF TypeOK

LEMMA FinishMoves ==
    ASSUME TypeOK, TaskConservation, NEW w \in Workers, FinishTask(w)
    PROVE  /\ held[w] \in Tasks
           /\ status[held[w]] = "running"
           /\ status' = [status EXCEPT ![held[w]] = "done"]
<1> PICK t : t = held[w]
  OBVIOUS
<1>1. pc[w] = "running" /\ Queued' = Queued /\ dropped' = dropped
  BY DEF FinishTask, Queued
<1>2. /\ t \in Tasks
      /\ t \notin Queued \cup done \cup dropped
      /\ \A v \in Workers : held[v] = t => v = w
      /\ Status(t) = "running"
  BY <1>1, HeldAlone
<1>3. /\ pc' = [pc EXCEPT ![w] = "ready"]
      /\ held' = [held EXCEPT ![w] = NoTask]
      /\ done' = done \cup {t}
  BY DEF FinishTask, ReleaseTask
<1>4. /\ \A v \in Workers : held'[v] = IF v = w THEN NoTask ELSE held[v]
      /\ \A v \in Workers : pc'[v] = IF v = w THEN "ready" ELSE pc[v]
  BY <1>3 DEF TypeOK
<1>5. Held("running")' = Held("running") \ {t} /\ Held("popped")' = Held("popped")
  BY <1>1, <1>2, <1>4 DEF Held, At
<1>6. t \notin Held("popped")
  BY <1>1, <1>2 DEF Held, At
<1>7. Status(t)' = "done"
  BY <1>1, <1>2, <1>3, <1>5, <1>6 DEF Status
<1>8. \A u \in Tasks \ {t} : Status(u)' = Status(u)
  BY <1>1, <1>3, <1>5 DEF Status
<1> QED
  BY <1>2, <1>7, <1>8, StatusMove DEF status

LEMMA InitService == Init => Service!SInit
<1> SUFFICES ASSUME Init
             PROVE  Service!SInit
  OBVIOUS
<1>1. \A t \in Tasks : Status(t) = "new"
  BY DEF Init, Status, Queued, Held, At, Range
<1> QED
  BY <1>1 DEF Init, Service!SInit

LEMMA NextService ==
    TypeOK /\ TaskConservation /\ QueueOrder /\ (main = "serving" <=> ~stop)
      /\ [Next]_vars
      => [Service!SNext]_(Service!svars)
<1> SUFFICES ASSUME TypeOK, TaskConservation, QueueOrder, main = "serving" <=> ~stop,
                    [Next]_vars
             PROVE  [Service!SNext]_(Service!svars)
  OBVIOUS
<1> USE DEF status
<1>1. ASSUME NEW t \in Tasks, Push(t)
      PROVE  Service!SNext
  <2>1. Service!Submit(t)
    BY <1>1, PushMoves DEF Push, Service!Submit, Service!MoveTo
  <2> QED
    BY <2>1 DEF Service!SNext
<1>2. ASSUME NEW w \in Workers, PopTask(w)
      PROVE  Service!SNext
  <2> DEFINE k == Len(pushed) - Len(tasks) + 1
  <2>1. /\ tasks \in Seq(Tasks) /\ pushed \in Seq(Tasks) /\ tasks # <<>>
        /\ Len(tasks) \in Nat \ {0} /\ Len(pushed) \in Nat
        /\ Head(tasks) = tasks[1]
    BY <1>2, EmptySeq DEF PopTask, TypeOK
  <2>2. k \in DOMAIN pushed /\ pushed[k] = Head(tasks)
    BY <2>1 DEF QueueOrder
  <2>3. ASSUME NEW j \in 1 .. k - 1
        PROVE  pushed[j] \notin Queued
    <3> SUFFICES ASSUME NEW i \in 1 .. Len(tasks), pushed[j] = tasks[i]
                 PROVE  FALSE
      BY <2>1 DEF Queued, Range
    <3>1. pushed[j] = pushed[Len(pushed) - Len(tasks) + i]
      BY DEF QueueOrder
    <3>2. j \in DOMAIN pushed /\ Len(pushed) - Len(tasks) + i \in DOMAIN pushed
      BY <2>1 DEF QueueOrder
    <3>3. j = Len(pushed) - Len(tasks) + i
      BY <3>1, <3>2 DEF QueueOrder, IsInjective
    <3> QED
      BY <2>1, <3>3
  <2>4. \A j \in 1 .. k - 1 : status[pushed[j]] # "queued"
    <3>1. \A j \in 1 .. k - 1 : pushed[j] \in Tasks
      BY <2>1, <2>2
    <3> QED
      BY <2>3, <3>1 DEF Status
  <2> HIDE DEF k
  <2>5. Service!Take(Head(tasks))
    BY <1>2, <2>2, <2>4, PopMoves DEF PopTask, Service!Take, Service!MoveTo
  <2> QED
    BY <2>5, PopMoves, <1>2 DEF Service!SNext
<1>3. ASSUME NEW w \in Workers, CheckStop(w)
      PROVE  Service!SNext
  <2>1. UNCHANGED <<pushed, stop, terminated>> /\ ~terminated
    BY <1>3 DEF CheckStop
  <2>2. CASE stop
    <3>1. Service!Discard(held[w])
      BY <1>3, <2>1, <2>2, CheckStopMoves DEF Service!Discard, Service!MoveTo
    <3> QED
      BY <1>3, <3>1, CheckStopMoves DEF Service!SNext
  <2>3. CASE ~stop
    <3>1. Service!Start(held[w])
      BY <1>3, <2>1, <2>3, CheckStopMoves DEF Service!Start, Service!MoveTo
    <3> QED
      BY <1>3, <3>1, CheckStopMoves DEF Service!SNext
  <2> QED
    BY <2>2, <2>3
<1>4. ASSUME NEW w \in Workers, FinishTask(w)
      PROVE  Service!SNext
  <2>1. Service!Complete(held[w])
    BY <1>4, FinishMoves DEF FinishTask, Service!Complete, Service!MoveTo
  <2> QED
    BY <1>4, <2>1, FinishMoves DEF Service!SNext
<1>5. ASSUME UNCHANGED <<Queued, Held("popped"), Held("running"), done, dropped>>
      PROVE  status' = status
  BY <1>5 DEF Status
<1>6. ASSUME NEW w \in Workers, PopEmpty(w) \/ SpuriousWake(w)
      PROVE  UNCHANGED Service!svars
  <2>1. UNCHANGED <<Queued, Held("popped"), Held("running"), done, dropped>>
    BY <1>6 DEF PopEmpty, Sleep, SpuriousWake, Queued, Held, At, TypeOK
  <2> QED
    BY <1>5, <1>6, <2>1 DEF PopEmpty, SpuriousWake, Service!svars
<1>7. ASSUME UNCHANGED <<tasks, pc, held, done, dropped>>
      PROVE  status' = status
  BY <1>5, <1>7 DEF Queued, Held, At
<1>8. ASSUME NEW w \in Workers, TaskThrows(w)
      PROVE  Service!SNext
  <2>1. held[w] \in Tasks /\ status[held[w]] = "running"
    BY <1>8, HeldAlone DEF TaskThrows
  <2>2. Service!Crash(held[w])
    BY <1>7, <1>8, <2>1 DEF TaskThrows, Service!Crash
  <2> QED
    BY <2>1, <2>2 DEF Service!SNext
<1>9. CASE Destroy
  <2>1. Service!Close
    BY <1>7, <1>9 DEF Destroy, Service!Close
  <2> QED
    BY <2>1 DEF Service!SNext
<1>10. CASE Joined \/ UNCHANGED vars
  BY <1>7, <1>10 DEF Joined, vars, Service!svars
<1> QED
  BY <1>1, <1>2, <1>3, <1>4, <1>6, <1>8, <1>9, <1>10 DEF Next

\* Every behaviour of the threads, the mutex and the condition variable is
\* one of the service: tasks leave the queue in the order of push(), run at
\* most once, start only before the destructor, and are lost only after it.
THEOREM PoolImplementsService == Spec => ImplementsTaskService
<1> DEFINE Inv == /\ TypeOK
                  /\ TaskConservation
                  /\ QueueOrder
                  /\ main = "serving" <=> ~stop
<1>1. Init => Inv
  BY InitType, InitConservation, InitOrder DEF Init
<1>2. Inv /\ [Next]_vars => Inv'
  <2> SUFFICES ASSUME Inv, [Next]_vars
               PROVE  (main = "serving" <=> ~stop)'
    BY NextType, NextConservation, NextOrder
  <2> QED
    BY DEF Next, vars, Push, PopEmpty, PopTask, SpuriousWake, CheckStop,
           FinishTask, TaskThrows, Destroy, Joined
<1>3. Init => Service!SInit
  BY InitService
<1>4. Inv /\ [Next]_vars => [Service!SNext]_(Service!svars)
  BY NextService
<1> QED
  BY <1>1, <1>2, <1>3, <1>4, PTL DEF Spec, ImplementsTaskService, Service!SSpec

==============================================================================
