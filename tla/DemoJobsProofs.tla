--------------------------- MODULE DemoJobsProofs ---------------------------
(***************************************************************************)
(* Theorems about DemoJobs for any number of handlers, threads, jobs,      *)
(* restarts and failures, and any queue limit.                             *)
(***************************************************************************)
EXTENDS DemoJobs, FiniteSetTheorems, TLAPS

---------------------------------------------------------------------------
(* The inductive invariant. *)

(* The thread in the work loop is the one _worker refers to; a dying thread *)
(* may still be referred to, but is in the loop no more.                   *)
LoopIsReferenced == \A w \in Threads : thread[w].at \in InLoop => worker = w

(* A thread's picked job is the oldest in the queue and still there, and   *)
(* the job it works on is running.                                         *)
JobMatchesPlace ==
  \A w \in Threads :
    /\ thread[w].at = "picked" =>
         /\ jobs[thread[w].job].status = "queued"
         /\ \A j \in DOMAIN jobs : j < thread[w].job => jobs[j].status # "queued"
    /\ thread[w].at \in WithJob \ {"picked"} => jobs[thread[w].job].status = "running"

(* What a thread is about to mark done has been delivered. *)
DeliveredIsValidated ==
  \A w \in Threads :
    progressive /\ thread[w].at = "delivered" =>
      /\ jobs[thread[w].job].validated
      /\ jobs[thread[w].job].sections = Sections

IInv ==
  /\ TypeOK
  /\ LoopIsReferenced
  /\ JobMatchesPlace
  /\ DeliveredIsValidated
  /\ ServedInOrder
  /\ DoneIsDelivered

---------------------------------------------------------------------------
(* A nonempty set of naturals has a least element. *)
LEMMA MinimumExists ==
  ASSUME NEW S \in SUBSET Nat, S # {}
  PROVE  \E x \in S : \A y \in S : x <= y
<1> DEFINE below(m) == {k \in S : k < m}
           B == {below(m) : m \in S}
           R == StrictSubsetOrdering(Nat)
<1>1. B \subseteq FiniteSubsetsOf(Nat)
  <2> SUFFICES ASSUME NEW m \in S PROVE IsFiniteSet(below(m))
    BY DEF FiniteSubsetsOf
  <2>1. m \in Nat /\ \A k \in S : k \in Nat
    OBVIOUS
  <2>2. \A k \in below(m) : k \in 0..m
    BY <2>1
  <2>3. IsFiniteSet(0..m)
    BY <2>1, FS_Interval
  <2>4. below(m) \in SUBSET (0..m)
    BY <2>2
  <2> QED
    BY <2>3, <2>4, FS_Subset
<1>2. IsWellFoundedOn(R, FiniteSubsetsOf(Nat))
  BY FS_StrictSubsetOrderingWellFounded
<1>3. B # {}
  OBVIOUS
<1>4. PICK b \in B : \A c \in B : ~ (<<c, b>> \in R)
  <2> HIDE DEF B, R
  <2> QED
    BY <1>1, <1>2, <1>3, WFMin
<1>5. PICK m \in S : b = below(m)
  OBVIOUS
<1>6. ASSUME NEW y \in S, y < m PROVE FALSE
  <2>1. below(y) \subseteq below(m) /\ below(y) # below(m)
    <3>1. y \in below(m) /\ y \notin below(y)
      BY <1>6
    <3>2. \A k \in S : k < y => k < m
      BY <1>6
    <3> QED
      BY <3>1, <3>2
  <2>2. below(y) \in SUBSET Nat /\ below(m) \in SUBSET Nat
    OBVIOUS
  <2>3. <<below(y), b>> \in R
    BY <1>5, <2>1, <2>2 DEF StrictSubsetOrdering
  <2> QED
    BY <1>4, <2>3
<1> QED
  BY <1>6

(* next_queued returns 0 exactly when the queue is empty, and otherwise    *)
(* the oldest queued job.                                                  *)
LEMMA NextQueued ==
  ASSUME jobs \in Seq(JobRecords)
  PROVE  \/ Queued = {} /\ next_queued = 0
         \/ /\ next_queued \in Queued
            /\ \A j \in DOMAIN jobs : j < next_queued => jobs[j].status # "queued"
<1>1. CASE Queued = {}
  BY <1>1 DEF next_queued
<1>2. CASE Queued # {}
  <2>1. Queued \in SUBSET Nat
    BY DEF Queued
  <2>2. PICK x \in Queued : \A y \in Queued : x <= y
    BY <1>2, <2>1, MinimumExists
  <2>3. next_queued \in Queued /\ \A y \in Queued : next_queued <= y
    BY <1>2, <2>2 DEF next_queued
  <2>4. \A j \in DOMAIN jobs : j < next_queued => j \notin Queued
    BY <2>1, <2>3
  <2> QED
    BY <2>3, <2>4 DEF Queued
<1> QED
  BY <1>1, <1>2

---------------------------------------------------------------------------
(* What the building blocks of a step do to a well-typed state. *)

(* In the work loop a thread is alone. *)
LEMMA Alone == ASSUME LoopIsReferenced PROVE OneWorker
BY DEF LoopIsReferenced, OneWorker

(* Update replaces one job and keeps the order and number of the others. *)
LEMMA Updated ==
  ASSUME TypeOK, NEW w \in Threads, thread[w].at \in WithJob,
         NEW job \in JobRecords, Update(w, job)
  PROVE  /\ jobs' \in Seq(JobRecords)
         /\ DOMAIN jobs' = DOMAIN jobs
         /\ jobs'[thread[w].job] = job
         /\ \A k \in DOMAIN jobs : k # thread[w].job => jobs'[k] = jobs[k]
BY DEF TypeOK, Update

(* A thread moves by itself. *)
LEMMA Moved ==
  ASSUME TypeOK, NEW w \in Threads, NEW at \in InLoop \cup {"leaving", "dead"},
         NEW job \in Nat, Move(w, at, job)
  PROVE  /\ thread' \in [Threads -> Places]
         /\ thread'[w].at = at /\ thread'[w].job = job
         /\ \A v \in Threads : v # w => thread'[v] = thread[v]
BY DEF TypeOK, Move, Places

---------------------------------------------------------------------------
(* The invariant is inductive. *)

LEMMA InitIInv == Init => IInv
<1> SUFFICES ASSUME Init PROVE IInv
  OBVIOUS
<1>1. thread \in [Threads -> Places] /\ \A w \in Threads : thread[w].at = "dead"
  BY DEF Init, Dead, Places
<1>2. DOMAIN jobs = {} /\ jobs \in Seq(JobRecords)
  BY DEF Init
<1>3. TypeOK
  BY <1>1, <1>2, DemoAssumption DEF Init, TypeOK, WithJob
<1> QED
  BY <1>1, <1>2, <1>3 DEF IInv, LoopIsReferenced, JobMatchesPlace, DeliveredIsValidated,
     ServedInOrder, DoneIsDelivered, InLoop, WithJob

(* Steps of a handler: a new job is behind all others, and a thread is     *)
(* started only when none is in the work loop.                             *)
LEMMA HandlerKeepsIInv ==
  ASSUME IInv, NEW h \in Handlers, Admit(h) \/ Enqueue(h)
  PROVE  IInv'
<1> USE DEF IInv
<1>1. CASE Admit(h)
  <2>1. UNCHANGED <<progressive, jobs, thread, worker, lock, restarts, faults>>
    BY <1>1 DEF Admit
  <2>2. TypeOK'
    BY <1>1, <2>1 DEF Admit, TypeOK
  <2> QED
    BY <2>1, <2>2 DEF LoopIsReferenced, JobMatchesPlace, DeliveredIsValidated,
       ServedInOrder, DoneIsDelivered
<1>2. CASE Create(h)
  <2>1. UNCHANGED <<progressive, thread, worker, lock, restarts, faults>>
    BY <1>2 DEF Create
  <2>2. NewJob \in JobRecords
    BY DemoAssumption DEF NewJob, JobRecords, Statuses
  <2>3. /\ jobs' \in Seq(JobRecords)
        /\ DOMAIN jobs' = 1..(Len(jobs) + 1) /\ DOMAIN jobs = 1..Len(jobs)
        /\ Len(jobs) \in Nat
        /\ jobs'[Len(jobs) + 1] = NewJob
        /\ \A j \in DOMAIN jobs : jobs'[j] = jobs[j]
    BY <1>2, <2>2 DEF Create, TypeOK
  <2>4. TypeOK'
    BY <1>2, <2>1, <2>3 DEF Create, TypeOK
  <2>5. LoopIsReferenced'
    BY <2>1 DEF LoopIsReferenced
  <2>6. JobMatchesPlace' /\ DeliveredIsValidated'
    BY <2>1, <2>3 DEF JobMatchesPlace, DeliveredIsValidated, TypeOK, WithJob
  <2>7. ServedInOrder' /\ DoneIsDelivered'
    BY <2>1, <2>3 DEF ServedInOrder, DoneIsDelivered, NewJob
  <2> QED
    BY <2>4, <2>5, <2>6, <2>7
<1>3. CASE EnsureWorker(h)
  <2>1. UNCHANGED <<progressive, jobs, lock, restarts, faults>>
        /\ handler' \in [Handlers -> {"idle", "admitted", "created"}]
    BY <1>3 DEF EnsureWorker, TypeOK
  <2>2. CASE UNCHANGED <<thread, worker>>
    BY <2>1, <2>2 DEF TypeOK, LoopIsReferenced, JobMatchesPlace,
       DeliveredIsValidated, ServedInOrder, DoneIsDelivered
  <2>3. CASE ~ UNCHANGED <<thread, worker>>
    <3>1. /\ ~ (worker # None /\ is_alive(worker))
          /\ \E w \in Threads : /\ ~ is_alive(w) /\ worker' = w
                                /\ thread' = [thread EXCEPT ![w] = Loop]
      BY <1>3, <2>3 DEF EnsureWorker
    <3>2. PICK w \in Threads : worker' = w /\ thread' = [thread EXCEPT ![w] = Loop]
      BY <3>1
    <3>3. /\ thread' \in [Threads -> Places] /\ thread'[w] = Loop
          /\ \A v \in Threads : v # w => thread'[v] = thread[v]
      BY <3>2 DEF TypeOK, Loop, Places, InLoop
    <3>4. \A v \in Threads : thread[v].at \notin InLoop
      BY <3>1, DemoAssumption DEF LoopIsReferenced, is_alive, InLoop, WithJob
    <3>5. \A v \in Threads : thread'[v].at \notin WithJob
      BY <3>3, <3>4 DEF Loop, InLoop, WithJob
    <3>6. TypeOK'
      BY <2>1, <3>2, <3>3, <3>5 DEF TypeOK
    <3>7. LoopIsReferenced'
      BY <3>2, <3>3, <3>4 DEF LoopIsReferenced
    <3>8. JobMatchesPlace' /\ DeliveredIsValidated'
      BY <3>5 DEF JobMatchesPlace, DeliveredIsValidated, WithJob
    <3>9. ServedInOrder' /\ DoneIsDelivered'
      BY <2>1 DEF ServedInOrder, DoneIsDelivered
    <3> QED
      BY <3>6, <3>7, <3>8, <3>9
  <2> QED
    BY <2>2, <2>3
<1> QED
  BY <1>1, <1>2, <1>3 DEF Enqueue

(* A thread that moves without touching a job keeps the invariant when its *)
(* new place is right for its job.                                         *)
LEMMA MoveKeepsIInv ==
  ASSUME IInv, NEW w \in Threads, NEW at \in InLoop \cup {"leaving", "dead"},
         NEW job \in Nat, Move(w, at, job),
         UNCHANGED <<progressive, jobs, handler, restarts>>, faults' \in 0..MaxFaults,
         lock' \in Threads \cup {None},
         \/ worker' = worker /\ (thread[w].at \in InLoop \/ at \notin InLoop)
         \/ worker' = None /\ thread[w].at \in InLoop /\ at \notin InLoop,
         at \in WithJob => job \in DOMAIN jobs,
         at = "picked" =>
           /\ jobs[job].status = "queued"
           /\ \A j \in DOMAIN jobs : j < job => jobs[j].status # "queued",
         at \in WithJob \ {"picked"} => jobs[job].status = "running",
         at = "delivered" => ~ progressive
  PROVE  IInv'
<1> USE DEF IInv
<1>1. /\ thread' \in [Threads -> Places]
      /\ thread'[w].at = at /\ thread'[w].job = job
      /\ \A v \in Threads : v # w => thread'[v] = thread[v]
  BY Moved
<1>2. TypeOK'
  BY <1>1 DEF TypeOK
<1>3. LoopIsReferenced'
  BY <1>1 DEF LoopIsReferenced
<1>4. JobMatchesPlace'
  BY <1>1 DEF JobMatchesPlace
<1>5. DeliveredIsValidated'
  BY <1>1 DEF DeliveredIsValidated
<1>6. ServedInOrder' /\ DoneIsDelivered'
  BY DEF ServedInOrder, DoneIsDelivered
<1> QED
  BY <1>2, <1>3, <1>4, <1>5, <1>6

(* A thread that updates its job, which is past the queue afterwards, keeps *)
(* the invariant: no other thread has a job.                               *)
LEMMA UpdateKeepsIInv ==
  ASSUME IInv, NEW w \in Threads, thread[w].at \in WithJob,
         NEW at \in InLoop \ {"picked"}, NEW job \in JobRecords,
         Update(w, job),
         \/ Move(w, at, thread[w].job)
         \/ Move(w, at, 0) /\ at \notin WithJob
         \/ UNCHANGED thread /\ thread[w].at = at,
         job.status # "queued",
         at \in WithJob => job.status = "running",
         progressive /\ (at = "delivered" \/ job.status = "done") =>
           job.validated /\ job.sections = Sections
  PROVE  IInv'
<1> USE DEF IInv
<1> DEFINE mine == thread[w].job
<1>1. /\ thread' \in [Threads -> Places]
      /\ thread'[w].at = at /\ (at \in WithJob => thread'[w].job = mine)
      /\ \A v \in Threads : v # w => thread'[v] = thread[v]
  <2>1. mine \in Nat
    BY DEF TypeOK, Places
  <2>2. CASE UNCHANGED thread /\ thread[w].at = at
    BY <2>2 DEF TypeOK
  <2>3. at \in InLoop \cup {"leaving", "dead"} /\ 0 \in Nat
    OBVIOUS
  <2>4. CASE Move(w, at, mine)
    BY <2>1, <2>3, <2>4, Moved
  <2>5. CASE Move(w, at, 0) /\ at \notin WithJob
    BY <2>3, <2>5, Moved
  <2> QED
    BY <2>2, <2>4, <2>5
<1>2. /\ jobs' \in Seq(JobRecords) /\ DOMAIN jobs' = DOMAIN jobs
      /\ jobs'[mine] = job
      /\ \A k \in DOMAIN jobs : k # mine => jobs'[k] = jobs[k]
      /\ mine \in DOMAIN jobs
  BY Updated DEF TypeOK
<1>3. UNCHANGED <<progressive, handler, worker, lock, restarts, faults>>
  BY DEF Update
<1>4. \A v \in Threads : v # w => thread'[v].at \notin InLoop
  BY <1>1, Alone DEF OneWorker, InLoop
<1>5. TypeOK'
  BY <1>1, <1>2, <1>3, <1>4 DEF TypeOK, InLoop
<1>6. LoopIsReferenced'
  BY <1>1, <1>3, <1>4 DEF LoopIsReferenced, InLoop
<1>7. JobMatchesPlace' /\ DeliveredIsValidated'
  BY <1>1, <1>2, <1>3, <1>4 DEF JobMatchesPlace, DeliveredIsValidated, InLoop, WithJob
<1>8. ServedInOrder'
  <2> SUFFICES ASSUME NEW i \in DOMAIN jobs, NEW j \in DOMAIN jobs,
                      i < j, jobs'[i].status = "queued"
               PROVE  jobs'[j].status = "queued"
    BY <1>2 DEF ServedInOrder
  <2>1. i # mine /\ jobs[i].status = "queued"
    BY <1>2
  <2>2. jobs[j].status = "queued"
    BY <2>1 DEF ServedInOrder
  <2>3. j # mine
    BY <2>1, <2>2 DEF JobMatchesPlace
  <2> QED
    BY <1>2, <2>2, <2>3
<1>9. DoneIsDelivered'
  BY <1>2, <1>3 DEF DoneIsDelivered
<1> QED
  BY <1>5, <1>6, <1>7, <1>8, <1>9

(* Steps of the background thread. *)
LEMMA WorkKeepsIInv ==
  ASSUME IInv, NEW w \in Threads, Work(w) \/ StoreRaises(w)
  PROVE  IInv'
<1> DEFINE mine == thread[w].job
<1>1. /\ TypeOK /\ mine \in Nat /\ w # None /\ 0 \in Nat
      /\ (thread[w].at \in WithJob => /\ mine \in DOMAIN jobs
                                     /\ JobOf(w) \in JobRecords)
  BY DemoAssumption DEF IInv, TypeOK, Places, JobOf
<1>2. /\ faults \in 0..MaxFaults /\ MaxFaults \in Nat
      /\ lock \in Threads \cup {None}
  BY DemoAssumption DEF IInv, TypeOK
<1>3. /\ thread[w].at = "picked" =>
           /\ jobs[mine].status = "queued"
           /\ \A j \in DOMAIN jobs : j < mine => jobs[j].status # "queued"
      /\ thread[w].at \in WithJob \ {"picked"} => jobs[mine].status = "running"
  BY DEF IInv, JobMatchesPlace
<1>a. CASE Look(w)
  <2>1. CASE next_queued = 0
    <3>1. Move(w, "rechecking", 0) /\ thread[w].at \in InLoop
      BY <1>a, <2>1 DEF Look, InLoop
    <3>2. UNCHANGED <<progressive, jobs, handler, worker, lock, restarts, faults>>
      BY <1>a DEF Look
    <3>3. "rechecking" \in InLoop /\ "rechecking" \notin WithJob
      BY DEF InLoop, WithJob
    <3> QED
      BY <1>1, <1>2, <3>1, <3>2, <3>3, MoveKeepsIInv DEF WithJob
  <2>2. CASE next_queued # 0
    <3>1. Move(w, "picked", next_queued) /\ thread[w].at \in InLoop
      BY <1>a, <2>2 DEF Look, InLoop
    <3>2. UNCHANGED <<progressive, jobs, handler, worker, lock, restarts, faults>>
      BY <1>a DEF Look
    <3>3. /\ next_queued \in DOMAIN jobs /\ jobs[next_queued].status = "queued"
          /\ \A j \in DOMAIN jobs : j < next_queued => jobs[j].status # "queued"
      BY <1>1, <2>2, NextQueued DEF TypeOK, Queued
    <3>4. next_queued \in Nat
      BY <1>1, <3>3 DEF TypeOK
    <3>5. "picked" \in InLoop
      BY DEF InLoop, WithJob
    <3> QED
      BY <1>2, <3>1, <3>2, <3>3, <3>4, <3>5, MoveKeepsIInv
  <2> QED
    BY <2>1, <2>2
<1>b. CASE RecheckEmpty(w)
  <2>1. /\ Move(w, "clearing", 0) /\ thread[w].at \in InLoop /\ lock' = w
        /\ UNCHANGED <<progressive, jobs, handler, worker, restarts, faults>>
    BY <1>b DEF RecheckEmpty, InLoop
  <2>2. "clearing" \in InLoop /\ "clearing" \notin WithJob
    BY DEF InLoop, WithJob
  <2> QED
    BY <1>1, <1>2, <2>1, <2>2, MoveKeepsIInv DEF WithJob
<1>c. CASE ClearWorker(w)
  <2>1. /\ Move(w, "leaving", 0) /\ thread[w].at \in InLoop
        /\ worker' = None /\ lock' = None
        /\ UNCHANGED <<progressive, jobs, handler, restarts, faults>>
    BY <1>c DEF ClearWorker, InLoop
  <2>2. "leaving" \notin InLoop
    BY DEF InLoop, WithJob
  <2> QED
    BY <1>1, <1>2, <2>1, <2>2, MoveKeepsIInv DEF InLoop
<1>d. CASE RecheckFound(w)
  <2>1. /\ Move(w, "leaving", 0) /\ thread[w].at \in InLoop
        /\ UNCHANGED <<progressive, jobs, handler, worker, lock, restarts, faults>>
    BY <1>d DEF RecheckFound, InLoop
  <2>2. "leaving" \notin InLoop
    BY DEF InLoop, WithJob
  <2> QED
    BY <1>1, <1>2, <2>1, <2>2, MoveKeepsIInv DEF InLoop
<1>e. CASE Leave(w) \/ StoreRaises(w)
  <2>1. /\ Move(w, "dead", 0)
        /\ UNCHANGED <<progressive, jobs, handler, worker, lock, restarts>>
        /\ faults' \in 0..MaxFaults
    BY <1>2, <1>e DEF Leave, StoreRaises, Move, Dead
  <2>2. "dead" \notin InLoop
    BY DEF InLoop, WithJob
  <2> QED
    BY <1>1, <1>2, <2>1, <2>2, MoveKeepsIInv DEF InLoop
<1>f. CASE MarkRunning(w)
  <2>1. /\ Update(w, [JobOf(w) EXCEPT !.status = "running"])
        /\ Move(w, "working", mine) /\ thread[w].at \in WithJob
    BY <1>f DEF MarkRunning, WithJob
  <2>2. [JobOf(w) EXCEPT !.status = "running"] \in JobRecords
        /\ [JobOf(w) EXCEPT !.status = "running"].status = "running"
    BY <1>1, <2>1 DEF JobRecords, Statuses
  <2>3. "working" \in InLoop \ {"picked"}
    BY DEF InLoop, WithJob
  <2> QED
    BY <2>1, <2>2, <2>3, UpdateKeepsIInv
<1>g. CASE RunRaises(w) \/ DeliveryFails(w)
  <2>1. /\ Update(w, [JobOf(w) EXCEPT !.status = "failed"])
        /\ Move(w, "looking", 0) /\ thread[w].at \in WithJob
    BY <1>g DEF RunRaises, DeliveryFails, WithJob
  <2>2. [JobOf(w) EXCEPT !.status = "failed"] \in JobRecords
        /\ [JobOf(w) EXCEPT !.status = "failed"].status = "failed"
    BY <1>1, <2>1 DEF JobRecords, Statuses
  <2>3. "looking" \in InLoop \ {"picked"} /\ "looking" \notin WithJob
    BY DEF InLoop, WithJob
  <2> QED
    BY <2>1, <2>2, <2>3, UpdateKeepsIInv
<1>h. CASE RunReturns(w)
  <2>1. /\ Move(w, IF progressive THEN "publishing" ELSE "delivered", mine)
        /\ UNCHANGED <<progressive, jobs, handler, worker, lock, restarts, faults>>
        /\ thread[w].at \in WithJob \ {"picked"} /\ thread[w].at \in InLoop
    BY <1>h DEF RunReturns, WithJob, InLoop
  <2>2. "publishing" \in InLoop /\ "delivered" \in InLoop
    BY DEF InLoop, WithJob
  <2>3. CASE progressive
    BY <1>1, <1>2, <1>3, <2>1, <2>2, <2>3, MoveKeepsIInv
  <2>4. CASE ~ progressive
    BY <1>1, <1>2, <1>3, <2>1, <2>2, <2>4, MoveKeepsIInv
  <2> QED
    BY <2>3, <2>4
<1>i. CASE PublishSection(w)
  <2>1. /\ Update(w, [JobOf(w) EXCEPT !.sections = @ + 1])
        /\ UNCHANGED thread /\ thread[w].at = "publishing"
        /\ JobOf(w).sections < Sections
    BY <1>i DEF PublishSection
  <2>2. thread[w].at \in WithJob \ {"picked"} /\ "publishing" \in InLoop \ {"picked"}
    BY <2>1 DEF WithJob, InLoop
  <2>3. /\ [JobOf(w) EXCEPT !.sections = @ + 1] \in JobRecords
        /\ [JobOf(w) EXCEPT !.sections = @ + 1].status = "running"
    BY <1>1, <1>3, <2>1, <2>2, DemoAssumption DEF JobRecords, JobOf
  <2> QED
    BY <2>1, <2>2, <2>3, UpdateKeepsIInv
<1>j. CASE MarkValidated(w)
  <2> DEFINE new == [JobOf(w) EXCEPT !.validated = TRUE]
  <2>1. /\ Update(w, new) /\ Move(w, "delivered", mine)
        /\ thread[w].at \in WithJob \ {"picked"} /\ JobOf(w).sections = Sections
    BY <1>j DEF MarkValidated, WithJob
  <2>2. "delivered" \in InLoop \ {"picked"}
    BY DEF WithJob, InLoop
  <2>3. /\ new \in JobRecords /\ new.status = "running"
        /\ new.validated /\ new.sections = Sections
    BY <1>1, <1>3, <2>1 DEF JobRecords, JobOf
  <2> HIDE DEF new
  <2> QED
    BY <2>1, <2>2, <2>3, UpdateKeepsIInv
<1>k. CASE MarkDone(w)
  <2> DEFINE new == [JobOf(w) EXCEPT !.status = "done"]
  <2>1. /\ Update(w, new) /\ Move(w, "looking", 0)
        /\ thread[w].at = "delivered" /\ thread[w].at \in WithJob
    BY <1>k DEF MarkDone, WithJob
  <2>2. "looking" \in InLoop \ {"picked"} /\ "looking" \notin WithJob
    BY DEF WithJob, InLoop
  <2>3. new \in JobRecords /\ new.status = "done"
    BY <1>1, <2>1 DEF JobRecords, Statuses
  <2>4. progressive => new.validated /\ new.sections = Sections
    BY <1>1, <2>1 DEF IInv, DeliveredIsValidated, JobRecords, JobOf
  <2> HIDE DEF new
  <2> QED
    BY <2>1, <2>2, <2>3, <2>4, UpdateKeepsIInv
<1> QED
  BY <1>a, <1>b, <1>c, <1>d, <1>e, <1>f, <1>g, <1>h, <1>i, <1>j, <1>k DEF Work

(* A restart keeps every job, and leaves none unfinished and no thread.    *)
LEMMA RestartKeepsIInv ==
  ASSUME IInv, Restart
  PROVE  IInv'
<1> USE DEF IInv
<1> DEFINE marked(j) == IF jobs[j].status \in Active
                        THEN [jobs[j] EXCEPT !.status = "interrupted"] ELSE jobs[j]
<1>1. /\ progressive' = progressive /\ faults' = faults
      /\ jobs' = [j \in DOMAIN jobs |-> marked(j)]
      /\ handler' = [h \in Handlers |-> "idle"]
      /\ thread' = [w \in Threads |-> Dead]
      /\ worker' = None /\ lock' = None /\ restarts' \in 0..MaxRestarts
  BY DemoAssumption DEF Restart, TypeOK
<1>2. ASSUME NEW j \in DOMAIN jobs
      PROVE  /\ marked(j) \in JobRecords
             /\ marked(j).status # "queued"
             /\ marked(j).status = "done" => marked(j) = jobs[j]
  <2>1. jobs[j] \in JobRecords
    BY DEF TypeOK
  <2>2. CASE jobs[j].status \in Active
    BY <2>1, <2>2 DEF JobRecords, Statuses
  <2>3. CASE jobs[j].status \notin Active
    BY <2>1, <2>3 DEF Active
  <2> QED
    BY <2>2, <2>3
<1>3. jobs' \in Seq(JobRecords) /\ DOMAIN jobs' = DOMAIN jobs
  <2> HIDE DEF marked
  <2>1. DOMAIN jobs = 1..Len(jobs) /\ Len(jobs) \in Nat
    BY DEF TypeOK
  <2>2. jobs' \in [1..Len(jobs) -> JobRecords]
    BY <1>1, <1>2, <2>1
  <2> QED
    BY <2>1, <2>2
<1>4. Dead \in Places /\ Dead.at \notin InLoop /\ Dead.at \notin WithJob
  BY DEF Dead, Places, InLoop, WithJob
<1>5. TypeOK'
  <2>1. \A w \in Threads : thread'[w].at \notin WithJob
    BY <1>1, <1>4
  <2>2. thread' \in [Threads -> Places]
    BY <1>1, <1>4
  <2> QED
    BY <1>1, <1>3, <2>1, <2>2 DEF TypeOK
<1>6. LoopIsReferenced' /\ JobMatchesPlace' /\ DeliveredIsValidated'
  BY <1>1, <1>4 DEF LoopIsReferenced, JobMatchesPlace, DeliveredIsValidated, WithJob, Dead
<1>7. ServedInOrder' /\ DoneIsDelivered'
  <2> HIDE DEF marked
  <2> QED
    BY <1>1, <1>2, <1>3 DEF ServedInOrder, DoneIsDelivered
<1> QED
  BY <1>5, <1>6, <1>7

LEMMA NextIInv == IInv /\ [Next]_vars => IInv'
<1> SUFFICES ASSUME IInv, [Next]_vars PROVE IInv'
  OBVIOUS
<1>1. ASSUME NEW h \in Handlers, Admit(h) \/ Enqueue(h) PROVE IInv'
  BY <1>1, HandlerKeepsIInv
<1>2. ASSUME NEW w \in Threads, Work(w) \/ StoreRaises(w) PROVE IInv'
  BY <1>2, WorkKeepsIInv
<1>3. CASE Restart
  BY <1>3, RestartKeepsIInv
<1>4. CASE UNCHANGED vars
  BY <1>4 DEF vars, IInv, TypeOK, LoopIsReferenced, JobMatchesPlace,
     DeliveredIsValidated, ServedInOrder, DoneIsDelivered
<1> QED
  BY <1>1, <1>2, <1>3, <1>4 DEF Next

LEMMA Invariance == Spec => []IInv
BY InitIInv, NextIInv, PTL DEF Spec

---------------------------------------------------------------------------
(* The theorems. *)

(* Every state of the queue is well typed; a thread with a job has one that *)
(* is in the file.                                                         *)
THEOREM TypeCorrect == Spec => []TypeOK
<1>1. IInv => TypeOK
  BY DEF IInv
<1> QED
  BY <1>1, Invariance, PTL

(* At most one thread is in the work loop, however enqueue and the loop    *)
(* interleave, and over killed threads and restarts.                       *)
THEOREM AtMostOneWorker == Spec => []OneWorker
<1>1. IInv => OneWorker
  BY Alone DEF IInv
<1> QED
  BY <1>1, Invariance, PTL

(* Jobs leave the queue in the order they entered it. *)
THEOREM ServiceInOrder == Spec => []ServedInOrder
<1>1. IInv => ServedInOrder
  BY DEF IInv
<1> QED
  BY <1>1, Invariance, PTL

(* Under progressive delivery only a job whose sections were all published *)
(* and whose report was validated is done.                                 *)
THEOREM DoneOnlyWhenDelivered == Spec => []DoneIsDelivered
<1>1. IInv => DoneIsDelivered
  BY DEF IInv
<1> QED
  BY <1>1, Invariance, PTL

(* A step that changes a job advances it. *)
LEMMA StepSettles == IInv /\ [Next]_vars => [Settling]_jobs
<1> SUFFICES ASSUME IInv, [Next]_vars, jobs' # jobs PROVE Settling
  OBVIOUS
<1>1. ASSUME NEW h \in Handlers, Admit(h) \/ Enqueue(h) PROVE Settling
  <2>1. Create(h)
    BY <1>1 DEF Enqueue, Admit, EnsureWorker
  <2>2. /\ jobs \in Seq(JobRecords) /\ jobs' = Append(jobs, NewJob)
    BY <2>1 DEF Create, IInv, TypeOK
  <2> QED
    BY <2>2 DEF Settling
<1>2. ASSUME NEW w \in Threads, Work(w) \/ StoreRaises(w) PROVE Settling
  <2> DEFINE mine == thread[w].job
  <2>1. /\ TypeOK
        /\ (thread[w].at \in WithJob => mine \in DOMAIN jobs /\ JobOf(w) \in JobRecords)
    BY DEF IInv, TypeOK, JobOf
  <2>2. /\ thread[w].at = "picked" => JobOf(w).status = "queued"
        /\ thread[w].at \in WithJob \ {"picked"} => JobOf(w).status = "running"
    BY DEF IInv, JobMatchesPlace, JobOf
  <2>3. ASSUME NEW job \in JobRecords, Update(w, job), thread[w].at \in WithJob,
               \/ <<JobOf(w).status, job.status>> = <<"queued", "running">>
               \/ <<JobOf(w).status, job.status>> = <<"running", "failed">>
               \/ <<JobOf(w).status, job.status>> = <<"running", "done">>
               \/ job.status = JobOf(w).status
        PROVE  Settling
    BY <2>1, <2>3, Updated DEF Settling, JobOf
  <2>4. CASE MarkRunning(w)
    <3>1. /\ Update(w, [JobOf(w) EXCEPT !.status = "running"])
          /\ thread[w].at = "picked" /\ thread[w].at \in WithJob
      BY <2>4 DEF MarkRunning, WithJob
    <3>2. [JobOf(w) EXCEPT !.status = "running"] \in JobRecords
          /\ [JobOf(w) EXCEPT !.status = "running"].status = "running"
      BY <2>1, <3>1 DEF JobRecords, Statuses
    <3> QED
      BY <2>2, <2>3, <3>1, <3>2
  <2>5. CASE RunRaises(w) \/ DeliveryFails(w)
    <3>1. /\ Update(w, [JobOf(w) EXCEPT !.status = "failed"])
          /\ thread[w].at \in WithJob \ {"picked"}
      BY <2>5 DEF RunRaises, DeliveryFails, WithJob
    <3>2. [JobOf(w) EXCEPT !.status = "failed"] \in JobRecords
          /\ [JobOf(w) EXCEPT !.status = "failed"].status = "failed"
      BY <2>1, <3>1 DEF JobRecords, Statuses
    <3> QED
      BY <2>2, <2>3, <3>1, <3>2
  <2>6. CASE MarkDone(w)
    <3>1. /\ Update(w, [JobOf(w) EXCEPT !.status = "done"])
          /\ thread[w].at \in WithJob \ {"picked"}
      BY <2>6 DEF MarkDone, WithJob
    <3>2. [JobOf(w) EXCEPT !.status = "done"] \in JobRecords
          /\ [JobOf(w) EXCEPT !.status = "done"].status = "done"
      BY <2>1, <3>1 DEF JobRecords, Statuses
    <3> QED
      BY <2>2, <2>3, <3>1, <3>2
  <2>7. CASE PublishSection(w)
    <3>1. /\ Update(w, [JobOf(w) EXCEPT !.sections = @ + 1])
          /\ thread[w].at \in WithJob /\ JobOf(w).sections < Sections
      BY <2>7 DEF PublishSection, WithJob
    <3>2. [JobOf(w) EXCEPT !.sections = @ + 1] \in JobRecords
          /\ [JobOf(w) EXCEPT !.sections = @ + 1].status = JobOf(w).status
      BY <2>1, <3>1, DemoAssumption DEF JobRecords
    <3> QED
      BY <2>3, <3>1, <3>2
  <2>8. CASE MarkValidated(w)
    <3>1. /\ Update(w, [JobOf(w) EXCEPT !.validated = TRUE])
          /\ thread[w].at \in WithJob
      BY <2>8 DEF MarkValidated, WithJob
    <3>2. [JobOf(w) EXCEPT !.validated = TRUE] \in JobRecords
          /\ [JobOf(w) EXCEPT !.validated = TRUE].status = JobOf(w).status
      BY <2>1, <3>1 DEF JobRecords
    <3> QED
      BY <2>3, <3>1, <3>2
  <2> QED
    BY <1>2, <2>4, <2>5, <2>6, <2>7, <2>8 DEF Work, StoreRaises, Look, RecheckEmpty,
       ClearWorker, RecheckFound, Leave, RunReturns
<1>3. CASE Restart
  <2>1. \A j \in DOMAIN jobs : jobs[j] \in JobRecords
    BY DEF IInv, TypeOK
  <2> QED
    BY <1>3, <2>1 DEF Restart, Settling, Active, JobRecords
<1> QED
  BY <1>1, <1>2, <1>3 DEF Next, vars

(* A job only advances, is never run twice and never leaves a final status, *)
(* and no step removes it from the file.                                   *)
THEOREM JobsOnlySettle == Spec => JobsSettle
BY StepSettles, Invariance, PTL DEF Spec, JobsSettle

---------------------------------------------------------------------------
(* The queue limit.  A handler that was admitted and has not created its   *)
(* job yet counts like a queued job: an admission finds room for one, and  *)
(* at most the other handlers are admitted already.                        *)

Admitted == {h \in Handlers : handler[h] = "admitted"}

RoomIsShared ==
  queue_limit > 0 =>
    Cardinality(Queued) + Cardinality(Admitted) <= queue_limit + Cardinality(Handlers) - 1

Sized ==
  /\ IsFiniteSet(Queued) /\ Cardinality(Queued) \in Nat
  /\ IsFiniteSet(Admitted) /\ Cardinality(Admitted) \in Nat
  /\ Cardinality(Admitted) <= Cardinality(Handlers) /\ Cardinality(Handlers) \in Nat

LEMMA Sizes == TypeOK => Sized
<1> SUFFICES ASSUME TypeOK PROVE Sized
  OBVIOUS
<1>1. /\ IsFiniteSet(Handlers) /\ Admitted \in SUBSET Handlers
  BY DemoAssumption DEF Admitted
<1>2. IsFiniteSet(1..Len(jobs)) /\ Queued \in SUBSET (1..Len(jobs))
  <2>1. Len(jobs) \in Nat /\ DOMAIN jobs = 1..Len(jobs)
    BY DEF TypeOK
  <2>2. IsFiniteSet(1..Len(jobs))
    BY <2>1, FS_Interval, 1 \in Int, Len(jobs) \in Int
  <2> QED
    BY <2>1, <2>2 DEF Queued
<1> QED
  BY <1>1, <1>2, FS_Subset, FS_CardinalityType DEF Sized

(* Only enqueue lengthens the queue. *)
LEMMA OthersDoNotQueue ==
  ASSUME IInv, [Next]_vars, \A h \in Handlers : ~ Create(h)
  PROVE  Queued' \subseteq Queued
<1>1. DOMAIN jobs' = DOMAIN jobs
  <2>1. ASSUME NEW w \in Threads, Work(w) \/ StoreRaises(w) PROVE DOMAIN jobs' = DOMAIN jobs
    BY <2>1 DEF Work, StoreRaises, Look, RecheckEmpty, ClearWorker, RecheckFound, Leave, MarkRunning,
       RunRaises, RunReturns, PublishSection, MarkValidated, DeliveryFails, MarkDone, Update
  <2>2. ASSUME NEW h \in Handlers, Admit(h) \/ EnsureWorker(h) PROVE DOMAIN jobs' = DOMAIN jobs
    BY <2>2 DEF Admit, EnsureWorker
  <2>3. CASE Restart
    BY <2>3 DEF Restart
  <2>4. CASE UNCHANGED vars
    BY <2>4 DEF vars
  <2> QED
    BY <2>1, <2>2, <2>3, <2>4 DEF Next, Enqueue
<1>2. CASE jobs' = jobs
  BY <1>2 DEF Queued
<1>3. CASE jobs' # jobs
  <2>1. Settling
    BY <1>3, StepSettles
  <2>2. ASSUME NEW j \in DOMAIN jobs, jobs'[j].status = "queued" PROVE jobs[j].status = "queued"
    BY <2>1, <2>2 DEF Settling
  <2> QED
    BY <1>1, <2>2 DEF Queued
<1> QED
  BY <1>2, <1>3

LEMMA RoomNext == IInv /\ RoomIsShared /\ [Next]_vars => IInv' /\ RoomIsShared'
<1> SUFFICES ASSUME IInv, RoomIsShared, [Next]_vars, queue_limit > 0
             PROVE  Cardinality(Queued') + Cardinality(Admitted')
                      <= queue_limit + Cardinality(Handlers) - 1
  BY NextIInv DEF RoomIsShared
<1> DEFINE q == Cardinality(Queued)
           r == Cardinality(Queued')
           a == Cardinality(Admitted)
           b == Cardinality(Admitted')
           n == Cardinality(Handlers)
<1>1. /\ TypeOK /\ TypeOK' /\ IInv'
      /\ q \in Nat /\ r \in Nat /\ a \in Nat /\ b \in Nat /\ n \in Nat /\ b <= n
      /\ queue_limit \in Int /\ q + a <= queue_limit + n - 1
      /\ IsFiniteSet(Queued) /\ IsFiniteSet(Admitted)
  <2>1. TypeOK /\ TypeOK' /\ IInv'
    BY NextIInv DEF IInv
  <2>2. Sized /\ Sized'
    BY <2>1, Sizes, PTL
  <2> QED
    BY <2>1, <2>2, DemoAssumption DEF RoomIsShared, Sized
<1>2. CASE \E h \in Handlers : Admit(h)
  <2>1. PICK h \in Handlers : Admit(h)
    BY <1>2
  <2>2. q < queue_limit /\ r = q
    BY <2>1 DEF Admit, Queued
  <2> HIDE DEF q, r, a, b, n
  <2> QED
    BY <1>1, <2>2 DEF r, b, n
<1>3. CASE \E h \in Handlers : Create(h)
  <2>1. PICK h \in Handlers : Create(h)
    BY <1>3
  <2>2. r = q + 1
    <3>1. jobs' = Append(jobs, NewJob) /\ jobs \in Seq(JobRecords)
      BY <1>1, <2>1 DEF Create, TypeOK
    <3>2. Queued' = Queued \cup {Len(jobs) + 1} /\ Len(jobs) + 1 \notin Queued
      BY <3>1 DEF Queued, NewJob
    <3> QED
      BY <1>1, <3>2, FS_AddElement
  <2>3. b = a - 1
    <3>1. Admitted' = Admitted \ {h} /\ h \in Admitted
      BY <1>1, <2>1 DEF Create, Admitted, TypeOK
    <3> QED
      BY <1>1, <3>1, FS_RemoveElement
  <2> HIDE DEF q, r, a, b, n
  <2> QED
    BY <1>1, <2>2, <2>3 DEF r, b, n
<1>4. CASE \A h \in Handlers : ~ Admit(h) /\ ~ Create(h)
  <2>1. r <= q
    BY <1>1, <1>4, OthersDoNotQueue, FS_Subset
  <2>2. Admitted' \subseteq Admitted
    <3>1. ASSUME NEW h \in Handlers, EnsureWorker(h) PROVE Admitted' \subseteq Admitted
      BY <1>1, <3>1 DEF EnsureWorker, Admitted, TypeOK
    <3>2. ASSUME NEW w \in Threads, Work(w) \/ StoreRaises(w) PROVE handler' = handler
      BY <3>2 DEF Work, StoreRaises, Look, RecheckEmpty, ClearWorker, RecheckFound, Leave, MarkRunning,
         RunRaises, RunReturns, PublishSection, MarkValidated, DeliveryFails, MarkDone, Update
    <3>3. CASE Restart
      BY <3>3 DEF Restart, Admitted
    <3>4. CASE UNCHANGED vars
      BY <3>4 DEF vars, Admitted
    <3> QED
      BY <1>4, <3>1, <3>2, <3>3, <3>4 DEF Next, Enqueue, Admitted
  <2>3. b <= a
    BY <1>1, <2>2, FS_Subset
  <2> HIDE DEF q, r, a, b, n
  <2> QED
    BY <1>1, <2>1, <2>3 DEF r, b, n
<1> QED
  BY <1>2, <1>3, <1>4

(* The limit is checked before the job is created, so handlers that check  *)
(* together all get in: it is exceeded by at most the handlers there are,  *)
(* less one.                                                               *)
THEOREM QueueLimitHeld == Spec => []QueueBounded
<1>1. Init => RoomIsShared
  <2> SUFFICES ASSUME Init, queue_limit > 0
               PROVE  Cardinality(Queued) + Cardinality(Admitted)
                        <= queue_limit + Cardinality(Handlers) - 1
    BY DEF RoomIsShared
  <2>1. Queued = {} /\ Admitted = {}
    BY DEF Init, Queued, Admitted
  <2>2. Cardinality(Handlers) \in Nat
    BY DemoAssumption, FS_CardinalityType
  <2> QED
    BY <2>1, <2>2, FS_EmptySet, DemoAssumption
<1>2. IInv /\ RoomIsShared => QueueBounded
  <2> SUFFICES ASSUME TypeOK, RoomIsShared, queue_limit > 0
               PROVE  Cardinality(Queued) <= queue_limit + Cardinality(Handlers) - 1
    BY DEF IInv, QueueBounded
  <2> QED
    BY Sizes, DemoAssumption DEF RoomIsShared, Sized
<1>3. Spec => [](IInv /\ RoomIsShared)
  BY <1>1, InitIInv, RoomNext, PTL DEF Spec
<1> QED
  BY <1>2, <1>3, PTL
=============================================================================
