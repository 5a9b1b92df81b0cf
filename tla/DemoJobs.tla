------------------------------ MODULE DemoJobs ------------------------------
(***************************************************************************)
(* The rerun queue of api/demo.py: DemoJobStore keeps the jobs in a file,  *)
(* DemoJobManager.enqueue is called by the threads that serve HTTP         *)
(* requests, and one background thread, started on demand, runs the jobs.  *)
(* Every method of the store holds the store's lock, so it is one step;    *)
(* _worker_lock guards the reference to the background thread.             *)
(***************************************************************************)
EXTENDS Integers, Sequences, FiniteSets

CONSTANTS
  Handlers,      \* threads that serve requests
  Threads,       \* bound: identities of background threads, reused when dead
  None,          \* "no thread"
  queue_limit,   \* demo_queue_limit
  Sections,      \* bound: sections of a report, for progressive delivery
  MaxJobs,       \* bound: jobs ever created
  MaxRestarts,   \* bound: restarts of the server process
  MaxFaults      \* bound: store failures that kill the background thread

ASSUME DemoAssumption ==
  /\ IsFiniteSet(Handlers) /\ IsFiniteSet(Threads) /\ None \notin Threads
  /\ queue_limit \in Nat /\ Sections \in Nat \ {0}
  /\ MaxJobs \in Nat /\ MaxRestarts \in Nat /\ MaxFaults \in Nat

VARIABLES
  progressive,  \* progressive_delivery_enabled
  jobs,         \* the job file: in order of creation
  handler,      \* where each handler is in enqueue
  thread,       \* where each background thread is in _work_loop, and its job
  worker,       \* DemoJobManager._worker
  lock,         \* the thread that holds _worker_lock across steps, or None
  restarts, faults

vars == <<progressive, jobs, handler, thread, worker, lock, restarts, faults>>

(* Mutant: a failed job counts as unfinished. *)
ActiveOrFailed == {"queued", "running", "failed"}

Active == {"queued", "running"}
Queued == {j \in DOMAIN jobs : jobs[j].status = "queued"}
NewJob == [status |-> "queued", sections |-> 0, validated |-> FALSE]
Dead == [at |-> "dead", job |-> 0]
Loop == [at |-> "looking", job |-> 0]

is_alive(w) == thread[w].at # "dead"

(* Mutant: the newest queued job is taken first. *)
next_queued_newest ==
  IF Queued = {} THEN 0
  ELSE CHOOSE j \in Queued : \A k \in Queued : j >= k

(* The oldest queued job, 0 if there is none. *)
next_queued ==
  IF Queued = {} THEN 0
  ELSE CHOOSE j \in Queued : \A k \in Queued : j <= k

Init ==
  /\ progressive \in BOOLEAN
  /\ jobs = <<>>
  /\ handler = [h \in Handlers |-> "idle"]
  /\ thread = [w \in Threads |-> Dead]
  /\ worker = None
  /\ lock = None
  /\ restarts = 0 /\ faults = 0

---------------------------------------------------------------------------
(* enqueue: count the queue, create the job, make sure a thread runs it.   *)

(* Mutant: a full queue admits one more. *)
AdmitOneMore(h) ==
  /\ handler[h] = "idle"
  /\ Cardinality(Queued) <= queue_limit
  /\ Len(jobs) + Cardinality({g \in Handlers : handler[g] = "admitted"}) < MaxJobs
  /\ handler' = [handler EXCEPT ![h] = "admitted"]
  /\ UNCHANGED <<progressive, jobs, thread, worker, lock, restarts, faults>>

Admit(h) ==
  /\ handler[h] = "idle"
  /\ Cardinality(Queued) < queue_limit
  /\ Len(jobs) + Cardinality({g \in Handlers : handler[g] = "admitted"}) < MaxJobs
  /\ handler' = [handler EXCEPT ![h] = "admitted"]
  /\ UNCHANGED <<progressive, jobs, thread, worker, lock, restarts, faults>>

Create(h) ==
  /\ handler[h] = "admitted"
  /\ jobs' = Append(jobs, NewJob)
  /\ handler' = [handler EXCEPT ![h] = "created"]
  /\ UNCHANGED <<progressive, thread, worker, lock, restarts, faults>>

(* Mutant: a thread is started without looking at the one there is. *)
EnsureWorkerAlways(h) ==
  /\ handler[h] = "created"
  /\ lock = None
  /\ handler' = [handler EXCEPT ![h] = "idle"]
  /\ \E w \in Threads :
       /\ ~ is_alive(w)
       /\ worker' = w
       /\ thread' = [thread EXCEPT ![w] = Loop]
  /\ UNCHANGED <<progressive, jobs, lock, restarts, faults>>

EnsureWorker(h) ==
  /\ handler[h] = "created"
  /\ lock = None
  /\ handler' = [handler EXCEPT ![h] = "idle"]
  /\ IF worker # None /\ is_alive(worker)
     THEN UNCHANGED <<thread, worker>>
     ELSE \E w \in Threads :
            /\ ~ is_alive(w)
            /\ worker' = w
            /\ thread' = [thread EXCEPT ![w] = Loop]
  /\ UNCHANGED <<progressive, jobs, lock, restarts, faults>>

---------------------------------------------------------------------------
(* _work_loop. *)

Move(w, at, job) == thread' = [thread EXCEPT ![w] = [at |-> at, job |-> job]]

Look(w) ==
  /\ thread[w].at = "looking"
  /\ IF next_queued = 0 THEN Move(w, "rechecking", 0)
                        ELSE Move(w, "picked", next_queued)
  /\ UNCHANGED <<progressive, jobs, handler, worker, lock, restarts, faults>>

(* The queue is still empty: the reference is cleared under the lock, while *)
(* a handler may already be creating the next job.                         *)
RecheckEmpty(w) ==
  /\ thread[w].at = "rechecking"
  /\ lock = None /\ next_queued = 0
  /\ lock' = w
  /\ Move(w, "clearing", 0)
  /\ UNCHANGED <<progressive, jobs, handler, worker, restarts, faults>>

ClearWorker(w) ==
  /\ thread[w].at = "clearing"
  /\ worker' = None
  /\ lock' = None
  /\ Move(w, "leaving", 0)
  /\ UNCHANGED <<progressive, jobs, handler, restarts, faults>>

(* A job has arrived since: the code falls through to a plain return.      *)
RecheckFound(w) ==
  /\ thread[w].at = "rechecking"
  /\ lock = None /\ next_queued # 0
  /\ Move(w, "leaving", 0)
  /\ UNCHANGED <<progressive, jobs, handler, worker, lock, restarts, faults>>

Leave(w) ==
  /\ thread[w].at = "leaving"
  /\ thread' = [thread EXCEPT ![w] = Dead]
  /\ UNCHANGED <<progressive, jobs, handler, worker, lock, restarts, faults>>

Update(w, job) ==
  /\ jobs' = [jobs EXCEPT ![thread[w].job] = job]
  /\ UNCHANGED <<progressive, handler, worker, lock, restarts, faults>>

JobOf(w) == jobs[thread[w].job]

MarkRunning(w) ==
  /\ thread[w].at = "picked"
  /\ Update(w, [JobOf(w) EXCEPT !.status = "running"])
  /\ Move(w, "working", thread[w].job)

(* Mutant: a failing run ends the thread. *)
RunRaisesAndLeaves(w) ==
  /\ thread[w].at = "working"
  /\ Update(w, [JobOf(w) EXCEPT !.status = "failed"])
  /\ Move(w, "leaving", 0)

RunRaises(w) ==
  /\ thread[w].at = "working"
  /\ Update(w, [JobOf(w) EXCEPT !.status = "failed"])
  /\ Move(w, "looking", 0)

RunReturns(w) ==
  /\ thread[w].at = "working"
  /\ Move(w, IF progressive THEN "publishing" ELSE "delivered", thread[w].job)
  /\ UNCHANGED <<progressive, jobs, handler, worker, lock, restarts, faults>>

(* Mutant: a section is published again after the last one. *)
PublishSectionTwice(w) ==
  /\ thread[w].at = "publishing"
  /\ JobOf(w).sections <= Sections
  /\ Update(w, [JobOf(w) EXCEPT !.sections = @ + 1])
  /\ UNCHANGED thread

PublishSection(w) ==
  /\ thread[w].at = "publishing"
  /\ JobOf(w).sections < Sections
  /\ Update(w, [JobOf(w) EXCEPT !.sections = @ + 1])
  /\ UNCHANGED thread

MarkValidated(w) ==
  /\ thread[w].at = "publishing"
  /\ JobOf(w).sections = Sections
  /\ Update(w, [JobOf(w) EXCEPT !.validated = TRUE])
  /\ Move(w, "delivered", thread[w].job)

(* Mutant: the continue after a failed delivery is missing. *)
DeliveryFailsAndGoesOn(w) ==
  /\ thread[w].at = "publishing"
  /\ Update(w, [JobOf(w) EXCEPT !.status = "failed"])
  /\ Move(w, "delivered", thread[w].job)

(* Publishing a section or validating the report raises. *)
DeliveryFails(w) ==
  /\ thread[w].at = "publishing"
  /\ Update(w, [JobOf(w) EXCEPT !.status = "failed"])
  /\ Move(w, "looking", 0)

MarkDone(w) ==
  /\ thread[w].at = "delivered"
  /\ Update(w, [JobOf(w) EXCEPT !.status = "done"])
  /\ Move(w, "looking", 0)

(* A store method raises outside the try blocks and ends the thread.       *)
StoreRaises(w) ==
  /\ thread[w].at \in {"looking", "rechecking", "picked", "working", "publishing",
                       "delivered"}
  /\ faults < MaxFaults
  /\ faults' = faults + 1
  /\ thread' = [thread EXCEPT ![w] = Dead]
  /\ UNCHANGED <<progressive, jobs, handler, worker, lock, restarts>>

(* The server process ends; the next one finds the file and marks what was *)
(* unfinished as interrupted.                                              *)
Restart ==
  /\ restarts < MaxRestarts
  /\ restarts' = restarts + 1
  /\ jobs' = [j \in DOMAIN jobs |->
                IF jobs[j].status \in Active
                THEN [jobs[j] EXCEPT !.status = "interrupted"] ELSE jobs[j]]
  /\ handler' = [h \in Handlers |-> "idle"]
  /\ thread' = [w \in Threads |-> Dead]
  /\ worker' = None
  /\ lock' = None
  /\ UNCHANGED <<progressive, faults>>

Enqueue(h) == Create(h) \/ EnsureWorker(h)

Work(w) ==
  \/ Look(w) \/ RecheckEmpty(w) \/ ClearWorker(w) \/ RecheckFound(w) \/ Leave(w)
  \/ MarkRunning(w) \/ RunRaises(w) \/ RunReturns(w)
  \/ PublishSection(w) \/ MarkValidated(w) \/ DeliveryFails(w) \/ MarkDone(w)

Next ==
  \/ \E h \in Handlers : Admit(h) \/ Enqueue(h)
  \/ \E w \in Threads : Work(w) \/ StoreRaises(w)
  \/ Restart

(* A thread that can take a step takes one: nothing in enqueue waits but   *)
(* for _worker_lock, and the run a job starts returns or raises.           *)
Spec ==
  /\ Init /\ [][Next]_vars
  /\ \A h \in Handlers : WF_vars(Enqueue(h))
  /\ \A w \in Threads : WF_vars(Work(w))

---------------------------------------------------------------------------
(* Properties. *)

Statuses == {"queued", "running", "done", "failed", "interrupted"}
WithJob == {"picked", "working", "publishing", "delivered"}
InLoop == WithJob \cup {"looking", "rechecking", "clearing"}

Places == [at : InLoop \cup {"leaving", "dead"}, job : Nat]
JobRecords == [status : Statuses, sections : 0..Sections, validated : BOOLEAN]

TypeOK ==
  /\ progressive \in BOOLEAN
  /\ jobs \in Seq(JobRecords)
  /\ handler \in [Handlers -> {"idle", "admitted", "created"}]
  /\ thread \in [Threads -> Places]
  /\ \A w \in Threads : thread[w].at \in WithJob => thread[w].job \in DOMAIN jobs
  /\ worker \in Threads \cup {None} /\ lock \in Threads \cup {None}
  /\ restarts \in 0..MaxRestarts /\ faults \in 0..MaxFaults

(* Reruns are paid for one at a time: whatever handlers arrive while a     *)
(* thread clears its reference, dies or the server restarts, at most one   *)
(* thread is in the work loop.                                             *)
OneWorker ==
  \A v, w \in Threads : thread[v].at \in InLoop /\ thread[w].at \in InLoop => v = w

(* Jobs are taken in the order they were created: none is past the queue   *)
(* while an older one is still in it.                                      *)
ServedInOrder ==
  \A i, j \in DOMAIN jobs :
    i < j /\ jobs[i].status = "queued" => jobs[j].status = "queued"

(* The queue limit is checked before the job is created, so handlers that  *)
(* check together all get in: the limit is exceeded by at most the handlers *)
(* there are, less one.                                                    *)
QueueBounded ==
  queue_limit > 0 =>
    Cardinality(Queued) <= queue_limit + Cardinality(Handlers) - 1

(* Under progressive delivery a job is done only after every section was   *)
(* published and the final report validated.                               *)
DoneIsDelivered ==
  \A j \in DOMAIN jobs :
    progressive /\ jobs[j].status = "done" =>
      jobs[j].validated /\ jobs[j].sections = Sections

Settling ==
  \A j \in DOMAIN jobs :
    /\ j \in DOMAIN jobs'
    /\ jobs'[j].status # jobs[j].status =>
         <<jobs[j].status, jobs'[j].status>> \in
            {<<"queued", "running">>, <<"running", "done">>, <<"running", "failed">>}
            \cup ({"queued", "running"} \X {"interrupted"})

(* A caller that polls a job sees it advance and settle: no job disappears, *)
(* is run twice or leaves a final status.                                  *)
JobsSettle == [][Settling]_jobs

(* A thread that still looks for work serves every job in the queue, over  *)
(* failing runs and deliveries, unless the store kills it.                 *)
WorkerServesQueue ==
  \A j \in 1..MaxJobs :
    (/\ j \in Queued
     /\ \E w \in Threads : thread[w].at = "looking") ~> (j \notin Queued \/ faults > 0)

(* api/demo.py: "Clear the worker only after rechecking under the same     *)
(* lock used by enqueue, so an arriving job cannot lose its wakeup."       *)
NoLostWakeup == \A j \in 1..MaxJobs : j \in Queued ~> j \notin Queued
=============================================================================
