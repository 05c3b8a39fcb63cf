------------------------------ MODULE Pipeline ------------------------------
(***************************************************************************)
(* The processing pipeline of Sermon-Scribe: the sermons and jobs tables   *)
(* of the SQLite store, the two-goroutine worker pool that claims jobs and *)
(* runs handlers, the HTTP operations that move a sermon between stages,   *)
(* and the process around them (start-up recovery, graceful stop, crash).  *)
(*                                                                         *)
(* The store opens one connection (store.go, SetMaxOpenConns(1)), so every *)
(* transaction is one atomic step here.  What lies between two             *)
(* transactions of the same actor is not: a handler runs between claiming  *)
(* a job and reporting on it, and an export request reads the sermon       *)
(* before it decides which transaction to issue.                           *)
(*                                                                         *)
(* A job's identifier is its position in jobs, the order of created_at.    *)
(* Timestamps, the back-off delay and the wake-up channel decide only when *)
(* a queued job is claimed, never whether: ClaimNextJob may pick any       *)
(* queued job.                                                             *)
(***************************************************************************)
EXTENDS Naturals, Sequences, FiniteSets

CONSTANTS
  Sermons,       \* sermon ids; an id is never used again after deletion
  Workers,       \* the goroutines of the worker pool
  MaxAttempts,   \* automatic attempts of a job per cycle (3 in the code)
  Databases,     \* the databases the first start may find: [sermon, jobs]
  RerunParts,    \* the parts users ask to process again
  MaxRequests,   \* bound: reruns, retries, applied edits and exports
  MaxCrashes,    \* bound: crashes and shutdowns
  MaxFaults      \* bound: store errors after a claim

VARIABLES
  sermon,        \* the sermons table, with the rows that hang on it
  jobs,          \* the jobs table in order of creation
  worker,        \* what each worker goroutine is doing
  exportCall,    \* the decision of an export request in flight, per sermon
  process,       \* where the server process is in its life
  stranded,      \* jobs whose worker gave up on a store error since the start
  requests, crashes, faults    \* what of the bounds has been used

vars == <<sermon, jobs, worker, exportCall, process, stranded,
          requests, crashes, faults>>
bounds == <<requests, crashes, faults>>

-----------------------------------------------------------------------------
(* Data *)

JobTypes == {"normalize", "transcribe", "prepare_edit", "render_edit",
             "extract_metadata", "extract_title", "extract_topics",
             "extract_scriptures", "export", "apply_edits"}

\* The stage column every caller stores beside the type of a new job.
StageOf(type) ==
  CASE type = "normalize"                       -> "normalization"
    [] type = "transcribe"                      -> "transcription"
    [] type \in {"prepare_edit", "render_edit"} -> "editing"
    [] type = "extract_metadata"                -> "metadata"
    [] type = "extract_title"                   -> "title"
    [] type = "extract_topics"                  -> "topics"
    [] type = "extract_scriptures"              -> "scriptures"
    [] type = "export"                          -> "export"
    [] OTHER                                    -> "edit"

Parts == {"title", "topics", "transcription", "scriptures"}

RerunType(part) ==
  CASE part = "title"         -> "extract_title"
    [] part = "topics"        -> "extract_topics"
    [] part = "transcription" -> "transcribe"
    [] OTHER                  -> "extract_scriptures"

Stages   == {"upload", "normalization", "transcription", "editing", "metadata",
             "title", "topics", "scriptures", "export", "edit"}
NoRow    == {"absent", "deleted"}      \* not a row of the table
Statuses == {"pending", "running", "done", "failed"}

\* return_stage and return_status of a job's parameters; NoReturn when absent.
NoReturn == [stage |-> "none", status |-> "none"]
Returns  == {NoReturn} \cup [stage : Stages, status : {"done", "failed"}]

Rows == [stage      : Stages \cup NoRow,
         status     : Statuses \cup {"none"},
         transcript : BOOLEAN,       \* a source transcription is stored
         draft      : {"none", "generated", "saved"},   \* the editing row
         reviewed   : BOOLEAN]       \* normalization_reviewed

AbsentRow == [stage |-> "absent", status |-> "none", transcript |-> FALSE,
              draft |-> "none", reviewed |-> FALSE]

\* errors counts the job_errors rows of the current attempt cycle.
Jobs == [sermon : Sermons, type : JobTypes,
         state  : {"queued", "running", "done", "failed", "deleted"},
         attempts : Nat, errors : Nat, return : Returns]

NewJob(s, type, return) ==
  [sermon |-> s, type |-> type, state |-> "queued",
   attempts |-> 0, errors |-> 0, return |-> return]

Exists(s) == sermon[s].stage \notin NoRow

Active(j) == jobs[j].state \in {"queued", "running"}
JobsOf(s) == {j \in DOMAIN jobs : jobs[j].sermon = s /\ jobs[j].state # "deleted"}
HasActiveJob(s) == \E j \in JobsOf(s) : Active(j)

StageJobs(s) == {j \in JobsOf(s) : StageOf(jobs[j].type) = sermon[s].stage}
Newest(S) == CHOOSE j \in S : \A k \in S : k <= j

SetStage(s, stage, status) ==
  sermon' = [sermon EXCEPT ![s].stage = stage, ![s].status = status]

Idle == [pc |-> "idle", job |-> 0, attempts |-> 0, next |-> "none"]
GoIdle(w) == worker' = [worker EXCEPT ![w] = Idle]

-----------------------------------------------------------------------------
(* What the two tables owe each other.  The parts are stated over a        *)
(* database so that they can be assumed of the one the first start opens.  *)

ActiveIn(jb, j) == jb[j].state \in {"queued", "running"}

SingleActive(jb) ==
  \A i, j \in DOMAIN jb :
    ActiveIn(jb, i) /\ ActiveIn(jb, j) /\ jb[i].sermon = jb[j].sermon => i = j

ActiveMatches(sm, jb) ==
  \A j \in DOMAIN jb : ActiveIn(jb, j) =>
    LET s == jb[j].sermon
    IN  /\ sm[s].stage = StageOf(jb[j].type)
        /\ sm[s].status \in {"pending", "running"}
        /\ jb[j].state = "running" => sm[s].status = "running"

BusyHasJob(sm, jb) ==
  \A s \in Sermons :
    sm[s].status \in {"pending", "running"} /\ sm[s].stage # "upload"
      => \E j \in DOMAIN jb : jb[j].sermon = s /\ ActiveIn(jb, j)

\* A row that does not exist has no status and owns nothing.
Presence(sm, jb) ==
  /\ \A s \in Sermons : sm[s].stage \in NoRow <=> sm[s].status = "none"
  /\ \A j \in DOMAIN jb : sm[jb[j].sermon].stage \in NoRow => jb[j].state = "deleted"

Coherent(sm, jb) ==
  SingleActive(jb) /\ ActiveMatches(sm, jb) /\ BusyHasJob(sm, jb) /\ Presence(sm, jb)

(* What the jobs that are over tell the retries and reruns to come: the     *)
(* attempts they had, the failure to retry, and where to return to.        *)

\* Every counted attempt of the current cycle ended in a recorded error or is
\* under way, and a job fails with exactly MaxAttempts errors.
Counted(job) ==
  job.type # "apply_edits" =>
    CASE job.state = "queued"  -> job.attempts = job.errors /\ job.errors < MaxAttempts
      [] job.state = "running" -> job.attempts = job.errors + 1 /\ job.errors < MaxAttempts
      [] job.state = "failed"  -> job.attempts = job.errors /\ job.errors = MaxAttempts
      [] OTHER                 -> TRUE

\* The stages at which a sermon rests, and that reruns and exports return to.
PipelineStages == {"normalization", "editing", "metadata"}

OfStage(jb, j, s, stage) ==
  jb[j].sermon = s /\ jb[j].state # "deleted" /\ StageOf(jb[j].type) = stage

\* No later job of the sermon belongs to the stage of j.
Latest(jb, j) ==
  \A k \in DOMAIN jb : OfStage(jb, k, jb[j].sermon, StageOf(jb[j].type)) => k <= j

\* Running j does not overwrite a draft that the user saved.
KeepsDraft(sm, jb, j) ==
  jb[j].type = "prepare_edit" => sm[jb[j].sermon].draft # "saved"

\* The latest job of the stage failed, and can be run again.
LatestFailed(sm, jb, s, stage) ==
  \E j \in DOMAIN jb : /\ OfStage(jb, j, s, stage) /\ Latest(jb, j)
                       /\ jb[j].state = "failed" /\ KeepsDraft(sm, jb, j)

\* When j returns the sermon to a failure, that is still there to be retried.
ReturnsRightly(sm, jb, j) ==
  jb[j].return.status = "failed"
    => LatestFailed(sm, jb, jb[j].sermon, jb[j].return.stage)

RemembersFor(sm, jb, s) ==
  /\ \A j \in DOMAIN jb : jb[j].sermon = s =>
       /\ jb[j].return # NoReturn => /\ jb[j].return.stage \in PipelineStages
                                    /\ StageOf(jb[j].type) \notin PipelineStages
       /\ jb[j].type = "export" => jb[j].return # NoReturn
       /\ ActiveIn(jb, j) =>
            Latest(jb, j) /\ KeepsDraft(sm, jb, j) /\ ReturnsRightly(sm, jb, j)
  /\ sm[s].status = "failed" =>
       \E j \in DOMAIN jb : /\ OfStage(jb, j, s, sm[s].stage) /\ Latest(jb, j)
                            /\ jb[j].state = "failed" /\ KeepsDraft(sm, jb, j)
                            /\ ReturnsRightly(sm, jb, j)
  /\ sm[s].stage = "export" => sm[s].status # "done"

ASSUME MaxAttemptsAssumption == MaxAttempts \in Nat \ {0}
ASSUME BoundsAssumption == MaxRequests \in Nat /\ MaxCrashes \in Nat /\ MaxFaults \in Nat
ASSUME RerunPartsAssumption == RerunParts \subseteq Parts

\* Whatever version wrote it, the database of the first start is coherent.
ASSUME DatabasesAssumption ==
  \A d \in Databases :
    /\ d.sermon \in [Sermons -> Rows]
    /\ d.jobs \in Seq(Jobs)
    /\ Coherent(d.sermon, d.jobs)

\* ... and its jobs were run by the same transactions.
ASSUME HistoryAssumption ==
  \A d \in Databases :
    /\ \A j \in DOMAIN d.jobs : Counted(d.jobs[j])
    /\ \A s \in Sermons : RemembersFor(d.sermon, d.jobs, s)

Init ==
  /\ \E d \in Databases : sermon = d.sermon /\ jobs = d.jobs
  /\ worker = [w \in Workers |-> Idle]
  /\ exportCall = [s \in Sermons |-> "none"]
  /\ process = "down"
  /\ stranded = {}
  /\ requests = 0 /\ crashes = 0 /\ faults = 0

-----------------------------------------------------------------------------
(* The process: main.go *)

\* An abandoned execution goes back to the queue and does not count.
KeepsItsAttempt(job) == [job EXCEPT !.state = "queued"]          \* mutant
StaysRunning(job) == job                                         \* mutant
Requeued(job) ==
  [job EXCEPT !.state = "queued", !.attempts = IF @ > 0 THEN @ - 1 ELSE 0]

\* store.Open returns abandoned work to the queue; jobs of the retired editor
\* fail, and so does a sermon that waits on one.
RecoverRunningJobs ==
  LET retired(j)   == Active(j) /\ jobs[j].type = "apply_edits"
      abandoned(j) == jobs[j].state = "running" /\ jobs[j].type # "apply_edits"
      status(s) ==
        CASE /\ sermon[s].stage = "edit"
             /\ sermon[s].status \in {"pending", "running"}
             /\ \E j \in JobsOf(s) : retired(j)                    -> "failed"
          [] /\ sermon[s].status = "running"
             /\ \E j \in StageJobs(s) : abandoned(j)               -> "pending"
          [] OTHER                                   -> sermon[s].status
  IN  /\ process = "down"
      /\ process' = "opened"
      /\ sermon' = [s \in Sermons |-> [sermon[s] EXCEPT !.status = status(s)]]
      /\ jobs' = [j \in DOMAIN jobs |->
           CASE retired(j)   -> [jobs[j] EXCEPT !.state = "failed"]
             [] abandoned(j) -> Requeued(jobs[j])
             [] OTHER        -> jobs[j]]
      /\ stranded' = {}
      /\ UNCHANGED <<worker, exportCall, bounds>>

\* main drops the uploads a stopped process left behind and starts serving.
DiscardInterruptedUploads ==
  LET discarded == {s \in Sermons : /\ sermon[s].stage = "upload"
                                    /\ sermon[s].status \in {"pending", "running"}}
  IN  /\ process = "opened"
      /\ process' = "up"
      /\ sermon' = [s \in Sermons |-> IF s \in discarded
                                      THEN [AbsentRow EXCEPT !.stage = "deleted"]
                                      ELSE sermon[s]]
      /\ jobs' = [j \in DOMAIN jobs |-> IF jobs[j].sermon \in discarded
                                        THEN [jobs[j] EXCEPT !.state = "deleted"]
                                        ELSE jobs[j]]
      /\ UNCHANGED <<worker, exportCall, stranded, bounds>>

Serving == process \in {"up", "stopping"}   \* requests are still answered

DropInFlight ==
  /\ process' = "down"
  /\ worker' = [w \in Workers |-> Idle]
  /\ exportCall' = [s \in Sermons |-> "none"]
  /\ UNCHANGED <<sermon, jobs, stranded, requests, faults>>

Crash ==
  /\ process # "down"
  /\ crashes < MaxCrashes
  /\ crashes' = crashes + 1
  /\ DropInFlight

\* A signal cancels the workers' context; requests in flight go on.
Shutdown ==
  /\ process = "up"
  /\ crashes < MaxCrashes
  /\ crashes' = crashes + 1
  /\ process' = "stopping"
  /\ UNCHANGED <<sermon, jobs, worker, exportCall, stranded, requests, faults>>

\* Queue.Stop waits for the workers, then the store closes under the requests.
Exit ==
  /\ process = "stopping"
  /\ \A w \in Workers : worker[w].pc = "idle"
  /\ DropInFlight
  /\ UNCHANGED crashes

-----------------------------------------------------------------------------
(* The worker pool: queue.go and the job transactions of jobs.go *)

ClaimableTwice(j) ==                                             \* mutant
  jobs[j].state \in {"queued", "running"} /\ jobs[j].type # "apply_edits"
ClaimableAfterFailure(j) ==                                      \* mutant
  jobs[j].state \in {"queued", "failed"} /\ jobs[j].type # "apply_edits"
Claimable(j) == jobs[j].state = "queued" /\ jobs[j].type # "apply_edits"

ClaimNextJob(w, j) ==
  /\ process = "up"
  /\ worker[w].pc = "idle"
  /\ Claimable(j)
  /\ jobs' = [jobs EXCEPT ![j].state = "running", ![j].attempts = @ + 1]
  /\ SetStage(jobs[j].sermon, StageOf(jobs[j].type), "running")
  /\ worker' = [worker EXCEPT ![w] =
       [pc |-> "handling", job |-> j, attempts |-> jobs[j].attempts + 1,
        next |-> "none"]]
  /\ UNCHANGED <<exportCall, process, stranded, bounds>>

\* A tick or a wake-up that finds nothing to do.
PollNoJob(w) ==
  /\ process = "up"
  /\ worker[w].pc = "idle"
  /\ ~ \E j \in DOMAIN jobs : Claimable(j)
  /\ UNCHANGED vars

PreparesAgain(type, s) ==                                        \* mutant
  CASE type = "normalize"   -> "transcribe"
    [] type = "transcribe"  -> "prepare_edit"
    [] type = "render_edit" -> "extract_metadata"
    [] OTHER                -> "none"

\* The next job a successful handler asks for; "none" ends the stage.
NextType(type, s) ==
  CASE type = "normalize"   -> "transcribe"
    [] type = "transcribe"  -> IF sermon[s].draft = "none" THEN "prepare_edit"
                                                           ELSE "extract_metadata"
    [] type = "render_edit" -> "extract_metadata"
    [] OTHER                -> "none"

\* What a handler has stored about the sermon by the time it returns.
HandlerOutput(type, s) ==
  sermon' =
    CASE Exists(s) /\ type = "transcribe"   -> [sermon EXCEPT ![s].transcript = TRUE]
      [] Exists(s) /\ type = "prepare_edit" -> [sermon EXCEPT ![s].draft = "generated"]
      [] OTHER                              -> sermon

\* The editing and metadata handlers refuse a sermon without a transcription.
Runnable(type, s) ==
  type \in {"normalize", "transcribe", "render_edit", "export"} \/ sermon[s].transcript

\* A handler that returns after cancellation leaves its job running.
HandlerReturns(w, pc, next) ==
  worker' = [worker EXCEPT ![w] =
    IF process = "stopping" THEN Idle ELSE [@ EXCEPT !.pc = pc, !.next = next]]

HandlerSucceeds(w) ==
  LET job == jobs[worker[w].job]
  IN  /\ worker[w].pc = "handling"
      /\ Runnable(job.type, job.sermon)
      /\ HandlerReturns(w, "succeeded", NextType(job.type, job.sermon))
      /\ HandlerOutput(job.type, job.sermon)
      /\ UNCHANGED <<jobs, exportCall, process, stranded, bounds>>

\* An error, a panic or a cancelled context; the output may be stored already.
HandlerFails(w) ==
  LET job == jobs[worker[w].job]
  IN  /\ worker[w].pc = "handling"
      /\ HandlerReturns(w, "failed", "none")
      /\ UNCHANGED sermon \/ HandlerOutput(job.type, job.sermon)
      /\ UNCHANGED <<jobs, exportCall, process, stranded, bounds>>

\* CompleteJob: an UPDATE that matches no running job rolls everything back.
CompleteJob(w) ==
  LET j    == worker[w].job
      s    == jobs[j].sermon
      next == worker[w].next
      done == [jobs EXCEPT ![j].state = "done"]
      end  == IF jobs[j].return # NoReturn
              THEN jobs[j].return
              ELSE [stage |-> StageOf(jobs[j].type), status |-> "done"]
  IN  /\ worker[w].pc = "succeeded"
      /\ GoIdle(w)
      /\ \/ /\ jobs[j].state # "running"
            /\ UNCHANGED <<sermon, jobs>>
         \/ /\ jobs[j].state = "running"
            /\ next = "none"
            /\ jobs' = done
            /\ SetStage(s, end.stage, end.status)
         \/ /\ jobs[j].state = "running"
            /\ next # "none"
            /\ jobs' = Append(done, NewJob(s, next, NoReturn))
            /\ SetStage(s, StageOf(next), "pending")
      /\ UNCHANGED <<exportCall, process, stranded, bounds>>

\* An exhausted job shows on the sermon while that is still in its stage.
HidesFailure(s, type) == UNCHANGED sermon                        \* mutant
ExposeFailure(s, type) ==
  IF sermon[s].stage = StageOf(type)
  THEN SetStage(s, sermon[s].stage, "failed")
  ELSE UNCHANGED sermon

\* recordJobFailure, with handleFailure's choice of requeueing or failing.
RecordJobFailure(w) ==
  LET j == worker[w].job
      s == jobs[j].sermon
      recorded(state) ==
        jobs' = [jobs EXCEPT ![j].state = state, ![j].errors = @ + 1]
  IN  /\ worker[w].pc = "failed"
      /\ GoIdle(w)
      /\ \/ /\ jobs[j].state # "running"
            /\ UNCHANGED <<sermon, jobs>>
         \/ /\ jobs[j].state = "running"
            /\ worker[w].attempts < MaxAttempts
            /\ recorded("queued")
            /\ UNCHANGED sermon
         \/ /\ jobs[j].state = "running"
            /\ worker[w].attempts >= MaxAttempts
            /\ recorded("failed")
            /\ ExposeFailure(s, jobs[j].type)
      /\ UNCHANGED <<exportCall, process, stranded, bounds>>

\* The store refuses the load or the report that follows a claim: runOne logs
\* the error and takes the next job, and this one stays running.
StoreError(w) ==
  /\ worker[w].pc # "idle"
  /\ faults < MaxFaults
  /\ faults' = faults + 1
  /\ GoIdle(w)
  /\ stranded' = stranded \cup {worker[w].job}
  /\ UNCHANGED <<sermon, jobs, exportCall, process, requests, crashes>>

-----------------------------------------------------------------------------
(* Uploads, reviews and deletion: server.go *)

\* handleUploadSermon, up to the row that its body will be stored under.
CreateSermon(s) ==
  /\ Serving
  /\ sermon[s].stage = "absent"
  /\ SetStage(s, "upload", "pending")
  /\ UNCHANGED <<jobs, worker, exportCall, process, stranded, bounds>>

StartUpload(s) ==
  /\ Serving
  /\ sermon[s].stage = "upload" /\ sermon[s].status = "pending"
  /\ SetStage(s, "upload", "running")
  /\ UNCHANGED <<jobs, worker, exportCall, process, stranded, bounds>>

CompleteUpload(s) ==
  /\ Serving
  /\ sermon[s].stage = "upload" /\ sermon[s].status = "running"
  /\ SetStage(s, "normalization", "pending")
  /\ jobs' = Append(jobs, NewJob(s, "normalize", NoReturn))
  /\ UNCHANGED <<worker, exportCall, process, stranded, bounds>>

WithoutCascade(s) ==                                             \* mutant
  /\ sermon' = [sermon EXCEPT ![s] = [AbsentRow EXCEPT !.stage = "deleted"]]
  /\ UNCHANGED jobs

\* The row goes, and ON DELETE CASCADE takes everything that refers to it.
RemoveRow(s) ==
  /\ sermon' = [sermon EXCEPT ![s] = [AbsentRow EXCEPT !.stage = "deleted"]]
  /\ jobs' = [j \in DOMAIN jobs |-> IF jobs[j].sermon = s
                                    THEN [jobs[j] EXCEPT !.state = "deleted"]
                                    ELSE jobs[j]]

\* A delete request, or abandonUpload after any error of the upload.
DeleteSermon(s) ==
  /\ Serving
  /\ Exists(s)
  /\ RemoveRow(s)
  /\ UNCHANGED <<worker, exportCall, process, stranded, bounds>>

MarkNormalizationReviewed(s) ==
  /\ Serving
  /\ sermon[s].stage = "normalization" /\ sermon[s].status = "done"
  /\ sermon' = [sermon EXCEPT ![s].reviewed = TRUE]
  /\ UNCHANGED <<jobs, worker, exportCall, process, stranded, bounds>>

-----------------------------------------------------------------------------
(* Requests for more processing: jobs.go, editing.go, export.go *)

Request ==
  /\ Serving
  /\ requests < MaxRequests
  /\ requests' = requests + 1
  /\ UNCHANGED <<worker, process, stranded, crashes, faults>>

EnqueueNormalizationRerun(s) ==
  /\ Request
  /\ sermon[s].stage = "normalization" /\ sermon[s].status = "done"
  /\ sermon' = [sermon EXCEPT ![s].status = "pending", ![s].reviewed = FALSE]
  /\ jobs' = Append(jobs, NewJob(s, "normalize", NoReturn))
  /\ UNCHANGED exportCall

Here(s) == [stage |-> sermon[s].stage, status |-> sermon[s].status]

RecordedTooLate(s) == [Here(s) EXCEPT !.status = "pending"]      \* mutant
AlwaysHere(s) == Here(s)                                         \* mutant
ForgetsTheFirst(s) ==                                            \* mutant
  IF sermon[s].stage \in {"metadata", "transcription", "title", "topics",
                          "scriptures", "edit"}
  THEN [stage |-> "metadata", status |-> "done"]
  ELSE Here(s)

\* A rerun comes back to where the sermon was, to metadata/done from the stages
\* before it, and after a failed rerun to where that one would have gone.
ReturnOf(s) ==
  LET prior == jobs[Newest(StageJobs(s))].return
  IN  IF sermon[s].status = "failed" /\ StageJobs(s) # {} /\ prior # NoReturn
      THEN prior
      ELSE IF sermon[s].stage \in {"metadata", "transcription", "title", "topics",
                                   "scriptures", "edit"}
      THEN [stage |-> "metadata", status |-> "done"]
      ELSE Here(s)

EnqueueProcessingRerun(s, part) ==
  /\ Request
  /\ sermon[s].stage # "upload"
  /\ sermon[s].status \in {"done", "failed"}
  /\ sermon[s].stage = "editing" => part = "transcription"
  /\ part # "transcription" => sermon[s].transcript
  /\ ~HasActiveJob(s)
  /\ SetStage(s, part, "pending")
  /\ jobs' = Append(jobs, NewJob(s, RerunType(part), ReturnOf(s)))
  /\ UNCHANGED exportCall

\* RetryFailedJob resets the newest failed job of the sermon's stage.
FailedJobs(s) == {j \in StageJobs(s) : jobs[j].state = "failed"
                                       /\ jobs[j].type # "apply_edits"}
Retryable(s) == sermon[s].status = "failed" /\ FailedJobs(s) # {}

LeavesSermonFailed(s) ==                                         \* mutant
  LET j == Newest(FailedJobs(s))
  IN  /\ Retryable(s)
      /\ jobs' = [jobs EXCEPT ![j].state = "queued",
                              ![j].attempts = 0, ![j].errors = 0]
      /\ UNCHANGED sermon

ResetFailedJob(s) ==
  LET j == Newest(FailedJobs(s))
  IN  /\ Retryable(s)
      /\ jobs' = [jobs EXCEPT ![j].state = "queued",
                              ![j].attempts = 0, ![j].errors = 0]
      /\ SetStage(s, sermon[s].stage, "pending")

RetryFailedJob(s) ==
  /\ Request
  /\ ResetFailedJob(s)
  /\ UNCHANGED exportCall

\* Editing and exporting wait for a sermon that nothing is being done to.
AtRest(s) ==
  \/ sermon[s].stage = "editing" /\ sermon[s].status = "done"
  \/ sermon[s].stage = "metadata" /\ sermon[s].status \in {"done", "failed"}

SaveDraft(s) ==
  /\ Serving
  /\ sermon[s].draft # "none" /\ sermon[s].transcript
  /\ AtRest(s) /\ ~HasActiveJob(s)
  /\ sermon' = [sermon EXCEPT ![s].draft = "saved"]
  /\ UNCHANGED <<jobs, worker, exportCall, process, stranded, bounds>>

ApplyDraft(s) ==
  /\ Request
  /\ sermon[s].draft # "none" /\ sermon[s].transcript
  /\ AtRest(s) /\ ~HasActiveJob(s)
  /\ jobs' = Append(jobs, NewJob(s, "render_edit", NoReturn))
  /\ SetStage(s, "editing", "pending")
  /\ UNCHANGED exportCall

\* handleExport reads the sermon and decides between a retry and a new export.
ExportDecide(s) ==
  /\ Serving
  /\ Exists(s)
  /\ exportCall[s] = "none"
  /\ exportCall' = [exportCall EXCEPT ![s] =
       IF sermon[s].stage = "export" /\ sermon[s].status = "failed"
       THEN "retry" ELSE "enqueue"]
  /\ UNCHANGED <<sermon, jobs, worker, process, stranded, bounds>>

Exportable(s) == AtRest(s) /\ ~HasActiveJob(s) /\ sermon[s].draft # "none"

EnqueueExport(s) ==
  /\ Exportable(s)
  /\ jobs' = Append(jobs, NewJob(s, "export", Here(s)))
  /\ SetStage(s, "export", "pending")

ExportCommit(s) ==
  /\ Request
  /\ \/ exportCall[s] = "enqueue" /\ EnqueueExport(s)
     \/ exportCall[s] = "retry" /\ ResetFailedJob(s)
  /\ exportCall' = [exportCall EXCEPT ![s] = "none"]

\* The transaction finds the sermon busy, gone or no longer failed.
ExportRefused(s) ==
  /\ Serving
  /\ \/ exportCall[s] = "enqueue" /\ ~Exportable(s)
     \/ exportCall[s] = "retry" /\ ~Retryable(s)
  /\ exportCall' = [exportCall EXCEPT ![s] = "none"]
  /\ UNCHANGED <<sermon, jobs, worker, process, stranded, bounds>>

-----------------------------------------------------------------------------
(* Specification *)

ProcessStep ==
  RecoverRunningJobs \/ DiscardInterruptedUploads \/ Crash \/ Shutdown \/ Exit

Claim(w) == \E j \in DOMAIN jobs : ClaimNextJob(w, j)

WorkerStep(w) ==
  \/ Claim(w)
  \/ PollNoJob(w)
  \/ HandlerSucceeds(w)
  \/ HandlerFails(w)
  \/ CompleteJob(w)
  \/ RecordJobFailure(w)
  \/ StoreError(w)

UserStep(s) ==
  \/ CreateSermon(s)
  \/ StartUpload(s)
  \/ CompleteUpload(s)
  \/ DeleteSermon(s)
  \/ MarkNormalizationReviewed(s)
  \/ EnqueueNormalizationRerun(s)
  \/ \E part \in RerunParts : EnqueueProcessingRerun(s, part)
  \/ RetryFailedJob(s)
  \/ SaveDraft(s)
  \/ ApplyDraft(s)
  \/ ExportDecide(s)
  \/ ExportCommit(s)
  \/ ExportRefused(s)

Next ==
  \/ ProcessStep
  \/ \E w \in Workers : WorkerStep(w)
  \/ \E s \in Sermons : UserStep(s)

Spec == Init /\ [][Next]_vars

\* The poll ticker brings every worker back to the queue, every handler runs
\* under a context and returns, and the process is started again when it ends.
\* Nothing is assumed of users, crashes or store errors.
Fairness ==
  /\ WF_vars(RecoverRunningJobs)
  /\ WF_vars(DiscardInterruptedUploads)
  /\ WF_vars(Exit)
  /\ \A w \in Workers :
       /\ WF_vars(Claim(w))
       /\ WF_vars(HandlerSucceeds(w) \/ HandlerFails(w))
       /\ WF_vars(CompleteJob(w) \/ RecordJobFailure(w))

LiveSpec == Spec /\ Fairness

-----------------------------------------------------------------------------
(* Properties *)

\* The variables hold what the columns and the goroutines can hold.
TypeOK ==
  /\ sermon \in [Sermons -> Rows]
  /\ jobs \in Seq(Jobs)
  /\ worker \in [Workers -> [pc : {"idle", "handling", "succeeded", "failed"},
                             job : Nat, attempts : Nat,
                             next : JobTypes \cup {"none"}]]
  /\ \A w \in Workers : worker[w].pc # "idle" => worker[w].job \in DOMAIN jobs
  /\ exportCall \in [Sermons -> {"none", "retry", "enqueue"}]
  /\ process \in {"down", "opened", "up", "stopping"}
  /\ stranded \subseteq DOMAIN jobs
  /\ requests \in Nat /\ crashes \in Nat /\ faults \in Nat

\* The sermon row and the jobs table agree: one active job per sermon, of the
\* sermon's stage, and no sermon waits without one -- across reruns, retries,
\* exports, applied edits, deletions, crashes and restarts.  (The guards of
\* jobs.go:165, export.go:45 and editing.go:143 and the sole writer of each.)
OneJobPerBusySermon == Coherent(sermon, jobs)

\* While the process serves, exactly one worker is busy with each running job;
\* a job without one was stranded by a store error and waits for the restart.
\* Two workers never share a job.  (queue.go runOne, jobs.go ClaimNextJob.)
RunningJobHasOneWorker ==
  process = "up" =>
    \A j \in DOMAIN jobs : jobs[j].state = "running" =>
      LET holders == {w \in Workers : worker[w].pc # "idle" /\ worker[w].job = j}
      IN  Cardinality(holders) = IF j \in stranded THEN 0 ELSE 1

\* A retry runs the job that failed the sermon: whichever way a sermon came to
\* be failed -- also when an export or a rerun put it back -- the newest job of
\* its stage is the failed one and RetryFailedJob finds it (jobs.go:535).
\* Sermons failed by the retired editor are the ones no retry can reach.
RetryFindsTheFailure ==
  \A s \in Sermons : sermon[s].status = "failed" =>
    /\ StageJobs(s) # {}
    /\ jobs[Newest(StageJobs(s))].state = "failed"

\* Neither a crash nor a restart costs an attempt or grants one: the attempts
\* counter of a job is the number of errors recorded in its cycle, plus the
\* execution under way, and a job fails with exactly MaxAttempts of them
\* (jobs.go:304 RecoverRunningJobs gives back what ClaimNextJob took).
AttemptsCountErrors == \A j \in DOMAIN jobs : Counted(jobs[j])

\* However reruns and exports follow on failed ones, a job never returns the
\* sermon to a part's own stage, nor to one where nothing could be retried or
\* requested: it goes back to a settled pipeline stage (jobs.go:146-160).
ReturnIsToThePipeline ==
  \A j \in DOMAIN jobs :
    jobs[j].return # NoReturn => jobs[j].return.stage \in PipelineStages

\* Preparing an edit overwrites the draft, so it is never under way for a sermon
\* whose draft a user has saved (editing.go PrepareEditing replaces the row).
SavedDraftIsKept ==
  \A j \in DOMAIN jobs : jobs[j].type = "prepare_edit" /\ Active(j)
    => sermon[jobs[j].sermon].draft # "saved"

\* A sermon that is being worked on is settled or deleted in the end.
Busy(s) == sermon[s].status \in {"pending", "running"} /\ sermon[s].stage # "upload"
BusySermonSettles == \A s \in Sermons : Busy(s) ~> ~Busy(s)

\* What the comment at jobs.go:128 says of a rerun: "The original pipeline state
\* is restored on success."  Once the rerun and the jobs that followed from it
\* are done, the settled sermon is where it was.  The code does not keep this:
\* a repeated transcription goes on to the next stage without its return state.
RerunRestoresTheState ==
  \A s \in Sermons : ~Busy(s) => \A j \in JobsOf(s) :
    (/\ jobs[j].return.status = "done"
     /\ \A k \in JobsOf(s) : k >= j =>
          /\ jobs[k].state = "done"
          /\ k > j => jobs[k].type \in {"prepare_edit", "extract_metadata"})
    => Here(s) = jobs[j].return

=============================================================================
