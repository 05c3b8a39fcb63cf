---------------------------- MODULE PipelineProofs ----------------------------
(***************************************************************************)
(* Type correctness of Pipeline and the coherence of its two tables, for   *)
(* any sermons, workers, bounds and any coherent database at first start.  *)
(*                                                                         *)
(* Neither is inductive without the other: a rerun stores where the sermon *)
(* is as the return state of a job, which is a stage only because a row    *)
(* with a status exists (Presence), and coherence speaks of well-typed     *)
(* tables.  IInv is their conjunction.  Coherence is a statement about     *)
(* each sermon by itself (CoherentFor), so an action that touches one      *)
(* sermon has only that one to show coherent (lemma Touched).              *)
(***************************************************************************)
EXTENDS Pipeline, FiniteSetTheorems, WellFoundedInduction, TLAPS

IInv == TypeOK /\ OneJobPerBusySermon

-----------------------------------------------------------------------------
(* Numbers, tables and rows *)

\* A set of natural numbers has a least element.
LEMMA HasLeast ==
  ASSUME NEW S \in SUBSET Nat, S # {}
  PROVE  \E m \in S : \A k \in S : m <= k
<1> DEFINE R == OpToRel(<, Nat)
<1>1. IsWellFoundedOn(R, Nat)
  BY NatLessThanWellFounded
<1>2. \A x, y \in Nat : x < y => <<x, y>> \in R
  BY DEF OpToRel
<1> HIDE DEF R
<1>3. PICK m \in S : \A k \in S : ~(<<k, m>> \in R)
  BY <1>1, WFMin
<1>4. \A k \in S : m <= k
  <2> TAKE k \in S
  <2>1. k \in Nat /\ m \in Nat
    BY <1>3
  <2>2. ~(k < m)
    BY <1>2, <1>3, <2>1
  <2> QED BY <2>1, <2>2
<1> QED BY <1>3, <1>4

\* A set of positions of a table has a greatest element, and Newest is it.
LEMMA NewestIsNewest ==
  ASSUME NEW jb \in Seq(Jobs), NEW S \in SUBSET DOMAIN jb, S # {}
  PROVE  Newest(S) \in S /\ \A k \in S : k <= Newest(S)
<1> DEFINE T == {Len(jb) - k : k \in S}
<1>1. Len(jb) \in Nat /\ \A k \in S : k \in Nat /\ k <= Len(jb)
  OBVIOUS
<1>2. \A k \in S : Len(jb) - k \in Nat
  BY <1>1
<1>3. T \in SUBSET Nat /\ T # {}
  BY <1>2
<1>4. PICK t \in T : \A u \in T : t <= u
  <2> HIDE DEF T
  <2> QED BY <1>3, HasLeast
<1>5. PICK m \in S : t = Len(jb) - m
  BY <1>4
<1>6. ASSUME NEW k \in S
      PROVE  k <= m
  <2>1. Len(jb) - m <= Len(jb) - k
    BY <1>4, <1>5
  <2> QED
    BY <1>1, <2>1
<1> QED
  BY <1>5, <1>6 DEF Newest

\* Every job type belongs to a stage, and none to the upload.
LEMMA StageOfType ==
  ASSUME NEW type \in JobTypes
  PROVE  /\ StageOf(type) \in Stages
         /\ StageOf(type) # "upload"
         /\ StageOf(type) \notin NoRow
BY DEF JobTypes, StageOf, Stages, NoRow

\* A new job is a queued job of its sermon.
LEMMA NewJobType ==
  ASSUME NEW s \in Sermons, NEW type \in JobTypes, NEW return \in Returns
  PROVE  /\ NewJob(s, type, return) \in Jobs
         /\ NewJob(s, type, return).sermon = s
         /\ NewJob(s, type, return).type = type
         /\ NewJob(s, type, return).state = "queued"
BY DEF NewJob, Jobs

\* Moving a sermon to a stage changes its stage and status, and no other row.
LEMMA SetStageRow ==
  ASSUME sermon \in [Sermons -> Rows],
         NEW s \in Sermons, NEW stage \in Stages, NEW status \in Statuses,
         SetStage(s, stage, status)
  PROVE  /\ sermon' \in [Sermons -> Rows]
         /\ sermon'[s].stage = stage
         /\ sermon'[s].status = status
         /\ \A t \in Sermons \ {s} : sermon'[t] = sermon[t]
BY DEF SetStage, Rows

\* A job enqueued is a job more, after the others.
LEMMA AppendedJob ==
  ASSUME NEW jb \in Seq(Jobs), NEW job \in Jobs
  PROVE  /\ Append(jb, job) \in Seq(Jobs)
         /\ DOMAIN Append(jb, job) = DOMAIN jb \cup {Len(jb) + 1}
         /\ Len(jb) + 1 \notin DOMAIN jb
         /\ Append(jb, job)[Len(jb) + 1] = job
         /\ \A j \in DOMAIN jb : Append(jb, job)[j] = jb[j]
OBVIOUS

\* A table rewritten in place is a table.
LEMMA RewrittenJobs ==
  ASSUME NEW jb \in Seq(Jobs), NEW f \in [DOMAIN jb -> Jobs]
  PROVE  f \in Seq(Jobs) /\ DOMAIN f = DOMAIN jb
OBVIOUS

\* The jobs of a table.
LEMMA JobOfTable ==
  ASSUME NEW jb \in Seq(Jobs), NEW j \in DOMAIN jb
  PROVE  /\ jb[j] \in Jobs
         /\ jb[j].sermon \in Sermons
         /\ jb[j].type \in JobTypes
         /\ jb[j].return \in Returns
         /\ jb[j].attempts \in Nat /\ jb[j].errors \in Nat
         /\ jb[j].state \in {"queued", "running", "done", "failed", "deleted"}
<1>1. jb[j] \in Jobs
  OBVIOUS
<1> QED
  BY <1>1 DEF Jobs

\* A job put back into the queue.
LEMMA RequeuedJob ==
  ASSUME NEW job \in Jobs
  PROVE  /\ Requeued(job) \in Jobs
         /\ Requeued(job).sermon = job.sermon
         /\ Requeued(job).type = job.type
         /\ Requeued(job).state = "queued"
<1>1. job.attempts \in Nat
  BY DEF Jobs
<1>2. (IF job.attempts > 0 THEN job.attempts - 1 ELSE 0) \in Nat
  BY <1>1
<1> QED
  BY <1>2 DEF Requeued, Jobs

\* A job that a worker has claimed.
LEMMA ClaimedJob ==
  ASSUME NEW job \in Jobs
  PROVE  /\ [job EXCEPT !.state = "running", !.attempts = @ + 1] \in Jobs
         /\ [job EXCEPT !.state = "running", !.attempts = @ + 1].sermon = job.sermon
         /\ [job EXCEPT !.state = "running", !.attempts = @ + 1].type = job.type
         /\ [job EXCEPT !.state = "running", !.attempts = @ + 1].state = "running"
<1>1. job.attempts \in Nat
  BY DEF Jobs
<1>2. job.attempts + 1 \in Nat
  BY <1>1
<1> QED
  BY <1>2 DEF Jobs

\* A job whose failure is recorded.
LEMMA ReportedJob ==
  ASSUME NEW job \in Jobs, NEW state \in {"queued", "failed"}
  PROVE  /\ [job EXCEPT !.state = state, !.errors = @ + 1] \in Jobs
         /\ [job EXCEPT !.state = state, !.errors = @ + 1].sermon = job.sermon
         /\ [job EXCEPT !.state = state, !.errors = @ + 1].type = job.type
         /\ [job EXCEPT !.state = state, !.errors = @ + 1].state = state
<1>1. job.errors \in Nat
  BY DEF Jobs
<1>2. job.errors + 1 \in Nat
  BY <1>1
<1> QED
  BY <1>2 DEF Jobs

\* A job that is done.
LEMMA DoneJob ==
  ASSUME NEW job \in Jobs
  PROVE  /\ [job EXCEPT !.state = "done"] \in Jobs
         /\ [job EXCEPT !.state = "done"].sermon = job.sermon
         /\ [job EXCEPT !.state = "done"].type = job.type
         /\ [job EXCEPT !.state = "done"].state = "done"
BY DEF Jobs

\* A job that starts a new cycle of attempts.
LEMMA ResetJob ==
  ASSUME NEW job \in Jobs
  PROVE  /\ [job EXCEPT !.state = "queued", !.attempts = 0, !.errors = 0] \in Jobs
         /\ [job EXCEPT !.state = "queued", !.attempts = 0, !.errors = 0].sermon = job.sermon
         /\ [job EXCEPT !.state = "queued", !.attempts = 0, !.errors = 0].type = job.type
         /\ [job EXCEPT !.state = "queued", !.attempts = 0, !.errors = 0].state = "queued"
BY DEF Jobs

-----------------------------------------------------------------------------
(* Coherence, one sermon at a time *)

CoherentFor(sm, jb, s) ==
  /\ \A i, j \in DOMAIN jb :
       jb[i].sermon = s /\ jb[j].sermon = s /\ ActiveIn(jb, i) /\ ActiveIn(jb, j)
         => i = j
  /\ \A j \in DOMAIN jb : jb[j].sermon = s /\ ActiveIn(jb, j) =>
       /\ sm[s].stage = StageOf(jb[j].type)
       /\ sm[s].status \in {"pending", "running"}
       /\ jb[j].state = "running" => sm[s].status = "running"
  /\ sm[s].status \in {"pending", "running"} /\ sm[s].stage # "upload"
       => \E j \in DOMAIN jb : jb[j].sermon = s /\ ActiveIn(jb, j)
  /\ sm[s].stage \in NoRow <=> sm[s].status = "none"
  /\ \A j \in DOMAIN jb :
       jb[j].sermon = s /\ sm[s].stage \in NoRow => jb[j].state = "deleted"

\* Two tables are coherent when they are coherent for every sermon.
LEMMA SermonBySermon ==
  ASSUME NEW sm, NEW jb \in Seq(Jobs)
  PROVE  Coherent(sm, jb) <=> \A s \in Sermons : CoherentFor(sm, jb, s)
<1>1. \A j \in DOMAIN jb : jb[j].sermon \in Sermons
  BY JobOfTable
<1> QED
  BY <1>1 DEF Coherent, SingleActive, ActiveMatches, BusyHasJob, Presence, CoherentFor

\* A sermon keeps its coherence with its row and its jobs.
LEMMA Untouched ==
  ASSUME NEW sm, NEW jb, NEW sm2, NEW jb2, NEW s,
         CoherentFor(sm, jb, s), sm2[s] = sm[s],
         \A j \in DOMAIN jb2 : jb2[j].sermon = s => j \in DOMAIN jb /\ jb[j] = jb2[j],
         \A j \in DOMAIN jb : jb[j].sermon = s => j \in DOMAIN jb2 /\ jb2[j] = jb[j]
  PROVE  CoherentFor(sm2, jb2, s)
BY DEF CoherentFor, ActiveIn

\* Only the sermon whose row and jobs a step touches has to be looked at again.
LEMMA Touched ==
  ASSUME NEW sm, NEW jb \in Seq(Jobs), NEW sm2, NEW jb2 \in Seq(Jobs),
         NEW s \in Sermons,
         \A t \in Sermons \ {s} : CoherentFor(sm, jb, t) /\ sm2[t] = sm[t],
         DOMAIN jb \subseteq DOMAIN jb2,
         \A j \in DOMAIN jb : jb2[j].sermon = jb[j].sermon,
         \A j \in DOMAIN jb : jb[j].sermon # s => jb2[j] = jb[j],
         \A j \in DOMAIN jb2 \ DOMAIN jb : jb2[j].sermon = s,
         CoherentFor(sm2, jb2, s)
  PROVE  Coherent(sm2, jb2)
<1>1. ASSUME NEW t \in Sermons \ {s}
      PROVE  CoherentFor(sm2, jb2, t)
  <2>1. \A j \in DOMAIN jb2 : jb2[j].sermon = t => j \in DOMAIN jb /\ jb[j] = jb2[j]
    BY <1>1
  <2>2. \A j \in DOMAIN jb : jb[j].sermon = t => j \in DOMAIN jb2 /\ jb2[j] = jb[j]
    BY <1>1
  <2>3. CoherentFor(sm, jb, t) /\ sm2[t] = sm[t]
    BY <1>1
  <2> QED
    BY ONLY <2>1, <2>2, <2>3, Untouched
<1> QED
  BY <1>1, SermonBySermon

\* Enqueueing a job for a sermon without an active one, together with the stage.
LEMMA Enqueued ==
  ASSUME NEW sm, NEW jb \in Seq(Jobs), NEW sm2 \in [Sermons -> Rows],
         NEW s \in Sermons, NEW type \in JobTypes, NEW return \in Returns,
         \A t \in Sermons \ {s} : CoherentFor(sm, jb, t) /\ sm2[t] = sm[t],
         \A j \in DOMAIN jb : jb[j].sermon = s => ~ActiveIn(jb, j),
         sm2[s].stage = StageOf(type), sm2[s].status = "pending"
  PROVE  /\ Append(jb, NewJob(s, type, return)) \in Seq(Jobs)
         /\ DOMAIN jb \subseteq DOMAIN Append(jb, NewJob(s, type, return))
         /\ Coherent(sm2, Append(jb, NewJob(s, type, return)))
<1> DEFINE job == NewJob(s, type, return)
           jb2 == Append(jb, job)
           n   == Len(jb) + 1
<1>1. job \in Jobs /\ job.sermon = s /\ job.type = type /\ job.state = "queued"
  BY NewJobType
<1> HIDE DEF job
<1>2. /\ jb2 \in Seq(Jobs)
      /\ DOMAIN jb2 = DOMAIN jb \cup {n}
      /\ n \notin DOMAIN jb
      /\ jb2[n] = job
      /\ \A j \in DOMAIN jb : jb2[j] = jb[j]
  BY <1>1, AppendedJob
<1> HIDE DEF jb2, n
<1>3. \A j \in DOMAIN jb2 : jb2[j].sermon = s /\ ActiveIn(jb2, j) => j = n
  BY <1>2 DEF ActiveIn
<1>4. ActiveIn(jb2, n) /\ jb2[n].sermon = s /\ jb2[n].type = type
      /\ jb2[n].state = "queued"
  BY <1>1, <1>2 DEF ActiveIn
<1>5. sm2[s].stage \notin NoRow
  BY StageOfType
<1>6. CoherentFor(sm2, jb2, s)
  BY <1>2, <1>3, <1>4, <1>5 DEF CoherentFor
<1>7. Coherent(sm2, jb2)
  BY <1>2, <1>4, <1>6, Touched
<1> QED
  BY <1>2, <1>7 DEF jb2, job

-----------------------------------------------------------------------------
(* The initial states *)

\* A coherent database that no process has opened.
LEMMA InitIInv == Init => IInv
<1> SUFFICES ASSUME Init
             PROVE  IInv
  OBVIOUS
<1>1. PICK d \in Databases : sermon = d.sermon /\ jobs = d.jobs
  BY DEF Init
<1>2. /\ sermon \in [Sermons -> Rows]
      /\ jobs \in Seq(Jobs)
      /\ Coherent(sermon, jobs)
  BY <1>1, DatabasesAssumption
<1>3. TypeOK
  BY <1>2 DEF Init, TypeOK, Idle
<1> QED
  BY <1>2, <1>3 DEF IInv, OneJobPerBusySermon

-----------------------------------------------------------------------------
(* What the actions do to the two tables *)

\* The parts of IInv that only speak of the tables.
Tables(sm, jb) == sm \in [Sermons -> Rows] /\ jb \in Seq(Jobs) /\ Coherent(sm, jb)

\* ... and of the goroutines and the process.
Around ==
  /\ worker \in [Workers -> [pc : {"idle", "handling", "succeeded", "failed"},
                             job : Nat, attempts : Nat,
                             next : JobTypes \cup {"none"}]]
  /\ \A w \in Workers : worker[w].pc # "idle" => worker[w].job \in DOMAIN jobs
  /\ exportCall \in [Sermons -> {"none", "retry", "enqueue"}]
  /\ process \in {"down", "opened", "up", "stopping"}
  /\ stranded \subseteq DOMAIN jobs
  /\ requests \in Nat /\ crashes \in Nat /\ faults \in Nat

\* IInv is made of the two, before a step and after it.
LEMMA Split ==
  /\ IInv <=> Tables(sermon, jobs) /\ Around
  /\ IInv' <=> Tables(sermon', jobs') /\ Around'
BY DEF IInv, TypeOK, OneJobPerBusySermon, Tables, Around

\* A sermon of coherent tables.
LEMMA CoherentSermon ==
  ASSUME IInv, NEW s \in Sermons
  PROVE  CoherentFor(sermon, jobs, s)
BY SermonBySermon DEF IInv, TypeOK, OneJobPerBusySermon

LEMMA RowType ==
  ASSUME IInv, NEW s \in Sermons
  PROVE  /\ sermon[s] \in Rows
         /\ sermon[s].stage \in Stages \cup NoRow
         /\ sermon[s].status \in Statuses \cup {"none"}
         /\ Exists(s) => sermon[s].stage \in Stages /\ sermon[s].status \in Statuses
<1>1. sermon[s] \in Rows
  BY DEF IInv, TypeOK
<1>2. sermon[s].stage \notin NoRow => sermon[s].status # "none"
  BY CoherentSermon DEF CoherentFor
<1> QED
  BY <1>1, <1>2 DEF Rows, Exists

\* Rows that keep their stage and status stay coherent.
LEMMA SameProgress ==
  ASSUME NEW sm, NEW sm2, NEW jb \in Seq(Jobs), Coherent(sm, jb),
         \A s \in Sermons : sm2[s].stage = sm[s].stage /\ sm2[s].status = sm[s].status
  PROVE  Coherent(sm2, jb)
<1>1. \A s \in Sermons : CoherentFor(sm, jb, s)
  BY SermonBySermon
<1>2. \A s \in Sermons : CoherentFor(sm2, jb, s)
  BY <1>1 DEF CoherentFor
<1> QED
  BY <1>2, SermonBySermon

\* What a handler stores leaves the stage and status alone.
LEMMA HandlerOutputKeepsTables ==
  ASSUME IInv, NEW s \in Sermons, NEW type, HandlerOutput(type, s), UNCHANGED jobs
  PROVE  Tables(sermon', jobs')
<1>1. sermon \in [Sermons -> Rows] /\ jobs \in Seq(Jobs) /\ Coherent(sermon, jobs)
  BY DEF IInv, TypeOK, OneJobPerBusySermon
<1>2. /\ sermon' \in [Sermons -> Rows]
      /\ \A t \in Sermons : /\ sermon'[t].stage = sermon[t].stage
                            /\ sermon'[t].status = sermon[t].status
  <2>1. CASE ~Exists(s) \/ type \notin {"transcribe", "prepare_edit"}
    <3>1. sermon' = sermon
      BY <2>1 DEF HandlerOutput
    <3> QED
      BY <1>1, <3>1
  <2>2. CASE Exists(s) /\ type = "transcribe"
    BY <1>1, <2>2 DEF HandlerOutput, Rows
  <2>3. CASE Exists(s) /\ type = "prepare_edit"
    BY <1>1, <2>3 DEF HandlerOutput, Rows
  <2> QED
    BY <2>1, <2>2, <2>3
<1> QED
  BY <1>1, <1>2, SameProgress DEF Tables

\* A single job takes another state and other counters.
LEMMA UpdatedJob ==
  ASSUME NEW jb \in Seq(Jobs), NEW j \in DOMAIN jb, NEW job \in Jobs,
         job.sermon = jb[j].sermon
  PROVE  /\ [jb EXCEPT ![j] = job] \in Seq(Jobs)
         /\ DOMAIN [jb EXCEPT ![j] = job] = DOMAIN jb
         /\ [jb EXCEPT ![j] = job][j] = job
         /\ \A i \in DOMAIN jb : i # j => [jb EXCEPT ![j] = job][i] = jb[i]
OBVIOUS

\* A single job of a sermon takes another state, and the sermon with it.
LEMMA StateChanged ==
  ASSUME IInv, NEW j \in DOMAIN jobs, NEW job \in Jobs,
         jobs' = [jobs EXCEPT ![j] = job],
         job.sermon = jobs[j].sermon, job.type = jobs[j].type,
         jobs[j].state \in {"queued", "running"},
         sermon' \in [Sermons -> Rows],
         \A t \in Sermons \ {jobs[j].sermon} : sermon'[t] = sermon[t],
         \/ /\ job.state = "queued"
            /\ sermon'[jobs[j].sermon] = sermon[jobs[j].sermon]
         \/ /\ job.state = "running"
            /\ sermon'[jobs[j].sermon].stage = StageOf(job.type)
            /\ sermon'[jobs[j].sermon].status = "running"
         \/ /\ job.state \in {"done", "failed"}
            /\ sermon'[jobs[j].sermon].stage \in Stages
            /\ sermon'[jobs[j].sermon].status \in {"done", "failed"}
  PROVE  Tables(sermon', jobs') /\ DOMAIN jobs' = DOMAIN jobs
<1> DEFINE s == jobs[j].sermon
<1>1. jobs \in Seq(Jobs) /\ s \in Sermons /\ jobs[j].type \in JobTypes
  BY JobOfTable DEF IInv, TypeOK
<1>2. /\ jobs' \in Seq(Jobs)
      /\ DOMAIN jobs' = DOMAIN jobs
      /\ jobs'[j] = job
      /\ \A i \in DOMAIN jobs : i # j => jobs'[i] = jobs[i]
  BY <1>1, UpdatedJob
<1>3. \A t \in Sermons : CoherentFor(sermon, jobs, t)
  BY CoherentSermon
<1>4. \A i \in DOMAIN jobs : jobs[i].sermon = s /\ ActiveIn(jobs, i) => i = j
  BY <1>1, <1>3 DEF CoherentFor, ActiveIn
<1>5. /\ sermon[s].stage = StageOf(jobs[j].type)
      /\ sermon[s].status \in {"pending", "running"}
  BY <1>1, <1>3 DEF CoherentFor, ActiveIn
<1>6. /\ StageOf(jobs[j].type) \in Stages
      /\ \A stage \in Stages : stage \notin NoRow
  BY <1>1, StageOfType DEF Stages, NoRow
<1>7. /\ \A i \in DOMAIN jobs' : jobs'[i].sermon = jobs[i].sermon
      /\ \A i \in DOMAIN jobs' : i # j => (ActiveIn(jobs', i) <=> ActiveIn(jobs, i))
      /\ ActiveIn(jobs', j) <=> job.state \in {"queued", "running"}
  BY <1>2 DEF ActiveIn
<1>8. CoherentFor(sermon', jobs', s)
  <2>1. CASE job.state = "queued" /\ sermon'[s] = sermon[s]
    <3>1. ActiveIn(jobs', j) /\ jobs'[j].sermon = s
      BY <1>2, <1>7, <2>1
    <3>2. \A i \in DOMAIN jobs' : jobs'[i].sermon = s /\ ActiveIn(jobs', i) => i = j
      BY <1>2, <1>4, <1>7
    <3>3. sermon'[s].stage \notin NoRow /\ sermon'[s].status # "none"
      BY <1>5, <1>6, <2>1
    <3> QED
      BY <1>2, <1>5, <2>1, <3>1, <3>2, <3>3 DEF CoherentFor
  <2>2. CASE /\ job.state = "running"
             /\ sermon'[s].stage = StageOf(job.type)
             /\ sermon'[s].status = "running"
    BY <1>1, <1>2, <1>4, <1>5, <1>6, <1>7, <2>2 DEF CoherentFor
  <2>3. CASE /\ job.state \in {"done", "failed"}
             /\ sermon'[s].stage \in Stages
             /\ sermon'[s].status \in {"done", "failed"}
    BY <1>1, <1>2, <1>4, <1>5, <1>6, <1>7, <2>3 DEF CoherentFor
  <2> QED
    BY <2>1, <2>2, <2>3
<1>9. Coherent(sermon', jobs')
  <2>1. \A i \in DOMAIN jobs : jobs[i].sermon # s => jobs'[i] = jobs[i]
    BY <1>2
  <2>2. \A t \in Sermons \ {s} : CoherentFor(sermon, jobs, t) /\ sermon'[t] = sermon[t]
    BY <1>3
  <2>3. /\ DOMAIN jobs \subseteq DOMAIN jobs'
        /\ \A i \in DOMAIN jobs : jobs'[i].sermon = jobs[i].sermon
        /\ \A i \in DOMAIN jobs' \ DOMAIN jobs : jobs'[i].sermon = s
    BY <1>2, <1>7
  <2>4. jobs \in Seq(Jobs) /\ jobs' \in Seq(Jobs) /\ s \in Sermons
    BY <1>1, <1>2
  <2> HIDE DEF s
  <2> QED
    BY ONLY <1>8, <2>1, <2>2, <2>3, <2>4, Touched
<1> QED
  BY <1>2, <1>9 DEF Tables

\* A job is enqueued for a sermon that has no active one.
LEMMA JobEnqueued ==
  ASSUME IInv, NEW s \in Sermons, NEW type \in JobTypes, NEW return \in Returns,
         \A j \in DOMAIN jobs : jobs[j].sermon = s => ~ActiveIn(jobs, j),
         jobs' = Append(jobs, NewJob(s, type, return)),
         sermon' \in [Sermons -> Rows],
         sermon'[s].stage = StageOf(type), sermon'[s].status = "pending",
         \A t \in Sermons \ {s} : sermon'[t] = sermon[t]
  PROVE  Tables(sermon', jobs') /\ DOMAIN jobs \subseteq DOMAIN jobs'
<1>1. jobs \in Seq(Jobs) /\ \A t \in Sermons : CoherentFor(sermon, jobs, t)
  BY CoherentSermon DEF IInv, TypeOK
<1> QED
  BY <1>1, Enqueued DEF Tables

\* The guards of the requests: a sermon that is not being worked on has no
\* active job, and neither has an upload.
LEMMA NoActiveJob ==
  ASSUME IInv, NEW s \in Sermons,
         sermon[s].status \notin {"pending", "running"} \/ sermon[s].stage = "upload"
  PROVE  \A j \in DOMAIN jobs : jobs[j].sermon = s => ~ActiveIn(jobs, j)
<1>1. CoherentFor(sermon, jobs, s)
  BY CoherentSermon
<1>2. \A j \in DOMAIN jobs : jobs[j].type \in JobTypes
  BY JobOfTable DEF IInv, TypeOK
<1> QED
  BY <1>1, <1>2, StageOfType DEF CoherentFor

-----------------------------------------------------------------------------
(* The process *)

\* Recovery takes every sermon to a waiting job of its stage or to a failure.
LEMMA RecoverStep ==
  ASSUME IInv, RecoverRunningJobs
  PROVE  IInv'
<1> DEFINE retired(j)   == Active(j) /\ jobs[j].type = "apply_edits"
           abandoned(j) == jobs[j].state = "running" /\ jobs[j].type # "apply_edits"
<1>1. /\ jobs \in Seq(Jobs) /\ sermon \in [Sermons -> Rows]
      /\ \A s \in Sermons : CoherentFor(sermon, jobs, s)
  BY CoherentSermon DEF IInv, TypeOK
<1>2. /\ jobs' \in [DOMAIN jobs -> Jobs]
      /\ \A j \in DOMAIN jobs :
           /\ jobs'[j].sermon = jobs[j].sermon /\ jobs'[j].type = jobs[j].type
           /\ retired(j)   => jobs'[j].state = "failed"
           /\ abandoned(j) => jobs'[j].state = "queued"
           /\ ~retired(j) /\ ~abandoned(j) => jobs'[j].state = jobs[j].state
  <2>1. jobs' = [j \in DOMAIN jobs |->
                   CASE retired(j)   -> [jobs[j] EXCEPT !.state = "failed"]
                     [] abandoned(j) -> Requeued(jobs[j])
                     [] OTHER        -> jobs[j]]
    BY DEF RecoverRunningJobs
  <2>2. ASSUME NEW j \in DOMAIN jobs
        PROVE  /\ jobs'[j] \in Jobs
               /\ jobs'[j].sermon = jobs[j].sermon /\ jobs'[j].type = jobs[j].type
               /\ retired(j)   => jobs'[j].state = "failed"
               /\ abandoned(j) => jobs'[j].state = "queued"
               /\ ~retired(j) /\ ~abandoned(j) => jobs'[j].state = jobs[j].state
    <3>1. jobs[j] \in Jobs
      BY <1>1
    <3>2. CASE retired(j)
      <4>1. jobs'[j] = [jobs[j] EXCEPT !.state = "failed"]
        BY <2>1, <3>2
      <4> QED
        BY <3>1, <3>2, <4>1 DEF Jobs
    <3>3. CASE abandoned(j)
      <4>1. jobs'[j] = Requeued(jobs[j])
        BY <2>1, <3>3
      <4> QED
        BY <3>1, <3>3, <4>1, RequeuedJob
    <3>4. CASE ~retired(j) /\ ~abandoned(j)
      <4>1. jobs'[j] = jobs[j]
        BY <2>1, <3>4
      <4> QED
        BY <3>1, <3>4, <4>1
    <3> QED
      BY <3>2, <3>3, <3>4
  <2> QED
    BY <2>1, <2>2
<1> DEFINE ended(s)  == /\ sermon[s].stage = "edit"
                        /\ sermon[s].status \in {"pending", "running"}
                        /\ \E j \in JobsOf(s) : retired(j)
           waits(s)  == sermon[s].status = "running" /\ \E j \in StageJobs(s) : abandoned(j)
<1>3. /\ sermon' \in [Sermons -> Rows]
      /\ \A s \in Sermons :
           /\ sermon'[s].stage = sermon[s].stage
           /\ ended(s) => sermon'[s].status = "failed"
           /\ ~ended(s) => sermon'[s].status = IF waits(s) THEN "pending"
                                                            ELSE sermon[s].status
  <2> DEFINE status(s) == CASE ended(s) -> "failed"
                            [] waits(s) -> "pending"
                            [] OTHER    -> sermon[s].status
  <2>1. sermon' = [s \in Sermons |-> [sermon[s] EXCEPT !.status = status(s)]]
    BY DEF RecoverRunningJobs
  <2>2. ASSUME NEW s \in Sermons
        PROVE  /\ ended(s) => status(s) = "failed"
               /\ ~ended(s) => status(s) = IF waits(s) THEN "pending"
                                                        ELSE sermon[s].status
               /\ status(s) \in Statuses \cup {"none"}
    <3>1. sermon[s].status \in Statuses \cup {"none"}
      BY RowType
    <3>2. ~(ended(s) /\ waits(s))
      BY <1>1, JobOfTable DEF StageJobs, JobsOf, StageOf, JobTypes
    <3> HIDE DEF ended, waits
    <3> QED
      BY <3>1, <3>2 DEF Statuses
  <2> HIDE DEF status
  <2> QED
    BY <1>1, <2>1, <2>2 DEF Rows
<1>4. /\ jobs' \in Seq(Jobs)
      /\ DOMAIN jobs' = DOMAIN jobs
  BY <1>1, <1>2, RewrittenJobs

<1>5. ASSUME NEW s \in Sermons
      PROVE  CoherentFor(sermon', jobs', s)
  <2>1. CoherentFor(sermon, jobs, s)
    BY <1>1
  <2>2. \A j \in DOMAIN jobs : jobs[j].sermon = s =>
          /\ retired(j) => ActiveIn(jobs, j) /\ jobs'[j].state = "failed"
          /\ abandoned(j) => ActiveIn(jobs, j) /\ jobs'[j].state = "queued"
          /\ ActiveIn(jobs', j) <=> ActiveIn(jobs, j) /\ ~retired(j)
          /\ jobs'[j].state # "running"
    BY <1>2 DEF ActiveIn, Active
  <2>3. \A j \in DOMAIN jobs : jobs[j].sermon = s /\ retired(j)
          => ended(s) /\ jobs[j].type = "apply_edits"
    BY <2>1 DEF CoherentFor, ActiveIn, Active, JobsOf, StageOf
  <2>4. ended(s) => \E j \in DOMAIN jobs : jobs[j].sermon = s /\ retired(j)
    BY DEF JobsOf
  <2> HIDE DEF retired, abandoned, ended, waits
  <2>5. CASE ended(s)
    <3>1. \A j \in DOMAIN jobs : jobs[j].sermon = s => ~ActiveIn(jobs', j)
      BY <2>1, <2>2, <2>4, <2>5 DEF CoherentFor
    <3>2. sermon'[s].stage \notin NoRow /\ sermon'[s].status = "failed"
      BY <1>3, <2>5 DEF ended, NoRow
    <3> QED
      BY <1>2, <1>4, <3>1, <3>2 DEF CoherentFor
  <2>6. CASE ~ended(s)
    <3>1. \A j \in DOMAIN jobs : jobs[j].sermon = s =>
            (ActiveIn(jobs', j) <=> ActiveIn(jobs, j))
      BY <2>2, <2>3, <2>6
    <3>2. /\ sermon'[s].stage = sermon[s].stage
          /\ sermon'[s].status \in {"pending", "running"}
               <=> sermon[s].status \in {"pending", "running"}
          /\ sermon'[s].status = "none" <=> sermon[s].status = "none"
      BY <1>3, <2>6 DEF waits
    <3>3. \A j \in DOMAIN jobs : jobs[j].sermon = s /\ jobs[j].state = "deleted"
            => jobs'[j].state = "deleted"
      BY <1>2, <2>2 DEF ActiveIn
    <3> QED
      BY <1>2, <1>4, <2>1, <2>2, <3>1, <3>2, <3>3 DEF CoherentFor
  <2> QED
    BY <2>5, <2>6
<1>6. Tables(sermon', jobs')
  BY <1>3, <1>4, <1>5, SermonBySermon DEF Tables
<1>7. Around'
  BY <1>4, Split DEF RecoverRunningJobs, Around, bounds
<1> QED
  BY <1>6, <1>7, Split

\* The row and the jobs of every sermon of a set go at once.
LEMMA RowsRemoved ==
  ASSUME IInv, NEW gone \in SUBSET Sermons,
         sermon' = [s \in Sermons |-> IF s \in gone
                                      THEN [AbsentRow EXCEPT !.stage = "deleted"]
                                      ELSE sermon[s]],
         jobs' = [j \in DOMAIN jobs |-> IF jobs[j].sermon \in gone
                                        THEN [jobs[j] EXCEPT !.state = "deleted"]
                                        ELSE jobs[j]]
  PROVE  Tables(sermon', jobs') /\ DOMAIN jobs' = DOMAIN jobs
<1>1. /\ jobs \in Seq(Jobs) /\ sermon \in [Sermons -> Rows]
      /\ \A s \in Sermons : CoherentFor(sermon, jobs, s)
  BY CoherentSermon DEF IInv, TypeOK
<1>2. ASSUME NEW j \in DOMAIN jobs
      PROVE  /\ jobs'[j] \in Jobs
             /\ jobs'[j].sermon = jobs[j].sermon
             /\ jobs[j].sermon \in gone => jobs'[j].state = "deleted"
             /\ jobs[j].sermon \notin gone => jobs'[j] = jobs[j]
  <2>1. jobs[j] \in Jobs
    BY <1>1
  <2> QED
    BY <2>1 DEF Jobs
<1>3. jobs' \in Seq(Jobs) /\ DOMAIN jobs' = DOMAIN jobs
  <2>1. jobs' \in [DOMAIN jobs -> Jobs]
    BY <1>2
  <2> QED
    BY ONLY <1>1, <2>1, RewrittenJobs
<1>4. [AbsentRow EXCEPT !.stage = "deleted"] \in Rows
  BY DEF AbsentRow, Rows, NoRow
<1>5. sermon' \in [Sermons -> Rows]
  BY <1>1, <1>4
<1>6. ASSUME NEW s \in Sermons
      PROVE  CoherentFor(sermon', jobs', s)
  <2>1. CASE s \in gone
    <3>1. sermon'[s].stage = "deleted" /\ sermon'[s].status = "none"
      BY <2>1 DEF AbsentRow
    <3>2. \A j \in DOMAIN jobs' : jobs'[j].sermon = s =>
            jobs'[j].state = "deleted" /\ ~ActiveIn(jobs', j)
      BY <1>2, <1>3, <2>1 DEF ActiveIn
    <3> QED
      BY <3>1, <3>2 DEF CoherentFor, NoRow
  <2>2. CASE s \notin gone
    <3>1. sermon'[s] = sermon[s] /\ CoherentFor(sermon, jobs, s)
      BY <1>1, <2>2
    <3>2. \A j \in DOMAIN jobs' : jobs'[j].sermon = s
            => j \in DOMAIN jobs /\ jobs[j] = jobs'[j]
      BY <1>2, <1>3, <2>2
    <3>3. \A j \in DOMAIN jobs : jobs[j].sermon = s
            => j \in DOMAIN jobs' /\ jobs'[j] = jobs[j]
      BY <1>2, <1>3, <2>2
    <3> QED
      BY ONLY <3>1, <3>2, <3>3, Untouched
  <2> QED
    BY <2>1, <2>2
<1> QED
  BY <1>3, <1>5, <1>6, SermonBySermon DEF Tables

\* The other steps of the process lose requests and executions, never a row.
LEMMA ProcessStepKeepsIInv ==
  ASSUME IInv, ProcessStep
  PROVE  IInv'
<1>1. CASE RecoverRunningJobs
  BY <1>1, RecoverStep
<1>2. CASE DiscardInterruptedUploads
  <2> DEFINE discarded == {s \in Sermons : /\ sermon[s].stage = "upload"
                                           /\ sermon[s].status \in {"pending", "running"}}
  <2>1. /\ discarded \in SUBSET Sermons
        /\ sermon' = [s \in Sermons |-> IF s \in discarded
                                        THEN [AbsentRow EXCEPT !.stage = "deleted"]
                                        ELSE sermon[s]]
        /\ jobs' = [j \in DOMAIN jobs |-> IF jobs[j].sermon \in discarded
                                          THEN [jobs[j] EXCEPT !.state = "deleted"]
                                          ELSE jobs[j]]
    BY <1>2 DEF DiscardInterruptedUploads
  <2> HIDE DEF discarded
  <2>2. Tables(sermon', jobs') /\ DOMAIN jobs' = DOMAIN jobs
    BY <2>1, RowsRemoved
  <2>3. Around'
    BY <1>2, <2>2, Split DEF DiscardInterruptedUploads, Around, bounds
  <2> QED
    BY <2>2, <2>3, Split
<1>3. CASE DropInFlight /\ crashes' \in Nat
  BY <1>3 DEF DropInFlight, IInv, TypeOK, OneJobPerBusySermon, Idle
<1>4. CASE Crash
  BY <1>3, <1>4 DEF Crash, IInv, TypeOK
<1>5. CASE Exit
  BY <1>3, <1>5 DEF Exit, IInv, TypeOK
<1>6. CASE Shutdown
  BY <1>6 DEF Shutdown, IInv, TypeOK, OneJobPerBusySermon
<1> QED
  BY <1>1, <1>2, <1>4, <1>5, <1>6 DEF ProcessStep

-----------------------------------------------------------------------------
(* The workers *)

LEMMA ClaimStep ==
  ASSUME IInv, NEW w \in Workers, NEW j \in DOMAIN jobs, ClaimNextJob(w, j)
  PROVE  IInv'
<1> DEFINE job == [jobs[j] EXCEPT !.state = "running", !.attempts = @ + 1]
<1>1. jobs \in Seq(Jobs) /\ jobs[j] \in Jobs /\ jobs[j].state = "queued"
      /\ jobs[j].sermon \in Sermons /\ jobs[j].type \in JobTypes
      /\ jobs[j].attempts \in Nat
  BY JobOfTable DEF IInv, TypeOK, ClaimNextJob, Claimable
<1>2. /\ job \in Jobs
      /\ job.sermon = jobs[j].sermon /\ job.type = jobs[j].type
      /\ job.state = "running"
  BY ONLY <1>1, ClaimedJob
<1>3. jobs' = [jobs EXCEPT ![j] = job]
  BY <1>1 DEF ClaimNextJob
<1>4. /\ sermon' \in [Sermons -> Rows]
      /\ sermon'[jobs[j].sermon].stage = StageOf(jobs[j].type)
      /\ sermon'[jobs[j].sermon].status = "running"
      /\ \A t \in Sermons \ {jobs[j].sermon} : sermon'[t] = sermon[t]
  BY <1>1, SetStageRow, StageOfType DEF ClaimNextJob, IInv, TypeOK, Statuses
<1> HIDE DEF job
<1>5. Tables(sermon', jobs') /\ DOMAIN jobs' = DOMAIN jobs
  BY <1>1, <1>2, <1>3, <1>4, StateChanged
<1>6. Around'
  <2>1. j \in Nat /\ jobs[j].attempts + 1 \in Nat
    BY <1>1
  <2> QED
    BY <1>5, <2>1, Split DEF ClaimNextJob, Around, bounds
<1> QED
  BY <1>5, <1>6, Split

\* A handler's result, and what it stored, whether or not the sermon is there.
LEMMA HandlerStep ==
  ASSUME IInv, NEW w \in Workers, HandlerSucceeds(w) \/ HandlerFails(w)
  PROVE  IInv'
<1> DEFINE job == jobs[worker[w].job]
<1>1. jobs \in Seq(Jobs) /\ worker[w].job \in DOMAIN jobs
  BY DEF HandlerSucceeds, HandlerFails, IInv, TypeOK
<1>2. job.sermon \in Sermons /\ job.type \in JobTypes
  BY ONLY <1>1, JobOfTable
<1>3. UNCHANGED sermon \/ HandlerOutput(job.type, job.sermon)
  BY DEF HandlerSucceeds, HandlerFails
<1>4. UNCHANGED <<jobs, exportCall, process, stranded, bounds>>
  BY DEF HandlerSucceeds, HandlerFails
<1>5. Tables(sermon', jobs')
  <2>1. CASE UNCHANGED sermon
    BY <1>4, <2>1, Split
  <2>2. CASE HandlerOutput(job.type, job.sermon)
    <3> HIDE DEF job
    <3> QED
      BY <1>2, <1>4, <2>2, HandlerOutputKeepsTables
  <2> QED
    BY <1>3, <2>1, <2>2
<1>6. \E pc \in {"succeeded", "failed"}, next \in JobTypes \cup {"none"} :
        HandlerReturns(w, pc, next)
  <2>1. NextType(job.type, job.sermon) \in JobTypes \cup {"none"}
    BY DEF NextType, JobTypes
  <2> QED
    BY <2>1 DEF HandlerSucceeds, HandlerFails
<1>7. Around'
  <2>1. PICK pc \in {"succeeded", "failed"}, next \in JobTypes \cup {"none"} :
          HandlerReturns(w, pc, next)
    BY <1>6
  <2> DEFINE result == IF process = "stopping"
                       THEN Idle ELSE [worker[w] EXCEPT !.pc = pc, !.next = next]
  <2>2. worker' = [worker EXCEPT ![w] = result]
    BY <2>1 DEF HandlerReturns
  <2>3. /\ result \in [pc : {"idle", "handling", "succeeded", "failed"}, job : Nat,
                       attempts : Nat, next : JobTypes \cup {"none"}]
        /\ result.pc # "idle" => result.job = worker[w].job
    BY Split DEF Around, Idle
  <2> HIDE DEF result
  <2> QED
    BY <1>1, <1>4, <2>2, <2>3, Split DEF Around, bounds
<1> QED
  BY <1>5, <1>7, Split

\* A worker that goes idle leaves the rest of the process as it was.
LEMMA IdleAround ==
  ASSUME IInv, NEW w \in Workers, GoIdle(w), DOMAIN jobs \subseteq DOMAIN jobs',
         UNCHANGED <<exportCall, process, stranded, bounds>>
  PROVE  Around'
BY Split DEF GoIdle, Idle, Around, bounds

LEMMA CompleteStep ==
  ASSUME IInv, NEW w \in Workers, CompleteJob(w)
  PROVE  IInv'
<1> DEFINE j    == worker[w].job
           s    == jobs[j].sermon
           next == worker[w].next
           done == [jobs EXCEPT ![j].state = "done"]
           end  == IF jobs[j].return # NoReturn
                   THEN jobs[j].return
                   ELSE [stage |-> StageOf(jobs[j].type), status |-> "done"]
           job  == [jobs[j] EXCEPT !.state = "done"]
<1>1. jobs \in Seq(Jobs) /\ j \in DOMAIN jobs /\ next \in JobTypes \cup {"none"}
      /\ sermon \in [Sermons -> Rows]
  BY DEF CompleteJob, IInv, TypeOK
<1>2. /\ jobs[j] \in Jobs /\ s \in Sermons
      /\ jobs[j].type \in JobTypes /\ jobs[j].return \in Returns
  BY ONLY <1>1, JobOfTable
<1>3. job \in Jobs /\ job.sermon = s /\ job.type = jobs[j].type /\ job.state = "done"
  BY ONLY <1>2, DoneJob
<1>4. done = [jobs EXCEPT ![j] = job]
  BY <1>1
<1>5. end.stage \in Stages /\ end.status \in {"done", "failed"}
  BY <1>2, StageOfType DEF Returns
<1>6. GoIdle(w) /\ UNCHANGED <<exportCall, process, stranded, bounds>>
  BY DEF CompleteJob
<1>7. Tables(sermon', jobs') /\ DOMAIN jobs \subseteq DOMAIN jobs'
  <2>1. CASE UNCHANGED <<sermon, jobs>>
    BY <2>1, Split
  <2>2. CASE jobs[j].state = "running" /\ jobs' = done /\ SetStage(s, end.stage, end.status)
    <3>1. /\ sermon' \in [Sermons -> Rows]
          /\ sermon'[s].stage = end.stage
          /\ sermon'[s].status = end.status
          /\ \A t \in Sermons \ {s} : sermon'[t] = sermon[t]
      <4> HIDE DEF s, end
      <4> QED
        BY <1>1, <1>2, <1>5, <2>2, SetStageRow DEF Statuses
    <3> HIDE DEF job, end, done
    <3> QED
      BY <1>1, <1>3, <1>4, <1>5, <2>2, <3>1, StateChanged
  <2>3. CASE /\ jobs[j].state = "running" /\ next # "none"
             /\ jobs' = Append(done, NewJob(s, next, NoReturn))
             /\ SetStage(s, StageOf(next), "pending")
    <3>1. next \in JobTypes /\ NoReturn \in Returns
      BY <1>1, <2>3 DEF Returns
    <3>2. /\ sermon' \in [Sermons -> Rows]
          /\ sermon'[s].stage = StageOf(next)
          /\ sermon'[s].status = "pending"
          /\ \A t \in Sermons \ {s} : sermon'[t] = sermon[t]
      <4> HIDE DEF s, next
      <4> QED
        BY <1>1, <1>2, <2>3, <3>1, SetStageRow, StageOfType DEF Statuses
    <3>3. /\ done \in Seq(Jobs) /\ DOMAIN done = DOMAIN jobs
          /\ done[j] = job
          /\ \A i \in DOMAIN jobs : i # j => done[i] = jobs[i]
      <4> HIDE DEF job, done
      <4> QED
        BY <1>1, <1>3, <1>4, UpdatedJob
    <3>4. \A t \in Sermons : CoherentFor(sermon, jobs, t)
      BY CoherentSermon
    <3>5. \A i \in DOMAIN done : done[i].sermon = s => ~ActiveIn(done, i)
      <4>1. \A i \in DOMAIN jobs : jobs[i].sermon = s /\ ActiveIn(jobs, i) => i = j
        BY <1>1, <1>2, <2>3, <3>4 DEF CoherentFor, ActiveIn
      <4> HIDE DEF job, done
      <4> QED
        BY <1>1, <1>3, <3>3, <4>1 DEF ActiveIn
    <3>6. \A t \in Sermons \ {s} : CoherentFor(sermon, done, t) /\ sermon'[t] = sermon[t]
      <4> TAKE t \in Sermons \ {s}
      <4> HIDE DEF job, done
      <4>1. \A i \in DOMAIN done : done[i].sermon = t => i \in DOMAIN jobs /\ jobs[i] = done[i]
        BY <1>3, <3>3
      <4>2. \A i \in DOMAIN jobs : jobs[i].sermon = t => i \in DOMAIN done /\ done[i] = jobs[i]
        BY <1>3, <3>3
      <4>3. CoherentFor(sermon, jobs, t) /\ sermon[t] = sermon[t]
        BY <3>4
      <4>4. CoherentFor(sermon, done, t)
        BY ONLY <4>1, <4>2, <4>3, Untouched
      <4> QED
        BY <3>2, <4>4
    <3> HIDE DEF job, done, s, next
    <3> QED
      BY <1>2, <2>3, <3>1, <3>2, <3>3, <3>5, <3>6, Enqueued DEF Tables
  <2> QED
    BY <2>1, <2>2, <2>3 DEF CompleteJob
<1> QED
  BY <1>6, <1>7, IdleAround, Split

LEMMA FailureStep ==
  ASSUME IInv, NEW w \in Workers, RecordJobFailure(w)
  PROVE  IInv'
<1> DEFINE j == worker[w].job
           s == jobs[j].sermon
           job(state) == [jobs[j] EXCEPT !.state = state, !.errors = @ + 1]
<1>1. jobs \in Seq(Jobs) /\ j \in DOMAIN jobs /\ sermon \in [Sermons -> Rows]
  BY DEF RecordJobFailure, IInv, TypeOK
<1>2. /\ jobs[j] \in Jobs /\ s \in Sermons /\ jobs[j].type \in JobTypes
  BY ONLY <1>1, JobOfTable
<1>3. \A state \in {"queued", "failed"} :
        /\ job(state) \in Jobs /\ job(state).sermon = s
        /\ job(state).type = jobs[j].type /\ job(state).state = state
  BY ONLY <1>2, ReportedJob
<1>4. \A state : [jobs EXCEPT ![j].state = state, ![j].errors = @ + 1]
                   = [jobs EXCEPT ![j] = job(state)]
  BY <1>1
<1>5. GoIdle(w) /\ UNCHANGED <<exportCall, process, stranded, bounds>>
  BY DEF RecordJobFailure
<1>6. Tables(sermon', jobs') /\ DOMAIN jobs \subseteq DOMAIN jobs'
  <2>1. CASE UNCHANGED <<sermon, jobs>>
    BY <2>1, Split
  <2>2. CASE /\ jobs[j].state = "running" /\ UNCHANGED sermon
             /\ jobs' = [jobs EXCEPT ![j] = job("queued")]
    <3> HIDE DEF job
    <3> QED
      BY <1>1, <1>3, <2>2, StateChanged
  <2>3. CASE /\ jobs[j].state = "running" /\ ExposeFailure(s, jobs[j].type)
             /\ jobs' = [jobs EXCEPT ![j] = job("failed")]
    <3>1. sermon[s].stage = StageOf(jobs[j].type) /\ sermon[s].stage \in Stages
      BY <1>1, <1>2, <2>3, CoherentSermon, StageOfType DEF CoherentFor, ActiveIn
    <3>2. SetStage(s, sermon[s].stage, "failed")
      BY <2>3, <3>1 DEF ExposeFailure
    <3>3. /\ sermon' \in [Sermons -> Rows]
          /\ sermon'[s].stage = sermon[s].stage
          /\ sermon'[s].status = "failed"
          /\ \A t \in Sermons \ {s} : sermon'[t] = sermon[t]
      <4> HIDE DEF s
      <4> QED
        BY <1>1, <1>2, <3>1, <3>2, SetStageRow DEF Statuses
    <3> HIDE DEF job
    <3> QED
      BY <1>1, <1>3, <2>3, <3>1, <3>3, StateChanged
  <2> QED
    BY <1>4, <2>1, <2>2, <2>3 DEF RecordJobFailure
<1> QED
  BY <1>5, <1>6, IdleAround, Split

LEMMA WorkerStepKeepsIInv ==
  ASSUME IInv, NEW w \in Workers, WorkerStep(w)
  PROVE  IInv'
<1>1. CASE Claim(w)
  BY <1>1, ClaimStep DEF Claim
<1>2. CASE PollNoJob(w)
  BY <1>2 DEF PollNoJob, vars, IInv, TypeOK, OneJobPerBusySermon
<1>3. CASE HandlerSucceeds(w) \/ HandlerFails(w)
  BY <1>3, HandlerStep
<1>4. CASE CompleteJob(w)
  BY <1>4, CompleteStep
<1>5. CASE RecordJobFailure(w)
  BY <1>5, FailureStep
<1>6. CASE StoreError(w)
  <2>1. Tables(sermon', jobs')
    BY <1>6, Split DEF StoreError
  <2>2. Around'
    BY <1>6, Split DEF StoreError, GoIdle, Idle, Around
  <2> QED
    BY <2>1, <2>2, Split
<1> QED
  BY <1>1, <1>2, <1>3, <1>4, <1>5, <1>6 DEF WorkerStep

-----------------------------------------------------------------------------
(* The requests *)

\* Requests leave the goroutines alone and the jobs in their places.
LEMMA RequestAround ==
  ASSUME IInv, UNCHANGED <<worker, process, stranded>>,
         DOMAIN jobs \subseteq DOMAIN jobs',
         exportCall' \in [Sermons -> {"none", "retry", "enqueue"}],
         requests' \in Nat, crashes' \in Nat, faults' \in Nat
  PROVE  Around'
BY Split DEF Around

\* An upload is created, started, completed or abandoned.
LEMMA UploadStep ==
  ASSUME IInv, NEW s \in Sermons,
         CreateSermon(s) \/ StartUpload(s) \/ CompleteUpload(s) \/ DeleteSermon(s)
  PROVE  IInv'
<1>1. /\ sermon \in [Sermons -> Rows] /\ jobs \in Seq(Jobs)
      /\ \A t \in Sermons : CoherentFor(sermon, jobs, t)
  BY CoherentSermon DEF IInv, TypeOK
<1>2. UNCHANGED <<worker, exportCall, process, stranded, bounds>>
  BY DEF CreateSermon, StartUpload, CompleteUpload, DeleteSermon
<1>3. Tables(sermon', jobs') /\ DOMAIN jobs \subseteq DOMAIN jobs'
  <2>1. CASE CreateSermon(s) \/ StartUpload(s)
    <3>1. PICK status \in {"pending", "running"} :
            SetStage(s, "upload", status) /\ UNCHANGED jobs
      BY <2>1 DEF CreateSermon, StartUpload
    <3>2. /\ sermon' \in [Sermons -> Rows]
          /\ sermon'[s].stage = "upload"
          /\ sermon'[s].status = status
          /\ \A t \in Sermons \ {s} : sermon'[t] = sermon[t]
      BY <1>1, <3>1, SetStageRow DEF Stages, Statuses
    <3>3. \A j \in DOMAIN jobs : jobs[j].sermon = s => ~ActiveIn(jobs, j)
      <4>1. CASE CreateSermon(s)
        BY <1>1, <4>1 DEF CreateSermon, CoherentFor, ActiveIn, NoRow
      <4>2. CASE StartUpload(s)
        BY <4>2, NoActiveJob DEF StartUpload
      <4> QED
        BY <2>1, <4>1, <4>2
    <3>4. CoherentFor(sermon', jobs, s)
      BY <3>2, <3>3 DEF CoherentFor, NoRow
    <3>5. \A t \in Sermons \ {s} : CoherentFor(sermon, jobs, t) /\ sermon'[t] = sermon[t]
      BY <1>1, <3>2
    <3>6. Coherent(sermon', jobs)
      BY ONLY <1>1, <3>4, <3>5, s \in Sermons, Touched
    <3> QED
      BY <1>1, <3>1, <3>2, <3>6 DEF Tables
  <2>2. CASE CompleteUpload(s)
    <3>1. StageOf("normalize") = "normalization" /\ "normalize" \in JobTypes
          /\ NoReturn \in Returns
      BY DEF StageOf, JobTypes, Returns
    <3>2. /\ sermon' \in [Sermons -> Rows]
          /\ sermon'[s].stage = "normalization"
          /\ sermon'[s].status = "pending"
          /\ \A t \in Sermons \ {s} : sermon'[t] = sermon[t]
      BY <1>1, <2>2, SetStageRow DEF CompleteUpload, Stages, Statuses
    <3>3. \A j \in DOMAIN jobs : jobs[j].sermon = s => ~ActiveIn(jobs, j)
      BY <2>2, NoActiveJob DEF CompleteUpload
    <3>4. jobs' = Append(jobs, NewJob(s, "normalize", NoReturn))
      BY <2>2 DEF CompleteUpload
    <3> QED
      BY <3>1, <3>2, <3>3, <3>4, JobEnqueued
  <2>3. CASE DeleteSermon(s)
    <3> DEFINE gone == {s}
    <3>1. /\ sermon' = [t \in Sermons |-> IF t \in gone
                                          THEN [AbsentRow EXCEPT !.stage = "deleted"]
                                          ELSE sermon[t]]
          /\ jobs' = [j \in DOMAIN jobs |-> IF jobs[j].sermon \in gone
                                            THEN [jobs[j] EXCEPT !.state = "deleted"]
                                            ELSE jobs[j]]
      BY <1>1, <2>3 DEF DeleteSermon, RemoveRow
    <3>2. gone \in SUBSET Sermons
      OBVIOUS
    <3> HIDE DEF gone
    <3> QED
      BY <3>1, <3>2, RowsRemoved
  <2> QED
    BY <2>1, <2>2, <2>3
<1>4. Around'
  BY <1>2, <1>3, Split, RequestAround DEF Around, bounds
<1> QED
  BY <1>3, <1>4, Split

\* A review and a saved draft leave the stage and the status alone.
LEMMA MarkStep ==
  ASSUME IInv, NEW s \in Sermons, MarkNormalizationReviewed(s) \/ SaveDraft(s)
  PROVE  IInv'
<1>1. sermon \in [Sermons -> Rows] /\ jobs \in Seq(Jobs) /\ Coherent(sermon, jobs)
  BY DEF IInv, TypeOK, OneJobPerBusySermon
<1>2. /\ sermon' \in [Sermons -> Rows]
      /\ \A t \in Sermons : /\ sermon'[t].stage = sermon[t].stage
                            /\ sermon'[t].status = sermon[t].status
  <2>1. CASE MarkNormalizationReviewed(s)
    BY <1>1, <2>1 DEF MarkNormalizationReviewed, Rows
  <2>2. CASE SaveDraft(s)
    BY <1>1, <2>2 DEF SaveDraft, Rows
  <2> QED
    BY <2>1, <2>2
<1>3. UNCHANGED <<jobs, worker, exportCall, process, stranded, bounds>>
  BY DEF MarkNormalizationReviewed, SaveDraft
<1>4. Tables(sermon', jobs')
  BY <1>1, <1>2, <1>3, SameProgress DEF Tables
<1>5. Around'
  BY <1>3, Split DEF Around, bounds
<1> QED
  BY <1>4, <1>5, Split

\* The return state of a rerun is one a job can hold.
LEMMA ReturnOfType ==
  ASSUME IInv, NEW s \in Sermons, sermon[s].status \in {"done", "failed"}
  PROVE  ReturnOf(s) \in Returns
<1>1. jobs \in Seq(Jobs) /\ StageJobs(s) \subseteq DOMAIN jobs
  BY DEF IInv, TypeOK, StageJobs, JobsOf
<1>2. StageJobs(s) # {} => jobs[Newest(StageJobs(s))].return \in Returns
  <2>1. StageJobs(s) # {} => Newest(StageJobs(s)) \in DOMAIN jobs
    BY <1>1, NewestIsNewest
  <2> QED
    BY <1>1, <2>1, JobOfTable
<1>3. Here(s) \in Returns
  <2>1. sermon[s].stage \in Stages
    BY RowType, CoherentSermon DEF CoherentFor
  <2> QED
    BY <2>1 DEF Here, Returns
<1>4. [stage |-> "metadata", status |-> "done"] \in Returns
  BY DEF Returns, Stages
<1> QED
  BY <1>2, <1>3, <1>4 DEF ReturnOf

\* The failed job is queued again together with its sermon.
LEMMA ResetStep ==
  ASSUME IInv, NEW s \in Sermons, ResetFailedJob(s)
  PROVE  Tables(sermon', jobs') /\ DOMAIN jobs \subseteq DOMAIN jobs'
<1> DEFINE j   == Newest(FailedJobs(s))
           job == [jobs[j] EXCEPT !.state = "queued", !.attempts = 0, !.errors = 0]
<1>1. /\ sermon \in [Sermons -> Rows] /\ jobs \in Seq(Jobs)
      /\ \A t \in Sermons : CoherentFor(sermon, jobs, t)
  BY CoherentSermon DEF IInv, TypeOK
<1>2. j \in FailedJobs(s)
  <2>1. FailedJobs(s) # {} /\ FailedJobs(s) \subseteq DOMAIN jobs
    BY DEF ResetFailedJob, Retryable, FailedJobs, StageJobs, JobsOf
  <2> QED
    BY ONLY <1>1, <2>1, NewestIsNewest
<1>3. /\ j \in DOMAIN jobs /\ jobs[j].sermon = s
      /\ sermon[s].stage = StageOf(jobs[j].type)
  BY <1>2 DEF FailedJobs, StageJobs, JobsOf
<1>4. jobs[j] \in Jobs /\ jobs[j].type \in JobTypes
  BY ONLY <1>1, <1>3, JobOfTable
<1>5. job \in Jobs /\ job.sermon = s /\ job.type = jobs[j].type /\ job.state = "queued"
  BY ONLY <1>3, <1>4, ResetJob
<1>6. jobs' = [jobs EXCEPT ![j] = job]
  BY <1>1, <1>3 DEF ResetFailedJob
<1>7. /\ sermon' \in [Sermons -> Rows]
      /\ sermon'[s].stage = sermon[s].stage
      /\ sermon'[s].status = "pending"
      /\ \A t \in Sermons \ {s} : sermon'[t] = sermon[t]
  <2>1. sermon[s].stage \in Stages
    BY <1>3, <1>4, StageOfType
  <2> QED
    BY <1>1, <2>1, SetStageRow DEF ResetFailedJob, Statuses
<1>8. \A i \in DOMAIN jobs : jobs[i].sermon = s => ~ActiveIn(jobs, i)
  BY NoActiveJob DEF ResetFailedJob, Retryable
<1> HIDE DEF job, j
<1>9. /\ jobs' \in Seq(Jobs) /\ DOMAIN jobs' = DOMAIN jobs
      /\ jobs'[j] = job
      /\ \A i \in DOMAIN jobs : i # j => jobs'[i] = jobs[i]
  BY <1>1, <1>3, <1>5, <1>6, UpdatedJob
<1>10. CoherentFor(sermon', jobs', s)
  <2>1. ActiveIn(jobs', j) /\ jobs'[j].sermon = s /\ jobs'[j].state = "queued"
        /\ sermon'[s].stage = StageOf(jobs'[j].type)
    BY <1>3, <1>5, <1>7, <1>9 DEF ActiveIn
  <2>2. \A i \in DOMAIN jobs' : jobs'[i].sermon = s /\ ActiveIn(jobs', i) => i = j
    BY <1>8, <1>9 DEF ActiveIn
  <2>3. sermon'[s].stage \notin NoRow
    BY <1>3, <1>4, <1>7, StageOfType
  <2> QED
    BY <1>3, <1>7, <1>9, <2>1, <2>2, <2>3 DEF CoherentFor
<1>11. Coherent(sermon', jobs')
  <2>1. \A t \in Sermons \ {s} : CoherentFor(sermon, jobs, t) /\ sermon'[t] = sermon[t]
    BY <1>1, <1>7
  <2>2. \A i \in DOMAIN jobs : /\ jobs[i].sermon # s => jobs'[i] = jobs[i]
                               /\ jobs'[i].sermon = jobs[i].sermon
    BY <1>3, <1>5, <1>9
  <2> QED
    BY ONLY <1>1, <1>9, <1>10, <2>1, <2>2, s \in Sermons, Touched
<1> QED
  BY <1>7, <1>9, <1>11 DEF Tables

\* The requests that enqueue a job all do so for a sermon that has none.
LEMMA EnqueueStep ==
  ASSUME IInv, NEW s \in Sermons, NEW type \in JobTypes, NEW return \in Returns,
         \A j \in DOMAIN jobs : jobs[j].sermon = s => ~ActiveIn(jobs, j),
         SetStage(s, StageOf(type), "pending"),
         jobs' = Append(jobs, NewJob(s, type, return))
  PROVE  Tables(sermon', jobs') /\ DOMAIN jobs \subseteq DOMAIN jobs'
<1>1. sermon \in [Sermons -> Rows]
  BY DEF IInv, TypeOK
<1>2. /\ sermon' \in [Sermons -> Rows]
      /\ sermon'[s].stage = StageOf(type)
      /\ sermon'[s].status = "pending"
      /\ \A t \in Sermons \ {s} : sermon'[t] = sermon[t]
  BY <1>1, SetStageRow, StageOfType DEF Statuses
<1> QED
  BY <1>2, JobEnqueued

\* The guard the requests share, in the terms of the lemmas.
LEMMA GuardedByActiveJob ==
  ASSUME IInv, NEW s \in Sermons, ~HasActiveJob(s)
  PROVE  \A j \in DOMAIN jobs : jobs[j].sermon = s => ~ActiveIn(jobs, j)
BY DEF HasActiveJob, JobsOf, Active, ActiveIn

LEMMA RequestStep ==
  ASSUME IInv, NEW s \in Sermons,
         \/ EnqueueNormalizationRerun(s)
         \/ \E part \in RerunParts : EnqueueProcessingRerun(s, part)
         \/ RetryFailedJob(s)
         \/ ApplyDraft(s)
         \/ ExportCommit(s)
  PROVE  IInv'
<1>1. /\ sermon \in [Sermons -> Rows] /\ jobs \in Seq(Jobs)
      /\ requests \in Nat /\ exportCall \in [Sermons -> {"none", "retry", "enqueue"}]
      /\ crashes \in Nat /\ faults \in Nat
  BY DEF IInv, TypeOK
<1>2. Request
  BY DEF EnqueueNormalizationRerun, EnqueueProcessingRerun, RetryFailedJob, ApplyDraft,
         ExportCommit
<1>3. exportCall' \in [Sermons -> {"none", "retry", "enqueue"}]
  BY <1>1 DEF EnqueueNormalizationRerun, EnqueueProcessingRerun, RetryFailedJob,
              ApplyDraft, ExportCommit
<1>4. Tables(sermon', jobs') /\ DOMAIN jobs \subseteq DOMAIN jobs'
  <2>1. CASE EnqueueNormalizationRerun(s)
    <3>1. /\ sermon' \in [Sermons -> Rows]
          /\ sermon'[s].stage = StageOf("normalize")
          /\ sermon'[s].status = "pending"
          /\ \A t \in Sermons \ {s} : sermon'[t] = sermon[t]
      BY <1>1, <2>1 DEF EnqueueNormalizationRerun, StageOf, Rows, Statuses
    <3>2. "normalize" \in JobTypes /\ NoReturn \in Returns
      BY DEF JobTypes, Returns
    <3>3. \A j \in DOMAIN jobs : jobs[j].sermon = s => ~ActiveIn(jobs, j)
      BY <2>1, NoActiveJob DEF EnqueueNormalizationRerun
    <3>4. jobs' = Append(jobs, NewJob(s, "normalize", NoReturn))
      BY <2>1 DEF EnqueueNormalizationRerun
    <3> QED
      BY <3>1, <3>2, <3>3, <3>4, JobEnqueued
  <2>2. ASSUME NEW part \in RerunParts, EnqueueProcessingRerun(s, part)
        PROVE  Tables(sermon', jobs') /\ DOMAIN jobs \subseteq DOMAIN jobs'
    <3>1. part \in Parts
      BY RerunPartsAssumption
    <3>2. RerunType(part) \in JobTypes /\ StageOf(RerunType(part)) = part
      BY <3>1 DEF Parts, RerunType, JobTypes, StageOf
    <3>3. ReturnOf(s) \in Returns
      BY <2>2, ReturnOfType DEF EnqueueProcessingRerun
    <3>4. \A j \in DOMAIN jobs : jobs[j].sermon = s => ~ActiveIn(jobs, j)
      BY <2>2, GuardedByActiveJob DEF EnqueueProcessingRerun
    <3>5. /\ SetStage(s, part, "pending")
          /\ jobs' = Append(jobs, NewJob(s, RerunType(part), ReturnOf(s)))
      BY <2>2 DEF EnqueueProcessingRerun
    <3> QED
      BY <3>2, <3>3, <3>4, <3>5, EnqueueStep
  <2>3. CASE ResetFailedJob(s)
    BY <2>3, ResetStep
  <2>4. CASE ApplyDraft(s)
    <3>1. /\ "render_edit" \in JobTypes /\ StageOf("render_edit") = "editing"
          /\ NoReturn \in Returns
      BY DEF JobTypes, StageOf, Returns
    <3>2. \A j \in DOMAIN jobs : jobs[j].sermon = s => ~ActiveIn(jobs, j)
      BY <2>4, GuardedByActiveJob DEF ApplyDraft
    <3>3. /\ SetStage(s, "editing", "pending")
          /\ jobs' = Append(jobs, NewJob(s, "render_edit", NoReturn))
      BY <2>4 DEF ApplyDraft
    <3> QED
      BY <3>1, <3>2, <3>3, EnqueueStep
  <2>5. CASE EnqueueExport(s)
    <3>1. "export" \in JobTypes /\ StageOf("export") = "export"
      BY DEF JobTypes, StageOf
    <3>2. Here(s) \in Returns
      BY <2>5 DEF EnqueueExport, Exportable, AtRest, Here, Returns, Stages
    <3>3. \A j \in DOMAIN jobs : jobs[j].sermon = s => ~ActiveIn(jobs, j)
      BY <2>5, GuardedByActiveJob DEF EnqueueExport, Exportable
    <3>4. /\ SetStage(s, "export", "pending")
          /\ jobs' = Append(jobs, NewJob(s, "export", Here(s)))
      BY <2>5 DEF EnqueueExport
    <3> QED
      BY <3>1, <3>2, <3>3, <3>4, EnqueueStep
  <2> QED
    BY <2>1, <2>2, <2>3, <2>4, <2>5 DEF RetryFailedJob, ExportCommit
<1>5. Around'
  BY <1>1, <1>2, <1>3, <1>4, RequestAround DEF Request
<1> QED
  BY <1>4, <1>5, Split

LEMMA UserStepKeepsIInv ==
  ASSUME IInv, NEW s \in Sermons, UserStep(s)
  PROVE  IInv'
<1>1. CASE CreateSermon(s) \/ StartUpload(s) \/ CompleteUpload(s) \/ DeleteSermon(s)
  BY <1>1, UploadStep
<1>2. CASE MarkNormalizationReviewed(s) \/ SaveDraft(s)
  BY <1>2, MarkStep
<1>3. CASE \/ EnqueueNormalizationRerun(s)
           \/ \E part \in RerunParts : EnqueueProcessingRerun(s, part)
           \/ RetryFailedJob(s)
           \/ ApplyDraft(s)
           \/ ExportCommit(s)
  BY <1>3, RequestStep
<1>4. CASE ExportDecide(s) \/ ExportRefused(s)
  <2>1. UNCHANGED <<sermon, jobs, worker, process, stranded, bounds>>
    BY <1>4 DEF ExportDecide, ExportRefused
  <2>2. exportCall' \in [Sermons -> {"none", "retry", "enqueue"}]
    BY <1>4 DEF ExportDecide, ExportRefused, IInv, TypeOK
  <2>3. Tables(sermon', jobs')
    BY <2>1, Split
  <2>4. Around'
    BY <2>1, <2>2, Split DEF Around, bounds
  <2> QED
    BY <2>3, <2>4, Split
<1> QED
  BY <1>1, <1>2, <1>3, <1>4 DEF UserStep

-----------------------------------------------------------------------------
(* The theorems *)

\* Every step keeps the types and the coherence of the tables.
THEOREM StepKeepsIInv == IInv /\ [Next]_vars => IInv'
<1> SUFFICES ASSUME IInv, [Next]_vars
             PROVE  IInv'
  OBVIOUS
<1>1. CASE ProcessStep
  BY <1>1, ProcessStepKeepsIInv
<1>2. ASSUME NEW w \in Workers, WorkerStep(w)
      PROVE  IInv'
  BY <1>2, WorkerStepKeepsIInv
<1>3. ASSUME NEW s \in Sermons, UserStep(s)
      PROVE  IInv'
  BY <1>3, UserStepKeepsIInv
<1>4. CASE UNCHANGED vars
  BY <1>4 DEF vars, IInv, TypeOK, OneJobPerBusySermon
<1> QED
  BY <1>1, <1>2, <1>3, <1>4 DEF Next

\* The invariant holds of every behaviour, however many sermons, workers,
\* requests, crashes and store errors it has.
THEOREM InductiveInvariant == Spec => []IInv
BY InitIInv, StepKeepsIInv, PTL DEF Spec

\* The variables always hold what the columns and the goroutines can hold: the
\* return state a rerun records is always one that a sermon can be put back to.
THEOREM TypeCorrect == Spec => []TypeOK
<1>1. IInv => TypeOK
  BY DEF IInv
<1> QED
  BY <1>1, InductiveInvariant, PTL

\* The sermons and jobs tables always agree: a sermon has at most one active
\* job, of its own stage, and is never left waiting without one.
THEOREM TablesCoherent == Spec => []OneJobPerBusySermon
<1>1. IInv => OneJobPerBusySermon
  BY DEF IInv
<1> QED
  BY <1>1, InductiveInvariant, PTL

-----------------------------------------------------------------------------
(***************************************************************************)
(* What the worker pool owes the jobs table, for any number of workers,    *)
(* attempts, crashes and store errors: a running job has one worker, and   *)
(* its attempts are counted.                                               *)
(*                                                                         *)
(* RunningJobHasOneWorker is not inductive: that a claim does not give a   *)
(* job to a second worker needs that whoever is busy holds a job that runs *)
(* or is gone (HoldersRun), that a start finds no running job needs that   *)
(* recovery came first (RecoveredFirst), and a job that a store error left *)
(* behind must still be running when the process serves (StrandedRun).     *)
(* AttemptsCountErrors needs that a worker still knows the number of the   *)
(* attempt it is at, which decides between requeueing and failing.         *)
(***************************************************************************)

BusyWorker(w) == worker[w].pc # "idle"
HolderOf(j)   == {w \in Workers : worker[w].pc # "idle" /\ worker[w].job = j}

\* No goroutine outlives its process.
IdleOutside == process \in {"down", "opened"} => \A w \in Workers : ~BusyWorker(w)

\* The store hands out no running job.
RecoveredFirst ==
  process = "opened" => /\ stranded = {}
                        /\ \A j \in DOMAIN jobs : jobs[j].state # "running"

\* Nobody else ends the execution of a job, except by deleting the sermon, and
\* the worker knows which attempt it is.
HoldersRun ==
  \A w \in Workers : BusyWorker(w) =>
    /\ jobs[worker[w].job].state \in {"running", "deleted"}
    /\ worker[w].job \notin stranded
    /\ worker[w].attempts = jobs[worker[w].job].attempts

NoSharing ==
  \A v, w \in Workers :
    BusyWorker(v) /\ BusyWorker(w) /\ worker[v].job = worker[w].job => v = w

RunningIsHeld ==
  process = "up" => \A j \in DOMAIN jobs : jobs[j].state = "running"
    => j \in stranded \/ \E w \in Workers : BusyWorker(w) /\ worker[w].job = j

StrandedRun ==
  process \in {"up", "stopping"}
    => \A j \in stranded : jobs[j].state \in {"running", "deleted"}

Holding ==
  /\ IdleOutside /\ RecoveredFirst /\ HoldersRun
  /\ NoSharing /\ RunningIsHeld /\ StrandedRun

HInv == IInv /\ Holding /\ AttemptsCountErrors

-----------------------------------------------------------------------------
(* What the requests do to the jobs *)

Removed(job)   == [job EXCEPT !.state = "deleted"]
Restarted(job) == [job EXCEPT !.state = "queued", !.attempts = 0, !.errors = 0]

\* Appending a queued job, deleting the jobs of a sermon, and starting a failed
\* job again is all that a request does to the table.
RequestsOf(s) ==
  \/ UNCHANGED jobs
  \/ \E type \in JobTypes, return \in Returns :
       jobs' = Append(jobs, NewJob(s, type, return))
  \/ jobs' = [j \in DOMAIN jobs |-> IF jobs[j].sermon = s THEN Removed(jobs[j])
                                                          ELSE jobs[j]]
  \/ \E j \in DOMAIN jobs : /\ jobs[j].state = "failed"
                            /\ jobs' = [jobs EXCEPT ![j] = Restarted(jobs[j])]

\* A failed job that a retry resets is one of the table.
LEMMA ResetJobOf ==
  ASSUME IInv, NEW s \in Sermons, ResetFailedJob(s)
  PROVE  \E j \in FailedJobs(s) :
           /\ j = Newest(FailedJobs(s))
           /\ \A k \in FailedJobs(s) : k <= j
           /\ j \in DOMAIN jobs
           /\ jobs' = [jobs EXCEPT ![j] = Restarted(jobs[j])]
<1> DEFINE j == Newest(FailedJobs(s))
<1>1. jobs \in Seq(Jobs) /\ FailedJobs(s) # {} /\ FailedJobs(s) \in SUBSET DOMAIN jobs
  BY DEF IInv, TypeOK, ResetFailedJob, Retryable, FailedJobs, StageJobs, JobsOf
<1>2. j \in FailedJobs(s) /\ \A k \in FailedJobs(s) : k <= j
  BY ONLY <1>1, NewestIsNewest
<1>3. j \in DOMAIN jobs
  BY <1>1, <1>2
<1>4. jobs' = [jobs EXCEPT ![j] = Restarted(jobs[j])]
  BY <1>1, <1>3 DEF ResetFailedJob, Restarted
<1> QED
  BY <1>2, <1>3, <1>4

\* No request touches a worker or does more than that to the jobs.
LEMMA UserJobs ==
  ASSUME IInv, NEW s \in Sermons, UserStep(s)
  PROVE  UNCHANGED <<worker, process, stranded>> /\ RequestsOf(s)
<1>1. CASE \/ CreateSermon(s) \/ StartUpload(s) \/ MarkNormalizationReviewed(s)
           \/ SaveDraft(s) \/ ExportDecide(s) \/ ExportRefused(s)
  BY <1>1 DEF CreateSermon, StartUpload, MarkNormalizationReviewed, SaveDraft,
              ExportDecide, ExportRefused, RequestsOf
<1>2. CASE DeleteSermon(s)
  BY <1>2 DEF DeleteSermon, RemoveRow, Removed, RequestsOf
<1>3. CASE CompleteUpload(s) \/ EnqueueNormalizationRerun(s)
  <2>1. "normalize" \in JobTypes /\ NoReturn \in Returns
    BY DEF JobTypes, Returns
  <2> QED
    BY <1>3, <2>1 DEF CompleteUpload, EnqueueNormalizationRerun, Request, RequestsOf
<1>4. ASSUME NEW part \in RerunParts, EnqueueProcessingRerun(s, part)
      PROVE  UNCHANGED <<worker, process, stranded>> /\ RequestsOf(s)
  <2>1. RerunType(part) \in JobTypes /\ ReturnOf(s) \in Returns
    BY <1>4, ReturnOfType DEF EnqueueProcessingRerun, RerunType, JobTypes
  <2> QED
    BY <1>4, <2>1 DEF EnqueueProcessingRerun, Request, RequestsOf
<1>5. CASE ApplyDraft(s)
  <2>1. "render_edit" \in JobTypes /\ NoReturn \in Returns
    BY DEF JobTypes, Returns
  <2> QED
    BY <1>5, <2>1 DEF ApplyDraft, Request, RequestsOf
<1>6. CASE Request /\ EnqueueExport(s)
  <2>1. "export" \in JobTypes /\ Here(s) \in Returns
    BY <1>6 DEF JobTypes, EnqueueExport, Exportable, AtRest, Here, Returns, Stages
  <2> QED
    BY <1>6, <2>1 DEF EnqueueExport, Request, RequestsOf
<1>7. CASE Request /\ ResetFailedJob(s)
  <2>1. \A j \in FailedJobs(s) : jobs[j].state = "failed"
    BY DEF FailedJobs
  <2> QED
    BY <1>7, <2>1, ResetJobOf DEF Request, RequestsOf
<1> QED
  BY <1>1, <1>2, <1>3, <1>4, <1>5, <1>6, <1>7
     DEF UserStep, RetryFailedJob, ExportCommit

\* ... job by job.
LEMMA RequestedJobs ==
  ASSUME IInv, NEW s \in Sermons, RequestsOf(s)
  PROVE  /\ DOMAIN jobs \subseteq DOMAIN jobs'
         /\ \A j \in DOMAIN jobs :
              \/ jobs'[j] = jobs[j]
              \/ jobs'[j] = Removed(jobs[j])
              \/ jobs[j].state = "failed" /\ jobs'[j] = Restarted(jobs[j])
         /\ \A j \in DOMAIN jobs' \ DOMAIN jobs :
              \E type \in JobTypes, return \in Returns : jobs'[j] = NewJob(s, type, return)
<1>1. jobs \in Seq(Jobs)
  BY DEF IInv, TypeOK
<1>2. ASSUME NEW type \in JobTypes, NEW return \in Returns,
             jobs' = Append(jobs, NewJob(s, type, return))
      PROVE  /\ DOMAIN jobs' = DOMAIN jobs \cup {Len(jobs) + 1}
             /\ jobs'[Len(jobs) + 1] = NewJob(s, type, return)
             /\ \A j \in DOMAIN jobs : jobs'[j] = jobs[j]
  BY ONLY <1>1, <1>2, NewJobType, AppendedJob
<1>3. ASSUME NEW j \in DOMAIN jobs, jobs[j].state = "failed",
             jobs' = [jobs EXCEPT ![j] = Restarted(jobs[j])]
      PROVE  /\ DOMAIN jobs' = DOMAIN jobs
             /\ jobs'[j] = Restarted(jobs[j])
             /\ \A i \in DOMAIN jobs : i # j => jobs'[i] = jobs[i]
  BY ONLY <1>1, <1>3
<1> QED
  BY <1>2, <1>3 DEF RequestsOf

-----------------------------------------------------------------------------
(* The initial states *)

\* When the process has not started yet no worker holds a job.
LEMMA InitHInv == Init => HInv
<1> SUFFICES ASSUME Init
             PROVE  HInv
  OBVIOUS
<1>1. Holding
  BY DEF Init, Holding, IdleOutside, RecoveredFirst, HoldersRun, NoSharing,
         RunningIsHeld, StrandedRun, BusyWorker, Idle
<1>2. AttemptsCountErrors
  BY HistoryAssumption DEF Init, AttemptsCountErrors
<1> QED
  BY <1>1, <1>2, InitIInv DEF HInv

-----------------------------------------------------------------------------
(* Attempts and errors of one job *)

\* A new job, and one that starts again, has neither.
LEMMA NewIsCounted ==
  /\ \A s, type, return : Counted(NewJob(s, type, return))
  /\ \A job \in Jobs : Counted(Restarted(job)) /\ Counted(Removed(job))
<1>1. 0 < MaxAttempts
  BY MaxAttemptsAssumption
<1>2. \A s, type, return : Counted(NewJob(s, type, return))
  BY <1>1 DEF NewJob, Counted
<1>3. \A job \in Jobs : Counted(Restarted(job)) /\ Counted(Removed(job))
  BY <1>1 DEF Jobs, Counted, Restarted, Removed
<1> QED
  BY <1>2, <1>3

\* An execution adds an attempt, and takes it back when it is abandoned.
LEMMA ExecutionIsCounted ==
  ASSUME NEW job \in Jobs, Counted(job)
  PROVE  /\ job.state = "queued"
              => Counted([job EXCEPT !.state = "running", !.attempts = @ + 1])
         /\ job.state = "running" /\ job.type # "apply_edits" => Counted(Requeued(job))
         /\ Counted([job EXCEPT !.state = "done"])
         /\ job.type = "apply_edits" => Counted([job EXCEPT !.state = "failed"])
<1>1. job.attempts \in Nat /\ job.errors \in Nat
  BY DEF Jobs
<1>2. job.state = "queued"
        => Counted([job EXCEPT !.state = "running", !.attempts = @ + 1])
  BY <1>1 DEF Counted, Jobs
<1>3. job.state = "running" /\ job.type # "apply_edits" => Counted(Requeued(job))
  <2> SUFFICES ASSUME job.state = "running", job.type # "apply_edits"
               PROVE  Counted(Requeued(job))
    OBVIOUS
  <2>1. job.attempts = job.errors + 1 /\ job.errors < MaxAttempts
    BY DEF Counted
  <2>2. (IF job.attempts > 0 THEN job.attempts - 1 ELSE 0) = job.errors
    BY <1>1, <2>1
  <2>3. /\ Requeued(job).state = "queued" /\ Requeued(job).type = job.type
        /\ Requeued(job).attempts = job.errors /\ Requeued(job).errors = job.errors
    BY <2>2 DEF Requeued, Jobs
  <2> QED
    BY <2>1, <2>3 DEF Counted
<1>4. Counted([job EXCEPT !.state = "done"])
  BY DEF Counted, Jobs
<1>5. job.type = "apply_edits" => Counted([job EXCEPT !.state = "failed"])
  BY DEF Counted, Jobs
<1> QED
  BY <1>2, <1>3, <1>4, <1>5

\* A recorded error is compared with the attempt that it ended.
LEMMA ErrorIsCounted ==
  ASSUME NEW job \in Jobs, Counted(job), job.state = "running"
  PROVE  /\ job.attempts < MaxAttempts
              => Counted([job EXCEPT !.state = "queued", !.errors = @ + 1])
         /\ job.attempts >= MaxAttempts
              => Counted([job EXCEPT !.state = "failed", !.errors = @ + 1])
<1>1. job.attempts \in Nat /\ job.errors \in Nat /\ MaxAttempts \in Nat
  BY MaxAttemptsAssumption DEF Jobs
<1> QED
  BY <1>1 DEF Counted, Jobs

-----------------------------------------------------------------------------
(* The requests *)

LEMMA UserStepKeepsHolding ==
  ASSUME HInv, NEW s \in Sermons, UserStep(s)
  PROVE  Holding' /\ AttemptsCountErrors'
<1>1. IInv /\ Holding /\ AttemptsCountErrors
  BY DEF HInv
<1>2. UNCHANGED <<worker, process, stranded>> /\ RequestsOf(s)
  BY <1>1, UserJobs
<1>3. /\ DOMAIN jobs \subseteq DOMAIN jobs'
      /\ \A j \in DOMAIN jobs :
           \/ jobs'[j] = jobs[j]
           \/ jobs'[j] = Removed(jobs[j])
           \/ jobs[j].state = "failed" /\ jobs'[j] = Restarted(jobs[j])
      /\ \A j \in DOMAIN jobs' \ DOMAIN jobs :
           \E type \in JobTypes, return \in Returns : jobs'[j] = NewJob(s, type, return)
  BY <1>1, <1>2, RequestedJobs
<1>4. \A j \in DOMAIN jobs : jobs[j] \in Jobs
  BY <1>1 DEF IInv, TypeOK
<1>5. /\ \A j \in DOMAIN jobs :
           /\ jobs[j].state = "running" => jobs'[j].state \in {"running", "deleted"}
           /\ jobs[j].state = "deleted" => jobs'[j].state = "deleted"
           /\ jobs'[j].state = "running" => jobs[j].state = "running"
           /\ jobs[j].state \in {"running", "deleted"}
                => jobs'[j].attempts = jobs[j].attempts
      /\ \A j \in DOMAIN jobs' \ DOMAIN jobs : jobs'[j].state # "running"
  <2>1. ASSUME NEW j \in DOMAIN jobs
        PROVE  /\ jobs[j].state = "running" => jobs'[j].state \in {"running", "deleted"}
               /\ jobs[j].state = "deleted" => jobs'[j].state = "deleted"
               /\ jobs'[j].state = "running" => jobs[j].state = "running"
               /\ jobs[j].state \in {"running", "deleted"}
                    => jobs'[j].attempts = jobs[j].attempts
    BY ONLY <1>3, <1>4, j \in DOMAIN jobs DEF Removed, Restarted, Jobs
  <2>2. ASSUME NEW j \in DOMAIN jobs' \ DOMAIN jobs
        PROVE  jobs'[j].state # "running"
    BY <1>3 DEF NewJob
  <2> QED
    BY <2>1, <2>2
<1>6. Holding'
  <2>1. /\ \A w \in Workers : worker[w].pc # "idle" => worker[w].job \in DOMAIN jobs
        /\ stranded \subseteq DOMAIN jobs
    BY <1>1 DEF IInv, TypeOK
  <2>2. IdleOutside' /\ NoSharing' /\ RecoveredFirst'
    BY <1>1, <1>2, <1>5 DEF Holding, IdleOutside, NoSharing, RecoveredFirst, BusyWorker
  <2>3. HoldersRun'
    BY <1>1, <1>2, <1>5, <2>1 DEF Holding, HoldersRun, BusyWorker
  <2>4. RunningIsHeld' /\ StrandedRun'
    BY <1>1, <1>2, <1>5, <2>1 DEF Holding, RunningIsHeld, StrandedRun, BusyWorker
  <2> QED
    BY <2>2, <2>3, <2>4 DEF Holding
<1>7. AttemptsCountErrors'
  BY <1>1, <1>3, <1>4, NewIsCounted DEF AttemptsCountErrors
<1> QED
  BY <1>6, <1>7

-----------------------------------------------------------------------------
(* The process *)

LEMMA ProcessStepKeepsHolding ==
  ASSUME HInv, ProcessStep
  PROVE  Holding' /\ AttemptsCountErrors'
<1>1. IInv /\ Holding /\ AttemptsCountErrors /\ \A j \in DOMAIN jobs : jobs[j] \in Jobs
  BY DEF HInv, IInv, TypeOK
<1>2. CASE RecoverRunningJobs
  <2>1. /\ process' = "opened" /\ stranded' = {} /\ UNCHANGED worker
        /\ process = "down"
    BY <1>2 DEF RecoverRunningJobs
  <2>2. DOMAIN jobs' = DOMAIN jobs
    BY <1>2 DEF RecoverRunningJobs
  <2>3. ASSUME NEW j \in DOMAIN jobs
        PROVE  Counted(jobs'[j]) /\ jobs'[j].state # "running"
    <3>1. jobs[j] \in Jobs /\ Counted(jobs[j])
      BY <1>1 DEF AttemptsCountErrors
    <3>2. CASE Active(j) /\ jobs[j].type = "apply_edits"
      <4>1. jobs'[j] = [jobs[j] EXCEPT !.state = "failed"]
        BY <1>2, <3>2 DEF RecoverRunningJobs
      <4>2. jobs'[j].state = "failed"
        BY <3>1, <4>1 DEF Jobs
      <4> QED
        BY <3>1, <3>2, <4>1, <4>2, ExecutionIsCounted
    <3>3. CASE jobs[j].state = "running" /\ jobs[j].type # "apply_edits"
      <4>1. jobs'[j] = Requeued(jobs[j])
        BY <1>2, <3>3 DEF RecoverRunningJobs
      <4> QED
        BY <3>1, <3>3, <4>1, ExecutionIsCounted, RequeuedJob
    <3>4. CASE /\ ~(Active(j) /\ jobs[j].type = "apply_edits")
               /\ ~(jobs[j].state = "running" /\ jobs[j].type # "apply_edits")
      <4>1. jobs'[j] = jobs[j]
        BY <1>2, <3>4 DEF RecoverRunningJobs
      <4> QED
        BY <3>1, <3>4, <4>1 DEF Active
    <3> QED
      BY <3>2, <3>3, <3>4
  <2>4. \A w \in Workers : ~BusyWorker(w) /\ ~BusyWorker(w)'
    BY <1>1, <2>1 DEF Holding, IdleOutside, BusyWorker
  <2>5. Holding'
    BY <2>1, <2>2, <2>3, <2>4
       DEF Holding, IdleOutside, RecoveredFirst, HoldersRun, NoSharing,
           RunningIsHeld, StrandedRun
  <2> QED
    BY <2>2, <2>3, <2>5 DEF AttemptsCountErrors
<1>3. CASE DiscardInterruptedUploads
  <2>1. process = "opened" /\ process' = "up" /\ UNCHANGED <<worker, stranded>>
    BY <1>3 DEF DiscardInterruptedUploads
  <2>2. /\ DOMAIN jobs' = DOMAIN jobs
        /\ \A j \in DOMAIN jobs : jobs'[j] = jobs[j] \/ jobs'[j] = Removed(jobs[j])
    BY <1>3 DEF DiscardInterruptedUploads, Removed
  <2>3. /\ stranded = {} /\ \A w \in Workers : ~BusyWorker(w) /\ ~BusyWorker(w)'
        /\ \A j \in DOMAIN jobs : jobs[j].state # "running"
    BY <1>1, <2>1 DEF Holding, RecoveredFirst, IdleOutside, BusyWorker
  <2>4. \A j \in DOMAIN jobs' : jobs'[j].state # "running"
    BY <1>1, <2>2, <2>3 DEF Removed, Jobs
  <2>5. Holding'
    BY <2>1, <2>3, <2>4
       DEF Holding, IdleOutside, RecoveredFirst, HoldersRun, NoSharing,
           RunningIsHeld, StrandedRun
  <2>6. AttemptsCountErrors'
    BY <1>1, <2>2, NewIsCounted DEF AttemptsCountErrors
  <2> QED
    BY <2>5, <2>6
<1>4. CASE DropInFlight
  BY <1>1, <1>4 DEF DropInFlight, Idle, Holding, IdleOutside, RecoveredFirst, HoldersRun,
                    NoSharing, RunningIsHeld, StrandedRun, BusyWorker, AttemptsCountErrors
<1>5. CASE Shutdown
  BY <1>1, <1>5 DEF Shutdown, Holding, IdleOutside, RecoveredFirst, HoldersRun,
                    NoSharing, RunningIsHeld, StrandedRun, BusyWorker, AttemptsCountErrors
<1> QED
  BY <1>2, <1>3, <1>4, <1>5 DEF ProcessStep, Crash, Exit

-----------------------------------------------------------------------------
(* The workers *)

\* A worker that gives up its job, whatever becomes of that, does not disturb
\* the others; only a job that stays running needs a holder or a stranding.
LEMMA WorkerLetsGo ==
  ASSUME HInv, NEW w \in Workers, BusyWorker(w), GoIdle(w), UNCHANGED process,
         DOMAIN jobs \subseteq DOMAIN jobs',
         \A j \in DOMAIN jobs : j # worker[w].job => jobs'[j] = jobs[j],
         \A j \in DOMAIN jobs' \ DOMAIN jobs : jobs'[j].state # "running",
         \/ /\ stranded' = stranded
            /\ process = "up" => jobs'[worker[w].job].state # "running"
         \/ /\ stranded' = stranded \cup {worker[w].job}
            /\ jobs'[worker[w].job] = jobs[worker[w].job]
  PROVE  Holding'
<1>1. IInv /\ Holding
  BY DEF HInv
<1>2. /\ worker \in [Workers -> [pc : {"idle", "handling", "succeeded", "failed"},
                                 job : Nat, attempts : Nat,
                                 next : JobTypes \cup {"none"}]]
      /\ \A v \in Workers : worker[v].pc # "idle" => worker[v].job \in DOMAIN jobs
      /\ stranded \subseteq DOMAIN jobs
  BY <1>1 DEF IInv, TypeOK
<1>3. /\ \A v \in Workers \ {w} : worker'[v] = worker[v]
      /\ worker'[w].pc = "idle"
  BY <1>2 DEF GoIdle, Idle
<1>4. process \notin {"down", "opened"}
  BY <1>1 DEF Holding, IdleOutside
<1>5. \A v \in Workers \ {w} : BusyWorker(v) => worker[v].job # worker[w].job
  BY <1>1 DEF Holding, NoSharing
<1>6. HoldersRun'
  BY <1>1, <1>2, <1>3, <1>5 DEF Holding, HoldersRun, BusyWorker
<1>7. NoSharing'
  BY <1>1, <1>3 DEF Holding, NoSharing, BusyWorker
<1>8. RunningIsHeld'
  BY <1>1, <1>2, <1>3 DEF Holding, RunningIsHeld, BusyWorker
<1>9. StrandedRun'
  <2>1. worker[w].job \notin stranded
        /\ jobs[worker[w].job].state \in {"running", "deleted"}
    BY <1>1 DEF Holding, HoldersRun
  <2> QED
    BY <1>1, <1>2, <2>1 DEF Holding, StrandedRun, BusyWorker
<1> QED
  BY <1>4, <1>6, <1>7, <1>8, <1>9 DEF Holding, IdleOutside, RecoveredFirst

LEMMA ClaimKeepsHolding ==
  ASSUME HInv, NEW w \in Workers, NEW j \in DOMAIN jobs, ClaimNextJob(w, j)
  PROVE  Holding' /\ AttemptsCountErrors'
<1> DEFINE job == [jobs[j] EXCEPT !.state = "running", !.attempts = @ + 1]
<1>1. IInv /\ Holding /\ AttemptsCountErrors
  BY DEF HInv
<1>2. /\ jobs[j] \in Jobs /\ Counted(jobs[j]) /\ jobs[j].state = "queued"
      /\ process = "up" /\ worker[w].pc = "idle" /\ UNCHANGED <<process, stranded>>
  BY <1>1 DEF IInv, TypeOK, AttemptsCountErrors, ClaimNextJob, Claimable
<1>3. Counted(job) /\ job.state = "running" /\ job.attempts = jobs[j].attempts + 1
  BY <1>2, ExecutionIsCounted, ClaimedJob DEF Jobs
<1>4. jobs' = [jobs EXCEPT ![j] = job]
  BY DEF ClaimNextJob
<1> HIDE DEF job
<1>5. /\ DOMAIN jobs' = DOMAIN jobs /\ jobs'[j] = job
      /\ \A i \in DOMAIN jobs : i # j => jobs'[i] = jobs[i]
  BY <1>1, <1>4 DEF IInv, TypeOK
<1>6. /\ \A v \in Workers \ {w} : worker'[v] = worker[v]
      /\ worker'[w].pc = "handling" /\ worker'[w].job = j
      /\ worker'[w].attempts = jobs[j].attempts + 1
  BY <1>1 DEF ClaimNextJob, IInv, TypeOK
<1>7. /\ \A v \in Workers : BusyWorker(v) => worker[v].job \in DOMAIN jobs /\ worker[v].job # j
      /\ stranded \subseteq DOMAIN jobs /\ j \notin stranded
  BY <1>1, <1>2 DEF Holding, HoldersRun, StrandedRun, BusyWorker, IInv, TypeOK
<1>8. HoldersRun' /\ NoSharing'
  BY <1>1, <1>2, <1>3, <1>5, <1>6, <1>7 DEF Holding, HoldersRun, NoSharing, BusyWorker
<1>9. RunningIsHeld' /\ StrandedRun'
  BY <1>1, <1>2, <1>5, <1>6, <1>7 DEF Holding, RunningIsHeld, StrandedRun, BusyWorker
<1>10. Holding'
  BY <1>2, <1>8, <1>9 DEF Holding, IdleOutside, RecoveredFirst
<1> QED
  BY <1>1, <1>3, <1>5, <1>10 DEF AttemptsCountErrors

LEMMA HandlerKeepsHolding ==
  ASSUME HInv, NEW w \in Workers, HandlerSucceeds(w) \/ HandlerFails(w)
  PROVE  Holding' /\ AttemptsCountErrors'
<1>1. IInv /\ Holding /\ AttemptsCountErrors
  BY DEF HInv
<1>2. UNCHANGED <<jobs, process, stranded>> /\ BusyWorker(w)
  BY DEF HandlerSucceeds, HandlerFails, BusyWorker
<1>3. CASE process = "stopping"
  <2>1. GoIdle(w)
    BY <1>3 DEF HandlerSucceeds, HandlerFails, HandlerReturns, GoIdle
  <2> QED
    BY <1>1, <1>2, <1>3, <2>1, WorkerLetsGo DEF AttemptsCountErrors
<1>4. CASE process # "stopping"
  <2>1. /\ \A v \in Workers \ {w} : worker'[v] = worker[v]
        /\ worker'[w].pc # "idle" /\ worker'[w].job = worker[w].job
        /\ worker'[w].attempts = worker[w].attempts
    <3>1. PICK pc \in {"succeeded", "failed"}, next \in JobTypes \cup {"none"} :
            worker' = [worker EXCEPT ![w] = [worker[w] EXCEPT !.pc = pc, !.next = next]]
      <4>1. \A type, s : NextType(type, s) \in JobTypes \cup {"none"}
        BY DEF NextType, JobTypes
      <4> QED
        BY <1>4, <4>1 DEF HandlerSucceeds, HandlerFails, HandlerReturns
    <3>2. /\ worker[w] \in [pc : {"idle", "handling", "succeeded", "failed"},
                            job : Nat, attempts : Nat, next : JobTypes \cup {"none"}]
          /\ w \in DOMAIN worker /\ DOMAIN worker = Workers
      BY <1>1 DEF IInv, TypeOK
    <3> QED
      BY <3>1, <3>2
  <2>2. \A v \in Workers : /\ BusyWorker(v)' <=> BusyWorker(v)
                           /\ BusyWorker(v) => /\ worker'[v].job = worker[v].job
                                               /\ worker'[v].attempts = worker[v].attempts
    BY <1>2, <2>1 DEF BusyWorker
  <2>3. Holding'
    BY <1>1, <1>2, <2>2 DEF Holding, IdleOutside, RecoveredFirst, HoldersRun, NoSharing,
                            RunningIsHeld, StrandedRun
  <2> QED
    BY <1>1, <1>2, <2>3 DEF AttemptsCountErrors
<1> QED
  BY <1>3, <1>4

LEMMA CompleteKeepsHolding ==
  ASSUME HInv, NEW w \in Workers, CompleteJob(w)
  PROVE  Holding' /\ AttemptsCountErrors'
<1> DEFINE j    == worker[w].job
           done == [jobs EXCEPT ![j].state = "done"]
<1>1. IInv /\ Holding /\ AttemptsCountErrors
  BY DEF HInv
<1>2. /\ BusyWorker(w) /\ GoIdle(w) /\ UNCHANGED <<process, stranded>>
  BY DEF CompleteJob, BusyWorker
<1>3. jobs \in Seq(Jobs) /\ j \in DOMAIN jobs /\ jobs[j] \in Jobs /\ Counted(jobs[j])
  BY <1>1, <1>2 DEF IInv, TypeOK, BusyWorker, AttemptsCountErrors
<1>4. /\ done \in Seq(Jobs) /\ DOMAIN done = DOMAIN jobs
      /\ done[j].state = "done" /\ Counted(done[j])
      /\ \A i \in DOMAIN jobs : i # j => done[i] = jobs[i]
  <2>1. done = [jobs EXCEPT ![j] = [jobs[j] EXCEPT !.state = "done"]]
    BY <1>3
  <2>2. [jobs[j] EXCEPT !.state = "done"] \in Jobs /\ Counted([jobs[j] EXCEPT !.state = "done"])
        /\ [jobs[j] EXCEPT !.state = "done"].state = "done"
        /\ [jobs[j] EXCEPT !.state = "done"].sermon = jobs[j].sermon
    BY <1>3, DoneJob, ExecutionIsCounted
  <2> HIDE DEF j
  <2> QED
    BY <1>3, <2>1, <2>2, UpdatedJob
<1>5. /\ DOMAIN jobs \subseteq DOMAIN jobs'
      /\ \A i \in DOMAIN jobs : i # j => jobs'[i] = jobs[i]
      /\ jobs'[j].state # "running"
      /\ Counted(jobs'[j])
      /\ \A i \in DOMAIN jobs' \ DOMAIN jobs : jobs'[i].state # "running" /\ Counted(jobs'[i])
  <2>1. CASE UNCHANGED jobs /\ jobs[j].state # "running"
    BY <1>3, <2>1
  <2>2. CASE jobs' = done
    <3> HIDE DEF done, j
    <3> QED
      BY <1>3, <1>4, <2>2
  <2>3. CASE worker[w].next # "none"
             /\ jobs' = Append(done, NewJob(jobs[j].sermon, worker[w].next, NoReturn))
    <3> DEFINE new == NewJob(jobs[j].sermon, worker[w].next, NoReturn)
    <3>1. worker[w].next \in JobTypes /\ NoReturn \in Returns /\ jobs[j].sermon \in Sermons
      BY <1>1, <1>3, <2>3 DEF IInv, TypeOK, Returns, Jobs
    <3>2. new \in Jobs /\ new.state = "queued" /\ Counted(new)
      BY <3>1, NewJobType, NewIsCounted
    <3> HIDE DEF done, j, new
    <3>3. /\ DOMAIN jobs' = DOMAIN done \cup {Len(done) + 1}
          /\ jobs'[Len(done) + 1] = new
          /\ \A i \in DOMAIN done : jobs'[i] = done[i]
      BY <1>4, <2>3, <3>2, AppendedJob DEF new
    <3> QED
      BY <1>3, <1>4, <3>2, <3>3
  <2> QED
    BY <2>1, <2>2, <2>3 DEF CompleteJob
<1> HIDE DEF done
<1>6. Holding'
  BY <1>2, <1>5, WorkerLetsGo
<1>7. AttemptsCountErrors'
  BY <1>1, <1>5 DEF AttemptsCountErrors
<1> QED
  BY <1>6, <1>7

\* The number of the attempt that the worker compares is the one in the row.
LEMMA FailureKeepsHolding ==
  ASSUME HInv, NEW w \in Workers, RecordJobFailure(w)
  PROVE  Holding' /\ AttemptsCountErrors'
<1> DEFINE j == worker[w].job
           job(state) == [jobs[j] EXCEPT !.state = state, !.errors = @ + 1]
<1>1. IInv /\ Holding /\ AttemptsCountErrors
  BY DEF HInv
<1>2. /\ BusyWorker(w) /\ GoIdle(w) /\ UNCHANGED <<process, stranded>>
  BY DEF RecordJobFailure, BusyWorker
<1>3. /\ jobs \in Seq(Jobs) /\ j \in DOMAIN jobs /\ jobs[j] \in Jobs /\ Counted(jobs[j])
      /\ worker[w].attempts = jobs[j].attempts
  BY <1>1, <1>2 DEF IInv, TypeOK, BusyWorker, AttemptsCountErrors, Holding, HoldersRun
<1>4. CASE jobs[j].state # "running" /\ UNCHANGED jobs
  BY <1>1, <1>2, <1>3, <1>4, WorkerLetsGo DEF AttemptsCountErrors
<1>5. ASSUME NEW state \in {"queued", "failed"}, jobs[j].state = "running",
             jobs' = [jobs EXCEPT ![j] = job(state)],
             IF state = "queued" THEN jobs[j].attempts < MaxAttempts
                                 ELSE jobs[j].attempts >= MaxAttempts
      PROVE  Holding' /\ AttemptsCountErrors'
  <2>1. Counted(job(state)) /\ job(state).state = state
    <3>1. job(state).state = state
      BY <1>3, ReportedJob
    <3> HIDE DEF j
    <3>2. CASE state = "queued"
      <4>1. Counted(job("queued"))
        BY ONLY <1>3, <1>5, <3>2, ErrorIsCounted
      <4> QED
        BY <3>2, <4>1
    <3>3. CASE state = "failed"
      <4>1. Counted(job("failed"))
        BY ONLY <1>3, <1>5, <3>3, ErrorIsCounted
      <4> QED
        BY <3>3, <4>1
    <3> QED
      BY <3>1, <3>2, <3>3
  <2> HIDE DEF job, j
  <2>2. /\ DOMAIN jobs' = DOMAIN jobs /\ jobs'[j] = job(state)
        /\ \A i \in DOMAIN jobs : i # j => jobs'[i] = jobs[i]
    BY <1>3, <1>5
  <2>3. Holding'
    BY <1>2, <1>3, <2>1, <2>2, WorkerLetsGo DEF j
  <2> QED
    BY <1>1, <2>1, <2>2, <2>3 DEF AttemptsCountErrors
<1>6. \A state : [jobs EXCEPT ![j].state = state, ![j].errors = @ + 1]
                   = [jobs EXCEPT ![j] = job(state)]
  BY <1>3
<1> QED
  BY <1>3, <1>4, <1>5, <1>6 DEF RecordJobFailure

LEMMA WorkerStepKeepsHolding ==
  ASSUME HInv, NEW w \in Workers, WorkerStep(w)
  PROVE  Holding' /\ AttemptsCountErrors'
<1>1. CASE PollNoJob(w)
  BY <1>1 DEF PollNoJob, vars, HInv, Holding, IdleOutside, RecoveredFirst, HoldersRun,
              NoSharing, RunningIsHeld, StrandedRun, BusyWorker, AttemptsCountErrors
<1>2. CASE StoreError(w)
  BY <1>2, WorkerLetsGo DEF StoreError, BusyWorker, HInv, AttemptsCountErrors
<1> QED
  BY <1>1, <1>2, ClaimKeepsHolding, HandlerKeepsHolding, CompleteKeepsHolding,
     FailureKeepsHolding DEF WorkerStep, Claim

-----------------------------------------------------------------------------
(* The theorems *)

\* No step of the process, a worker or a user breaks the bookkeeping of the
\* workers and of the attempts.
THEOREM StepKeepsHInv == HInv /\ [Next]_vars => HInv'
<1> SUFFICES ASSUME HInv, [Next]_vars
             PROVE  HInv'
  OBVIOUS
<1>1. IInv'
  BY StepKeepsIInv DEF HInv
<1>2. Holding' /\ AttemptsCountErrors'
  <2>1. CASE UNCHANGED vars
    BY <2>1 DEF vars, HInv, Holding, IdleOutside, RecoveredFirst, HoldersRun,
                NoSharing, RunningIsHeld, StrandedRun, BusyWorker, AttemptsCountErrors
  <2> QED
    BY <2>1, ProcessStepKeepsHolding, WorkerStepKeepsHolding, UserStepKeepsHolding DEF Next
<1> QED
  BY <1>1, <1>2 DEF HInv

\* The pool and the jobs table agree in every reachable state.
THEOREM WorkersInvariant == Spec => []HInv
BY InitHInv, StepKeepsHInv, PTL DEF Spec

\* Neither a crash, a restart, a shutdown nor a retry costs an attempt or grants
\* one, and a job fails with exactly MaxAttempts errors.
THEOREM AttemptsAreCounted == Spec => []AttemptsCountErrors
<1>1. HInv => AttemptsCountErrors
  BY DEF HInv
<1> QED
  BY <1>1, WorkersInvariant, PTL

\* Two workers never run the same job, and a running job that no worker is busy
\* with was given up by a store error.
THEOREM OneWorkerPerRunningJob == Spec => []RunningJobHasOneWorker
<1>1. HInv => RunningJobHasOneWorker
  <2> SUFFICES ASSUME HInv, process = "up", NEW j \in DOMAIN jobs, jobs[j].state = "running"
               PROVE  Cardinality(HolderOf(j)) = IF j \in stranded THEN 0 ELSE 1
    BY DEF RunningJobHasOneWorker, HolderOf
  <2>1. Holding
    BY DEF HInv
  <2>2. CASE j \in stranded
    <3>1. HolderOf(j) = {}
      BY <2>1, <2>2 DEF Holding, HoldersRun, BusyWorker, HolderOf
    <3> QED
      BY <2>2, <3>1, FS_EmptySet
  <2>3. CASE j \notin stranded
    <3>1. PICK w \in Workers : BusyWorker(w) /\ worker[w].job = j
      BY <2>1, <2>3 DEF Holding, RunningIsHeld
    <3>2. HolderOf(j) = {w}
      BY <2>1, <3>1 DEF Holding, NoSharing, BusyWorker, HolderOf
    <3> QED
      BY <2>3, <3>2, FS_Singleton
  <2> QED
    BY <2>2, <2>3
<1> QED
  BY <1>1, WorkersInvariant, PTL

=============================================================================
