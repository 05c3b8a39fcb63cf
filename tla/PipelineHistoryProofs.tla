------------------------- MODULE PipelineHistoryProofs ------------------------
(***************************************************************************)
(* What retries, reruns and exports find of the work that came before      *)
(* them, for any sermons, workers, requests and failures: the failure of a *)
(* failed sermon is the latest job of its stage, a rerun returns to a      *)
(* stage of the pipeline, and no retry prepares over a saved draft.        *)
(*                                                                         *)
(* The three depend on each other.  A rerun of a failed rerun hands on its *)
(* return state, so the state that a job returns to has to be remembered   *)
(* rightly as long as the job may still run: while it is active, and while *)
(* it is the failure that a retry or the next rerun starts from.  Where it *)
(* returns to a failed stage, the failed job must still be the latest      *)
(* there, which holds because jobs with a return state belong to none of   *)
(* the stages returned to.  RemembersFor says so of one sermon.            *)
(***************************************************************************)
EXTENDS PipelineRefinement, PipelineProofs

Remembers(sm, jb) == \A s \in Sermons : RemembersFor(sm, jb, s)

\* Handlers ask for work of the pipeline only.  A transcription that asks for an
\* edit to be prepared found no draft, and none can be saved before it is complete.
NextIsSafe(w) ==
  /\ worker[w].next \in {"none", "transcribe", "prepare_edit", "extract_metadata"}
  /\ worker[w].next = "prepare_edit" /\ jobs[worker[w].job].state = "running"
       => sermon[jobs[worker[w].job].sermon].draft # "saved"

NextsAreSafe == \A w \in Workers : BusyWorker(w) => NextIsSafe(w)

RInv == HInv /\ Remembers(sermon, jobs) /\ NextsAreSafe

-----------------------------------------------------------------------------
(* One sermon *)

\* The jobs of two tables that belong to s are the same.
SameJobsOf(jb, jb2, s) ==
  /\ \A j \in DOMAIN jb2 : jb2[j].sermon = s => j \in DOMAIN jb /\ jb[j] = jb2[j]
  /\ \A j \in DOMAIN jb : jb[j].sermon = s => j \in DOMAIN jb2 /\ jb2[j] = jb[j]

\* No draft is saved.
NoDraftSaved(sm, sm2, s) == sm2[s].draft = "saved" => sm[s].draft = "saved"

\* What is remembered of a sermon depends on its jobs, its stage and status and
\* on whether its draft is saved.
LEMMA RemembersSame ==
  ASSUME NEW sm, NEW jb, NEW sm2, NEW jb2, NEW s,
         RemembersFor(sm, jb, s), SameJobsOf(jb, jb2, s), NoDraftSaved(sm, sm2, s),
         sm2[s].stage = sm[s].stage, sm2[s].status = sm[s].status
  PROVE  RemembersFor(sm2, jb2, s)
<1>1. /\ \A j \in DOMAIN jb2 : jb2[j].sermon = s => j \in DOMAIN jb /\ jb[j] = jb2[j]
      /\ \A j \in DOMAIN jb : jb[j].sermon = s => j \in DOMAIN jb2 /\ jb2[j] = jb[j]
  BY DEF SameJobsOf
<1>2. \A stage : /\ \A j \in DOMAIN jb2 : OfStage(jb2, j, s, stage)
                      => j \in DOMAIN jb /\ OfStage(jb, j, s, stage)
                 /\ \A j \in DOMAIN jb : OfStage(jb, j, s, stage)
                      => j \in DOMAIN jb2 /\ OfStage(jb2, j, s, stage)
  BY <1>1 DEF OfStage
<1>3. \A j \in DOMAIN jb : jb[j].sermon = s /\ Latest(jb, j) => Latest(jb2, j)
  BY <1>1, <1>2 DEF Latest
<1>4. \A j \in DOMAIN jb : jb[j].sermon = s /\ KeepsDraft(sm, jb, j) => KeepsDraft(sm2, jb2, j)
  BY <1>1 DEF KeepsDraft, NoDraftSaved
<1>5. \A stage : LatestFailed(sm, jb, s, stage) => LatestFailed(sm2, jb2, s, stage)
  BY <1>1, <1>2, <1>3, <1>4 DEF LatestFailed, OfStage
<1>6. \A j \in DOMAIN jb : jb[j].sermon = s /\ ReturnsRightly(sm, jb, j)
        => ReturnsRightly(sm2, jb2, j)
  BY <1>1, <1>5 DEF ReturnsRightly
<1>7. \A j \in DOMAIN jb : jb[j].sermon = s => (ActiveIn(jb2, j) <=> ActiveIn(jb, j))
  BY <1>1 DEF ActiveIn
<1>8. ASSUME NEW j \in DOMAIN jb2, jb2[j].sermon = s
      PROVE  /\ jb2[j].return # NoReturn => /\ jb2[j].return.stage \in PipelineStages
                                            /\ StageOf(jb2[j].type) \notin PipelineStages
             /\ jb2[j].type = "export" => jb2[j].return # NoReturn
             /\ ActiveIn(jb2, j) =>
                  Latest(jb2, j) /\ KeepsDraft(sm2, jb2, j) /\ ReturnsRightly(sm2, jb2, j)
  BY <1>1, <1>3, <1>4, <1>6, <1>7, <1>8 DEF RemembersFor
<1>9. sm2[s].status = "failed" =>
        \E j \in DOMAIN jb2 : /\ OfStage(jb2, j, s, sm2[s].stage) /\ Latest(jb2, j)
                              /\ jb2[j].state = "failed" /\ KeepsDraft(sm2, jb2, j)
                              /\ ReturnsRightly(sm2, jb2, j)
  <2> SUFFICES ASSUME sm2[s].status = "failed"
               PROVE  \E j \in DOMAIN jb2 :
                        /\ OfStage(jb2, j, s, sm2[s].stage) /\ Latest(jb2, j)
                        /\ jb2[j].state = "failed" /\ KeepsDraft(sm2, jb2, j)
                        /\ ReturnsRightly(sm2, jb2, j)
    OBVIOUS
  <2>1. PICK j \in DOMAIN jb : /\ OfStage(jb, j, s, sm[s].stage) /\ Latest(jb, j)
                               /\ jb[j].state = "failed" /\ KeepsDraft(sm, jb, j)
                               /\ ReturnsRightly(sm, jb, j)
    BY DEF RemembersFor
  <2>2. jb[j].sermon = s
    BY <2>1 DEF OfStage
  <2> QED
    BY <1>1, <1>2, <1>3, <1>4, <1>6, <2>1, <2>2
<1> QED
  BY <1>8, <1>9 DEF RemembersFor

\* An active job of the sermon moves to another state; all others stay as they are.
MovedJob(jb, jb2, s, j) ==
  /\ j \in DOMAIN jb /\ DOMAIN jb2 = DOMAIN jb
  /\ \A i \in DOMAIN jb : i # j => jb2[i] = jb[i]
  /\ jb[j].sermon = s /\ ActiveIn(jb, j)
  /\ jb2[j].sermon = jb[j].sermon /\ jb2[j].type = jb[j].type
  /\ jb2[j].return = jb[j].return /\ jb2[j].state # "deleted"

\* The failures that were there stay the latest of their stages.
LEMMA MoveKeepsFailures ==
  ASSUME NEW sm, NEW jb, NEW sm2, NEW jb2, NEW s, NEW j,
         MovedJob(jb, jb2, s, j), NoDraftSaved(sm, sm2, s)
  PROVE  /\ \A stage : \A i \in DOMAIN jb : OfStage(jb2, i, s, stage) <=> OfStage(jb, i, s, stage)
         /\ \A i \in DOMAIN jb : jb[i].sermon = s =>
              /\ Latest(jb, i) => Latest(jb2, i)
              /\ KeepsDraft(sm, jb, i) => KeepsDraft(sm2, jb2, i)
              /\ ReturnsRightly(sm, jb, i) => ReturnsRightly(sm2, jb2, i)
         /\ \A stage : LatestFailed(sm, jb, s, stage) => LatestFailed(sm2, jb2, s, stage)
<1>1. \A stage : \A i \in DOMAIN jb : OfStage(jb2, i, s, stage) <=> OfStage(jb, i, s, stage)
  BY DEF MovedJob, OfStage, ActiveIn
<1>2. \A i \in DOMAIN jb : jb[i].sermon = s /\ Latest(jb, i) => Latest(jb2, i)
  BY <1>1 DEF MovedJob, Latest
<1>3. \A i \in DOMAIN jb : jb[i].sermon = s /\ KeepsDraft(sm, jb, i) => KeepsDraft(sm2, jb2, i)
  BY DEF MovedJob, KeepsDraft, NoDraftSaved
<1>4. \A stage : LatestFailed(sm, jb, s, stage) => LatestFailed(sm2, jb2, s, stage)
  <2> SUFFICES ASSUME NEW stage, LatestFailed(sm, jb, s, stage)
               PROVE  LatestFailed(sm2, jb2, s, stage)
    OBVIOUS
  <2>1. PICK i \in DOMAIN jb : /\ OfStage(jb, i, s, stage) /\ Latest(jb, i)
                               /\ jb[i].state = "failed" /\ KeepsDraft(sm, jb, i)
    BY DEF LatestFailed
  <2>2. i # j /\ jb[i].sermon = s
    BY <2>1 DEF MovedJob, ActiveIn, OfStage
  <2> QED
    BY <1>1, <1>2, <1>3, <2>1, <2>2 DEF MovedJob, LatestFailed
<1>5. \A i \in DOMAIN jb : jb[i].sermon = s /\ ReturnsRightly(sm, jb, i)
        => ReturnsRightly(sm2, jb2, i)
  BY <1>4 DEF MovedJob, ReturnsRightly
<1> QED
  BY <1>1, <1>2, <1>3, <1>4, <1>5

\* The sermon follows its job: to another try, to a failure of the job's stage,
\* or to where the job returns it.
LEMMA RemembersMoved ==
  ASSUME NEW sm, NEW jb \in Seq(Jobs), NEW sm2, NEW jb2, NEW s \in Sermons, NEW j,
         Coherent(sm, jb), RemembersFor(sm, jb, s),
         MovedJob(jb, jb2, s, j), NoDraftSaved(sm, sm2, s),
         sm2[s].stage = "export" => sm2[s].status # "done",
         sm2[s].status = "failed" =>
           \/ jb2[j].state = "failed" /\ sm2[s].stage = StageOf(jb[j].type)
           \/ jb[j].return # NoReturn /\ sm2[s].stage = jb[j].return.stage
              /\ jb[j].return.status = "failed"
  PROVE  RemembersFor(sm2, jb2, s)
<1>1. /\ \A stage : \A i \in DOMAIN jb : OfStage(jb2, i, s, stage) <=> OfStage(jb, i, s, stage)
      /\ \A i \in DOMAIN jb : jb[i].sermon = s =>
           /\ Latest(jb, i) => Latest(jb2, i)
           /\ KeepsDraft(sm, jb, i) => KeepsDraft(sm2, jb2, i)
           /\ ReturnsRightly(sm, jb, i) => ReturnsRightly(sm2, jb2, i)
      /\ \A stage : LatestFailed(sm, jb, s, stage) => LatestFailed(sm2, jb2, s, stage)
  BY MoveKeepsFailures
<1>2. /\ j \in DOMAIN jb /\ DOMAIN jb2 = DOMAIN jb
      /\ \A i \in DOMAIN jb : i # j => jb2[i] = jb[i]
      /\ jb[j].sermon = s /\ ActiveIn(jb, j)
      /\ jb2[j].sermon = jb[j].sermon /\ jb2[j].type = jb[j].type
      /\ jb2[j].return = jb[j].return /\ jb2[j].state # "deleted"
  BY DEF MovedJob
<1>3. Latest(jb, j) /\ KeepsDraft(sm, jb, j) /\ ReturnsRightly(sm, jb, j)
  BY <1>2 DEF RemembersFor
<1>4. ASSUME NEW i \in DOMAIN jb2, jb2[i].sermon = s
      PROVE  /\ jb2[i].return # NoReturn => /\ jb2[i].return.stage \in PipelineStages
                                            /\ StageOf(jb2[i].type) \notin PipelineStages
             /\ jb2[i].type = "export" => jb2[i].return # NoReturn
             /\ ActiveIn(jb2, i) =>
                  Latest(jb2, i) /\ KeepsDraft(sm2, jb2, i) /\ ReturnsRightly(sm2, jb2, i)
  <2>1. /\ i \in DOMAIN jb /\ jb[i].sermon = s /\ jb2[i].return = jb[i].return
        /\ jb2[i].type = jb[i].type
        /\ ActiveIn(jb2, i) => ActiveIn(jb, i)
    BY <1>2, <1>4 DEF ActiveIn
  <2>2. /\ jb[i].return # NoReturn => /\ jb[i].return.stage \in PipelineStages
                                     /\ StageOf(jb[i].type) \notin PipelineStages
        /\ jb[i].type = "export" => jb[i].return # NoReturn
        /\ ActiveIn(jb, i) =>
             Latest(jb, i) /\ KeepsDraft(sm, jb, i) /\ ReturnsRightly(sm, jb, i)
    BY <2>1 DEF RemembersFor
  <2>3. /\ Latest(jb, i) => Latest(jb2, i)
        /\ KeepsDraft(sm, jb, i) => KeepsDraft(sm2, jb2, i)
        /\ ReturnsRightly(sm, jb, i) => ReturnsRightly(sm2, jb2, i)
    BY <1>1, <2>1
  <2> QED
    BY ONLY <2>1, <2>2, <2>3
<1>5. ASSUME sm2[s].status = "failed"
      PROVE  \E i \in DOMAIN jb2 :
               /\ OfStage(jb2, i, s, sm2[s].stage) /\ Latest(jb2, i)
               /\ jb2[i].state = "failed" /\ KeepsDraft(sm2, jb2, i)
               /\ ReturnsRightly(sm2, jb2, i)
  <2>1. CASE jb2[j].state = "failed" /\ sm2[s].stage = StageOf(jb[j].type)
    BY <1>1, <1>2, <1>3, <2>1 DEF OfStage
  <2>2. CASE /\ jb[j].return # NoReturn /\ sm2[s].stage = jb[j].return.stage
             /\ jb[j].return.status = "failed"
    <3>1. LatestFailed(sm, jb, s, jb[j].return.stage)
      BY <1>2, <1>3, <2>2 DEF ReturnsRightly
    <3>2. LatestFailed(sm2, jb2, s, sm2[s].stage)
      BY <1>1, <2>2, <3>1
    <3>3. PICK i \in DOMAIN jb2 : /\ OfStage(jb2, i, s, sm2[s].stage) /\ Latest(jb2, i)
                                  /\ jb2[i].state = "failed" /\ KeepsDraft(sm2, jb2, i)
      BY <3>2 DEF LatestFailed
    <3>4. StageOf(jb2[i].type) \in PipelineStages /\ jb2[i].sermon = s
      BY <1>2, <2>2, <3>3 DEF RemembersFor, OfStage
    <3>5. jb2[i].return = NoReturn
      BY <1>4, <3>4
    <3>6. ReturnsRightly(sm2, jb2, i)
      BY <3>5 DEF ReturnsRightly, NoReturn
    <3> QED
      BY <3>3, <3>6
  <2> QED
    BY <1>5, <2>1, <2>2
<1> QED
  BY <1>4, <1>5 DEF RemembersFor

\* A job is enqueued for a sermon without an active one.
LEMMA RemembersEnqueued ==
  ASSUME NEW sm, NEW jb \in Seq(Jobs), NEW sm2, NEW s \in Sermons,
         NEW type \in JobTypes, NEW return \in Returns,
         RemembersFor(sm, jb, s), NoDraftSaved(sm, sm2, s),
         \A j \in DOMAIN jb : jb[j].sermon = s => ~ActiveIn(jb, j),
         sm2[s].status = "pending",
         return # NoReturn => /\ return.stage \in PipelineStages
                              /\ StageOf(type) \notin PipelineStages,
         type = "export" => return # NoReturn,
         type = "prepare_edit" => sm2[s].draft # "saved",
         return.status = "failed" => LatestFailed(sm, jb, s, return.stage)
  PROVE  RemembersFor(sm2, Append(jb, NewJob(s, type, return)), s)
<1> DEFINE job == NewJob(s, type, return)
           jb2 == Append(jb, job)
           n   == Len(jb) + 1
<1>1. /\ job \in Jobs /\ job.sermon = s /\ job.type = type /\ job.state = "queued"
      /\ job.return = return
  BY NewJobType DEF NewJob
<1> HIDE DEF job
<1>2. /\ jb2 \in Seq(Jobs)
      /\ DOMAIN jb2 = DOMAIN jb \cup {n} /\ n \notin DOMAIN jb
      /\ jb2[n] = job
      /\ \A j \in DOMAIN jb : jb2[j] = jb[j]
  BY <1>1, AppendedJob
<1>3. \A j \in DOMAIN jb2 : j <= n
  BY <1>2
<1> HIDE DEF jb2, n
<1>4. /\ \A stage : \A j \in DOMAIN jb : OfStage(jb2, j, s, stage) <=> OfStage(jb, j, s, stage)
      /\ \A stage : OfStage(jb2, n, s, stage) => stage = StageOf(type)
  BY <1>1, <1>2 DEF OfStage
<1>5. \A j \in DOMAIN jb :
        jb[j].sermon = s /\ StageOf(jb[j].type) # StageOf(type) /\ Latest(jb, j)
          => Latest(jb2, j)
  <2> SUFFICES ASSUME NEW j \in DOMAIN jb, jb[j].sermon = s,
                      StageOf(jb[j].type) # StageOf(type), Latest(jb, j),
                      NEW k \in DOMAIN jb2, OfStage(jb2, k, s, StageOf(jb[j].type))
               PROVE  k <= j
    BY <1>2 DEF Latest
  <2>1. k \in DOMAIN jb /\ OfStage(jb, k, s, StageOf(jb[j].type))
    BY <1>2, <1>4
  <2> QED
    BY <2>1 DEF Latest
<1>6. ASSUME NEW stage, stage # StageOf(type), LatestFailed(sm, jb, s, stage)
      PROVE  LatestFailed(sm2, jb2, s, stage)
  <2>1. PICK j \in DOMAIN jb : /\ OfStage(jb, j, s, stage) /\ Latest(jb, j)
                               /\ jb[j].state = "failed" /\ KeepsDraft(sm, jb, j)
    BY <1>6 DEF LatestFailed
  <2>2. jb[j].sermon = s /\ StageOf(jb[j].type) = stage
    BY <2>1 DEF OfStage
  <2>3. KeepsDraft(sm2, jb2, j)
    BY <1>2, <2>1, <2>2 DEF KeepsDraft, NoDraftSaved
  <2> QED
    BY <1>2, <1>4, <1>5, <1>6, <2>1, <2>2, <2>3 DEF LatestFailed
<1>7. Latest(jb2, n)
  BY <1>3 DEF Latest
<1>8. KeepsDraft(sm2, jb2, n)
  BY <1>1, <1>2 DEF KeepsDraft
<1>9. ReturnsRightly(sm2, jb2, n)
  <2> SUFFICES ASSUME return.status = "failed"
               PROVE  LatestFailed(sm2, jb2, s, return.stage)
    BY <1>1, <1>2 DEF ReturnsRightly
  <2>1. return # NoReturn
    BY DEF NoReturn
  <2> QED
    BY <1>6, <2>1
<1>10. \A j \in DOMAIN jb : jb[j].sermon = s => ~ActiveIn(jb2, j)
  BY <1>2 DEF ActiveIn
<1>11. RemembersFor(sm2, jb2, s)
  <2> SUFFICES ASSUME NEW j \in DOMAIN jb2, jb2[j].sermon = s
               PROVE  /\ jb2[j].return # NoReturn =>
                           /\ jb2[j].return.stage \in PipelineStages
                           /\ StageOf(jb2[j].type) \notin PipelineStages
                      /\ jb2[j].type = "export" => jb2[j].return # NoReturn
                      /\ ActiveIn(jb2, j) => /\ Latest(jb2, j) /\ KeepsDraft(sm2, jb2, j)
                                             /\ ReturnsRightly(sm2, jb2, j)
    BY DEF RemembersFor
  <2>1. CASE j = n
    BY <1>1, <1>2, <1>7, <1>8, <1>9, <2>1
  <2>2. CASE j \in DOMAIN jb
    <3>1. jb2[j] = jb[j] /\ jb[j].sermon = s
      BY <1>2, <2>2
    <3> QED
      BY <1>10, <2>2, <3>1 DEF RemembersFor
  <2> QED
    BY <1>2, <2>1, <2>2
<1> QED
  BY <1>11 DEF jb2, job

\* The failure that a retry starts again is the latest job of its stage.
LEMMA RemembersRestarted ==
  ASSUME NEW sm, NEW jb \in Seq(Jobs), NEW sm2, NEW s \in Sermons, NEW j \in DOMAIN jb,
         RemembersFor(sm, jb, s), NoDraftSaved(sm, sm2, s),
         \A i \in DOMAIN jb : jb[i].sermon = s => ~ActiveIn(jb, i),
         OfStage(jb, j, s, sm[s].stage), Latest(jb, j), KeepsDraft(sm, jb, j),
         ReturnsRightly(sm, jb, j),
         sm2[s].status = "pending"
  PROVE  RemembersFor(sm2, [jb EXCEPT ![j] = Restarted(jb[j])], s)
<1> DEFINE jb2 == [jb EXCEPT ![j] = Restarted(jb[j])]
<1>1. /\ jb[j] \in Jobs /\ jb[j].sermon = s /\ jb[j].state # "deleted"
  BY DEF OfStage
<1>2. /\ DOMAIN jb2 = DOMAIN jb
      /\ \A i \in DOMAIN jb : i # j => jb2[i] = jb[i]
      /\ jb2[j].sermon = s /\ jb2[j].type = jb[j].type /\ jb2[j].return = jb[j].return
      /\ jb2[j].state = "queued"
  BY <1>1 DEF Restarted, Jobs
<1> HIDE DEF jb2
<1>3. \A stage : \A i \in DOMAIN jb : OfStage(jb2, i, s, stage) <=> OfStage(jb, i, s, stage)
  BY <1>1, <1>2 DEF OfStage
<1>4. \A i \in DOMAIN jb : jb[i].sermon = s /\ Latest(jb, i) => Latest(jb2, i)
  BY <1>1, <1>2, <1>3 DEF Latest
<1>5. KeepsDraft(sm2, jb2, j)
  BY <1>1, <1>2 DEF KeepsDraft, NoDraftSaved
<1>6. ReturnsRightly(sm2, jb2, j)
  <2> SUFFICES ASSUME jb[j].return.status = "failed"
               PROVE  LatestFailed(sm2, jb2, s, jb[j].return.stage)
    BY <1>2 DEF ReturnsRightly
  <2>1. PICK i \in DOMAIN jb :
          /\ OfStage(jb, i, s, jb[j].return.stage) /\ Latest(jb, i)
          /\ jb[i].state = "failed" /\ KeepsDraft(sm, jb, i)
    BY <1>1 DEF ReturnsRightly, LatestFailed
  <2>2. jb[j].return # NoReturn
    BY DEF NoReturn
  <2>3. jb[i].sermon = s /\ StageOf(jb[i].type) # StageOf(jb[j].type)
    BY <1>1, <2>1, <2>2 DEF RemembersFor, OfStage
  <2>4. i # j
    BY <2>3
  <2>5. KeepsDraft(sm2, jb2, i)
    BY <1>2, <2>1, <2>3, <2>4 DEF KeepsDraft, NoDraftSaved
  <2> QED
    BY <1>2, <1>3, <1>4, <2>1, <2>3, <2>4, <2>5 DEF LatestFailed
<1>7. RemembersFor(sm2, jb2, s)
  <2> SUFFICES ASSUME NEW i \in DOMAIN jb2, jb2[i].sermon = s
               PROVE  /\ jb2[i].return # NoReturn =>
                           /\ jb2[i].return.stage \in PipelineStages
                           /\ StageOf(jb2[i].type) \notin PipelineStages
                      /\ jb2[i].type = "export" => jb2[i].return # NoReturn
                      /\ ActiveIn(jb2, i) => /\ Latest(jb2, i) /\ KeepsDraft(sm2, jb2, i)
                                             /\ ReturnsRightly(sm2, jb2, i)
    BY DEF RemembersFor
  <2>1. CASE i = j
    BY <1>1, <1>2, <1>4, <1>5, <1>6, <2>1 DEF RemembersFor
  <2>2. CASE i # j
    <3>1. jb2[i] = jb[i] /\ i \in DOMAIN jb /\ jb[i].sermon = s /\ ~ActiveIn(jb2, i)
      BY <1>2, <2>2 DEF ActiveIn
    <3> QED
      BY <3>1 DEF RemembersFor
  <2> QED
    BY <2>1, <2>2
<1> QED
  BY <1>7 DEF jb2

\* A deleted sermon leaves nothing to retry.
LEMMA RemembersRemoved ==
  ASSUME NEW sm, NEW jb, NEW sm2, NEW jb2, NEW s,
         RemembersFor(sm, jb, s), DOMAIN jb2 = DOMAIN jb,
         \A j \in DOMAIN jb : jb2[j].sermon = s =>
           /\ jb[j].sermon = s /\ jb2[j].state = "deleted"
           /\ jb2[j].type = jb[j].type /\ jb2[j].return = jb[j].return,
         sm2[s] = [AbsentRow EXCEPT !.stage = "deleted"]
  PROVE  RemembersFor(sm2, jb2, s)
<1>1. sm2[s].stage = "deleted" /\ sm2[s].status = "none"
  BY DEF AbsentRow
<1>2. \A j \in DOMAIN jb2 : jb2[j].sermon = s => ~ActiveIn(jb2, j)
  BY DEF ActiveIn
<1> QED
  BY <1>1, <1>2 DEF RemembersFor

\* A sermon that is uploaded has nothing to retry either.
LEMMA RemembersWaiting ==
  ASSUME NEW sm, NEW jb, NEW sm2, NEW s, RemembersFor(sm, jb, s),
         \A j \in DOMAIN jb : jb[j].sermon = s => ~ActiveIn(jb, j),
         sm2[s].status \in {"pending", "running"}
  PROVE  RemembersFor(sm2, jb, s)
BY DEF RemembersFor

\* A draft is saved while the sermon rests, when no editing is left to be retried.
LEMMA RemembersSaved ==
  ASSUME NEW sm, NEW jb, NEW sm2, NEW s, RemembersFor(sm, jb, s),
         \A j \in DOMAIN jb : jb[j].sermon = s => ~ActiveIn(jb, j),
         sm2[s].stage = sm[s].stage, sm2[s].status = sm[s].status,
         sm[s].status = "failed" => sm[s].stage = "metadata"
  PROVE  RemembersFor(sm2, jb, s)
<1>1. ASSUME sm2[s].status = "failed"
      PROVE  \E j \in DOMAIN jb : /\ OfStage(jb, j, s, sm2[s].stage) /\ Latest(jb, j)
                                  /\ jb[j].state = "failed" /\ KeepsDraft(sm2, jb, j)
                                  /\ ReturnsRightly(sm2, jb, j)
  <2>1. PICK j \in DOMAIN jb : /\ OfStage(jb, j, s, sm[s].stage) /\ Latest(jb, j)
                              /\ jb[j].state = "failed"
    BY <1>1 DEF RemembersFor
  <2>2. StageOf(jb[j].type) = "metadata" /\ jb[j].sermon = s
    BY <1>1, <2>1 DEF OfStage
  <2>3. jb[j].type # "prepare_edit" /\ jb[j].return = NoReturn
    BY <2>2 DEF StageOf, RemembersFor, PipelineStages
  <2>4. KeepsDraft(sm2, jb, j) /\ ReturnsRightly(sm2, jb, j)
    BY <2>3 DEF KeepsDraft, ReturnsRightly, NoReturn
  <2> QED
    BY <2>1, <2>4
<1> QED
  BY <1>1 DEF RemembersFor

\* Only the sermon that a step touches has to be looked at again.
LEMMA RemembersTouched ==
  ASSUME NEW sm, NEW jb, NEW sm2, NEW jb2, NEW s \in Sermons, Remembers(sm, jb),
         \A t \in Sermons \ {s} : sm2[t] = sm[t] /\ SameJobsOf(jb, jb2, t),
         RemembersFor(sm2, jb2, s)
  PROVE  Remembers(sm2, jb2)
<1>1. ASSUME NEW t \in Sermons \ {s}
      PROVE  RemembersFor(sm2, jb2, t)
  <2>1. RemembersFor(sm, jb, t) /\ SameJobsOf(jb, jb2, t) /\ sm2[t] = sm[t]
    BY DEF Remembers
  <2> QED
    BY <2>1, RemembersSame DEF NoDraftSaved
<1> QED
  BY <1>1 DEF Remembers

\* The jobs of other sermons, when a single job of s changes or is appended.
LEMMA OthersAsTheyWere ==
  ASSUME NEW jb, NEW jb2, NEW s, NEW t, t # s,
         DOMAIN jb \subseteq DOMAIN jb2,
         \A j \in DOMAIN jb : jb[j].sermon # s => jb2[j] = jb[j],
         \A j \in DOMAIN jb : jb[j].sermon = s => jb2[j].sermon = s,
         \A j \in DOMAIN jb2 \ DOMAIN jb : jb2[j].sermon = s
  PROVE  SameJobsOf(jb, jb2, t)
BY DEF SameJobsOf

-----------------------------------------------------------------------------
(* The initial states *)

\* An upgraded database remembers for its sermons what the requests need.
LEMMA InitRInv == Init => RInv
<1> SUFFICES ASSUME Init
             PROVE  RInv
  OBVIOUS
<1>1. Remembers(sermon, jobs)
  BY HistoryAssumption DEF Init, Remembers
<1>2. NextsAreSafe
  BY DEF Init, Idle, NextsAreSafe, BusyWorker
<1> QED
  BY <1>1, <1>2, InitHInv DEF RInv

-----------------------------------------------------------------------------
(* The process *)

\* Rows and jobs that a start or a delete request removes.
LEMMA RemovedRemembered ==
  ASSUME RInv, NEW gone \in SUBSET Sermons,
         sermon' = [s \in Sermons |-> IF s \in gone
                                      THEN [AbsentRow EXCEPT !.stage = "deleted"]
                                      ELSE sermon[s]],
         jobs' = [j \in DOMAIN jobs |-> IF jobs[j].sermon \in gone
                                        THEN [jobs[j] EXCEPT !.state = "deleted"]
                                        ELSE jobs[j]]
  PROVE  Remembers(sermon', jobs')
<1>1. /\ \A j \in DOMAIN jobs : jobs[j] \in Jobs
      /\ \A s \in Sermons : RemembersFor(sermon, jobs, s)
  BY DEF RInv, HInv, IInv, TypeOK, Remembers
<1>2. DOMAIN jobs' = DOMAIN jobs
  OBVIOUS
<1>3. \A j \in DOMAIN jobs :
        /\ jobs'[j].sermon = jobs[j].sermon /\ jobs'[j].type = jobs[j].type
        /\ jobs'[j].return = jobs[j].return
        /\ jobs[j].sermon \in gone => jobs'[j].state = "deleted"
        /\ jobs[j].sermon \notin gone => jobs'[j] = jobs[j]
  BY <1>1 DEF Jobs
<1>4. ASSUME NEW s \in Sermons
      PROVE  RemembersFor(sermon', jobs', s)
  <2>1. CASE s \in gone
    <3>1. sermon'[s] = [AbsentRow EXCEPT !.stage = "deleted"]
      BY <2>1
    <3> QED
      BY ONLY <1>1, <1>2, <1>3, <2>1, <3>1, s \in Sermons, RemembersRemoved
  <2>2. CASE s \notin gone
    <3>1. sermon'[s] = sermon[s] /\ SameJobsOf(jobs, jobs', s)
      BY <1>2, <1>3, <2>2 DEF SameJobsOf
    <3> QED
      BY <1>1, <3>1, RemembersSame DEF NoDraftSaved
  <2> QED
    BY <2>1, <2>2
<1> QED
  BY <1>4 DEF Remembers

\* What a start does to the jobs that were queued or running, and to their sermons.
Retired(j)   == Active(j) /\ jobs[j].type = "apply_edits"
Abandoned(j) == jobs[j].state = "running" /\ jobs[j].type # "apply_edits"
Ended(s)     == /\ sermon[s].stage = "edit"
                /\ sermon[s].status \in {"pending", "running"}
                /\ \E j \in JobsOf(s) : Retired(j)
Waits(s)     == sermon[s].status = "running" /\ \E j \in StageJobs(s) : Abandoned(j)

LEMMA RecoveredTables ==
  ASSUME IInv, RecoverRunningJobs
  PROVE  /\ DOMAIN jobs' = DOMAIN jobs
         /\ \A j \in DOMAIN jobs :
              /\ jobs'[j].sermon = jobs[j].sermon /\ jobs'[j].type = jobs[j].type
              /\ jobs'[j].return = jobs[j].return
              /\ Retired(j)   => jobs'[j].state = "failed"
              /\ Abandoned(j) => jobs'[j].state = "queued"
              /\ ~Retired(j) /\ ~Abandoned(j) => jobs'[j] = jobs[j]
         /\ \A s \in Sermons :
              /\ sermon'[s].stage = sermon[s].stage /\ sermon'[s].draft = sermon[s].draft
              /\ Ended(s) => sermon'[s].status = "failed"
              /\ ~Ended(s) => sermon'[s].status = IF Waits(s) THEN "pending"
                                                              ELSE sermon[s].status
<1>1. /\ jobs \in Seq(Jobs) /\ sermon \in [Sermons -> Rows]
      /\ \A j \in DOMAIN jobs : jobs[j] \in Jobs
  BY DEF IInv, TypeOK
<1>2. /\ DOMAIN jobs' = DOMAIN jobs
      /\ \A j \in DOMAIN jobs :
           /\ jobs'[j].sermon = jobs[j].sermon /\ jobs'[j].type = jobs[j].type
           /\ jobs'[j].return = jobs[j].return
           /\ Retired(j)   => jobs'[j].state = "failed"
           /\ Abandoned(j) => jobs'[j].state = "queued"
           /\ ~Retired(j) /\ ~Abandoned(j) => jobs'[j] = jobs[j]
  <2>1. jobs' = [j \in DOMAIN jobs |->
                   CASE Retired(j)   -> [jobs[j] EXCEPT !.state = "failed"]
                     [] Abandoned(j) -> Requeued(jobs[j])
                     [] OTHER        -> jobs[j]]
    BY DEF RecoverRunningJobs, Retired, Abandoned
  <2>2. \A j \in DOMAIN jobs : ~(Retired(j) /\ Abandoned(j))
    BY DEF Retired, Abandoned
  <2> QED
    BY <1>1, <2>1, <2>2 DEF Jobs, Requeued
<1>3. ASSUME NEW s \in Sermons
      PROVE  /\ sermon'[s].stage = sermon[s].stage /\ sermon'[s].draft = sermon[s].draft
             /\ Ended(s) => sermon'[s].status = "failed"
             /\ ~Ended(s) => sermon'[s].status = IF Waits(s) THEN "pending"
                                                             ELSE sermon[s].status
  <2> DEFINE status == CASE Ended(s) -> "failed"
                         [] Waits(s) -> "pending"
                         [] OTHER    -> sermon[s].status
  <2>1. sermon'[s] = [sermon[s] EXCEPT !.status = status]
    BY DEF RecoverRunningJobs, Ended, Waits, Retired, Abandoned
  <2>2. ~(Ended(s) /\ Waits(s))
    BY <1>1, JobOfTable
       DEF Ended, Waits, Retired, Abandoned, StageJobs, JobsOf, StageOf, JobTypes
  <2>3. sermon[s] \in Rows
    BY <1>1
  <2> QED
    BY <2>1, <2>2, <2>3 DEF Rows
<1> QED
  BY <1>2, <1>3

LEMMA RecoverRemembered ==
  ASSUME RInv, RecoverRunningJobs
  PROVE  Remembers(sermon', jobs')
<1>1. /\ IInv /\ jobs \in Seq(Jobs) /\ Coherent(sermon, jobs)
      /\ \A s \in Sermons : RemembersFor(sermon, jobs, s)
  BY DEF RInv, HInv, IInv, TypeOK, OneJobPerBusySermon, Remembers
<1>2. /\ DOMAIN jobs' = DOMAIN jobs
      /\ \A j \in DOMAIN jobs :
           /\ jobs'[j].sermon = jobs[j].sermon /\ jobs'[j].type = jobs[j].type
           /\ jobs'[j].return = jobs[j].return
           /\ Retired(j)   => jobs'[j].state = "failed"
           /\ Abandoned(j) => jobs'[j].state = "queued"
           /\ ~Retired(j) /\ ~Abandoned(j) => jobs'[j] = jobs[j]
  BY <1>1, RecoveredTables
<1>3. \A s \in Sermons :
        /\ sermon'[s].stage = sermon[s].stage /\ sermon'[s].draft = sermon[s].draft
        /\ Ended(s) => sermon'[s].status = "failed"
        /\ ~Ended(s) => sermon'[s].status = IF Waits(s) THEN "pending"
                                                        ELSE sermon[s].status
  BY <1>1, RecoveredTables
<1>4. ASSUME NEW s \in Sermons
      PROVE  RemembersFor(sermon', jobs', s)
  <2>1. NoDraftSaved(sermon, sermon', s) /\ RemembersFor(sermon, jobs, s)
    BY <1>1, <1>3 DEF NoDraftSaved
  <2>2. CoherentFor(sermon, jobs, s)
    BY <1>1, CoherentSermon
  <2>3. CASE \A j \in DOMAIN jobs : jobs[j].sermon = s => ~Retired(j) /\ ~Abandoned(j)
    <3>1. SameJobsOf(jobs, jobs', s)
      BY <1>2, <2>3 DEF SameJobsOf
    <3>2. ~Ended(s) /\ ~Waits(s)
      BY <2>3 DEF Ended, Waits, StageJobs, JobsOf
    <3>3. sermon'[s].stage = sermon[s].stage /\ sermon'[s].status = sermon[s].status
      BY <1>3, <3>2
    <3> QED
      BY <2>1, <3>1, <3>3, RemembersSame
  <2>4. ASSUME NEW j \in DOMAIN jobs, jobs[j].sermon = s, Retired(j) \/ Abandoned(j)
        PROVE  RemembersFor(sermon', jobs', s)
    <3>1. /\ ActiveIn(jobs, j) /\ jobs'[j].state # "deleted"
          /\ sermon[s].stage = StageOf(jobs[j].type)
          /\ sermon[s].status \in {"pending", "running"}
      BY <1>2, <2>2, <2>4 DEF Retired, Abandoned, ActiveIn, Active, CoherentFor
    <3>2. \A i \in DOMAIN jobs : jobs[i].sermon = s /\ i # j => ~ActiveIn(jobs, i)
      BY <2>2, <2>4, <3>1 DEF CoherentFor
    <3>3. \A i \in DOMAIN jobs : jobs[i].sermon = s /\ i # j => jobs'[i] = jobs[i]
      BY <1>2, <3>2 DEF Retired, Abandoned, ActiveIn, Active
    <3>4. Retired(j) => /\ jobs'[j].state = "failed"
                        /\ sermon'[s].stage = StageOf(jobs[j].type)
      BY <1>2, <1>3, <3>1
    <3>5. Abandoned(j) => sermon'[s].status \in {"pending", "running"}
      <4>1. Abandoned(j) => ~Ended(s)
        BY <2>4, <3>2 DEF Ended, Retired, Abandoned, JobsOf, ActiveIn, Active
      <4> QED
        BY <1>3, <3>1, <4>1
    <3>6. sermon'[s].stage = "export" => sermon'[s].status # "done"
      <4>1. sermon'[s].status \in {"failed", "pending", "running"}
        BY <1>3, <3>1
      <4> QED
        BY <4>1
    <3> DEFINE moved == [i \in DOMAIN jobs |-> IF i = j THEN jobs'[j] ELSE jobs[i]]
    <3>7. MovedJob(jobs, moved, s, j)
      BY <1>2, <2>4, <3>1 DEF MovedJob
    <3>8. SameJobsOf(moved, jobs', s)
      BY <1>2, <2>4, <3>3 DEF SameJobsOf
    <3>9. moved[j].state = jobs'[j].state
      OBVIOUS
    <3> HIDE DEF moved
    <3>10. sermon'[s].status = "failed"
             => moved[j].state = "failed" /\ sermon'[s].stage = StageOf(jobs[j].type)
      BY <2>4, <3>4, <3>5, <3>9
    <3>11. RemembersFor(sermon', moved, s)
      BY <1>1, <2>1, <3>6, <3>7, <3>10, RemembersMoved
    <3> QED
      BY <3>8, <3>11, RemembersSame DEF NoDraftSaved
  <2> QED
    BY <2>3, <2>4
<1> QED
  BY <1>4 DEF Remembers

LEMMA ProcessStepRemembers ==
  ASSUME RInv, HInv', ProcessStep
  PROVE  Remembers(sermon', jobs') /\ NextsAreSafe'
<1>1. CASE RecoverRunningJobs
  <2>1. process' = "opened"
    BY <1>1 DEF RecoverRunningJobs
  <2>2. NextsAreSafe'
    BY <2>1 DEF HInv, Holding, IdleOutside, NextsAreSafe, BusyWorker
  <2> QED
    BY <1>1, <2>2, RecoverRemembered
<1>2. CASE DiscardInterruptedUploads
  <2> DEFINE discarded == {s \in Sermons : /\ sermon[s].stage = "upload"
                                           /\ sermon[s].status \in {"pending", "running"}}
  <2>1. /\ discarded \in SUBSET Sermons
        /\ sermon' = [s \in Sermons |-> IF s \in discarded
                                        THEN [AbsentRow EXCEPT !.stage = "deleted"]
                                        ELSE sermon[s]]
        /\ jobs' = [j \in DOMAIN jobs |-> IF jobs[j].sermon \in discarded
                                          THEN [jobs[j] EXCEPT !.state = "deleted"]
                                          ELSE jobs[j]]
    BY <1>2 DEF DiscardInterruptedUploads
  <2> HIDE DEF discarded
  <2>2. Remembers(sermon', jobs')
    BY <2>1, RemovedRemembered
  <2>3. process = "opened" /\ UNCHANGED worker
    BY <1>2 DEF DiscardInterruptedUploads
  <2>4. NextsAreSafe'
    BY <2>3 DEF RInv, HInv, Holding, IdleOutside, NextsAreSafe, BusyWorker
  <2> QED
    BY <2>2, <2>4
<1>3. CASE DropInFlight
  BY <1>3 DEF DropInFlight, Idle, RInv, NextsAreSafe, BusyWorker
<1>4. CASE Shutdown
  BY <1>4 DEF Shutdown, RInv, NextsAreSafe, NextIsSafe, BusyWorker
<1> QED
  BY <1>1, <1>2, <1>3, <1>4 DEF ProcessStep, Crash, Exit

-----------------------------------------------------------------------------
(* The workers *)

\* A single active job moves, and its sermon with it.
LEMMA MoveRemembers ==
  ASSUME RInv, NEW j \in DOMAIN jobs, NEW job, NEW jb2,
         jb2 = [jobs EXCEPT ![j] = job], ActiveIn(jobs, j),
         job.sermon = jobs[j].sermon, job.type = jobs[j].type,
         job.return = jobs[j].return, job.state # "deleted",
         NEW sm2,
         \A t \in Sermons \ {jobs[j].sermon} : sm2[t] = sermon[t],
         sm2[jobs[j].sermon].draft = sermon[jobs[j].sermon].draft,
         sm2[jobs[j].sermon].stage = "export" => sm2[jobs[j].sermon].status # "done",
         sm2[jobs[j].sermon].status = "failed" =>
           \/ /\ job.state = "failed"
              /\ sm2[jobs[j].sermon].stage = StageOf(jobs[j].type)
           \/ /\ jobs[j].return # NoReturn
              /\ sm2[jobs[j].sermon].stage = jobs[j].return.stage
              /\ jobs[j].return.status = "failed"
  PROVE  Remembers(sm2, jb2)
<1> DEFINE s == jobs[j].sermon
<1>1. /\ jobs \in Seq(Jobs) /\ Coherent(sermon, jobs) /\ Remembers(sermon, jobs)
      /\ s \in Sermons
  BY JobOfTable DEF RInv, HInv, IInv, TypeOK, OneJobPerBusySermon
<1>2. /\ DOMAIN jb2 = DOMAIN jobs /\ jb2[j] = job
      /\ \A i \in DOMAIN jobs : i # j => jb2[i] = jobs[i]
  BY <1>1
<1>3. MovedJob(jobs, jb2, s, j)
  BY <1>2 DEF MovedJob
<1>4. RemembersFor(sm2, jb2, s)
  <2>1. RemembersFor(sermon, jobs, s) /\ NoDraftSaved(sermon, sm2, s)
    BY <1>1 DEF Remembers, NoDraftSaved
  <2>2. jb2[j].state = job.state
    BY <1>2
  <2> QED
    BY <1>1, <1>3, <2>1, <2>2, RemembersMoved
<1>5. \A t \in Sermons \ {s} : sm2[t] = sermon[t] /\ SameJobsOf(jobs, jb2, t)
  BY <1>2 DEF SameJobsOf
<1> QED
  BY <1>1, <1>4, <1>5, RemembersTouched

\* What a worker asks for stays safe while nobody gives its job to another
\* sermon, runs it again, or saves a draft.
LEMMA NextStaysSafe ==
  ASSUME RInv, NEW v \in Workers, BusyWorker(v), worker'[v] = worker[v],
         jobs'[worker[v].job].sermon = jobs[worker[v].job].sermon,
         jobs'[worker[v].job].state = "running"
           => /\ jobs[worker[v].job].state = "running"
              /\ NoDraftSaved(sermon, sermon', jobs[worker[v].job].sermon)
  PROVE  NextIsSafe(v)'
BY DEF RInv, NextsAreSafe, NextIsSafe, NoDraftSaved

\* ... and while the step is another worker's.
LEMMA OthersStaySafe ==
  ASSUME RInv, NEW w \in Workers,
         \A v \in Workers \ {w} : /\ worker'[v] = worker[v]
                                  /\ BusyWorker(v) => jobs'[worker[v].job] = jobs[worker[v].job],
         \A s \in Sermons : NoDraftSaved(sermon, sermon', s),
         worker'[w].pc # "idle" => NextIsSafe(w)'
  PROVE  NextsAreSafe'
<1> SUFFICES ASSUME NEW v \in Workers \ {w}, worker'[v].pc # "idle"
             PROVE  NextIsSafe(v)'
  BY DEF NextsAreSafe, BusyWorker
<1>1. BusyWorker(v) /\ jobs[worker[v].job].sermon \in Sermons
  BY JobOfTable DEF RInv, HInv, IInv, TypeOK, BusyWorker
<1> QED
  BY <1>1, NextStaysSafe

LEMMA ClaimRemembers ==
  ASSUME RInv, NEW w \in Workers, NEW j \in DOMAIN jobs, ClaimNextJob(w, j)
  PROVE  Remembers(sermon', jobs') /\ NextsAreSafe'
<1> DEFINE job == [jobs[j] EXCEPT !.state = "running", !.attempts = @ + 1]
           s   == jobs[j].sermon
<1>1. /\ IInv /\ jobs \in Seq(Jobs) /\ jobs[j] \in Jobs /\ jobs[j].state = "queued"
      /\ s \in Sermons /\ sermon \in [Sermons -> Rows]
  BY JobOfTable DEF RInv, HInv, IInv, TypeOK, ClaimNextJob, Claimable
<1>2. /\ job.sermon = s /\ job.type = jobs[j].type /\ job.return = jobs[j].return
      /\ job.state = "running"
  BY <1>1 DEF Jobs
<1>3. jobs' = [jobs EXCEPT ![j] = job]
  BY DEF ClaimNextJob
<1>4. /\ \A t \in Sermons \ {s} : sermon'[t] = sermon[t]
      /\ sermon'[s].status = "running" /\ sermon'[s].draft = sermon[s].draft
  BY <1>1 DEF ClaimNextJob, SetStage, Rows
<1> HIDE DEF job
<1>5. Remembers(sermon', jobs')
  <2>1. ActiveIn(jobs, j)
    BY <1>1 DEF ActiveIn
  <2> QED
    BY <1>2, <1>3, <1>4, <2>1, MoveRemembers
<1>6. NextsAreSafe'
  <2>1. /\ \A v \in Workers \ {w} : worker'[v] = worker[v]
        /\ worker'[w].next = "none"
    BY <1>1 DEF ClaimNextJob, IInv, TypeOK
  <2>2. \A v \in Workers : BusyWorker(v) => worker[v].job \in DOMAIN jobs /\ worker[v].job # j
    BY <1>1 DEF RInv, HInv, Holding, HoldersRun, BusyWorker, IInv, TypeOK
  <2>3. \A v \in Workers : BusyWorker(v) => jobs'[worker[v].job] = jobs[worker[v].job]
    BY <1>3, <2>2
  <2>4. \A t \in Sermons : NoDraftSaved(sermon, sermon', t)
    BY <1>4 DEF NoDraftSaved
  <2>5. NextIsSafe(w)'
    BY <2>1 DEF NextIsSafe
  <2> QED
    BY <2>1, <2>3, <2>4, <2>5, OthersStaySafe
<1> QED
  BY <1>5, <1>6

LEMMA HandlerRemembers ==
  ASSUME RInv, NEW w \in Workers, HandlerSucceeds(w) \/ HandlerFails(w)
  PROVE  Remembers(sermon', jobs') /\ NextsAreSafe'
<1> DEFINE job == jobs[worker[w].job]
<1>1. /\ IInv /\ jobs \in Seq(Jobs) /\ sermon \in [Sermons -> Rows] /\ BusyWorker(w)
      /\ worker[w].job \in DOMAIN jobs
      /\ \A t \in Sermons : RemembersFor(sermon, jobs, t)
      /\ worker \in [Workers -> [pc : {"idle", "handling", "succeeded", "failed"},
                                 job : Nat, attempts : Nat,
                                 next : JobTypes \cup {"none"}]]
  BY DEF RInv, HInv, IInv, TypeOK, HandlerSucceeds, HandlerFails, BusyWorker, Remembers
<1>2. job.sermon \in Sermons
  BY ONLY <1>1, JobOfTable
<1>3. UNCHANGED jobs /\ (UNCHANGED sermon \/ HandlerOutput(job.type, job.sermon))
  BY DEF HandlerSucceeds, HandlerFails
<1>4. \A t \in Sermons : /\ sermon'[t].stage = sermon[t].stage
                         /\ sermon'[t].status = sermon[t].status
                         /\ NoDraftSaved(sermon, sermon', t)
  <2>1. CASE HandlerOutput(job.type, job.sermon)
    <3> HIDE DEF job
    <3>1. \/ UNCHANGED sermon
          \/ sermon' = [sermon EXCEPT ![job.sermon].transcript = TRUE]
          \/ sermon' = [sermon EXCEPT ![job.sermon].draft = "generated"]
      BY <2>1 DEF HandlerOutput
    <3>2. sermon \in [Sermons -> Rows] /\ job.sermon \in Sermons
      BY <1>1, <1>2
    <3>3. CASE UNCHANGED sermon
      BY <3>3 DEF NoDraftSaved
    <3>4. CASE sermon' = [sermon EXCEPT ![job.sermon].transcript = TRUE]
      BY ONLY <3>2, <3>4 DEF Rows, NoDraftSaved
    <3>5. CASE sermon' = [sermon EXCEPT ![job.sermon].draft = "generated"]
      BY ONLY <3>2, <3>5 DEF Rows, NoDraftSaved
    <3> QED
      BY <3>1, <3>3, <3>4, <3>5
  <2>2. CASE UNCHANGED sermon
    BY <2>2 DEF NoDraftSaved
  <2> QED
    BY <1>3, <2>1, <2>2
<1>5. Remembers(sermon', jobs')
  <2> SUFFICES ASSUME NEW t \in Sermons
               PROVE  RemembersFor(sermon', jobs', t)
    BY DEF Remembers
  <2>1. SameJobsOf(jobs, jobs', t)
    BY <1>3 DEF SameJobsOf
  <2> QED
    BY <1>1, <1>4, <2>1, RemembersSame
<1>6. worker'[w].pc # "idle" => NextIsSafe(w)'
  <2> SUFFICES ASSUME process # "stopping"
               PROVE  NextIsSafe(w)'
    BY <1>1 DEF HandlerSucceeds, HandlerFails, HandlerReturns, Idle
  <2>1. CASE HandlerFails(w)
    <3>1. worker'[w].next = "none"
      BY <1>1, <2>1 DEF HandlerFails, HandlerReturns
    <3> QED
      BY <3>1 DEF NextIsSafe
  <2>2. CASE HandlerSucceeds(w)
    <3>1. worker'[w].next = NextType(job.type, job.sermon) /\ worker'[w].job = worker[w].job
      BY <1>1, <2>2 DEF HandlerSucceeds, HandlerReturns
    <3>2. NextType(job.type, job.sermon)
            \in {"none", "transcribe", "prepare_edit", "extract_metadata"}
      BY DEF NextType
    <3>3. NextType(job.type, job.sermon) = "prepare_edit" => sermon[job.sermon].draft = "none"
      BY DEF NextType
    <3> QED
      BY <1>2, <1>3, <1>4, <3>1, <3>2, <3>3 DEF NextIsSafe, NoDraftSaved
  <2> QED
    BY <2>1, <2>2
<1>7. \A v \in Workers \ {w} : worker'[v] = worker[v]
  BY <1>1 DEF HandlerSucceeds, HandlerFails, HandlerReturns
<1> QED
  BY <1>1, <1>3, <1>4, <1>5, <1>6, <1>7, OthersStaySafe

\* A worker that is idle asks for nothing.
LEMMA IdleIsSafe ==
  ASSUME RInv, NEW w \in Workers, BusyWorker(w), GoIdle(w),
         \A j \in DOMAIN jobs : j # worker[w].job => jobs'[j] = jobs[j],
         \A s \in Sermons : NoDraftSaved(sermon, sermon', s)
  PROVE  NextsAreSafe'
<1>1. /\ \A v \in Workers \ {w} : worker'[v] = worker[v]
      /\ worker'[w].pc = "idle"
  BY DEF GoIdle, Idle, RInv, HInv, IInv, TypeOK
<1>2. \A v \in Workers \ {w} : BusyWorker(v) => jobs'[worker[v].job] = jobs[worker[v].job]
  BY DEF RInv, HInv, Holding, NoSharing, IInv, TypeOK, BusyWorker
<1> QED
  BY <1>1, <1>2, OthersStaySafe

LEMMA CompleteRemembers ==
  ASSUME RInv, NEW w \in Workers, CompleteJob(w)
  PROVE  Remembers(sermon', jobs') /\ NextsAreSafe'
<1> DEFINE j    == worker[w].job
           s    == jobs[j].sermon
           next == worker[w].next
           job  == [jobs[j] EXCEPT !.state = "done"]
           done == [jobs EXCEPT ![j].state = "done"]
           end  == IF jobs[j].return # NoReturn
                   THEN jobs[j].return
                   ELSE [stage |-> StageOf(jobs[j].type), status |-> "done"]
<1>1. /\ IInv /\ jobs \in Seq(Jobs) /\ j \in DOMAIN jobs /\ BusyWorker(w) /\ GoIdle(w)
      /\ sermon \in [Sermons -> Rows] /\ Remembers(sermon, jobs) /\ NextIsSafe(w)
  BY DEF RInv, HInv, IInv, TypeOK, CompleteJob, BusyWorker, NextsAreSafe
<1>2. jobs[j] \in Jobs /\ s \in Sermons /\ jobs[j].return \in Returns
  BY ONLY <1>1, JobOfTable
<1>3. /\ job \in Jobs /\ job.sermon = s /\ job.type = jobs[j].type
      /\ job.return = jobs[j].return /\ job.state = "done"
  BY <1>2 DEF Jobs
<1>4. done = [jobs EXCEPT ![j] = job]
  BY <1>1
<1>5. RemembersFor(sermon, jobs, s) /\ CoherentFor(sermon, jobs, s)
  BY <1>1, <1>2, CoherentSermon DEF Remembers
<1>6. CASE UNCHANGED <<sermon, jobs>>
  BY <1>1, <1>6, IdleIsSafe DEF NoDraftSaved
<1>7. CASE jobs[j].state = "running" /\ jobs' = done /\ SetStage(s, end.stage, end.status)
  <2>1. /\ \A t \in Sermons \ {s} : sermon'[t] = sermon[t]
        /\ sermon'[s].stage = end.stage /\ sermon'[s].status = end.status
        /\ sermon'[s].draft = sermon[s].draft
    <3> HIDE DEF s, end
    <3> QED
      BY <1>1, <1>2, <1>7 DEF SetStage, Rows
  <2>2. end.stage = "export" => end.status # "done"
    <3>1. "export" \notin PipelineStages
      BY DEF PipelineStages
    <3>2. jobs[j].return = NoReturn => jobs[j].type # "export"
      BY <1>1, <1>5 DEF RemembersFor
    <3>3. jobs[j].return = NoReturn => StageOf(jobs[j].type) # "export"
      BY <3>2 DEF StageOf
    <3>4. jobs[j].return # NoReturn => jobs[j].return.stage \in PipelineStages
      BY <1>1, <1>5 DEF RemembersFor
    <3> QED
      BY <3>1, <3>3, <3>4
  <2>3. end.status = "failed" => jobs[j].return # NoReturn /\ end = jobs[j].return
    OBVIOUS
  <2>4. ActiveIn(jobs, j)
    BY <1>7 DEF ActiveIn
  <2>5. Remembers(sermon', jobs')
    <3> HIDE DEF job, j, end, done
    <3>1. jobs' = [jobs EXCEPT ![j] = job]
      BY <1>4, <1>7
    <3> QED
      BY <1>1, <1>3, <2>1, <2>2, <2>3, <2>4, <3>1, MoveRemembers
  <2>6. NextsAreSafe'
    <3>1. \A i \in DOMAIN jobs : i # j => jobs'[i] = jobs[i]
      BY <1>1, <1>7
    <3>2. \A t \in Sermons : NoDraftSaved(sermon, sermon', t)
      BY <2>1 DEF NoDraftSaved
    <3> QED
      BY <1>1, <3>1, <3>2, IdleIsSafe
  <2> QED
    BY <2>5, <2>6
<1>8. CASE /\ jobs[j].state = "running" /\ next # "none"
           /\ jobs' = Append(done, NewJob(s, next, NoReturn))
           /\ SetStage(s, StageOf(next), "pending")
  <2>1. /\ \A t \in Sermons \ {s} : sermon'[t] = sermon[t]
        /\ sermon'[s].status = "pending" /\ sermon'[s].draft = sermon[s].draft
    <3> HIDE DEF s, next
    <3> QED
      BY <1>1, <1>2, <1>8 DEF SetStage, Rows
  <2>2. ActiveIn(jobs, j) /\ sermon[s].status = "running"
    BY <1>1, <1>5, <1>8 DEF ActiveIn, CoherentFor
  <2>3. Remembers(sermon, done)
    <3> HIDE DEF job, j, done
    <3> QED
      BY <1>1, <1>3, <1>4, <2>2, MoveRemembers DEF s
  <2>4. /\ done \in Seq(Jobs) /\ DOMAIN done = DOMAIN jobs
        /\ done[j] = job
        /\ \A i \in DOMAIN jobs : i # j => done[i] = jobs[i]
    <3> HIDE DEF job, done, j
    <3> QED
      BY <1>1, <1>3, <1>4, UpdatedJob DEF s
  <2>5. \A i \in DOMAIN done : done[i].sermon = s => ~ActiveIn(done, i)
    <3>1. \A i \in DOMAIN jobs : jobs[i].sermon = s /\ ActiveIn(jobs, i) => i = j
      BY <1>1, <1>5, <2>2 DEF CoherentFor
    <3> HIDE DEF job, done
    <3> QED
      BY <1>1, <1>3, <2>4, <3>1 DEF ActiveIn
  <2>6. /\ next \in {"transcribe", "prepare_edit", "extract_metadata"}
        /\ next = "prepare_edit" => sermon'[s].draft # "saved"
    BY <1>1, <1>8, <2>1 DEF NextIsSafe
  <2>7. /\ next \in JobTypes /\ NoReturn \in Returns /\ next # "export"
        /\ NoReturn.status # "failed"
    BY <2>6 DEF JobTypes, Returns, NoReturn
  <2>8. RemembersFor(sermon, done, s) /\ NoDraftSaved(sermon, sermon', s)
    BY <1>2, <2>1, <2>3 DEF Remembers, NoDraftSaved
  <2> HIDE DEF job, done, s, next, j
  <2>9. RemembersFor(sermon', jobs', s)
    BY <1>2, <1>8, <2>1, <2>4, <2>5, <2>6, <2>7, <2>8, RemembersEnqueued
  <2>10. /\ DOMAIN jobs' = DOMAIN done \cup {Len(done) + 1}
         /\ jobs'[Len(done) + 1] = NewJob(s, next, NoReturn)
         /\ \A i \in DOMAIN done : jobs'[i] = done[i]
    BY <1>2, <1>8, <2>4, <2>7, NewJobType, AppendedJob
  <2>11. \A t \in Sermons \ {s} : sermon'[t] = sermon[t] /\ SameJobsOf(done, jobs', t)
    BY <1>2, <2>1, <2>7, <2>10, NewJobType DEF SameJobsOf
  <2>12. Remembers(sermon', jobs')
    BY <1>2, <2>3, <2>9, <2>11, RemembersTouched
  <2>13. NextsAreSafe'
    <3>1. \A i \in DOMAIN jobs : i # j => jobs'[i] = jobs[i]
      BY <2>4, <2>10
    <3>2. \A t \in Sermons : NoDraftSaved(sermon, sermon', t)
      BY <2>1 DEF NoDraftSaved
    <3> QED
      BY <1>1, <3>1, <3>2, IdleIsSafe DEF j
  <2> QED
    BY <2>12, <2>13
<1> QED
  BY <1>6, <1>7, <1>8 DEF CompleteJob

LEMMA FailureRemembers ==
  ASSUME RInv, NEW w \in Workers, RecordJobFailure(w)
  PROVE  Remembers(sermon', jobs') /\ NextsAreSafe'
<1> DEFINE j == worker[w].job
           s == jobs[j].sermon
           job(state) == [jobs[j] EXCEPT !.state = state, !.errors = @ + 1]
<1>1. /\ IInv /\ jobs \in Seq(Jobs) /\ j \in DOMAIN jobs /\ BusyWorker(w) /\ GoIdle(w)
      /\ sermon \in [Sermons -> Rows] /\ Remembers(sermon, jobs)
  BY DEF RInv, HInv, IInv, TypeOK, RecordJobFailure, BusyWorker
<1>2. jobs[j] \in Jobs /\ s \in Sermons
  BY ONLY <1>1, JobOfTable
<1>3. \A state \in {"queued", "failed"} :
        /\ job(state).sermon = s /\ job(state).type = jobs[j].type
        /\ job(state).return = jobs[j].return /\ job(state).state = state
  BY <1>2 DEF Jobs
<1>4. \A state : [jobs EXCEPT ![j].state = state, ![j].errors = @ + 1]
                   = [jobs EXCEPT ![j] = job(state)]
  BY <1>1
<1>5. CASE UNCHANGED <<sermon, jobs>>
  BY <1>1, <1>5, IdleIsSafe DEF NoDraftSaved
<1>6. ASSUME NEW state \in {"queued", "failed"}, jobs[j].state = "running",
             jobs' = [jobs EXCEPT ![j] = job(state)],
             IF state = "queued" THEN UNCHANGED sermon ELSE ExposeFailure(s, jobs[j].type)
      PROVE  Remembers(sermon', jobs') /\ NextsAreSafe'
  <2>1. /\ ActiveIn(jobs, j) /\ sermon[s].stage = StageOf(jobs[j].type)
        /\ sermon[s].status = "running"
    BY <1>1, <1>2, <1>6, CoherentSermon DEF ActiveIn, CoherentFor
  <2>2. /\ \A t \in Sermons \ {s} : sermon'[t] = sermon[t]
        /\ sermon'[s].stage = StageOf(jobs[j].type)
        /\ sermon'[s].status = IF state = "queued" THEN "running" ELSE "failed"
        /\ sermon'[s].draft = sermon[s].draft
    <3> HIDE DEF s
    <3> QED
      BY <1>1, <1>2, <1>6, <2>1 DEF ExposeFailure, SetStage, Rows
  <2> DEFINE moved == job(state)
  <2>3. Remembers(sermon', jobs')
    <3>1. /\ moved.sermon = s /\ moved.type = jobs[j].type /\ moved.return = jobs[j].return
          /\ moved.state = state /\ jobs' = [jobs EXCEPT ![j] = moved]
      BY <1>3, <1>6
    <3>2. /\ moved.state # "deleted"
          /\ sermon'[s].stage = "export" => sermon'[s].status # "done"
          /\ sermon'[s].status = "failed" => moved.state = "failed"
      BY <2>2, <3>1
    <3> HIDE DEF moved, job, j
    <3> QED
      BY <1>1, <2>1, <2>2, <3>1, <3>2, MoveRemembers
  <2> HIDE DEF job, j
  <2>4. NextsAreSafe'
    <3>1. \A i \in DOMAIN jobs : i # j => jobs'[i] = jobs[i]
      BY <1>1, <1>6
    <3>2. \A t \in Sermons : NoDraftSaved(sermon, sermon', t)
      BY <2>2 DEF NoDraftSaved
    <3> QED
      BY <1>1, <3>1, <3>2, IdleIsSafe DEF j
  <2> QED
    BY <2>3, <2>4
<1> QED
  BY <1>4, <1>5, <1>6 DEF RecordJobFailure

LEMMA WorkerStepRemembers ==
  ASSUME RInv, NEW w \in Workers, WorkerStep(w)
  PROVE  Remembers(sermon', jobs') /\ NextsAreSafe'
<1>1. CASE PollNoJob(w)
  BY <1>1 DEF PollNoJob, vars, RInv, NextsAreSafe, NextIsSafe, BusyWorker
<1>2. CASE StoreError(w)
  <2>1. BusyWorker(w) /\ GoIdle(w) /\ UNCHANGED <<sermon, jobs>>
    BY <1>2 DEF StoreError, BusyWorker
  <2> QED
    BY <2>1, IdleIsSafe DEF RInv, NoDraftSaved
<1> QED
  BY <1>1, <1>2, ClaimRemembers, HandlerRemembers, CompleteRemembers, FailureRemembers
     DEF WorkerStep, Claim

-----------------------------------------------------------------------------
(* The users *)

\* Only a sermon that nothing is being done to has its draft saved.
DraftSavedAtRest ==
  \A t \in Sermons : \/ NoDraftSaved(sermon, sermon', t)
                     \/ \A j \in DOMAIN jobs : jobs[j].sermon = t => ~ActiveIn(jobs, j)

\* A row that keeps its stage, status and draft, and the jobs table as it is.
LEMMA RowRemembers ==
  ASSUME RInv, UNCHANGED jobs,
         \A t \in Sermons : /\ sermon'[t].stage = sermon[t].stage
                            /\ sermon'[t].status = sermon[t].status
                            /\ sermon'[t].draft = sermon[t].draft
  PROVE  Remembers(sermon', jobs') /\ DraftSavedAtRest
<1>1. \A t \in Sermons : SameJobsOf(jobs, jobs', t) /\ NoDraftSaved(sermon, sermon', t)
  BY DEF SameJobsOf, NoDraftSaved
<1>2. \A t \in Sermons : RemembersFor(sermon, jobs, t)
  BY DEF RInv, Remembers
<1>3. ASSUME NEW t \in Sermons
      PROVE  RemembersFor(sermon', jobs', t)
  BY <1>1, <1>2, RemembersSame
<1> QED
  BY <1>1, <1>3 DEF Remembers, DraftSavedAtRest

LEMMA UploadRemembers ==
  ASSUME RInv, NEW s \in Sermons, CreateSermon(s) \/ StartUpload(s)
  PROVE  Remembers(sermon', jobs') /\ DraftSavedAtRest
<1>1. /\ IInv /\ Remembers(sermon, jobs) /\ UNCHANGED jobs
      /\ sermon \in [Sermons -> Rows] /\ jobs \in Seq(Jobs)
  BY DEF RInv, HInv, IInv, TypeOK, CreateSermon, StartUpload
<1>2. PICK status \in {"pending", "running"} : SetStage(s, "upload", status)
  BY DEF CreateSermon, StartUpload
<1>3. /\ \A t \in Sermons \ {s} : sermon'[t] = sermon[t]
      /\ sermon'[s].status = status /\ sermon'[s].draft = sermon[s].draft
  BY <1>1, <1>2 DEF SetStage, Rows
<1>4. \A j \in DOMAIN jobs : jobs[j].sermon = s => ~ActiveIn(jobs, j)
  <2>1. CASE sermon[s].stage = "upload"
    BY <1>1, <2>1, NoActiveJob
  <2>2. CASE sermon[s].stage = "absent"
    <3>1. sermon[s].status = "none"
      BY <1>1, <2>2, CoherentSermon DEF CoherentFor, NoRow
    <3> QED
      BY <1>1, <3>1, NoActiveJob
  <2> QED
    BY <2>1, <2>2 DEF CreateSermon, StartUpload
<1>5. RemembersFor(sermon', jobs', s)
  BY <1>1, <1>3, <1>4, RemembersWaiting DEF Remembers
<1>6. \A t \in Sermons \ {s} : SameJobsOf(jobs, jobs', t)
  BY <1>1 DEF SameJobsOf
<1> QED
  BY <1>1, <1>3, <1>5, <1>6, RemembersTouched DEF DraftSavedAtRest, NoDraftSaved

\* A request that enqueues a job for a sermon without an active one.
LEMMA RequestRemembers ==
  ASSUME RInv, NEW s \in Sermons, NEW type \in JobTypes, NEW return \in Returns,
         jobs' = Append(jobs, NewJob(s, type, return)),
         \A j \in DOMAIN jobs : jobs[j].sermon = s => ~ActiveIn(jobs, j),
         \A t \in Sermons \ {s} : sermon'[t] = sermon[t],
         sermon'[s].status = "pending", sermon'[s].draft = sermon[s].draft,
         return # NoReturn => /\ return.stage \in PipelineStages
                              /\ StageOf(type) \notin PipelineStages,
         type = "export" => return # NoReturn,
         type # "prepare_edit",
         return.status = "failed" => LatestFailed(sermon, jobs, s, return.stage)
  PROVE  Remembers(sermon', jobs') /\ DraftSavedAtRest
<1>1. jobs \in Seq(Jobs) /\ Remembers(sermon, jobs)
  BY DEF RInv, HInv, IInv, TypeOK
<1>2. RemembersFor(sermon, jobs, s) /\ NoDraftSaved(sermon, sermon', s)
  BY <1>1 DEF Remembers, NoDraftSaved
<1>3. RemembersFor(sermon', jobs', s)
  BY <1>1, <1>2, RemembersEnqueued
<1>4. NewJob(s, type, return) \in Jobs /\ NewJob(s, type, return).sermon = s
  BY NewJobType
<1>5. /\ DOMAIN jobs' = DOMAIN jobs \cup {Len(jobs) + 1}
      /\ jobs'[Len(jobs) + 1] = NewJob(s, type, return)
      /\ \A i \in DOMAIN jobs : jobs'[i] = jobs[i]
  BY <1>1, <1>4, AppendedJob
<1>6. \A t \in Sermons \ {s} : SameJobsOf(jobs, jobs', t)
  BY <1>4, <1>5 DEF SameJobsOf
<1>7. Remembers(sermon', jobs')
  BY <1>1, <1>3, <1>6, RemembersTouched
<1> QED
  BY <1>7 DEF DraftSavedAtRest, NoDraftSaved

\* The latest job of the sermon's stage is the one that the rerun looks at.
LEMMA LatestIsNewest ==
  ASSUME jobs \in Seq(Jobs), NEW s \in Sermons, NEW j \in DOMAIN jobs,
         OfStage(jobs, j, s, sermon[s].stage), Latest(jobs, j)
  PROVE  j \in StageJobs(s) /\ Newest(StageJobs(s)) = j
<1>1. StageJobs(s) = {k \in DOMAIN jobs : OfStage(jobs, k, s, sermon[s].stage)}
  BY DEF StageJobs, JobsOf, OfStage
<1>2. j \in StageJobs(s) /\ \A k \in StageJobs(s) : k <= j
  BY <1>1 DEF Latest, OfStage
<1>3. StageJobs(s) \in SUBSET DOMAIN jobs
  BY <1>1
<1>4. Newest(StageJobs(s)) \in StageJobs(s) /\ \A k \in StageJobs(s) : k <= Newest(StageJobs(s))
  BY <1>2, <1>3, NewestIsNewest
<1>5. j \in Nat /\ Newest(StageJobs(s)) \in Nat
  BY <1>3, <1>4
<1> QED
  BY <1>2, <1>4, <1>5

\* A rerun returns to a stage of the pipeline, and to a failure only while that
\* can be retried.
LEMMA ReturnRemembered ==
  ASSUME RInv, NEW s \in Sermons, sermon[s].stage # "upload",
         sermon[s].status \in {"done", "failed"}
  PROVE  /\ ReturnOf(s).stage \in PipelineStages
         /\ ReturnOf(s).status = "failed"
              => LatestFailed(sermon, jobs, s, ReturnOf(s).stage)
<1> DEFINE prior   == jobs[Newest(StageJobs(s))].return
           follows == sermon[s].status = "failed" /\ StageJobs(s) # {} /\ prior # NoReturn
           parts   == {"metadata", "transcription", "title", "topics", "scriptures", "edit"}
<1>1. /\ IInv /\ jobs \in Seq(Jobs) /\ RemembersFor(sermon, jobs, s)
      /\ sermon[s].stage \in Stages
  <2>1. IInv /\ jobs \in Seq(Jobs) /\ RemembersFor(sermon, jobs, s)
    BY DEF RInv, HInv, IInv, TypeOK, Remembers
  <2>2. CoherentFor(sermon, jobs, s) /\ sermon[s].stage \in Stages \cup NoRow
    BY <2>1, CoherentSermon, RowType
  <2> QED
    BY <2>1, <2>2 DEF CoherentFor
<1>2. ReturnOf(s) = IF follows THEN prior
                    ELSE IF sermon[s].stage \in parts
                    THEN [stage |-> "metadata", status |-> "done"]
                    ELSE Here(s)
  BY DEF ReturnOf
<1>3. ASSUME sermon[s].status = "failed"
      PROVE  \E j \in DOMAIN jobs :
               /\ OfStage(jobs, j, s, sermon[s].stage) /\ Latest(jobs, j)
               /\ jobs[j].state = "failed" /\ KeepsDraft(sermon, jobs, j)
               /\ ReturnsRightly(sermon, jobs, j)
               /\ StageJobs(s) # {} /\ prior = jobs[j].return
  <2>1. PICK j \in DOMAIN jobs :
          /\ OfStage(jobs, j, s, sermon[s].stage) /\ Latest(jobs, j)
          /\ jobs[j].state = "failed" /\ KeepsDraft(sermon, jobs, j)
          /\ ReturnsRightly(sermon, jobs, j)
    BY <1>1, <1>3 DEF RemembersFor
  <2>2. j \in StageJobs(s) /\ Newest(StageJobs(s)) = j
    BY <1>1, <2>1, LatestIsNewest
  <2> QED
    BY <2>1, <2>2
<1>4. CASE follows
  <2>1. PICK j \in DOMAIN jobs :
          /\ OfStage(jobs, j, s, sermon[s].stage)
          /\ ReturnsRightly(sermon, jobs, j) /\ prior = jobs[j].return
    BY <1>3, <1>4
  <2>2. jobs[j].sermon = s /\ jobs[j].return # NoReturn /\ ReturnOf(s) = jobs[j].return
    BY <1>2, <1>4, <2>1 DEF OfStage
  <2>3. jobs[j].return.stage \in PipelineStages
    BY <1>1, <2>2 DEF RemembersFor
  <2> QED
    BY <2>1, <2>2, <2>3 DEF ReturnsRightly
<1>5. CASE ~follows /\ sermon[s].stage \in parts
  <2>1. ReturnOf(s) = [stage |-> "metadata", status |-> "done"]
    BY ONLY <1>2, <1>5
  <2> QED
    BY <2>1 DEF PipelineStages
<1>6. CASE ~follows /\ sermon[s].stage \notin parts
  <2>1. ReturnOf(s).stage = sermon[s].stage /\ ReturnOf(s).status = sermon[s].status
    BY <1>2, <1>6 DEF Here
  <2>2. sermon[s].stage # "export"
    <3> SUFFICES ASSUME sermon[s].stage = "export"
                 PROVE  FALSE
      OBVIOUS
    <3>1. sermon[s].status = "failed"
      BY <1>1 DEF RemembersFor
    <3>2. PICK j \in DOMAIN jobs :
            /\ OfStage(jobs, j, s, "export") /\ StageJobs(s) # {} /\ prior = jobs[j].return
      BY <1>3, <3>1
    <3>3. jobs[j].sermon = s /\ jobs[j].type = "export"
      BY <1>1, <3>2, JobOfTable DEF OfStage, StageOf, JobTypes
    <3>4. jobs[j].return # NoReturn
      BY <1>1, <3>3 DEF RemembersFor
    <3> QED
      BY <1>6, <3>1, <3>2, <3>4
  <2>3. sermon[s].stage \in PipelineStages
    BY <1>1, <1>6, <2>2 DEF Stages, PipelineStages
  <2>4. sermon[s].status = "failed" => LatestFailed(sermon, jobs, s, sermon[s].stage)
    BY <1>3 DEF LatestFailed
  <2> QED
    BY <2>1, <2>3, <2>4
<1> QED
  BY <1>4, <1>5, <1>6

\* The five requests that enqueue a job.
LEMMA EnqueueRemembers ==
  ASSUME RInv, NEW s \in Sermons,
         \/ CompleteUpload(s)
         \/ EnqueueNormalizationRerun(s)
         \/ \E part \in RerunParts : EnqueueProcessingRerun(s, part)
         \/ ApplyDraft(s)
         \/ EnqueueExport(s)
  PROVE  Remembers(sermon', jobs') /\ DraftSavedAtRest
<1>1. IInv /\ sermon \in [Sermons -> Rows] /\ jobs \in Seq(Jobs)
  BY DEF RInv, HInv, IInv, TypeOK
<1>2. \A j \in DOMAIN jobs : jobs[j].sermon = s => ~ActiveIn(jobs, j)
  <2>1. CASE CompleteUpload(s) \/ EnqueueNormalizationRerun(s)
    BY <1>1, <2>1, NoActiveJob DEF CompleteUpload, EnqueueNormalizationRerun
  <2>2. CASE ~HasActiveJob(s)
    BY <1>1, <2>2, GuardedByActiveJob
  <2> QED
    BY <2>1, <2>2 DEF EnqueueProcessingRerun, ApplyDraft, EnqueueExport, Exportable
<1>3. /\ \A t \in Sermons \ {s} : sermon'[t] = sermon[t]
      /\ sermon'[s].status = "pending" /\ sermon'[s].draft = sermon[s].draft
  <2>1. \/ \E stage : SetStage(s, stage, "pending")
        \/ sermon' = [sermon EXCEPT ![s].status = "pending", ![s].reviewed = FALSE]
    BY DEF CompleteUpload, EnqueueNormalizationRerun, EnqueueProcessingRerun, ApplyDraft,
           EnqueueExport
  <2> QED
    BY <1>1, <2>1 DEF SetStage, Rows
<1>4. CASE CompleteUpload(s) \/ EnqueueNormalizationRerun(s) \/ ApplyDraft(s)
  <2>1. PICK type \in {"normalize", "render_edit"} :
          jobs' = Append(jobs, NewJob(s, type, NoReturn))
    BY <1>4 DEF CompleteUpload, EnqueueNormalizationRerun, ApplyDraft
  <2>2. type \in JobTypes /\ NoReturn \in Returns /\ NoReturn.status # "failed"
    BY DEF JobTypes, Returns, NoReturn
  <2> QED
    BY <1>2, <1>3, <2>1, <2>2, RequestRemembers
<1>5. ASSUME NEW part \in RerunParts, EnqueueProcessingRerun(s, part)
      PROVE  Remembers(sermon', jobs') /\ DraftSavedAtRest
  <2>1. /\ sermon[s].stage # "upload" /\ sermon[s].status \in {"done", "failed"}
        /\ jobs' = Append(jobs, NewJob(s, RerunType(part), ReturnOf(s)))
    BY <1>5 DEF EnqueueProcessingRerun
  <2>2. /\ RerunType(part) \in {"extract_title", "extract_topics", "transcribe",
                                "extract_scriptures"}
        /\ RerunType(part) \in JobTypes
    BY DEF RerunType, JobTypes
  <2>3. StageOf(RerunType(part)) \notin PipelineStages
    BY <2>2 DEF StageOf, PipelineStages
  <2>4. ReturnOf(s) \in Returns
    BY <1>1, <2>1, ReturnOfType
  <2>5. /\ ReturnOf(s).stage \in PipelineStages
        /\ ReturnOf(s).status = "failed"
             => LatestFailed(sermon, jobs, s, ReturnOf(s).stage)
    BY <2>1, ReturnRemembered
  <2> QED
    BY <1>2, <1>3, <2>1, <2>2, <2>3, <2>4, <2>5, RequestRemembers
<1>6. CASE EnqueueExport(s)
  <2>1. /\ sermon[s].stage \in {"editing", "metadata"} /\ sermon[s].status \in {"done", "failed"}
        /\ sermon[s].status = "failed" => sermon[s].stage = "metadata"
        /\ jobs' = Append(jobs, NewJob(s, "export", Here(s)))
    BY <1>6 DEF EnqueueExport, Exportable, AtRest
  <2>2. /\ Here(s).stage = sermon[s].stage /\ Here(s).status = sermon[s].status
        /\ Here(s) \in Returns /\ Here(s) # NoReturn /\ "export" \in JobTypes
    BY <2>1 DEF Here, Returns, NoReturn, Stages, JobTypes
  <2>3. Here(s).stage \in PipelineStages /\ StageOf("export") \notin PipelineStages
    BY <2>1, <2>2 DEF PipelineStages, StageOf
  <2>4. Here(s).status = "failed" => LatestFailed(sermon, jobs, s, Here(s).stage)
    BY <2>2 DEF RInv, Remembers, RemembersFor, LatestFailed
  <2> QED
    BY <1>2, <1>3, <2>1, <2>2, <2>3, <2>4, RequestRemembers
<1> QED
  BY <1>4, <1>5, <1>6

LEMMA DeleteRemembers ==
  ASSUME RInv, NEW s \in Sermons, DeleteSermon(s)
  PROVE  Remembers(sermon', jobs') /\ DraftSavedAtRest
<1>1. sermon \in [Sermons -> Rows]
  BY DEF RInv, HInv, IInv, TypeOK
<1> DEFINE gone == {s}
<1>2. /\ gone \in SUBSET Sermons
      /\ sermon' = [t \in Sermons |-> IF t \in gone
                                      THEN [AbsentRow EXCEPT !.stage = "deleted"]
                                      ELSE sermon[t]]
      /\ jobs' = [j \in DOMAIN jobs |-> IF jobs[j].sermon \in gone
                                        THEN [jobs[j] EXCEPT !.state = "deleted"]
                                        ELSE jobs[j]]
  BY <1>1 DEF DeleteSermon, RemoveRow
<1>3. \A t \in Sermons : NoDraftSaved(sermon, sermon', t)
  BY <1>2 DEF AbsentRow, NoDraftSaved
<1> HIDE DEF gone
<1> QED
  BY <1>2, <1>3, RemovedRemembered DEF DraftSavedAtRest

LEMMA SaveRemembers ==
  ASSUME RInv, NEW s \in Sermons, SaveDraft(s)
  PROVE  Remembers(sermon', jobs') /\ DraftSavedAtRest
<1>1. /\ IInv /\ sermon \in [Sermons -> Rows] /\ jobs \in Seq(Jobs)
      /\ Remembers(sermon, jobs) /\ UNCHANGED jobs
  BY DEF RInv, HInv, IInv, TypeOK, SaveDraft
<1>2. \A j \in DOMAIN jobs : jobs[j].sermon = s => ~ActiveIn(jobs, j)
  BY <1>1, GuardedByActiveJob DEF SaveDraft
<1>3. /\ \A t \in Sermons \ {s} : sermon'[t] = sermon[t]
      /\ sermon'[s].stage = sermon[s].stage /\ sermon'[s].status = sermon[s].status
  BY <1>1 DEF SaveDraft, Rows
<1>4. sermon[s].status = "failed" => sermon[s].stage = "metadata"
  BY DEF SaveDraft, AtRest
<1>5. RemembersFor(sermon', jobs', s)
  BY <1>1, <1>2, <1>3, <1>4, RemembersSaved DEF Remembers
<1>6. \A t \in Sermons \ {s} : SameJobsOf(jobs, jobs', t)
  BY <1>1 DEF SameJobsOf
<1>7. Remembers(sermon', jobs')
  BY <1>1, <1>3, <1>5, <1>6, RemembersTouched
<1> QED
  BY <1>2, <1>3, <1>7 DEF DraftSavedAtRest, NoDraftSaved

\* The failed job that a retry resets is the latest of its stage.
LEMMA ResetRemembers ==
  ASSUME RInv, NEW s \in Sermons, ResetFailedJob(s)
  PROVE  Remembers(sermon', jobs') /\ DraftSavedAtRest
<1>1. /\ IInv /\ sermon \in [Sermons -> Rows] /\ jobs \in Seq(Jobs)
      /\ Remembers(sermon, jobs) /\ RemembersFor(sermon, jobs, s)
      /\ sermon[s].status = "failed"
  BY DEF RInv, HInv, IInv, TypeOK, Remembers, ResetFailedJob, Retryable
<1>2. PICK j \in FailedJobs(s) : /\ \A k \in FailedJobs(s) : k <= j
                                 /\ j \in DOMAIN jobs
                                 /\ jobs' = [jobs EXCEPT ![j] = Restarted(jobs[j])]
  BY <1>1, ResetJobOf
<1>3. PICK i \in DOMAIN jobs : /\ OfStage(jobs, i, s, sermon[s].stage) /\ Latest(jobs, i)
                               /\ jobs[i].state = "failed" /\ KeepsDraft(sermon, jobs, i)
                               /\ ReturnsRightly(sermon, jobs, i)
  BY <1>1 DEF RemembersFor
<1>4. j = i
  <2>1. OfStage(jobs, j, s, sermon[s].stage) /\ jobs[j].type # "apply_edits"
    BY <1>2 DEF FailedJobs, StageJobs, JobsOf, OfStage
  <2>2. sermon[s].stage # "edit"
    <3>1. jobs[j].type \in JobTypes \ {"apply_edits"} /\ StageOf(jobs[j].type) = sermon[s].stage
      BY <1>1, <1>2, <2>1, JobOfTable DEF OfStage
    <3>2. \A type \in JobTypes \ {"apply_edits"} : StageOf(type) # "edit"
      BY DEF StageOf, JobTypes
    <3> QED
      BY <3>1, <3>2
  <2>3. jobs[i].type # "apply_edits"
    BY <1>3, <2>2 DEF OfStage, StageOf
  <2>4. i \in FailedJobs(s)
    BY <1>3, <2>3 DEF FailedJobs, StageJobs, JobsOf, OfStage
  <2>5. i <= j /\ j <= i
    BY <1>2, <1>3, <2>1, <2>4 DEF Latest, OfStage
  <2> QED
    BY <1>1, <1>2, <2>5
<1>5. /\ \A t \in Sermons \ {s} : sermon'[t] = sermon[t]
      /\ sermon'[s].status = "pending" /\ sermon'[s].draft = sermon[s].draft
  BY <1>1 DEF ResetFailedJob, SetStage, Rows
<1>6. \A k \in DOMAIN jobs : jobs[k].sermon = s => ~ActiveIn(jobs, k)
  BY <1>1, NoActiveJob
<1>7. RemembersFor(sermon', jobs', s)
  <2>1. NoDraftSaved(sermon, sermon', s)
    BY <1>5 DEF NoDraftSaved
  <2>2. RemembersFor(sermon', [jobs EXCEPT ![j] = Restarted(jobs[j])], s)
    BY <1>1, <1>3, <1>4, <1>5, <1>6, <2>1, RemembersRestarted
  <2> QED
    BY <1>2, <2>2
<1>8. \A t \in Sermons \ {s} : SameJobsOf(jobs, jobs', t)
  <2>1. jobs[j].sermon = s /\ Restarted(jobs[j]).sermon = s
    BY <1>1, <1>3, <1>4, JobOfTable DEF OfStage, Restarted, Jobs
  <2> QED
    BY <1>1, <1>2, <2>1 DEF SameJobsOf
<1>9. Remembers(sermon', jobs')
  BY <1>1, <1>5, <1>7, <1>8, RemembersTouched
<1> QED
  BY <1>5, <1>9 DEF DraftSavedAtRest, NoDraftSaved

LEMMA UserStepRemembers ==
  ASSUME RInv, NEW s \in Sermons, UserStep(s)
  PROVE  Remembers(sermon', jobs') /\ NextsAreSafe'
<1>1. IInv /\ sermon \in [Sermons -> Rows] /\ jobs \in Seq(Jobs)
  BY DEF RInv, HInv, IInv, TypeOK
<1>2. Remembers(sermon', jobs') /\ DraftSavedAtRest
  <2>1. CASE ExportDecide(s) \/ ExportRefused(s)
    <3>1. UNCHANGED <<sermon, jobs>>
      BY <2>1 DEF ExportDecide, ExportRefused
    <3> QED
      BY <3>1, RowRemembers
  <2>2. CASE MarkNormalizationReviewed(s)
    <3>1. UNCHANGED jobs /\ sermon' = [sermon EXCEPT ![s].reviewed = TRUE]
      BY <2>2 DEF MarkNormalizationReviewed
    <3>2. \A t \in Sermons : /\ sermon'[t].stage = sermon[t].stage
                             /\ sermon'[t].status = sermon[t].status
                             /\ sermon'[t].draft = sermon[t].draft
      BY <1>1, <3>1 DEF Rows
    <3> QED
      BY <3>1, <3>2, RowRemembers
  <2> QED
    BY <2>1, <2>2, UploadRemembers, EnqueueRemembers, DeleteRemembers, SaveRemembers,
       ResetRemembers DEF UserStep, RetryFailedJob, ExportCommit
<1>3. NextsAreSafe'
  <2>1. /\ UNCHANGED worker
        /\ \A j \in DOMAIN jobs :
             \/ jobs'[j] = jobs[j]
             \/ jobs'[j] = Removed(jobs[j])
             \/ jobs[j].state = "failed" /\ jobs'[j] = Restarted(jobs[j])
    BY <1>1, UserJobs, RequestedJobs
  <2> SUFFICES ASSUME NEW v \in Workers, BusyWorker(v)
               PROVE  NextIsSafe(v)'
    BY <2>1 DEF NextsAreSafe, BusyWorker
  <2>2. worker[v].job \in DOMAIN jobs
    BY DEF RInv, HInv, IInv, TypeOK, BusyWorker
  <2>3. jobs[worker[v].job] \in Jobs /\ jobs[worker[v].job].sermon \in Sermons
    BY <1>1, <2>2, JobOfTable
  <2>4. /\ jobs'[worker[v].job].sermon = jobs[worker[v].job].sermon
        /\ jobs'[worker[v].job].state = "running" => jobs[worker[v].job].state = "running"
    BY <2>1, <2>2, <2>3 DEF Removed, Restarted, Jobs
  <2>5. jobs[worker[v].job].state = "running"
          => NoDraftSaved(sermon, sermon', jobs[worker[v].job].sermon)
    BY <1>2, <2>2, <2>3 DEF DraftSavedAtRest, ActiveIn
  <2> QED
    BY <2>1, <2>4, <2>5, NextStaysSafe
<1> QED
  BY <1>2, <1>3

-----------------------------------------------------------------------------
(* The theorems *)

\* Every step keeps what the past tells the retries and reruns to come.
THEOREM StepKeepsRInv == RInv /\ [Next]_vars => RInv'
<1> SUFFICES ASSUME RInv, [Next]_vars
             PROVE  RInv'
  OBVIOUS
<1>1. HInv'
  BY StepKeepsHInv DEF RInv
<1>2. Remembers(sermon', jobs') /\ NextsAreSafe'
  <2>1. CASE UNCHANGED vars
    BY <2>1 DEF vars, RInv, NextsAreSafe, NextIsSafe, BusyWorker
  <2> QED
    BY <1>1, <2>1, ProcessStepRemembers, WorkerStepRemembers, UserStepRemembers DEF Next
<1> QED
  BY <1>1, <1>2 DEF RInv

\* The tables remember what retries and reruns rely on in every reachable state.
THEOREM HistoryInvariant == Spec => []RInv
BY InitRInv, StepKeepsRInv, PTL DEF Spec

\* A retry finds the job that failed the sermon: it is the newest of its stage.
THEOREM FailuresAreFound == Spec => []RetryFindsTheFailure
<1>1. RInv => RetryFindsTheFailure
  <2> SUFFICES ASSUME RInv, NEW s \in Sermons, sermon[s].status = "failed"
               PROVE  /\ StageJobs(s) # {}
                      /\ jobs[Newest(StageJobs(s))].state = "failed"
    BY DEF RetryFindsTheFailure
  <2>1. jobs \in Seq(Jobs) /\ RemembersFor(sermon, jobs, s)
    BY DEF RInv, HInv, IInv, TypeOK, Remembers
  <2>2. PICK j \in DOMAIN jobs : /\ OfStage(jobs, j, s, sermon[s].stage) /\ Latest(jobs, j)
                                 /\ jobs[j].state = "failed"
    BY <2>1 DEF RemembersFor
  <2> QED
    BY <2>1, <2>2, LatestIsNewest
<1> QED
  BY <1>1, HistoryInvariant, PTL

\* No chain of reruns, exports and failures makes a job return the sermon
\* elsewhere than to a stage where it can rest.
THEOREM ReturnsAreToThePipeline == Spec => []ReturnIsToThePipeline
<1>1. RInv => ReturnIsToThePipeline
  BY JobOfTable DEF RInv, HInv, IInv, TypeOK, Remembers, RemembersFor, ReturnIsToThePipeline
<1> QED
  BY <1>1, HistoryInvariant, PTL

\* Nothing prepares an edit over a draft that the user has saved.
THEOREM SavedDraftsAreKept == Spec => []SavedDraftIsKept
<1>1. RInv => SavedDraftIsKept
  BY JobOfTable DEF RInv, HInv, IInv, TypeOK, Remembers, RemembersFor, KeepsDraft,
                    SavedDraftIsKept, Active, ActiveIn
<1> QED
  BY <1>1, HistoryInvariant, PTL

-----------------------------------------------------------------------------
(***************************************************************************)
(* Pipeline implements Workflow, for any sermons, workers, attempts,       *)
(* requests, crashes and store errors.                                     *)
(*                                                                         *)
(* Coherence of the tables makes the mapping work: the piece of work that  *)
(* is read off the jobs table is there exactly while the phase read off    *)
(* the sermon's row is busy.  That a settled sermon is not mistaken for an *)
(* upload needs that jobs return it to the pipeline only, which is why the *)
(* proof takes RInv.  What the workflow                                    *)
(* promises about fairness is left to model checking.                      *)
(***************************************************************************)

-----------------------------------------------------------------------------
(* Reading the workflow off the tables *)

PhaseIn(row) ==
  CASE row.stage = "absent"  -> "absent"
    [] row.stage = "deleted" -> "gone"
    [] row.stage = "upload"  -> "uploading"
    [] OTHER -> IF row.status \in {"pending", "running"} THEN "busy" ELSE row.status

WorkIn(jb, s) ==
  IF \E j \in DOMAIN jb : jb[j].sermon = s /\ jb[j].state = "running" THEN "begun"
  ELSE IF \E j \in DOMAIN jb : jb[j].sermon = s /\ ActiveIn(jb, j) THEN "waiting"
  ELSE "none"

\* What Workflow sees of a sermon depends on its row and its current job only.
LEMMA ReadOff ==
  /\ \A s \in Sermons : PhaseOf(s) = PhaseIn(sermon[s]) /\ WorkOf(s) = WorkIn(jobs, s)
  /\ \A s \in Sermons : PhaseOf(s)' = PhaseIn(sermon'[s]) /\ WorkOf(s)' = WorkIn(jobs', s)
<1>1. \A s \in Sermons : PhaseOf(s) = PhaseIn(sermon[s]) /\ PhaseOf(s)' = PhaseIn(sermon'[s])
  BY DEF PhaseOf, PhaseIn
<1>2. \A s \in Sermons : WorkOf(s) = WorkIn(jobs, s) /\ WorkOf(s)' = WorkIn(jobs', s)
  BY DEF WorkOf, WorkIn, HasActiveJob, JobsOf, Active, ActiveIn
<1> QED
  BY <1>1, <1>2

\* An active job is the work of a busy sermon.
LEMMA WorkOfActive ==
  ASSUME NEW sm, NEW jb \in Seq(Jobs), NEW s \in Sermons, CoherentFor(sm, jb, s),
         NEW j \in DOMAIN jb, jb[j].sermon = s, ActiveIn(jb, j)
  PROVE  /\ PhaseIn(sm[s]) = "busy"
         /\ WorkIn(jb, s) = IF jb[j].state = "running" THEN "begun" ELSE "waiting"
<1>1. /\ sm[s].stage = StageOf(jb[j].type) /\ sm[s].status \in {"pending", "running"}
      /\ jb[j].type \in JobTypes
  BY JobOfTable DEF CoherentFor
<1>2. sm[s].stage \notin NoRow /\ sm[s].stage # "upload"
  BY <1>1, StageOfType
<1>3. PhaseIn(sm[s]) = "busy"
  BY <1>1, <1>2 DEF PhaseIn, NoRow
<1>4. \A i \in DOMAIN jb : jb[i].sermon = s /\ ActiveIn(jb, i) => i = j
  BY DEF CoherentFor
<1> QED
  BY <1>3, <1>4 DEF WorkIn, ActiveIn

\* Without one the sermon is not busy, and has no work.
LEMMA NoWorkWithout ==
  ASSUME NEW sm, NEW jb \in Seq(Jobs), NEW s \in Sermons, CoherentFor(sm, jb, s),
         sm[s] \in Rows,
         \A j \in DOMAIN jb : jb[j].sermon = s => ~ActiveIn(jb, j)
  PROVE  /\ WorkIn(jb, s) = "none"
         /\ PhaseIn(sm[s]) \in Abstract!Phases \ {"busy"}
<1>1. WorkIn(jb, s) = "none"
  BY DEF WorkIn, ActiveIn
<1>2. /\ sm[s].status \in {"pending", "running"} => sm[s].stage = "upload"
      /\ sm[s].stage \in NoRow <=> sm[s].status = "none"
  BY DEF CoherentFor
<1>3. PhaseIn(sm[s]) \in Abstract!Phases \ {"busy"}
  BY <1>2 DEF PhaseIn, Rows, Stages, NoRow, Statuses, Abstract!Phases
<1> QED
  BY <1>1, <1>3

\* A sermon is busy exactly while it has work.
LEMMA BusyIffWork ==
  ASSUME NEW sm, NEW jb \in Seq(Jobs), NEW s \in Sermons, CoherentFor(sm, jb, s),
         sm[s] \in Rows
  PROVE  /\ PhaseIn(sm[s]) \in Abstract!Phases /\ WorkIn(jb, s) \in Abstract!Works
         /\ PhaseIn(sm[s]) = "busy" <=> WorkIn(jb, s) # "none"
<1>1. CASE \E j \in DOMAIN jb : jb[j].sermon = s /\ ActiveIn(jb, j)
  BY <1>1, WorkOfActive DEF Abstract!Phases, Abstract!Works
<1>2. CASE \A j \in DOMAIN jb : jb[j].sermon = s => ~ActiveIn(jb, j)
  BY <1>2, NoWorkWithout DEF Abstract!Phases, Abstract!Works
<1> QED
  BY <1>1, <1>2

\* A sermon that keeps its jobs, its stage and its status looks the same.
LEMMA LooksTheSame ==
  ASSUME NEW sm, NEW jb, NEW sm2, NEW jb2, NEW s, SameJobsOf(jb, jb2, s),
         sm2[s].stage = sm[s].stage, sm2[s].status = sm[s].status
  PROVE  PhaseIn(sm2[s]) = PhaseIn(sm[s]) /\ WorkIn(jb2, s) = WorkIn(jb, s)
<1>1. PhaseIn(sm2[s]) = PhaseIn(sm[s])
  BY DEF PhaseIn
<1>2. WorkIn(jb2, s) = WorkIn(jb, s)
  BY DEF WorkIn, SameJobsOf, ActiveIn
<1> QED
  BY <1>1, <1>2

-----------------------------------------------------------------------------
(* Initial states *)

\* Initial states map to initial states.
LEMMA InitImplements == Init => Abstract!Init
<1> SUFFICES ASSUME Init
             PROVE  Abstract!Init
  OBVIOUS
<1>1. IInv /\ jobs \in Seq(Jobs) /\ sermon \in [Sermons -> Rows]
  BY InitIInv DEF IInv, TypeOK
<1>2. \A s \in Sermons :
        /\ PhaseOf(s) \in Abstract!Phases /\ WorkOf(s) \in Abstract!Works
        /\ PhaseOf(s) = "busy" <=> WorkOf(s) # "none"
  <2> SUFFICES ASSUME NEW s \in Sermons
               PROVE  /\ PhaseIn(sermon[s]) \in Abstract!Phases
                      /\ WorkIn(jobs, s) \in Abstract!Works
                      /\ PhaseIn(sermon[s]) = "busy" <=> WorkIn(jobs, s) # "none"
    BY ReadOff
  <2>1. CoherentFor(sermon, jobs, s) /\ sermon[s] \in Rows
    BY <1>1, CoherentSermon
  <2> QED
    BY <1>1, <2>1, BusyIffWork
<1> QED
  BY <1>2 DEF Abstract!Init

-----------------------------------------------------------------------------
(* A step of one sermon *)

\* What may become of the phase and the work of s while the others stay.
Moves(s) ==
  LET phase  == PhaseIn(sermon[s])
      phase2 == PhaseIn(sermon'[s])
      work   == WorkIn(jobs, s)
      work2  == WorkIn(jobs', s)
  IN  \/ phase2 = phase /\ work2 = work
      \/ phase = "absent" /\ phase2 = "uploading" /\ work2 = work
      \/ phase \in {"uploading", "done", "failed"} /\ phase2 = "busy" /\ work2 = "waiting"
      \/ work = "waiting" /\ work2 = "begun" /\ phase2 = phase
      \/ work = "begun" /\ work2 = "waiting" /\ phase2 = phase
      \/ work = "begun" /\ work2 = "none" /\ phase2 \in {"done", "failed"}
      \/ phase \notin {"absent", "gone"} /\ phase2 = "gone" /\ work2 = "none"

\* A step that moves one sermon and leaves the others alone is one of Workflow.
LEMMA StepOfOne ==
  ASSUME NEW s \in Sermons, Moves(s),
         \A t \in Sermons \ {s} : /\ PhaseIn(sermon'[t]) = PhaseIn(sermon[t])
                                  /\ WorkIn(jobs', t) = WorkIn(jobs, t)
  PROVE  [Abstract!Next]_(Abstract!vars)
<1> DEFINE phase  == [t \in Sermons |-> PhaseOf(t)]
           phase2 == [t \in Sermons |-> PhaseOf(t)']
           work   == [t \in Sermons |-> WorkOf(t)]
           work2  == [t \in Sermons |-> WorkOf(t)']
<1>1. /\ phase[s] = PhaseIn(sermon[s]) /\ work[s] = WorkIn(jobs, s)
      /\ phase2 = [phase EXCEPT ![s] = PhaseIn(sermon'[s])]
      /\ work2  = [work  EXCEPT ![s] = WorkIn(jobs', s)]
  BY ReadOff
<1>2. CASE PhaseIn(sermon'[s]) = PhaseIn(sermon[s]) /\ WorkIn(jobs', s) = WorkIn(jobs, s)
  <2>1. phase2 = phase /\ work2 = work
    BY <1>1, <1>2
  <2> QED
    BY <2>1 DEF Abstract!vars
<1>3. CASE PhaseIn(sermon[s]) = "absent" /\ PhaseIn(sermon'[s]) = "uploading"
           /\ WorkIn(jobs', s) = WorkIn(jobs, s)
  <2>1. Abstract!Upload(s)
    BY <1>1, <1>3 DEF Abstract!Upload
  <2> QED
    BY <2>1 DEF Abstract!Next
<1>4. CASE PhaseIn(sermon[s]) \in {"uploading", "done", "failed"}
           /\ PhaseIn(sermon'[s]) = "busy" /\ WorkIn(jobs', s) = "waiting"
  <2>1. Abstract!Submit(s)
    BY <1>1, <1>4 DEF Abstract!Submit
  <2> QED
    BY <2>1 DEF Abstract!Next
<1>5. CASE WorkIn(jobs, s) = "waiting" /\ WorkIn(jobs', s) = "begun"
           /\ PhaseIn(sermon'[s]) = PhaseIn(sermon[s])
  <2>1. Abstract!Begin(s)
    BY <1>1, <1>5 DEF Abstract!Begin
  <2> QED
    BY <2>1 DEF Abstract!Next
<1>6. CASE WorkIn(jobs, s) = "begun" /\ WorkIn(jobs', s) = "waiting"
           /\ PhaseIn(sermon'[s]) = PhaseIn(sermon[s])
  <2>1. Abstract!PutBack(s)
    BY <1>1, <1>6 DEF Abstract!PutBack
  <2> QED
    BY <2>1 DEF Abstract!Next
<1>7. CASE WorkIn(jobs, s) = "begun" /\ WorkIn(jobs', s) = "none"
           /\ PhaseIn(sermon'[s]) \in {"done", "failed"}
  <2>1. Abstract!Settle(s)
    BY <1>1, <1>7 DEF Abstract!Settle
  <2> QED
    BY <2>1 DEF Abstract!Next
<1>8. CASE PhaseIn(sermon[s]) \notin {"absent", "gone"}
           /\ PhaseIn(sermon'[s]) = "gone" /\ WorkIn(jobs', s) = "none"
  <2>1. {s} \in SUBSET {t \in Sermons : phase[t] \notin {"absent", "gone"}}
    BY <1>1, <1>8
  <2>2. /\ phase2 = [t \in Sermons |-> IF t \in {s} THEN "gone" ELSE phase[t]]
        /\ work2 = [t \in Sermons |-> IF t \in {s} THEN "none" ELSE work[t]]
    BY <1>1, <1>8
  <2>3. Abstract!Remove
    BY <2>1, <2>2 DEF Abstract!Remove
  <2> QED
    BY <2>3 DEF Abstract!Next
<1> QED
  BY <1>2, <1>3, <1>4, <1>5, <1>6, <1>7, <1>8 DEF Moves

\* A step that touches the row and the jobs of s only.
LEMMA StepOfRow ==
  ASSUME NEW s \in Sermons, Moves(s),
         \A t \in Sermons \ {s} : sermon'[t] = sermon[t] /\ SameJobsOf(jobs, jobs', t)
  PROVE  [Abstract!Next]_(Abstract!vars)
<1>1. \A t \in Sermons \ {s} : /\ PhaseIn(sermon'[t]) = PhaseIn(sermon[t])
                               /\ WorkIn(jobs', t) = WorkIn(jobs, t)
  BY LooksTheSame
<1> QED
  BY <1>1, StepOfOne

\* A step that touches no job, no stage and no status.
LEMMA StutterStep ==
  ASSUME UNCHANGED jobs,
         \A t \in Sermons : /\ sermon'[t].stage = sermon[t].stage
                            /\ sermon'[t].status = sermon[t].status
  PROVE  UNCHANGED Abstract!vars
<1>1. \A t \in Sermons : SameJobsOf(jobs, jobs', t)
  BY DEF SameJobsOf
<1>2. \A t \in Sermons : /\ PhaseIn(sermon'[t]) = PhaseIn(sermon[t])
                         /\ WorkIn(jobs', t) = WorkIn(jobs, t)
  BY <1>1, LooksTheSame
<1>3. \A t \in Sermons : PhaseOf(t)' = PhaseOf(t) /\ WorkOf(t)' = WorkOf(t)
  BY <1>2, ReadOff
<1> QED
  BY <1>3 DEF Abstract!vars

\* The tables are coherent after a step, too.
LEMMA CoherentAfter ==
  ASSUME IInv', NEW s \in Sermons
  PROVE  jobs' \in Seq(Jobs) /\ sermon'[s] \in Rows /\ CoherentFor(sermon', jobs', s)
<1>1. /\ sermon' \in [Sermons -> Rows] /\ jobs' \in Seq(Jobs) /\ Coherent(sermon', jobs')
  BY Split DEF Tables
<1> QED
  BY <1>1, SermonBySermon

-----------------------------------------------------------------------------
(* The process *)

LEMMA RecoverImplements ==
  ASSUME IInv, IInv', RecoverRunningJobs
  PROVE  Abstract!Next
<1> DEFINE retired == {s \in Sermons : Ended(s)}
<1>1. /\ jobs \in Seq(Jobs) /\ jobs' \in Seq(Jobs)
      /\ \A s \in Sermons : CoherentFor(sermon, jobs, s) /\ CoherentFor(sermon', jobs', s)
  <2>1. jobs \in Seq(Jobs) /\ jobs' \in Seq(Jobs)
    BY Split DEF Tables
  <2> QED
    BY <2>1, CoherentSermon, CoherentAfter
<1>2. /\ DOMAIN jobs' = DOMAIN jobs
      /\ \A j \in DOMAIN jobs :
           /\ jobs'[j].sermon = jobs[j].sermon /\ jobs'[j].type = jobs[j].type
           /\ Retired(j)   => jobs'[j].state = "failed"
           /\ Abandoned(j) => jobs'[j].state = "queued"
           /\ ~Retired(j) /\ ~Abandoned(j) => jobs'[j] = jobs[j]
      /\ \A s \in Sermons :
           /\ sermon'[s].stage = sermon[s].stage
           /\ Ended(s) => sermon'[s].status = "failed"
           /\ ~Ended(s) => sermon'[s].status = IF Waits(s) THEN "pending"
                                                           ELSE sermon[s].status
  BY RecoveredTables
<1>3. ASSUME NEW s \in Sermons
      PROVE  /\ PhaseIn(sermon'[s]) = IF Ended(s) THEN "failed" ELSE PhaseIn(sermon[s])
             /\ WorkIn(jobs', s) = IF Ended(s) THEN "none"
                                   ELSE IF WorkIn(jobs, s) = "begun" THEN "waiting"
                                   ELSE WorkIn(jobs, s)
             /\ Ended(s) => PhaseIn(sermon[s]) = "busy"
  <2>1. CoherentFor(sermon, jobs, s) /\ CoherentFor(sermon', jobs', s)
    BY <1>1
  <2>2. CASE \A j \in DOMAIN jobs : jobs[j].sermon = s => ~ActiveIn(jobs, j)
    <3>1. ~Ended(s) /\ ~Waits(s)
      BY <2>2 DEF Ended, Waits, Retired, Abandoned, StageJobs, JobsOf, Active, ActiveIn
    <3>2. SameJobsOf(jobs, jobs', s)
      BY <1>2, <2>2 DEF SameJobsOf, Retired, Abandoned, Active, ActiveIn
    <3>3. /\ PhaseIn(sermon'[s]) = PhaseIn(sermon[s])
          /\ WorkIn(jobs', s) = WorkIn(jobs, s)
      BY <1>2, <3>1, <3>2, LooksTheSame
    <3>4. WorkIn(jobs, s) # "begun"
      BY <2>2 DEF WorkIn, ActiveIn
    <3> QED
      BY <3>1, <3>3, <3>4
  <2>3. ASSUME NEW j \in DOMAIN jobs, jobs[j].sermon = s, ActiveIn(jobs, j)
        PROVE  /\ PhaseIn(sermon'[s]) = IF Ended(s) THEN "failed" ELSE PhaseIn(sermon[s])
               /\ WorkIn(jobs', s) = IF Ended(s) THEN "none"
                                     ELSE IF WorkIn(jobs, s) = "begun" THEN "waiting"
                                     ELSE WorkIn(jobs, s)
               /\ Ended(s) => PhaseIn(sermon[s]) = "busy"
    <3>1. /\ PhaseIn(sermon[s]) = "busy"
          /\ WorkIn(jobs, s) = IF jobs[j].state = "running" THEN "begun" ELSE "waiting"
      BY <1>1, <2>1, <2>3, WorkOfActive
    <3>2. \A i \in DOMAIN jobs : jobs[i].sermon = s /\ i # j => ~ActiveIn(jobs, i)
      BY <2>1, <2>3 DEF CoherentFor
    <3>3. CASE Retired(j)
      <4>1. Ended(s) /\ sermon[s].stage = "edit"
        BY <2>1, <2>3, <3>3
           DEF CoherentFor, Ended, Retired, JobsOf, Active, ActiveIn, StageOf
      <4>2. \A i \in DOMAIN jobs' : jobs'[i].sermon = s => ~ActiveIn(jobs', i)
        BY <1>2, <3>2, <3>3 DEF Retired, Abandoned, Active, ActiveIn
      <4>3. WorkIn(jobs', s) = "none"
        BY <4>2 DEF WorkIn, ActiveIn
      <4>4. PhaseIn(sermon'[s]) = "failed"
        BY <1>2, <4>1 DEF PhaseIn
      <4> QED
        BY <3>1, <4>1, <4>3, <4>4
    <3>4. CASE ~Retired(j)
      <4>1. ~Ended(s)
        BY <3>2, <3>4 DEF Ended, Retired, JobsOf, Active, ActiveIn
      <4>2. jobs'[j].state = "queued" /\ jobs'[j].sermon = s
        BY <1>2, <2>3, <3>4 DEF Retired, Abandoned, Active, ActiveIn
      <4>3. PhaseIn(sermon'[s]) = "busy" /\ WorkIn(jobs', s) = "waiting"
        BY <1>1, <1>2, <2>1, <4>2, WorkOfActive DEF ActiveIn
      <4> QED
        BY <3>1, <4>1, <4>3
    <3> QED
      BY <3>3, <3>4
  <2> QED
    BY <2>2, <2>3
<1>4. retired \in SUBSET {s \in Sermons : PhaseOf(s) = "busy"}
  BY <1>3, ReadOff
<1>5. \A s \in Sermons :
        /\ PhaseOf(s)' = IF s \in retired THEN "failed" ELSE PhaseOf(s)
        /\ WorkOf(s)' = IF s \in retired THEN "none"
                        ELSE IF WorkOf(s) = "begun" THEN "waiting" ELSE WorkOf(s)
  BY <1>3, ReadOff
<1> HIDE DEF retired
<1>6. Abstract!Restart
  BY <1>4, <1>5 DEF Abstract!Restart
<1> QED
  BY <1>6 DEF Abstract!Next

LEMMA DiscardImplements ==
  ASSUME IInv, DiscardInterruptedUploads
  PROVE  Abstract!Next
<1> DEFINE removed == {s \in Sermons : /\ sermon[s].stage = "upload"
                                       /\ sermon[s].status \in {"pending", "running"}}
<1>1. /\ jobs \in Seq(Jobs)
      /\ sermon' = [s \in Sermons |-> IF s \in removed
                                      THEN [AbsentRow EXCEPT !.stage = "deleted"]
                                      ELSE sermon[s]]
      /\ jobs' = [j \in DOMAIN jobs |-> IF jobs[j].sermon \in removed
                                        THEN [jobs[j] EXCEPT !.state = "deleted"]
                                        ELSE jobs[j]]
  BY DEF IInv, TypeOK, DiscardInterruptedUploads
<1>2. \A s \in removed : PhaseIn(sermon[s]) = "uploading"
  BY DEF PhaseIn
<1> HIDE DEF removed
<1>3. \A j \in DOMAIN jobs : /\ jobs'[j].sermon = jobs[j].sermon
                             /\ jobs[j].sermon \in removed => jobs'[j].state = "deleted"
                             /\ jobs[j].sermon \notin removed => jobs'[j] = jobs[j]
  BY <1>1, JobOfTable DEF Jobs
<1>4. ASSUME NEW s \in removed
      PROVE  s \in Sermons => PhaseIn(sermon'[s]) = "gone" /\ WorkIn(jobs', s) = "none"
  BY <1>1, <1>3 DEF PhaseIn, WorkIn, ActiveIn, AbsentRow
<1>5. ASSUME NEW s \in Sermons, s \notin removed
      PROVE  PhaseIn(sermon'[s]) = PhaseIn(sermon[s]) /\ WorkIn(jobs', s) = WorkIn(jobs, s)
  <2>1. SameJobsOf(jobs, jobs', s) /\ sermon'[s] = sermon[s]
    BY <1>1, <1>3, <1>5 DEF SameJobsOf
  <2> QED
    BY <2>1, LooksTheSame
<1>6. removed \in SUBSET {s \in Sermons : PhaseOf(s) \notin {"absent", "gone"}}
  <2>1. removed \subseteq Sermons
    BY DEF removed
  <2> QED
    BY <1>2, <2>1, ReadOff
<1>7. \A s \in Sermons : /\ PhaseOf(s)' = IF s \in removed THEN "gone" ELSE PhaseOf(s)
                         /\ WorkOf(s)' = IF s \in removed THEN "none" ELSE WorkOf(s)
  BY <1>4, <1>5, ReadOff
<1>8. Abstract!Remove
  BY <1>6, <1>7 DEF Abstract!Remove
<1> QED
  BY <1>8 DEF Abstract!Next

LEMMA ProcessStepImplements ==
  ASSUME IInv, IInv', ProcessStep
  PROVE  [Abstract!Next]_(Abstract!vars)
<1>1. CASE Crash \/ Shutdown \/ Exit
  <2>1. UNCHANGED <<sermon, jobs>>
    BY <1>1 DEF Crash, Shutdown, Exit, DropInFlight
  <2> QED
    BY <2>1, StutterStep
<1> QED
  BY <1>1, RecoverImplements, DiscardImplements DEF ProcessStep

-----------------------------------------------------------------------------
(* The workers *)

\* A single job of s takes another state.
LEMMA OneJobMoved ==
  ASSUME NEW j \in DOMAIN jobs, DOMAIN jobs' = DOMAIN jobs,
         \A i \in DOMAIN jobs : i # j => jobs'[i] = jobs[i],
         jobs'[j].sermon = jobs[j].sermon
  PROVE  \A t \in Sermons \ {jobs[j].sermon} : SameJobsOf(jobs, jobs', t)
BY DEF SameJobsOf

LEMMA ClaimImplements ==
  ASSUME IInv, IInv', NEW w \in Workers, NEW j \in DOMAIN jobs, ClaimNextJob(w, j)
  PROVE  [Abstract!Next]_(Abstract!vars)
<1> DEFINE s   == jobs[j].sermon
           job == [jobs[j] EXCEPT !.state = "running", !.attempts = @ + 1]
<1>1. /\ jobs \in Seq(Jobs) /\ sermon \in [Sermons -> Rows] /\ s \in Sermons
      /\ jobs[j].state = "queued" /\ jobs[j] \in Jobs
  BY JobOfTable DEF IInv, TypeOK, ClaimNextJob, Claimable
<1>2. /\ jobs' = [jobs EXCEPT ![j] = job] /\ job \in Jobs
      /\ job.sermon = s /\ job.state = "running"
  BY <1>1, ClaimedJob DEF ClaimNextJob
<1> HIDE DEF job
<1>3. /\ DOMAIN jobs' = DOMAIN jobs /\ jobs'[j] = job
      /\ \A i \in DOMAIN jobs : i # j => jobs'[i] = jobs[i]
  BY <1>1, <1>2
<1>4. \A t \in Sermons \ {s} : sermon'[t] = sermon[t] /\ SameJobsOf(jobs, jobs', t)
  <2>1. \A t \in Sermons \ {s} : SameJobsOf(jobs, jobs', t)
    BY <1>2, <1>3, OneJobMoved
  <2>2. \A t \in Sermons \ {s} : sermon'[t] = sermon[t]
    BY <1>1 DEF ClaimNextJob, SetStage
  <2> QED
    BY <2>1, <2>2
<1>5. PhaseIn(sermon[s]) = "busy" /\ WorkIn(jobs, s) = "waiting"
  BY <1>1, CoherentSermon, WorkOfActive DEF ActiveIn
<1>6. PhaseIn(sermon'[s]) = "busy" /\ WorkIn(jobs', s) = "begun"
  <2>1. jobs' \in Seq(Jobs) /\ CoherentFor(sermon', jobs', s)
    BY <1>1, CoherentAfter
  <2> QED
    BY <1>1, <1>2, <1>3, <2>1, WorkOfActive DEF ActiveIn
<1> QED
  BY <1>1, <1>4, <1>5, <1>6, StepOfRow DEF Moves

LEMMA HandlerImplements ==
  ASSUME IInv, NEW w \in Workers, HandlerSucceeds(w) \/ HandlerFails(w)
  PROVE  [Abstract!Next]_(Abstract!vars)
<1> DEFINE job == jobs[worker[w].job]
<1>1. /\ jobs \in Seq(Jobs) /\ sermon \in [Sermons -> Rows]
      /\ worker[w].job \in DOMAIN jobs
  BY DEF IInv, TypeOK, HandlerSucceeds, HandlerFails
<1>2. job.sermon \in Sermons
  BY ONLY <1>1, JobOfTable
<1>3. UNCHANGED jobs /\ (UNCHANGED sermon \/ HandlerOutput(job.type, job.sermon))
  BY DEF HandlerSucceeds, HandlerFails
<1> HIDE DEF job
<1>4. \/ UNCHANGED sermon
      \/ sermon' = [sermon EXCEPT ![job.sermon].transcript = TRUE]
      \/ sermon' = [sermon EXCEPT ![job.sermon].draft = "generated"]
  BY <1>3 DEF HandlerOutput
<1>5. \A t \in Sermons : /\ sermon'[t].stage = sermon[t].stage
                         /\ sermon'[t].status = sermon[t].status
  <2>1. CASE sermon' = [sermon EXCEPT ![job.sermon].transcript = TRUE]
    BY ONLY <1>1, <1>2, <2>1 DEF Rows
  <2>2. CASE sermon' = [sermon EXCEPT ![job.sermon].draft = "generated"]
    BY ONLY <1>1, <1>2, <2>2 DEF Rows
  <2> QED
    BY <1>4, <2>1, <2>2
<1> QED
  BY <1>3, <1>5, StutterStep

\* A job that is over settles its sermon: in a stage of its own or where it returns.
LEMMA CompleteImplements ==
  ASSUME RInv, RInv', NEW w \in Workers, CompleteJob(w)
  PROVE  [Abstract!Next]_(Abstract!vars)
<1> DEFINE j    == worker[w].job
           s    == jobs[j].sermon
           next == worker[w].next
           job  == [jobs[j] EXCEPT !.state = "done"]
           done == [jobs EXCEPT ![j].state = "done"]
           end  == IF jobs[j].return # NoReturn
                   THEN jobs[j].return
                   ELSE [stage |-> StageOf(jobs[j].type), status |-> "done"]
<1>1. /\ IInv /\ IInv' /\ jobs \in Seq(Jobs) /\ j \in DOMAIN jobs
      /\ sermon \in [Sermons -> Rows] /\ next \in JobTypes \cup {"none"}
  BY DEF RInv, HInv, IInv, TypeOK, CompleteJob
<1>2. jobs[j] \in Jobs /\ s \in Sermons /\ jobs[j].return \in Returns /\ jobs[j].type \in JobTypes
  BY ONLY <1>1, JobOfTable
<1>3. job \in Jobs /\ job.sermon = s /\ job.state = "done" /\ done = [jobs EXCEPT ![j] = job]
  BY <1>1, <1>2, DoneJob
<1>4. /\ done \in Seq(Jobs) /\ DOMAIN done = DOMAIN jobs /\ done[j] = job
      /\ \A i \in DOMAIN jobs : i # j => done[i] = jobs[i]
  <2> HIDE DEF job, done, j
  <2> QED
    BY <1>1, <1>3, UpdatedJob DEF s
<1>5. CASE UNCHANGED <<sermon, jobs>>
  BY <1>5, StutterStep
<1>6. ASSUME jobs[j].state = "running"
      PROVE  PhaseIn(sermon[s]) = "busy" /\ WorkIn(jobs, s) = "begun"
  BY <1>1, <1>2, <1>6, CoherentSermon, WorkOfActive DEF ActiveIn
<1> HIDE DEF job, done
<1>7. CASE jobs[j].state = "running" /\ jobs' = done /\ SetStage(s, end.stage, end.status)
  <2>1. /\ end.stage \in Stages /\ end.stage # "upload" /\ end.stage \notin NoRow
        /\ end.status \in {"done", "failed"}
    <3>1. CASE jobs[j].return # NoReturn
      <4>1. jobs[j].return.stage \in PipelineStages
        BY <1>1, <1>2, <3>1 DEF RInv, Remembers, RemembersFor
      <4> QED
        BY <1>2, <3>1, <4>1 DEF PipelineStages, Returns, Stages, NoRow
    <3>2. CASE jobs[j].return = NoReturn
      BY <1>2, <3>2, StageOfType
    <3> QED
      BY <3>1, <3>2
  <2> HIDE DEF end, j
  <2>2. /\ \A t \in Sermons \ {s} : sermon'[t] = sermon[t]
        /\ sermon'[s].stage = end.stage /\ sermon'[s].status = end.status
    BY <1>1, <1>2, <1>7 DEF SetStage, Rows
  <2>3. PhaseIn(sermon'[s]) \in {"done", "failed"}
    BY <2>1, <2>2 DEF PhaseIn, NoRow
  <2>4. WorkIn(jobs', s) = "none"
    <3>1. \A i \in DOMAIN jobs : jobs[i].sermon = s /\ i # j => ~ActiveIn(jobs, i)
      BY <1>1, <1>2, <1>7, CoherentSermon DEF CoherentFor, ActiveIn
    <3> QED
      BY <1>3, <1>4, <1>7, <3>1 DEF WorkIn, ActiveIn
  <2>5. \A t \in Sermons \ {s} : SameJobsOf(jobs, jobs', t)
    BY <1>1, <1>3, <1>4, <1>7, OneJobMoved DEF j, s
  <2> QED
    BY <1>2, <1>6, <1>7, <2>2, <2>3, <2>4, <2>5, StepOfRow DEF Moves
<1>8. CASE /\ jobs[j].state = "running" /\ next # "none"
           /\ jobs' = Append(done, NewJob(s, next, NoReturn))
           /\ SetStage(s, StageOf(next), "pending")
  <2> DEFINE new == NewJob(s, next, NoReturn)
             n   == Len(done) + 1
  <2>1. new \in Jobs /\ new.sermon = s /\ new.state = "queued"
    BY <1>1, <1>2, <1>8, NewJobType DEF Returns
  <2> HIDE DEF new, s, next
  <2>2. /\ DOMAIN jobs' = DOMAIN jobs \cup {n} /\ n \notin DOMAIN jobs
        /\ jobs'[n] = new /\ \A i \in DOMAIN jobs : jobs'[i] = done[i]
    BY <1>4, <1>8, <2>1, AppendedJob DEF new
  <2> HIDE DEF n, j
  <2>3. \A t \in Sermons \ {s} : sermon'[t] = sermon[t] /\ SameJobsOf(jobs, jobs', t)
    <3>1. \A t \in Sermons \ {s} : SameJobsOf(jobs, jobs', t)
      BY <1>1, <1>3, <1>4, <2>1, <2>2 DEF SameJobsOf, s
    <3>2. \A t \in Sermons \ {s} : sermon'[t] = sermon[t]
      BY <1>1, <1>8 DEF SetStage
    <3> QED
      BY <3>1, <3>2
  <2>4. PhaseIn(sermon'[s]) = "busy" /\ WorkIn(jobs', s) = "waiting"
    <3>1. jobs' \in Seq(Jobs) /\ CoherentFor(sermon', jobs', s)
      BY <1>1, <1>2, CoherentAfter
    <3>2. n \in DOMAIN jobs' /\ jobs'[n].sermon = s /\ jobs'[n].state = "queued"
      BY <2>1, <2>2
    <3> QED
      BY <1>2, <3>1, <3>2, WorkOfActive DEF ActiveIn
  <2> QED
    BY <1>2, <1>6, <1>8, <2>3, <2>4, StepOfRow DEF Moves
<1> QED
  BY <1>5, <1>7, <1>8 DEF CompleteJob, done

LEMMA FailureImplements ==
  ASSUME IInv, IInv', NEW w \in Workers, RecordJobFailure(w)
  PROVE  [Abstract!Next]_(Abstract!vars)
<1> DEFINE j == worker[w].job
           s == jobs[j].sermon
           job(state) == [jobs[j] EXCEPT !.state = state, !.errors = @ + 1]
<1>1. /\ jobs \in Seq(Jobs) /\ j \in DOMAIN jobs /\ sermon \in [Sermons -> Rows]
  BY DEF IInv, TypeOK, RecordJobFailure
<1>2. jobs[j] \in Jobs /\ s \in Sermons /\ jobs[j].type \in JobTypes
  BY ONLY <1>1, JobOfTable
<1>3. CASE UNCHANGED <<sermon, jobs>>
  BY <1>3, StutterStep
<1>4. ASSUME NEW state \in {"queued", "failed"}, jobs[j].state = "running",
             jobs' = [jobs EXCEPT ![j] = job(state)],
             IF state = "queued" THEN UNCHANGED sermon ELSE ExposeFailure(s, jobs[j].type)
      PROVE  [Abstract!Next]_(Abstract!vars)
  <2> DEFINE moved == job(state)
  <2>1. moved \in Jobs /\ moved.sermon = s /\ moved.state = state
    BY <1>2, ReportedJob
  <2>2. jobs' = [jobs EXCEPT ![j] = moved]
    BY <1>4
  <2> HIDE DEF moved, job, j
  <2>3. /\ DOMAIN jobs' = DOMAIN jobs /\ jobs'[j] = moved
        /\ \A i \in DOMAIN jobs : i # j => jobs'[i] = jobs[i]
    BY <1>1, <2>2
  <2>4. \A t \in Sermons \ {s} : SameJobsOf(jobs, jobs', t)
    BY <1>1, <2>1, <2>3, OneJobMoved
  <2>5. CoherentFor(sermon, jobs, s) /\ ActiveIn(jobs, j)
    BY <1>2, <1>4, CoherentSermon DEF ActiveIn
  <2>6. PhaseIn(sermon[s]) = "busy" /\ WorkIn(jobs, s) = "begun"
    BY <1>1, <1>2, <1>4, <2>5, WorkOfActive
  <2>7. CASE state = "queued"
    <3>1. jobs' \in Seq(Jobs) /\ CoherentFor(sermon', jobs', s)
      BY <1>2, CoherentAfter
    <3>2. PhaseIn(sermon'[s]) = "busy" /\ WorkIn(jobs', s) = "waiting"
      BY <1>1, <1>2, <2>1, <2>3, <2>7, <3>1, WorkOfActive DEF ActiveIn
    <3>3. UNCHANGED sermon
      BY <1>4, <2>7
    <3> QED
      BY <1>2, <2>4, <2>6, <3>2, <3>3, StepOfRow DEF Moves
  <2>8. CASE state = "failed"
    <3>1. sermon[s].stage = StageOf(jobs[j].type)
      BY <1>1, <2>5 DEF CoherentFor
    <3>2. SetStage(s, sermon[s].stage, "failed")
      BY <1>4, <2>8, <3>1 DEF ExposeFailure
    <3>3. /\ \A t \in Sermons \ {s} : sermon'[t] = sermon[t]
          /\ sermon'[s].stage = sermon[s].stage /\ sermon'[s].status = "failed"
      BY ONLY <1>1, <1>2, <3>2 DEF SetStage, Rows
    <3>4. PhaseIn(sermon'[s]) = "failed"
      BY <1>2, <3>1, <3>3, StageOfType DEF PhaseIn, NoRow
    <3>5. \A i \in DOMAIN jobs : jobs[i].sermon = s /\ i # j => ~ActiveIn(jobs, i)
      BY <1>1, <2>5 DEF CoherentFor
    <3>6. WorkIn(jobs', s) = "none"
      BY <2>1, <2>3, <2>8, <3>5 DEF WorkIn, ActiveIn
    <3> QED
      BY <1>2, <2>4, <2>6, <3>3, <3>4, <3>6, StepOfRow DEF Moves
  <2> QED
    BY <2>7, <2>8
<1>5. \A state : [jobs EXCEPT ![j].state = state, ![j].errors = @ + 1]
                   = [jobs EXCEPT ![j] = job(state)]
  BY <1>1
<1> QED
  BY <1>3, <1>4, <1>5 DEF RecordJobFailure

LEMMA WorkerStepImplements ==
  ASSUME RInv, RInv', NEW w \in Workers, WorkerStep(w)
  PROVE  [Abstract!Next]_(Abstract!vars)
<1>1. IInv /\ IInv'
  BY DEF RInv, HInv
<1>2. CASE PollNoJob(w) \/ StoreError(w)
  <2>1. UNCHANGED <<sermon, jobs>>
    BY <1>2 DEF PollNoJob, StoreError, vars
  <2> QED
    BY <2>1, StutterStep
<1> QED
  BY <1>1, <1>2, ClaimImplements, HandlerImplements, CompleteImplements, FailureImplements
     DEF WorkerStep, Claim

-----------------------------------------------------------------------------
(* The users *)

LEMMA UploadImplements ==
  ASSUME IInv, NEW s \in Sermons, CreateSermon(s) \/ StartUpload(s)
  PROVE  [Abstract!Next]_(Abstract!vars)
<1>1. PICK status \in {"pending", "running"} : SetStage(s, "upload", status)
  BY DEF CreateSermon, StartUpload
<1>2. UNCHANGED jobs /\ sermon \in [Sermons -> Rows]
  BY DEF IInv, TypeOK, CreateSermon, StartUpload
<1>3. /\ \A t \in Sermons \ {s} : sermon'[t] = sermon[t]
      /\ sermon'[s].stage = "upload"
  BY <1>1, <1>2 DEF SetStage, Rows
<1>4. PhaseIn(sermon[s]) \in {"absent", "uploading"} /\ PhaseIn(sermon'[s]) = "uploading"
  BY <1>3 DEF CreateSermon, StartUpload, PhaseIn
<1>5. \A t \in Sermons : SameJobsOf(jobs, jobs', t)
  BY <1>2 DEF SameJobsOf
<1>6. Moves(s)
  BY <1>2, <1>4 DEF Moves
<1> QED
  BY <1>3, <1>5, <1>6, StepOfRow

\* A settled sermon, or one that is uploaded, is asked for work.
LEMMA SubmitImplements ==
  ASSUME IInv, IInv', NEW s \in Sermons, sermon[s].stage \notin NoRow,
         \A j \in DOMAIN jobs : jobs[j].sermon = s => ~ActiveIn(jobs, j),
         \A t \in Sermons \ {s} : sermon'[t] = sermon[t] /\ SameJobsOf(jobs, jobs', t),
         NEW j \in DOMAIN jobs', jobs'[j].sermon = s, jobs'[j].state = "queued"
  PROVE  [Abstract!Next]_(Abstract!vars)
<1>1. /\ jobs \in Seq(Jobs) /\ sermon[s] \in Rows /\ CoherentFor(sermon, jobs, s)
  BY CoherentSermon DEF IInv, TypeOK
<1>2. PhaseIn(sermon[s]) \in {"uploading", "done", "failed"}
  <2>1. PhaseIn(sermon[s]) \in Abstract!Phases \ {"busy"}
    BY <1>1, NoWorkWithout
  <2>2. PhaseIn(sermon[s]) \notin {"absent", "gone"}
    BY <1>1 DEF PhaseIn, Rows, Statuses, NoRow
  <2> QED
    BY <2>1, <2>2 DEF Abstract!Phases
<1>3. PhaseIn(sermon'[s]) = "busy" /\ WorkIn(jobs', s) = "waiting"
  BY CoherentAfter, WorkOfActive DEF ActiveIn
<1> QED
  BY <1>2, <1>3, StepOfRow DEF Moves

LEMMA EnqueueImplements ==
  ASSUME IInv, IInv', NEW s \in Sermons,
         \/ CompleteUpload(s)
         \/ EnqueueNormalizationRerun(s)
         \/ \E part \in RerunParts : EnqueueProcessingRerun(s, part)
         \/ ApplyDraft(s)
         \/ EnqueueExport(s)
  PROVE  [Abstract!Next]_(Abstract!vars)
<1>1. sermon \in [Sermons -> Rows] /\ jobs \in Seq(Jobs) /\ CoherentFor(sermon, jobs, s)
  BY CoherentSermon DEF IInv, TypeOK
<1>2. \A j \in DOMAIN jobs : jobs[j].sermon = s => ~ActiveIn(jobs, j)
  <2>1. CASE CompleteUpload(s) \/ EnqueueNormalizationRerun(s)
    BY <2>1, NoActiveJob DEF CompleteUpload, EnqueueNormalizationRerun
  <2>2. CASE ~HasActiveJob(s)
    BY <2>2, GuardedByActiveJob
  <2> QED
    BY <2>1, <2>2 DEF EnqueueProcessingRerun, ApplyDraft, EnqueueExport, Exportable
<1>3. sermon[s].stage \notin NoRow
  BY <1>1 DEF CompleteUpload, EnqueueNormalizationRerun, EnqueueProcessingRerun, ApplyDraft,
              EnqueueExport, Exportable, AtRest, CoherentFor, NoRow
<1>4. \A t \in Sermons \ {s} : sermon'[t] = sermon[t]
  <2>1. \/ \E stage : SetStage(s, stage, "pending")
        \/ sermon' = [sermon EXCEPT ![s].status = "pending", ![s].reviewed = FALSE]
    BY DEF CompleteUpload, EnqueueNormalizationRerun, EnqueueProcessingRerun, ApplyDraft,
           EnqueueExport
  <2> QED
    BY <1>1, <2>1 DEF SetStage
<1>5. PICK type \in JobTypes, return \in Returns :
        jobs' = Append(jobs, NewJob(s, type, return))
  <2>1. CASE CompleteUpload(s) \/ EnqueueNormalizationRerun(s) \/ ApplyDraft(s)
    <3>1. "normalize" \in JobTypes /\ "render_edit" \in JobTypes /\ NoReturn \in Returns
      BY DEF JobTypes, Returns
    <3> QED
      BY <2>1, <3>1 DEF CompleteUpload, EnqueueNormalizationRerun, ApplyDraft
  <2>2. ASSUME NEW part \in RerunParts, EnqueueProcessingRerun(s, part)
        PROVE  \E type \in JobTypes, return \in Returns :
                 jobs' = Append(jobs, NewJob(s, type, return))
    <3>1. RerunType(part) \in JobTypes /\ ReturnOf(s) \in Returns
      BY <2>2, ReturnOfType DEF EnqueueProcessingRerun, RerunType, JobTypes
    <3> QED
      BY <2>2, <3>1 DEF EnqueueProcessingRerun
  <2>3. CASE EnqueueExport(s)
    <3>1. "export" \in JobTypes /\ Here(s) \in Returns
      BY <2>3 DEF JobTypes, EnqueueExport, Exportable, AtRest, Here, Returns, Stages
    <3> QED
      BY <2>3, <3>1 DEF EnqueueExport
  <2> QED
    BY <2>1, <2>2, <2>3
<1> DEFINE new == NewJob(s, type, return)
<1>6. new \in Jobs /\ new.sermon = s /\ new.state = "queued"
  BY NewJobType
<1> HIDE DEF new
<1>7. /\ DOMAIN jobs' = DOMAIN jobs \cup {Len(jobs) + 1} /\ jobs'[Len(jobs) + 1] = new
      /\ \A i \in DOMAIN jobs : jobs'[i] = jobs[i]
  BY <1>1, <1>5, <1>6, AppendedJob DEF new
<1>8. \A t \in Sermons \ {s} : SameJobsOf(jobs, jobs', t)
  BY <1>6, <1>7 DEF SameJobsOf
<1> QED
  BY <1>2, <1>3, <1>4, <1>6, <1>7, <1>8, SubmitImplements

LEMMA DeleteImplements ==
  ASSUME IInv, IInv', NEW s \in Sermons, DeleteSermon(s)
  PROVE  [Abstract!Next]_(Abstract!vars)
<1>1. sermon \in [Sermons -> Rows] /\ jobs \in Seq(Jobs) /\ sermon[s].stage \notin NoRow
  BY DEF IInv, TypeOK, DeleteSermon, Exists
<1>2. /\ sermon' = [sermon EXCEPT ![s] = [AbsentRow EXCEPT !.stage = "deleted"]]
      /\ jobs' = [j \in DOMAIN jobs |-> IF jobs[j].sermon = s
                                        THEN [jobs[j] EXCEPT !.state = "deleted"]
                                        ELSE jobs[j]]
  BY DEF DeleteSermon, RemoveRow
<1>3. /\ PhaseIn(sermon[s]) \notin {"absent", "gone"}
      /\ PhaseIn(sermon'[s]) = "gone"
  BY <1>1, <1>2, CoherentSermon DEF PhaseIn, NoRow, Rows, Statuses, AbsentRow
<1>4. \A j \in DOMAIN jobs : /\ jobs'[j].sermon = jobs[j].sermon
                             /\ jobs[j].sermon = s => jobs'[j].state = "deleted"
                             /\ jobs[j].sermon # s => jobs'[j] = jobs[j]
  BY <1>1, <1>2, JobOfTable DEF Jobs
<1>5. WorkIn(jobs', s) = "none"
  BY <1>2, <1>4 DEF WorkIn, ActiveIn
<1>6. \A t \in Sermons \ {s} : sermon'[t] = sermon[t] /\ SameJobsOf(jobs, jobs', t)
  BY <1>1, <1>2, <1>4 DEF SameJobsOf
<1> QED
  BY <1>3, <1>5, <1>6, StepOfRow DEF Moves

LEMMA ResetImplements ==
  ASSUME IInv, IInv', NEW s \in Sermons, ResetFailedJob(s)
  PROVE  [Abstract!Next]_(Abstract!vars)
<1>1. /\ sermon \in [Sermons -> Rows] /\ jobs \in Seq(Jobs) /\ CoherentFor(sermon, jobs, s)
      /\ sermon[s].status = "failed"
  BY CoherentSermon DEF IInv, TypeOK, ResetFailedJob, Retryable
<1>2. PICK j \in FailedJobs(s) : /\ j \in DOMAIN jobs
                                 /\ jobs' = [jobs EXCEPT ![j] = Restarted(jobs[j])]
  BY ResetJobOf
<1>3. jobs[j] \in Jobs /\ jobs[j].sermon = s
  BY <1>1, <1>2 DEF FailedJobs, StageJobs, JobsOf
<1>4. Restarted(jobs[j]).sermon = s /\ Restarted(jobs[j]).state = "queued"
  BY <1>3 DEF Restarted, Jobs
<1>5. /\ DOMAIN jobs' = DOMAIN jobs /\ jobs'[j] = Restarted(jobs[j])
      /\ \A i \in DOMAIN jobs : i # j => jobs'[i] = jobs[i]
  BY <1>1, <1>2
<1>6. \A t \in Sermons \ {s} : sermon'[t] = sermon[t] /\ SameJobsOf(jobs, jobs', t)
  <2>1. \A t \in Sermons \ {s} : SameJobsOf(jobs, jobs', t)
    BY <1>2, <1>3, <1>4, <1>5, OneJobMoved
  <2>2. \A t \in Sermons \ {s} : sermon'[t] = sermon[t]
    BY <1>1 DEF ResetFailedJob, SetStage
  <2> QED
    BY <2>1, <2>2
<1>7. \A k \in DOMAIN jobs : jobs[k].sermon = s => ~ActiveIn(jobs, k)
  BY <1>1, NoActiveJob
<1>8. sermon[s].stage \notin NoRow
  BY <1>1 DEF CoherentFor
<1> QED
  BY <1>2, <1>4, <1>5, <1>6, <1>7, <1>8, SubmitImplements

LEMMA UserStepImplements ==
  ASSUME IInv, IInv', NEW s \in Sermons, UserStep(s)
  PROVE  [Abstract!Next]_(Abstract!vars)
<1>1. CASE \/ MarkNormalizationReviewed(s) \/ SaveDraft(s)
           \/ ExportDecide(s) \/ ExportRefused(s)
  <2>1. sermon \in [Sermons -> Rows]
    BY DEF IInv, TypeOK
  <2>2. /\ UNCHANGED jobs
        /\ \/ UNCHANGED sermon
           \/ sermon' = [sermon EXCEPT ![s].reviewed = TRUE]
           \/ sermon' = [sermon EXCEPT ![s].draft = "saved"]
    BY <1>1 DEF MarkNormalizationReviewed, SaveDraft, ExportDecide, ExportRefused
  <2>3. \A t \in Sermons : /\ sermon'[t].stage = sermon[t].stage
                           /\ sermon'[t].status = sermon[t].status
    BY <2>1, <2>2 DEF Rows
  <2> QED
    BY <2>2, <2>3, StutterStep
<1> QED
  BY <1>1, UploadImplements, EnqueueImplements, DeleteImplements, ResetImplements
     DEF UserStep, RetryFailedJob, ExportCommit

-----------------------------------------------------------------------------
(* The theorem *)

\* Every step of the tables, the workers, the requests and the process is a step
\* of the workflow, or one that it does not see.
THEOREM StepImplements == RInv /\ RInv' /\ [Next]_vars => [Abstract!Next]_(Abstract!vars)
<1> SUFFICES ASSUME RInv, RInv', [Next]_vars
             PROVE  [Abstract!Next]_(Abstract!vars)
  OBVIOUS
<1>1. IInv /\ IInv'
  BY DEF RInv, HInv
<1>2. CASE UNCHANGED vars
  BY <1>2, StutterStep DEF vars
<1> QED
  BY <1>1, <1>2, ProcessStepImplements, WorkerStepImplements, UserStepImplements DEF Next

\* The pipeline is a workflow: work is never lost, doubled, or resumed in a
\* sermon that is not waiting for it.
THEOREM PipelineImplementsWorkflow == Spec => ImplementsWorkflow
<1>1. Init => Abstract!Init
  BY InitImplements
<1>2. RInv /\ RInv' /\ [Next]_vars => [Abstract!Next]_(Abstract!vars)
  BY StepImplements
<1> QED
  BY <1>1, <1>2, HistoryInvariant, PTL DEF Spec, ImplementsWorkflow, Abstract!Spec

=============================================================================
