----------------------------- MODULE MCPipeline -----------------------------
(***************************************************************************)
(* Pipeline for TLC: the databases a first start may open and the          *)
(* symmetry of sermons and workers.                                        *)
(***************************************************************************)
EXTENDS PipelineRefinement, TLC

AllAbsent == [s \in Sermons |-> AbsentRow]

Row(stage, status, transcript) ==
  [AbsentRow EXCEPT !.stage = stage, !.status = status, !.transcript = transcript]

JobIn(s, type, state, attempts, errors) ==
  [NewJob(s, type, NoReturn) EXCEPT !.state = state, !.attempts = attempts,
                                    !.errors = errors]

NewInstall == [sermon |-> AllAbsent, jobs |-> << >>]

WithRow(s, row, js) == [sermon |-> [AllAbsent EXCEPT ![s] = row], jobs |-> js]

\* What earlier versions left: a normalization awaiting its review, a queued or
\* running job of the retired editor, a published sermon without an edit draft.
Upgraded(s) ==
  { WithRow(s, Row("normalization", "done", FALSE),
            <<JobIn(s, "normalize", "done", 1, 0)>>),
    WithRow(s, Row("edit", "pending", FALSE),
            <<JobIn(s, "normalize", "done", 1, 0), JobIn(s, "apply_edits", "queued", 0, 0)>>),
    WithRow(s, Row("edit", "running", FALSE),
            <<JobIn(s, "normalize", "done", 1, 0), JobIn(s, "apply_edits", "running", 1, 0)>>),
    WithRow(s, Row("metadata", "done", TRUE),
            <<JobIn(s, "normalize", "done", 1, 0), JobIn(s, "transcribe", "done", 1, 0),
              JobIn(s, "extract_metadata", "done", 1, 0)>>) }

\* Two sermons of the current version at rest: one waits for its edit to be
\* applied, the metadata of the other could not be extracted.
One   == CHOOSE s \in Sermons : TRUE
Other == CHOOSE s \in Sermons : s # One

InUse ==
  [sermon |-> [AllAbsent EXCEPT
     ![One]   = [Row("editing", "done", TRUE) EXCEPT !.draft = "generated"],
     ![Other] = [Row("metadata", "failed", TRUE) EXCEPT !.draft = "saved"]],
   jobs |-> <<JobIn(One, "prepare_edit", "done", 1, 0),
              JobIn(Other, "extract_metadata", "failed", MaxAttempts, MaxAttempts)>>]

\* A first start where another sermon was deleted before.
Alone(db) == [db EXCEPT !.sermon[Other].stage = "deleted"]

SharedStarts == {InUse} \cup {Alone(db) : db \in {NewInstall} \cup Upgraded(One)}

FirstStarts == {NewInstall} \cup UNION {Upgraded(s) : s \in Sermons}
NewInstalls == {NewInstall}

\* Nothing reads the counters of a job that is over: states that differ only in
\* them have the same future and satisfy the same properties.
Over(job) == job.state \in {"done", "deleted"}
LiveCounters ==
  <<sermon, [j \in DOMAIN jobs |-> IF Over(jobs[j])
                                   THEN [jobs[j] EXCEPT !.attempts = 0, !.errors = 0]
                                   ELSE jobs[j]],
    worker, exportCall, process, stranded, bounds>>

Symmetry == Permutations(Sermons) \cup Permutations(Workers)

=============================================================================
