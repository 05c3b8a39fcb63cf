------------------------- MODULE PipelineRefinement -------------------------
(***************************************************************************)
(* Pipeline implements Workflow.  The phase of a sermon is read off its    *)
(* row, its piece of work off the jobs table: the mapping makes the two    *)
(* tables one state, so that they disagree nowhere.                        *)
(***************************************************************************)
EXTENDS Pipeline

PhaseOf(s) ==
  CASE sermon[s].stage = "absent"  -> "absent"
    [] sermon[s].stage = "deleted" -> "gone"
    [] sermon[s].stage = "upload"  -> "uploading"
    [] OTHER -> IF sermon[s].status \in {"pending", "running"}
                THEN "busy" ELSE sermon[s].status

WorkOf(s) ==
  IF \E j \in JobsOf(s) : jobs[j].state = "running" THEN "begun"
  ELSE IF HasActiveJob(s) THEN "waiting" ELSE "none"

Abstract == INSTANCE Workflow
              WITH phase <- [s \in Sermons |-> PhaseOf(s)],
                   work  <- [s \in Sermons |-> WorkOf(s)]

\* Every step of the tables, the workers, the requests and the process is a
\* step of the workflow or changes nothing it can see: work is never lost,
\* doubled or resumed in a sermon that is not waiting for it.
ImplementsWorkflow == Abstract!Spec

\* ... and the fairness of the workers is the fairness the workflow promises.
ImplementsFairWorkflow == Abstract!FairSpec

=============================================================================
