------------------------------ MODULE Workflow ------------------------------
(***************************************************************************)
(* What the pipeline promises about one sermon, without stages, job types, *)
(* attempts, workers or requests: a sermon is uploaded, carries at most    *)
(* one piece of work while it is busy, and is done or failed when that     *)
(* work is over, until more is asked of it or it is removed.  Work that    *)
(* was begun may go back to waiting -- for another attempt, for the next   *)
(* stage or because the server restarted -- but it is never lost and never *)
(* doubled, and in the end a busy sermon settles.                          *)
(***************************************************************************)
CONSTANT Sermons

VARIABLES
  phase,   \* where each sermon is in its life
  work     \* its piece of work

vars == <<phase, work>>

Phases == {"absent", "uploading", "busy", "done", "failed", "gone"}
Works  == {"none", "waiting", "begun"}

Upload(s) ==
  /\ phase[s] = "absent"
  /\ phase' = [phase EXCEPT ![s] = "uploading"]
  /\ UNCHANGED work

\* The upload is complete, or a settled sermon is asked for more.
Submit(s) ==
  /\ phase[s] \in {"uploading", "done", "failed"}
  /\ phase' = [phase EXCEPT ![s] = "busy"]
  /\ work' = [work EXCEPT ![s] = "waiting"]

Begin(s) ==
  /\ work[s] = "waiting"
  /\ work' = [work EXCEPT ![s] = "begun"]
  /\ UNCHANGED phase

\* Another attempt or the next stage.
PutBack(s) ==
  /\ work[s] = "begun"
  /\ work' = [work EXCEPT ![s] = "waiting"]
  /\ UNCHANGED phase

Settle(s) ==
  /\ work[s] = "begun"
  /\ work' = [work EXCEPT ![s] = "none"]
  /\ \E outcome \in {"done", "failed"} : phase' = [phase EXCEPT ![s] = outcome]

\* A restart puts back all that was begun, and gives up what no version of the
\* server can do any more.
Restart ==
  \E retired \in SUBSET {s \in Sermons : phase[s] = "busy"} :
    /\ phase' = [s \in Sermons |-> IF s \in retired THEN "failed" ELSE phase[s]]
    /\ work' = [s \in Sermons |-> IF s \in retired THEN "none"
                                  ELSE IF work[s] = "begun" THEN "waiting" ELSE work[s]]

\* Deletions, and the uploads a restart cannot resume.
Remove ==
  \E removed \in SUBSET {s \in Sermons : phase[s] \notin {"absent", "gone"}} :
    /\ phase' = [s \in Sermons |-> IF s \in removed THEN "gone" ELSE phase[s]]
    /\ work' = [s \in Sermons |-> IF s \in removed THEN "none" ELSE work[s]]

Next ==
  \/ \E s \in Sermons : Upload(s) \/ Submit(s) \/ Begin(s) \/ PutBack(s) \/ Settle(s)
  \/ Restart
  \/ Remove

\* A database an earlier run left behind: busy sermons have their work.
Init ==
  /\ phase \in [Sermons -> Phases]
  /\ work \in [Sermons -> Works]
  /\ \A s \in Sermons : phase[s] = "busy" <=> work[s] # "none"

Spec == Init /\ [][Next]_vars

\* Waiting work is begun, and work that is begun over and over comes to an end.
Fairness ==
  \A s \in Sermons : WF_vars(Begin(s)) /\ SF_vars(Settle(s))

FairSpec == Spec /\ Fairness

=============================================================================
