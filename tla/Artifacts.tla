----------------------------- MODULE Artifacts -----------------------------
(***************************************************************************)
(* The files of a sermon beside its row: the uploaded original, the        *)
(* normalized pair, the generations that edits and exports write, the      *)
(* completion markers (marker.go), and the directory itself, which upload, *)
(* deletion and start-up create, rename and remove.                        *)
(*                                                                         *)
(* Nothing locks the directory.  Transactions are atomic and serial, every *)
(* file operation is a step of its own, and a crash can fall between any   *)
(* two of them.  Sermons share no file, so there is one here.  At most one *)
(* of its jobs is active (Pipeline, OneJobPerBusySermon), hence one        *)
(* handler.  Attempts, titles and whatever else touches no file is left to *)
(* Pipeline: a failed attempt goes back to the queue or fails for good.    *)
(***************************************************************************)
EXTENDS Integers, Sequences

CONSTANTS
  minAdjustment, maxAdjustment,   \* limits of both adjustments (-3 and 3)
  Upgrades,                       \* what earlier versions may have left
  MaxJobs, MaxDrafts, MaxCrashes  \* bounds

VARIABLES
  row,        \* the sermon's row with its editing row
  jobs,       \* its jobs in order of creation; the last one is current
  handler,    \* the run of a handler on the current job
  upload,     \* the upload request
  deletion,   \* the delete request
  home,       \* the sermon's directory
  staged,     \* the directory a deletion renamed it to, <id>.deleting
  process,    \* the server process
  cutShort,   \* history: a deletion or a clean-up was interrupted
  crashes     \* what of the bound has been used

vars == <<row, jobs, handler, upload, deletion, home, staged, process, cutShort, crashes>>

-----------------------------------------------------------------------------
(* Audio, jobs and rows *)

\* What a file holds: normalized by a run (by), and cut as in a draft (cut, 0
\* for the whole recording).  The fallback of transcription job j normalizes
\* under the identity "normalize-" j, here -j.
Audio   == [by : (-MaxJobs)..MaxJobs, cut : 0..MaxDrafts]
NoAudio == [by |-> 0, cut |-> 0]

Settings    == [gate : minAdjustment..maxAdjustment, volume : minAdjustment..maxAdjustment]
NoAdjusting == [gate |-> 0, volume |-> 0]

JobTypes == {"normalize", "transcribe", "prepare_edit", "render_edit", "export"}

\* source is the file an export reads: 0 for normalized.mp3, or the job whose
\* edit was playing.  asked is history: what was playing when it was requested.
Jobs == [type : JobTypes, state : {"queued", "running", "done", "failed"},
         settings : Settings, draft : 0..MaxDrafts, skip : BOOLEAN,
         source : 0..MaxJobs, asked : Audio, return : {"editing", "metadata"}]

NewJob(type) == [type |-> type, state |-> "queued", settings |-> NoAdjusting,
                 draft |-> 0, skip |-> FALSE, source |-> 0, asked |-> NoAudio,
                 return |-> "metadata"]

StageOf(type) ==
  CASE type = "normalize"  -> "normalization"
    [] type = "transcribe" -> "transcription"
    [] type = "export"     -> "export"
    [] OTHER               -> "editing"

Stages == {"none", "upload", "normalization", "transcription", "editing",
           "metadata", "export", "edit", "deleted"}

\* draft counts the revisions of the draft; playback and applied are what
\* CommitEditing stored last, with playback 0 for the empty path.
Rows == [stage : Stages, status : {"none", "pending", "running", "done", "failed"},
         settings : Settings, draft : 0..MaxDrafts,
         playback : 0..MaxJobs, active : BOOLEAN, applied : 0..MaxDrafts]

NoRow == [stage |-> "none", status |-> "none", settings |-> NoAdjusting, draft |-> 0,
          playback |-> 0, active |-> FALSE, applied |-> 0]
DeletedRow == [NoRow EXCEPT !.stage = "deleted"]

Exists  == row.stage \notin {"none", "deleted"}
Live    == Exists /\ row.stage # "upload"
Settled == Live /\ row.status \in {"done", "failed"}
Current == Len(jobs)

-----------------------------------------------------------------------------
(* Directories *)

\* What one CommitArtifacts publishes: temporary and final files, and the job
\* that the marker names (0 without a marker).
Outputs   == [flac : Audio, mp3 : Audio, flacTemp : Audio, mp3Temp : Audio,
              marker : (-MaxJobs)..MaxJobs]
NoOutputs == [flac |-> NoAudio, mp3 |-> NoAudio, flacTemp |-> NoAudio,
              mp3Temp |-> NoAudio, marker |-> 0]

\* outputs[0] is the normalized pair, outputs[j] the generation of job j.
\* approval is the staging directory of the retired approval flow.
Directories ==
  [exists : BOOLEAN, original : {"none", "partial", "whole"},
   outputs : [0..MaxJobs -> Outputs],
   approval : [original : BOOLEAN, flac : Audio, mp3 : Audio]]

NoApproval == [original |-> FALSE, flac |-> NoAudio, mp3 |-> NoAudio]
NoDir == [exists |-> FALSE, original |-> "none",
          outputs |-> [t \in 0..MaxJobs |-> NoOutputs], approval |-> NoApproval]
EmptyDir == [NoDir EXCEPT !.exists = TRUE]

Put(dir, t, files) == [dir EXCEPT !.outputs[t] = files]

HasAudio(dir) ==
  \/ dir.original # "none" \/ dir.approval # NoApproval
  \/ \E t \in 0..MaxJobs : dir.outputs[t].flac # NoAudio \/ dir.outputs[t].mp3 # NoAudio

\* The whole recording is there: as it was uploaded, or normalized in both forms
\* by one run.
Recorded(dir) ==
  \/ dir.original = "whole" \/ dir.approval.original
  \/ dir.outputs[0].flac # NoAudio /\ dir.outputs[0].mp3 = dir.outputs[0].flac

ASSUME LimitsAssumption ==
  minAdjustment \in Int /\ maxAdjustment \in Int /\ minAdjustment <= 0 /\ 0 <= maxAdjustment
ASSUME BoundsAssumption == MaxJobs \in Nat /\ MaxDrafts \in Nat /\ MaxCrashes \in Nat
ASSUME UpgradesAssumption ==
  \A u \in Upgrades : u.row \in Rows /\ u.jobs \in Seq(Jobs) /\ u.home \in Directories

\* What approval staging took from the pair of a directory.
Gathered(dir) ==
  [flac |-> IF dir.outputs[0].flac # NoAudio THEN dir.outputs[0].flac ELSE dir.approval.flac,
   mp3  |-> IF dir.outputs[0].mp3 # NoAudio THEN dir.outputs[0].mp3 ELSE dir.approval.mp3]

\* The identity a marker names: the fallback normalizes under its own.
KeyOf(job, j) == IF job.type = "transcribe" THEN -j ELSE j

\* An interrupted upload has no job yet, a sermon at rest its recording, and a
\* marker names a job that was, the last one only if its pair is complete.
ASSUME CoherentUpgrades ==
  \A u \in Upgrades :
    LET last   == Len(u.jobs)
        marker == u.home.outputs[0].marker
    IN  /\ last <= MaxJobs
        /\ u.home.exists \/ u.home = NoDir
        /\ marker \in (-last)..last
        /\ last > 0 /\ marker = KeyOf(u.jobs[last], last) =>
             LET whole == [by |-> marker, cut |-> 0]
             IN  Gathered(u.home) = [flac |-> whole, mp3 |-> whole]
        /\ IF u.row.stage \in {"none", "upload", "deleted"}
           THEN u.jobs = << >> /\ u.home.approval = NoApproval
           ELSE Recorded(u.home)

\* The generation of job j holds what the job asks for: an export what was
\* playing, an edit the whole recording cut as in its draft.
Made(job, j, dir) ==
  LET own  == dir.outputs[j]
      edit == [by |-> dir.outputs[0].flac.by, cut |-> job.draft]
  IN  IF job.type = "export"
      THEN job.asked # NoAudio /\ own.mp3 = job.asked
      ELSE dir.outputs[0].flac # NoAudio /\ own.flac = edit /\ own.mp3 = edit

\* The pair is published FLAC first and never cut; a draft, and the jobs that
\* need one, come after it; a normalization that is not over has its original,
\* or its marker.
PairInOrder(r, js, dir) ==
  LET last  == js[Len(js)]
      asksFor(types) == Len(js) > 0 /\ last.type \in types
  IN  /\ dir.original # "partial"
      /\ \A files \in {dir.outputs[0], dir.approval} : files.flac.cut = 0 /\ files.mp3.cut = 0
      /\ Gathered(dir).mp3 # NoAudio => Gathered(dir).flac # NoAudio
      /\ r.draft > 0 \/ asksFor({"prepare_edit", "render_edit"}) => Gathered(dir).mp3 # NoAudio
      /\ asksFor({"normalize"}) /\ last.state # "done" =>
           \/ dir.original = "whole" \/ dir.approval.original
           \/ dir.outputs[0].marker = Len(js)

\* The edit that plays is whole, and that of the applied draft.
EditInOrder(r, js, dir) ==
  LET edit == dir.outputs[r.playback]
  IN  r.active =>
        /\ r.playback \in 1..Len(js) /\ edit.marker = r.playback
        /\ edit.flac = edit.mp3 /\ edit.mp3 # NoAudio /\ edit.mp3.cut = r.applied

\* A generation's marker vouches for what it holds, and a finished export holds
\* what was asked for.
GenerationsInOrder(js, dir) ==
  /\ \A j \in 1..MaxJobs : dir.outputs[j].marker = j =>
       /\ j <= Len(js)
       /\ j = Len(js) /\ js[j].type \in {"render_edit", "export"} => Made(js[j], j, dir)
  /\ \A j \in 1..Len(js) :
       js[j].type = "export" /\ js[j].state = "done" => Made(js[j], j, dir)

\* The file that the current export copies is there, as it was when it played.
SourceInOrder(js, dir) ==
  LET last == js[Len(js)]
  IN  Len(js) > 0 /\ last.type = "export" =>
        /\ last.source < Len(js)
        /\ last.asked # NoAudio /\ dir.outputs[last.source].mp3 = last.asked

\* So this version leaves the files of a sermon, and so did the ones that had
\* no edits and no exports yet; of a sermon that is gone nothing is left.
ASSUME FilesAssumption ==
  \A u \in Upgrades :
    /\ u.row.stage = "deleted" => u.home \in {NoDir, EmptyDir}
    /\ u.row.stage \notin {"none", "upload", "deleted"} =>
         /\ PairInOrder(u.row, u.jobs, u.home) /\ EditInOrder(u.row, u.jobs, u.home)
         /\ GenerationsInOrder(u.jobs, u.home) /\ SourceInOrder(u.jobs, u.home)

NoHandler == [pc |-> "none", job |-> 0]

Init ==
  /\ \E u \in Upgrades : row = u.row /\ jobs = u.jobs /\ home = u.home
  /\ staged = NoDir
  /\ handler = NoHandler
  /\ upload = "none" /\ deletion = "none"
  /\ process = "down"
  /\ cutShort = FALSE
  /\ crashes = 0

\* DeleteSermon renames the directory inside its transaction, and the store has
\* one connection: no other transaction begins before that one ends.
DbFree == deletion \notin {"begun", "staged"}

-----------------------------------------------------------------------------
(* The process: main.go, ReconcileTimelineArtifacts *)

RecoverRunningJobs ==
  /\ process = "down"
  /\ process' = "opened"
  /\ jobs' = [j \in DOMAIN jobs |-> IF jobs[j].state = "running"
                                    THEN [jobs[j] EXCEPT !.state = "queued"]
                                    ELSE jobs[j]]
  /\ row' = IF row.status = "running" /\ row.stage # "upload"
            THEN [row EXCEPT !.status = "pending"] ELSE row
  /\ UNCHANGED <<handler, upload, deletion, home, staged, cutShort, crashes>>

\* The rows go first, in one transaction, then the directory of each.
DiscardInterruptedUploads ==
  /\ process = "opened"
  /\ IF row.stage = "upload"
     THEN row' = DeletedRow /\ process' = "cleaning"
     ELSE UNCHANGED row /\ process' = "restoring"
  /\ UNCHANGED <<jobs, handler, upload, deletion, home, staged, cutShort, crashes>>

RemoveInterruptedUpload ==
  /\ process = "cleaning"
  /\ process' = "restoring"
  /\ \/ home' = NoDir /\ UNCHANGED cutShort
     \/ cutShort' = TRUE /\ UNCHANGED home
  /\ UNCHANGED <<row, jobs, handler, upload, deletion, staged, crashes>>

\* reconcileApprovalStaging moves one entry back; a file in its place stops it.
RestoreOne ==
  /\ process = "restoring"
  /\ Exists
  /\ \/ /\ home.approval.original /\ home.original = "none"
        /\ home' = [home EXCEPT !.original = "whole", !.approval.original = FALSE]
     \/ /\ home.approval.flac # NoAudio /\ home.outputs[0].flac = NoAudio
        /\ home' = [Put(home, 0, [home.outputs[0] EXCEPT !.flac = home.approval.flac])
                      EXCEPT !.approval.flac = NoAudio]
     \/ /\ home.approval.mp3 # NoAudio /\ home.outputs[0].mp3 = NoAudio
        /\ home' = [Put(home, 0, [home.outputs[0] EXCEPT !.mp3 = home.approval.mp3])
                      EXCEPT !.approval.mp3 = NoAudio]
  /\ UNCHANGED <<row, jobs, handler, upload, deletion, staged, process, cutShort, crashes>>

Serve ==
  /\ process = "restoring"
  /\ Exists => home.approval = NoApproval
  /\ process' = "up"
  /\ UNCHANGED <<row, jobs, handler, upload, deletion, home, staged, cutShort, crashes>>

\* An open transaction is rolled back; the file system stays as it is.
Crash ==
  /\ process # "down"
  /\ crashes < MaxCrashes
  /\ crashes' = crashes + 1
  /\ process' = "down"
  /\ handler' = NoHandler /\ upload' = "none" /\ deletion' = "none"
  /\ cutShort' = (cutShort \/ deletion \in {"staged", "restoring", "committed"}
                           \/ upload \in {"made", "dropped"} \/ process = "cleaning")
  /\ UNCHANGED <<row, jobs, home, staged>>

-----------------------------------------------------------------------------
(* Upload: handleUploadSermon, abandonUpload *)

Serving == process = "up"

UploadMkdir ==
  /\ Serving
  /\ upload = "none" /\ row.stage = "none" /\ ~home.exists
  /\ upload' = "made"
  /\ home' = EmptyDir
  /\ UNCHANGED <<row, jobs, handler, deletion, staged, process, cutShort, crashes>>

\* CreateSermon and StartUpload; if the row is refused the directory goes.
UploadCreate ==
  /\ upload = "made"
  /\ DbFree
  /\ \/ /\ row' = [NoRow EXCEPT !.stage = "upload", !.status = "running"]
        /\ upload' = "row"
        /\ UNCHANGED home
     \/ /\ upload' = "none"
        /\ home' = NoDir
        /\ UNCHANGED row
  /\ UNCHANGED <<jobs, handler, deletion, staged, process, cutShort, crashes>>

\* os.Create: the open file is written wherever its directory is renamed to.
UploadOpen ==
  /\ upload = "row"
  /\ IF home.exists
     THEN upload' = "body" /\ home' = [home EXCEPT !.original = "partial"]
     ELSE upload' = "abandoned" /\ UNCHANGED home
  /\ UNCHANGED <<row, jobs, handler, deletion, staged, process, cutShort, crashes>>

\* The body ends, or breaks off.
UploadBody ==
  /\ upload = "body"
  /\ \/ /\ upload' = "whole"
        /\ home' = [home EXCEPT !.original = IF @ = "partial" THEN "whole" ELSE @]
        /\ staged' = [staged EXCEPT !.original = IF @ = "partial" THEN "whole" ELSE @]
     \/ /\ upload' = "abandoned"
        /\ UNCHANGED <<home, staged>>
  /\ UNCHANGED <<row, jobs, handler, deletion, process, cutShort, crashes>>

\* The row's next stage and its first job; refused when the row is gone.
CompleteUpload ==
  /\ upload = "whole"
  /\ DbFree
  /\ \/ /\ row.stage = "upload"
        /\ Current < MaxJobs
        /\ row' = [row EXCEPT !.stage = "normalization", !.status = "pending"]
        /\ jobs' = Append(jobs, NewJob("normalize"))
        /\ upload' = "none"
     \/ /\ upload' = "abandoned"
        /\ UNCHANGED <<row, jobs>>
  /\ UNCHANGED <<handler, deletion, home, staged, process, cutShort, crashes>>

\* abandonUpload: the row, and only when that is certainly gone the directory.
LeavesTheFiles == home                                           \* mutant
WithoutAbandoned == NoDir

AbandonRow ==
  /\ upload = "abandoned"
  /\ DbFree
  /\ \/ /\ row' = IF Exists THEN DeletedRow ELSE row
        /\ upload' = "dropped"
        /\ UNCHANGED cutShort
     \/ /\ upload' = "none"               \* the row cannot be deleted
        /\ cutShort' = TRUE
        /\ UNCHANGED row
  /\ UNCHANGED <<jobs, handler, deletion, home, staged, process, crashes>>

AbandonFiles ==
  /\ upload = "dropped"
  /\ upload' = "none"
  /\ \/ home' = WithoutAbandoned /\ UNCHANGED cutShort
     \/ cutShort' = TRUE /\ UNCHANGED home
  /\ UNCHANGED <<row, jobs, handler, deletion, staged, process, crashes>>

-----------------------------------------------------------------------------
(* Deletion: handleDeleteSermon inside and around DeleteSermon *)

DeleteBegin ==
  /\ Serving
  /\ deletion = "none"
  /\ Exists
  /\ deletion' = "begun"
  /\ UNCHANGED <<row, jobs, handler, upload, home, staged, process, cutShort, crashes>>

\* The callback's rename; a directory that is missing, or one in its way, fails
\* the transaction.
DeleteStage ==
  /\ deletion = "begun"
  /\ IF home.exists /\ ~staged.exists
     THEN staged' = home /\ home' = NoDir /\ deletion' = "staged"
     ELSE UNCHANGED <<home, staged>> /\ deletion' = "none"
  /\ UNCHANGED <<row, jobs, handler, upload, process, cutShort, crashes>>

DeleteCommit ==
  /\ deletion = "staged"
  /\ \/ row' = DeletedRow /\ deletion' = "committed"
     \/ UNCHANGED row /\ deletion' = "restoring"
  /\ UNCHANGED <<jobs, handler, upload, home, staged, process, cutShort, crashes>>

\* The rename back fails when a handler has made the directory anew.
DeleteRestore ==
  /\ deletion = "restoring"
  /\ deletion' = "none"
  /\ IF home.exists
     THEN cutShort' = TRUE /\ UNCHANGED <<home, staged>>
     ELSE home' = staged /\ staged' = NoDir /\ cutShort' = (cutShort \/ ~Exists)
  /\ UNCHANGED <<row, jobs, handler, upload, process, crashes>>

\* RemoveAll; a failure leaves the staged files for manual cleanup.
DeleteFiles ==
  /\ deletion = "committed"
  /\ deletion' = "none"
  /\ staged' = NoDir \/ UNCHANGED staged
  /\ UNCHANGED <<row, jobs, handler, upload, home, process, cutShort, crashes>>

-----------------------------------------------------------------------------
(* The worker: a claim, and the report that ends the run *)

ClaimNextJob ==
  /\ Serving
  /\ handler.pc = "none" /\ Current > 0 /\ Live /\ jobs[Current].state = "queued"
  /\ DbFree
  /\ jobs' = [jobs EXCEPT ![Current].state = "running"]
  /\ row' = [row EXCEPT !.stage = StageOf(jobs[Current].type), !.status = "running"]
  /\ handler' = [pc |-> "run", job |-> Current]
  /\ UNCHANGED <<upload, deletion, home, staged, process, cutShort, crashes>>

Job  == jobs[handler.job]
Goes(pc) == handler' = [handler EXCEPT !.pc = pc]

\* CompleteJob with the next job its type asks for.  Metadata touches no file;
\* the stage is done as far as the directory is concerned.
CompleteJob ==
  LET next == CASE Job.type = "normalize"                      -> "transcribe"
                [] Job.type = "transcribe" /\ row.draft = 0    -> "prepare_edit"
                [] OTHER                                       -> "none"
      stage == CASE Job.type = "prepare_edit" -> "editing"
                 [] Job.type = "export"       -> Job.return
                 [] OTHER                     -> "metadata"
      done == [jobs EXCEPT ![handler.job].state = "done"]
  IN  /\ handler.pc = "returned"
      /\ DbFree
      /\ handler' = NoHandler
      /\ \/ /\ ~Exists
            /\ UNCHANGED <<row, jobs>>
         \/ /\ Exists
            /\ next = "none"
            /\ jobs' = done
            /\ row' = [row EXCEPT !.stage = stage, !.status = "done"]
         \/ /\ Exists
            /\ next # "none" /\ Current < MaxJobs
            /\ jobs' = Append(done, NewJob(next))
            /\ row' = [row EXCEPT !.stage = StageOf(next), !.status = "pending"]
      /\ UNCHANGED <<upload, deletion, home, staged, process, cutShort, crashes>>

\* Any step of a run may fail: the deferred removals of its temporary files,
\* then the attempt is repeated or was the last.
TargetShared == IF Job.type = "render_edit" THEN 1 ELSE 0        \* mutant
Target == IF Job.type \in {"render_edit", "export"} THEN handler.job ELSE 0

HandlerFails ==
  /\ handler.pc # "none"
  /\ DbFree
  /\ handler' = NoHandler
  /\ home' = Put(home, Target, [home.outputs[Target] EXCEPT !.flacTemp = NoAudio,
                                                            !.mp3Temp = NoAudio])
  /\ \/ /\ ~Exists
        /\ UNCHANGED <<row, jobs>>
     \/ /\ Exists
        /\ jobs' = [jobs EXCEPT ![handler.job].state = "queued"]
        /\ UNCHANGED row
     \/ /\ Exists
        /\ jobs' = [jobs EXCEPT ![handler.job].state = "failed"]
        /\ row' = [row EXCEPT !.status = "failed"]
  /\ UNCHANGED <<upload, deletion, staged, process, cutShort, crashes>>

-----------------------------------------------------------------------------
(* CommitArtifacts and HasCommittedArtifacts: marker.go *)

Key == KeyOf(Job, handler.job)

CommittedByFiles(dir) ==                                         \* mutant
  /\ dir.outputs[Target].mp3 # NoAudio
  /\ Job.type = "export" \/ dir.outputs[Target].flac # NoAudio
HasCommittedArtifacts(dir) ==
  /\ dir.outputs[Target].marker = Key
  /\ dir.outputs[Target].mp3 # NoAudio
  /\ Job.type = "export" \/ dir.outputs[Target].flac # NoAudio

\* Both encodings are over and the temporary files valid.
EncodedOverOriginal(audio) ==                                    \* mutant
  home' = [Put(home, Target, [home.outputs[Target] EXCEPT !.flacTemp = audio, !.mp3Temp = audio])
             EXCEPT !.original = "none"]
Encoded(audio) ==
  home' = Put(home, Target, [home.outputs[Target] EXCEPT
            !.mp3Temp = audio, !.flacTemp = IF Job.type = "export" THEN NoAudio ELSE audio])

\* The rename of a temporary file that went away with its directory fails.
PublishFlac ==
  /\ handler.pc = "encoded" /\ Job.type # "export"
  /\ home.outputs[Target].flacTemp # NoAudio
  /\ home' = Put(home, Target, [home.outputs[Target] EXCEPT
                !.flac = home.outputs[Target].flacTemp, !.flacTemp = NoAudio])
  /\ Goes("half")
  /\ UNCHANGED <<row, jobs, upload, deletion, staged, process, cutShort, crashes>>

Renamed(files) == [files EXCEPT !.mp3 = files.mp3Temp, !.mp3Temp = NoAudio]
RenamedDropsOriginal(dir) ==                                     \* mutant
  [Put(dir, Target, Renamed(dir.outputs[Target])) EXCEPT !.original = "none"]
RenamedMp3(dir) == Put(dir, Target, Renamed(dir.outputs[Target]))

PublishMp3 ==
  /\ handler.pc \in {"encoded", "half"}
  /\ handler.pc = "encoded" <=> Job.type = "export"
  /\ home.outputs[Target].mp3Temp # NoAudio
  /\ home' = RenamedMp3(home)
  /\ Goes("published")
  /\ UNCHANGED <<row, jobs, upload, deletion, staged, process, cutShort, crashes>>

WriteMarker ==
  /\ handler.pc = "published"
  /\ home.exists
  /\ home' = Put(home, Target, [home.outputs[Target] EXCEPT !.marker = Key])
  /\ Goes("committed")
  /\ UNCHANGED <<row, jobs, upload, deletion, staged, process, cutShort, crashes>>

-----------------------------------------------------------------------------
(* Normalization, of its own and as the fallback of transcription *)

NeedsFallback == home.outputs[0].mp3 = NoAudio

Normalize ==
  /\ handler.pc = "run"
  /\ Job.type = "normalize" \/ (Job.type = "transcribe" /\ NeedsFallback)
  /\ IF HasCommittedArtifacts(home)
     THEN Goes("committed") /\ UNCHANGED home
     ELSE /\ home.original = "whole"
          /\ Encoded([by |-> Key, cut |-> 0])
          /\ Goes("encoded")
  /\ UNCHANGED <<row, jobs, upload, deletion, staged, process, cutShort, crashes>>

SetNormalizationAdjustments ==
  /\ handler.pc = "committed" /\ Job.type \in {"normalize", "transcribe"}
  /\ DbFree /\ Exists
  /\ row' = [row EXCEPT !.settings = Job.settings]
  /\ Goes("adjusted")
  /\ UNCHANGED <<jobs, upload, deletion, home, staged, process, cutShort, crashes>>

\* A directory that is gone counts as one without an original.
RemoveOriginal ==
  /\ handler.pc = "adjusted"
  /\ home' = [home EXCEPT !.original = "none"]
  /\ Goes(IF Job.type = "normalize" THEN "returned" ELSE "listen")
  /\ UNCHANGED <<row, jobs, upload, deletion, staged, process, cutShort, crashes>>

\* The MP3 is sent, or a smaller one made of the FLAC; the text is stored.
Transcribe ==
  /\ handler.pc = "listen" \/ (handler.pc = "run" /\ ~NeedsFallback)
  /\ Job.type = "transcribe"
  /\ home.outputs[0].mp3 # NoAudio
  /\ DbFree /\ Exists
  /\ Goes("returned")
  /\ UNCHANGED <<row, jobs, upload, deletion, home, staged, process, cutShort, crashes>>

-----------------------------------------------------------------------------
(* Editing and exports: EditingHandler and ExportHandler *)

\* The duration of the draft is that of the FLAC.
PrepareEdit ==
  /\ handler.pc = "run" /\ Job.type = "prepare_edit"
  /\ home.outputs[0].flac # NoAudio
  /\ DbFree /\ Exists /\ row.draft < MaxDrafts
  /\ row' = [row EXCEPT !.draft = @ + 1]
  /\ Goes("returned")
  /\ UNCHANGED <<jobs, upload, deletion, home, staged, process, cutShort, crashes>>

\* MkdirAll makes the sermon's directory too when it is missing.
MakeGeneration ==
  /\ handler.pc = "run"
  /\ Job.type = "export" \/ (Job.type = "render_edit" /\ ~Job.skip)
  /\ home' = [home EXCEPT !.exists = TRUE]
  /\ Goes("made")
  /\ UNCHANGED <<row, jobs, upload, deletion, staged, process, cutShort, crashes>>

Render ==
  /\ handler.pc = "made" /\ Job.type = "render_edit"
  /\ IF HasCommittedArtifacts(home)
     THEN Goes("committed") /\ UNCHANGED home
     ELSE /\ home.outputs[0].flac # NoAudio
          /\ Encoded([by |-> home.outputs[0].flac.by, cut |-> Job.draft])
          /\ Goes("encoded")
  /\ UNCHANGED <<row, jobs, upload, deletion, staged, process, cutShort, crashes>>

\* The packets of the pinned source are copied.
ExportCopy ==
  /\ handler.pc = "made" /\ Job.type = "export"
  /\ IF HasCommittedArtifacts(home)
     THEN Goes("committed") /\ UNCHANGED home
     ELSE /\ home.outputs[Job.source].mp3 # NoAudio
          /\ Encoded(home.outputs[Job.source].mp3)
          /\ Goes("encoded")
  /\ UNCHANGED <<row, jobs, upload, deletion, staged, process, cutShort, crashes>>

\* An UPDATE without a row to match is no error.
CommitEditing ==
  LET skips == handler.pc = "run" /\ Job.skip
  IN  /\ handler.pc = "committed" \/ skips
      /\ Job.type = "render_edit"
      /\ DbFree
      /\ row' = IF ~Exists THEN row
                ELSE [row EXCEPT !.playback = IF skips THEN 0 ELSE handler.job,
                                 !.active = ~skips, !.applied = Job.draft]
      /\ Goes("returned")
      /\ UNCHANGED <<jobs, upload, deletion, home, staged, process, cutShort, crashes>>

ExportEnds ==
  /\ handler.pc = "committed" /\ Job.type = "export"
  /\ Goes("returned")
  /\ UNCHANGED <<row, jobs, upload, deletion, home, staged, process, cutShort, crashes>>

-----------------------------------------------------------------------------
(* Requests for more processing *)

Enqueue(job) ==
  /\ Serving /\ DbFree
  /\ Current < MaxJobs
  /\ jobs' = Append(jobs, job)
  /\ UNCHANGED <<handler, upload, deletion, home, staged, process, cutShort, crashes>>

Adjustments == {"more-gate", "less-gate", "more-volume", "less-volume"}

Adjusted(settings, adjustment) ==
  CASE adjustment = "more-gate"   -> [settings EXCEPT !.gate = @ + 1]
    [] adjustment = "less-gate"   -> [settings EXCEPT !.gate = @ - 1]
    [] adjustment = "more-volume" -> [settings EXCEPT !.volume = @ + 1]
    [] OTHER                      -> [settings EXCEPT !.volume = @ - 1]

UnlimitedAdjustment(settings, adjustment) ==                      \* mutant
  {Adjusted(settings, adjustment)}
\* AdjustNormalization: out of the limits there is no such setting.
AdjustNormalization(settings, adjustment) ==
  {Adjusted(settings, adjustment)} \cap Settings

\* handleRerunNormalization: only while the original is there.
RerunNormalization(adjustment) ==
  /\ row.stage = "normalization" /\ row.status = "done"
  /\ home.original # "none"
  /\ \E settings \in AdjustNormalization(row.settings, adjustment) :
       Enqueue([NewJob("normalize") EXCEPT !.settings = settings])
  /\ row' = [row EXCEPT !.status = "pending"]

\* The rerun of a settled sermon, and the review that accepts a normalization.
RerunTranscription ==
  /\ Settled
  /\ Enqueue(NewJob("transcribe"))
  /\ row' = [row EXCEPT !.stage = "transcription", !.status = "pending"]

RetryFailedJob ==
  /\ Serving /\ DbFree
  /\ row.status = "failed" /\ Current > 0
  /\ jobs[Current].state = "failed" /\ StageOf(jobs[Current].type) = row.stage
  /\ jobs' = [jobs EXCEPT ![Current].state = "queued"]
  /\ row' = [row EXCEPT !.status = "pending"]
  /\ UNCHANGED <<handler, upload, deletion, home, staged, process, cutShort, crashes>>

MayEdit ==
  /\ row.draft > 0
  /\ \/ row.stage = "editing" /\ row.status = "done"
     \/ row.stage = "metadata" /\ row.status \in {"done", "failed"}

SaveDraft ==
  /\ Serving /\ DbFree /\ MayEdit
  /\ row.draft < MaxDrafts
  /\ row' = [row EXCEPT !.draft = @ + 1]
  /\ UNCHANGED <<jobs, handler, upload, deletion, home, staged, process, cutShort, crashes>>

ApplyDraft(skip) ==
  /\ MayEdit
  /\ Enqueue([NewJob("render_edit") EXCEPT !.draft = row.draft, !.skip = skip])
  /\ row' = [row EXCEPT !.stage = "editing", !.status = "pending"]

\* EditingPlayback and its fallback: the committed edit, or the whole recording.
CommittedPlayback == IF row.active THEN row.playback ELSE 0
Playing(dir) == IF dir.outputs[CommittedPlayback].mp3 # NoAudio
                THEN dir.outputs[CommittedPlayback].mp3
                ELSE dir.outputs[0].mp3

PinsTheRecording == 0                                            \* mutant
PinnedSource == CommittedPlayback

\* A deletion that was refused but has not moved the files back yet hides them;
\* what it hides is what the client played.
EnqueueExport ==
  /\ MayEdit
  /\ Enqueue([NewJob("export") EXCEPT !.source = PinnedSource, !.return = row.stage,
                 !.asked = Playing(IF home.exists THEN home ELSE staged)])
  /\ row' = [row EXCEPT !.stage = "export", !.status = "pending"]

-----------------------------------------------------------------------------
Start   == RecoverRunningJobs \/ DiscardInterruptedUploads \/ RemoveInterruptedUpload
             \/ RestoreOne \/ Serve \/ Crash
Uploads == UploadMkdir \/ UploadCreate \/ UploadOpen \/ UploadBody \/ CompleteUpload
             \/ AbandonRow \/ AbandonFiles
Deletes == DeleteBegin \/ DeleteStage \/ DeleteCommit \/ DeleteRestore \/ DeleteFiles
Commits == PublishFlac \/ PublishMp3 \/ WriteMarker
Normalizes == Normalize \/ SetNormalizationAdjustments \/ RemoveOriginal \/ Transcribe
Edits   == PrepareEdit \/ MakeGeneration \/ Render \/ CommitEditing
Exports == ExportCopy \/ ExportEnds
Works   == ClaimNextJob \/ CompleteJob \/ HandlerFails \/ Commits \/ Normalizes
             \/ Edits \/ Exports
Requests == RerunTranscription \/ RetryFailedJob \/ SaveDraft \/ EnqueueExport
              \/ (\E adjustment \in Adjustments : RerunNormalization(adjustment))
              \/ (\E skip \in BOOLEAN : ApplyDraft(skip))

Next == Start \/ Uploads \/ Deletes \/ Works \/ Requests

Spec == Init /\ [][Next]_vars

-----------------------------------------------------------------------------
(* Properties *)

\* Types of all variables (store.Sermon, store.Job, the files of uploads/<id>).
TypeOK ==
  /\ row \in Rows
  /\ jobs \in Seq(Jobs) /\ Len(jobs) <= MaxJobs
  /\ handler \in [pc : {"none", "run", "made", "encoded", "half", "published", "committed",
                        "adjusted", "listen", "returned"}, job : 0..MaxJobs]
  /\ upload \in {"none", "made", "row", "body", "whole", "abandoned", "dropped"}
  /\ deletion \in {"none", "begun", "staged", "restoring", "committed"}
  /\ home \in Directories /\ staged \in Directories
  /\ process \in {"down", "opened", "cleaning", "restoring", "up"}
  /\ cutShort \in BOOLEAN
  /\ crashes \in 0..MaxCrashes

\* A deletion may have moved the files; they are searched for in both places.
Places == {home, staged}

\* What CommitArtifacts and HasCommittedArtifacts are for (marker.go:25-27): a
\* run that goes on as committed has published all its files, each of its own
\* encoding, whatever crashes and earlier runs left behind in the same place.
RecognisedIsWhole ==
  handler.pc \in {"committed", "adjusted"} /\ Exists =>
    \E dir \in Places :
      LET product == CASE Job.type = "export"      -> Job.asked
                       [] Job.type = "render_edit" ->
                            [by |-> dir.outputs[0].flac.by, cut |-> Job.draft]
                       [] OTHER                    -> [by |-> Key, cut |-> 0]
      IN  /\ product # NoAudio
          /\ dir.outputs[Target].mp3 = product
          /\ Job.type = "export" \/ dir.outputs[Target].flac = product

\* The comment in NormalizeHandler.Run (normalize.go:183-184), and the reason
\* for approval staging: a live sermon always has its recording, uploaded or
\* normalized in both forms by one run.
AudioIsNeverLost ==
  Live => \E dir \in Places : Recorded(dir)

\* Any run of the current job, the first or a repeated one, finds the input it
\* needs or its own committed output, so a retry can succeed: the handlers
\* remove nothing that a later run of theirs or of a follow-up asks for.
InputsOfJobExist ==
  LET job  == jobs[Current]
      pair == home.outputs[0]
      own  == home.outputs[Current]
      mayRun == process = "up" /\ Live /\ deletion = "none" /\ ~cutShort
                   /\ Current > 0 /\ job.state # "done"
  IN  mayRun =>
        CASE job.type = "normalize"    -> home.original = "whole" \/ pair.marker = Current
          [] job.type = "transcribe"   -> home.original = "whole" \/ pair.mp3 # NoAudio
          [] job.type = "prepare_edit" -> pair.flac # NoAudio
          [] job.type = "render_edit"  -> pair.flac # NoAudio
          [] OTHER                     -> home.outputs[job.source].mp3 # NoAudio

\* The comment in EditingHandler.Run (processing/editing.go:245-246): the edit
\* that plays is the whole committed generation of the applied draft, across
\* renders that crash or fail; without an edit the whole recording plays.
PlaysWhatIsApplied ==
  Live /\ home.exists /\ deletion = "none" /\ ~cutShort =>
    IF row.active
    THEN LET edit == home.outputs[row.playback]
         IN  edit.marker = row.playback /\ edit.flac = edit.mp3
             /\ edit.mp3 # NoAudio /\ edit.mp3.cut = row.applied
    ELSE /\ Playing(home).cut = 0
         /\ Playing(home) # NoAudio \/ process # "up" \/ home.original = "whole"

\* ExportSnapshot (store/export.go:28-39): what a finished export offers for
\* download is what was playing when it was requested, however late or often
\* it ran and whatever was applied since.
ExportIsWhatWasPlaying ==
  \A j \in DOMAIN jobs :
    jobs[j].type = "export" /\ jobs[j].state = "done" /\ Exists /\ deletion = "none" /\ ~cutShort
      => jobs[j].asked # NoAudio /\ home.outputs[j].mp3 = jobs[j].asked

\* handleDeleteSermon, abandonUpload and the start-up clean-up: of a sermon that
\* is gone no audio stays in, or comes back to, its directory, although uploads
\* and handlers go on while it is deleted.
DeletedLeavesNoAudio ==
  row.stage = "deleted" /\ upload = "none" /\ deletion = "none" /\ process = "up" /\ ~cutShort
    => ~HasAudio(home)

\* The comments in handleDeleteSermon (server.go:628-629, 652-653): unless a
\* deletion is under way a live row has its files in place.
LiveRowKeepsItsFiles ==
  Live /\ deletion = "none" /\ process = "up" => HasAudio(home)

=============================================================================
