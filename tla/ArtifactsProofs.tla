---------------------------- MODULE ArtifactsProofs ---------------------------
(***************************************************************************)
(* Types, and the safety of the recording, for any number of jobs, drafts  *)
(* and crashes.                                                            *)
(*                                                                         *)
(* That RemoveOriginal may remove the upload rests on how far the run has  *)
(* come: PhaseOK says which files are there after each step of the commit. *)
(* A repeated run skips those steps when it finds its marker, so MarkerOK  *)
(* says when a marker vouches for the pair; and both must hold wherever a  *)
(* deletion has moved the directory meanwhile, which DeletionOK confines   *)
(* to one of two places.  Every action has a lemma that it keeps all parts *)
(* together; TableStepKeeps covers the ones that only touch the tables,    *)
(* AdvanceKeeps the steps of a run that move no file, and PutKeeps those   *)
(* that write one.                                                         *)
(***************************************************************************)
EXTENDS Artifacts, TLAPS

PairTypes == {"normalize", "transcribe"}

\* A directory that does not exist holds nothing.
HoldsNothing(dir) == dir.exists \/ dir = NoDir

\* A marker names a job that was; it names the current job only when the pair is
\* that job's.
MarkerOK(dir, js) ==
  LET last   == Len(js)
      marker == dir.outputs[0].marker
      whole  == [by |-> marker, cut |-> 0]
  IN  /\ marker \in (-last)..last
      /\ last > 0 /\ marker = KeyOf(js[last], last) =>
           Gathered(dir) = [flac |-> whole, mp3 |-> whole]

Pairing == handler.pc \in {"encoded", "half", "published", "committed", "adjusted"}

\* How far the run that normalizes has come.
PhaseOK(dir) ==
  LET pair  == dir.outputs[0]
      audio == [by |-> Key, cut |-> 0]
  IN  /\ handler.pc \in {"encoded", "half", "published"} =>
           dir.original = "whole" /\ pair.marker # Key
      /\ handler.pc = "encoded" => pair.flacTemp = audio /\ pair.mp3Temp = audio
      /\ handler.pc = "half" => pair.flac = audio /\ pair.mp3Temp = audio
      /\ handler.pc \in {"published", "committed", "adjusted"} =>
           pair.flac = audio /\ pair.mp3 = audio

ProcessOK ==
  /\ process # "up" => handler = NoHandler /\ upload = "none" /\ deletion = "none"
  /\ process = "cleaning" => row.stage = "deleted"
  /\ process = "up" \/ ~Live => home.approval = NoApproval

UploadOK ==
  /\ row.stage \in {"none", "upload"} \/ upload # "none" => jobs = << >> /\ handler = NoHandler
  /\ upload # "none" => ~Live
  /\ upload = "made" => row.stage = "none"
  /\ row.stage = "none" => deletion = "none" /\ staged = NoDir
  /\ upload = "body" /\ row.stage = "upload" => \E dir \in Places : dir.original = "partial"
  /\ upload = "whole" /\ row.stage = "upload" => \E dir \in Places : dir.original = "whole"

DeletionOK ==
  /\ deletion = "committed" => row.stage = "deleted"
  /\ staged.approval = NoApproval
  /\ staged.exists => /\ home \in {NoDir, EmptyDir}
                      /\ upload # "none" \/ Pairing => home = NoDir

HandlerOK ==
  handler.pc # "none" =>
    /\ handler.job = Current /\ Current > 0
    /\ Exists => row.status = "running"
    /\ Job.type = "prepare_edit" => ~Pairing
    /\ handler.pc = "adjusted" => Job.type \in PairTypes
    /\ Job.type \in PairTypes => \A dir \in Places : dir = NoDir \/ PhaseOK(dir)

DirectoriesOK == \A dir \in Places : HoldsNothing(dir) /\ MarkerOK(dir, jobs)

IInv == /\ TypeOK /\ ProcessOK /\ UploadOK /\ DeletionOK /\ HandlerOK /\ DirectoriesOK
        /\ AudioIsNeverLost

-----------------------------------------------------------------------------
(* Operators *)

\* Values of the constants that the types mention.
LEMMA Defaults ==
  /\ NoAudio \in Audio /\ NoOutputs \in Outputs
  /\ NoDir \in Directories /\ EmptyDir \in Directories
  /\ NoAdjusting \in Settings
  /\ NoRow \in Rows /\ DeletedRow \in Rows
<1>1. NoAudio \in Audio
  BY BoundsAssumption DEF NoAudio, Audio
<1>2. NoOutputs \in Outputs
  BY <1>1, BoundsAssumption DEF NoOutputs, Outputs
<1>3. NoDir \in Directories
  BY <1>1, <1>2, BoundsAssumption DEF NoDir, Directories, NoApproval
<1>4. EmptyDir \in Directories
  BY <1>3 DEF EmptyDir, Directories
<1>5. NoAdjusting \in Settings
  BY LimitsAssumption DEF NoAdjusting, Settings
<1>6. NoRow \in Rows
  BY <1>5, BoundsAssumption DEF NoRow, Rows, Stages
<1>7. DeletedRow \in Rows
  BY <1>6 DEF DeletedRow, Rows, Stages
<1> QED BY <1>1, <1>2, <1>3, <1>4, <1>5, <1>6, <1>7

\* A new job of any type.
LEMMA NewJobType ==
  ASSUME NEW type \in JobTypes
  PROVE  NewJob(type) \in Jobs /\ NewJob(type).type = type
BY Defaults, BoundsAssumption DEF NewJob, Jobs

\* Writing the files of one output leaves the others and the rest alone.
LEMMA PutFiles ==
  ASSUME NEW dir \in Directories, NEW t \in 0..MaxJobs, NEW files \in Outputs
  PROVE  /\ Put(dir, t, files) \in Directories
         /\ Put(dir, t, files).exists = dir.exists
         /\ Put(dir, t, files).original = dir.original
         /\ Put(dir, t, files).approval = dir.approval
         /\ Put(dir, t, files).outputs[t] = files
         /\ \A u \in 0..MaxJobs : u # t => Put(dir, t, files).outputs[u] = dir.outputs[u]
BY DEF Put, Directories

\* A directory that is missing or empty holds no file.
LEMMA EmptyFacts ==
  /\ NoDir.exists = FALSE /\ EmptyDir.exists = TRUE
  /\ \A dir \in {NoDir, EmptyDir} :
       /\ dir.original = "none" /\ dir.approval = NoApproval
       /\ \A t \in 0..MaxJobs : dir.outputs[t] = NoOutputs
       /\ ~Recorded(dir)
  /\ NoOutputs.marker = 0
  /\ \A a : a \in {NoOutputs.flac, NoOutputs.mp3, NoOutputs.flacTemp, NoOutputs.mp3Temp}
              => a = NoAudio
BY BoundsAssumption DEF NoDir, EmptyDir, NoOutputs, Recorded, NoApproval

LEMMA KeyIsNumber ==
  ASSUME NEW job, NEW j \in Nat
  PROVE  KeyOf(job, j) \in Int /\ KeyOf(job, j) \in (-j)..j
         /\ (j > 0 => KeyOf(job, j) # 0 /\ KeyOf(job, j) \notin (-(j - 1))..(j - 1))
BY DEF KeyOf

\* Markers stay right when jobs change their state or one is appended.
LEMMA MarkersLater ==
  ASSUME NEW js \in Seq(Jobs), NEW new \in Seq(Jobs), NEW dir, MarkerOK(dir, js),
         \/ Len(new) = Len(js) /\ (Len(js) > 0 => new[Len(js)].type = js[Len(js)].type)
         \/ Len(new) = Len(js) + 1
  PROVE  MarkerOK(dir, new)
<1>1. CASE Len(new) = Len(js) /\ (Len(js) > 0 => new[Len(js)].type = js[Len(js)].type)
  BY <1>1 DEF MarkerOK, KeyOf
<1>2. CASE Len(new) = Len(js) + 1
  <2>1. KeyOf(new[Len(new)], Len(new)) \notin (-Len(js))..Len(js)
    BY <1>2, KeyIsNumber
  <2> QED
    BY <1>2, <2>1 DEF MarkerOK
<1> QED
  BY <1>1, <1>2

\* An empty directory is in order.
LEMMA EmptyInOrder ==
  ASSUME NEW js \in Seq(Jobs), NEW dir \in {NoDir, EmptyDir}
  PROVE  HoldsNothing(dir) /\ MarkerOK(dir, js)
<1>1. Len(js) > 0 => KeyOf(js[Len(js)], Len(js)) # 0
  BY KeyIsNumber
<1>2. dir.outputs[0].marker = 0
  BY EmptyFacts, BoundsAssumption
<1> QED
  BY <1>1, <1>2, EmptyFacts DEF HoldsNothing, MarkerOK

\* Neither a new state of one job nor of all changes what the jobs are.
LEMMA StateOfJobs ==
  ASSUME NEW js \in Seq(Jobs), NEW j \in DOMAIN js,
         NEW state \in {"queued", "running", "done", "failed"}
  PROVE  LET new == [js EXCEPT ![j].state = state]
         IN  new \in Seq(Jobs) /\ Len(new) = Len(js)
             /\ \A i \in DOMAIN js : new[i] \in Jobs /\ new[i].type = js[i].type
<1> DEFINE job == [js[j] EXCEPT !.state = state]
<1>1. js[j] \in Jobs
  OBVIOUS
<1>2. job \in Jobs /\ job.type = js[j].type
  BY <1>1 DEF Jobs
<1>3. [js EXCEPT ![j].state = state] = [js EXCEPT ![j] = job]
  OBVIOUS
<1> HIDE DEF job
<1>4. [js EXCEPT ![j] = job] \in Seq(Jobs) /\ Len([js EXCEPT ![j] = job]) = Len(js)
  BY <1>2
<1>5. \A i \in DOMAIN js : [js EXCEPT ![j] = job][i] = IF i = j THEN job ELSE js[i]
  OBVIOUS
<1> QED
  BY <1>2, <1>3, <1>4, <1>5

\* Appending a job.
LEMMA AppendedJob ==
  ASSUME NEW js \in Seq(Jobs), NEW job \in Jobs
  PROVE  LET new == Append(js, job)
         IN  new \in Seq(Jobs) /\ Len(new) = Len(js) + 1
             /\ new[Len(js) + 1] = job /\ \A i \in DOMAIN js : new[i] = js[i]
OBVIOUS

-----------------------------------------------------------------------------
(* The invariant, part by part *)

\* The types of what is no row, job or directory.
ControlOK ==
  /\ handler \in [pc : {"none", "run", "made", "encoded", "half", "published", "committed",
                        "adjusted", "listen", "returned"}, job : 0..MaxJobs]
  /\ upload \in {"none", "made", "row", "body", "whole", "abandoned", "dropped"}
  /\ deletion \in {"none", "begun", "staged", "restoring", "committed"}
  /\ process \in {"down", "opened", "cleaning", "restoring", "up"}
  /\ cutShort \in BOOLEAN
  /\ crashes \in 0..MaxCrashes

JobsOK == jobs \in Seq(Jobs) /\ Len(jobs) <= MaxJobs
FilesOK == home \in Directories /\ staged \in Directories

LEMMA Apart ==
  ASSUME IInv
  PROVE  /\ row \in Rows /\ JobsOK /\ ControlOK /\ FilesOK
         /\ ProcessOK /\ UploadOK /\ DeletionOK /\ HandlerOK /\ DirectoriesOK
         /\ AudioIsNeverLost
BY DEF IInv, TypeOK, JobsOK, ControlOK, FilesOK

\* While no file moves, markers are right if the jobs are the same or one more.
LEMMA DirectoriesStay ==
  ASSUME IInv, UNCHANGED <<home, staged>>, jobs' \in Seq(Jobs),
         \/ Len(jobs') = Len(jobs)
              /\ (Len(jobs) > 0 => jobs'[Len(jobs)].type = jobs[Len(jobs)].type)
         \/ Len(jobs') = Len(jobs) + 1
  PROVE  DirectoriesOK'
<1> SUFFICES ASSUME NEW dir \in {home, staged} PROVE HoldsNothing(dir) /\ MarkerOK(dir, jobs')
  BY DEF DirectoriesOK, Places, HoldsNothing, MarkerOK
<1>1. HoldsNothing(dir) /\ MarkerOK(dir, jobs)
  BY DEF IInv, DirectoriesOK, Places
<1>2. jobs \in Seq(Jobs)
  BY DEF IInv, TypeOK
<1> QED
  BY <1>1, <1>2, MarkersLater

-----------------------------------------------------------------------------
(* The process *)

LEMMA RecoverKeeps == ASSUME IInv, RecoverRunningJobs PROVE IInv'
<1> USE Apart
<1>1. row' \in Rows
  BY DEF RecoverRunningJobs, Rows
<1>2. /\ jobs' \in Seq(Jobs) /\ Len(jobs') = Len(jobs)
      /\ \A j \in DOMAIN jobs : jobs'[j].type = jobs[j].type
  <2> DEFINE new(j) == IF jobs[j].state = "running" THEN [jobs[j] EXCEPT !.state = "queued"]
                                                    ELSE jobs[j]
  <2>1. \A j \in DOMAIN jobs : new(j) \in Jobs /\ new(j).type = jobs[j].type
    <3> TAKE j \in DOMAIN jobs
    <3>1. jobs[j] \in Jobs
      BY DEF JobsOK
    <3> QED
      BY <3>1 DEF Jobs
  <2>2. jobs' = [j \in DOMAIN jobs |-> new(j)]
    BY DEF RecoverRunningJobs
  <2> HIDE DEF new
  <2>3. jobs \in Seq(Jobs)
    BY DEF JobsOK
  <2>4. jobs' \in [1..Len(jobs) -> Jobs]
    BY <2>1, <2>2, <2>3
  <2>5. Len(jobs) \in Nat
    BY <2>3
  <2>6. jobs' \in Seq(Jobs) /\ Len(jobs') = Len(jobs)
    BY <2>4, <2>5
  <2> QED
    BY <2>1, <2>2, <2>6
<1>3. JobsOK'
  BY <1>2 DEF JobsOK
<1>4. ControlOK' /\ FilesOK'
  BY DEF ControlOK, FilesOK, RecoverRunningJobs
<1>5. DirectoriesOK'
  <2>1. Len(jobs) > 0 => Len(jobs) \in DOMAIN jobs
    BY DEF JobsOK
  <2> QED
    BY <1>2, <2>1, DirectoriesStay DEF RecoverRunningJobs
<1>6. handler = NoHandler /\ handler' = NoHandler /\ upload' = "none" /\ deletion' = "none"
  BY DEF RecoverRunningJobs, ProcessOK
<1>7. row'.stage = row.stage /\ home' = home /\ staged' = staged /\ process' = "opened"
  BY DEF RecoverRunningJobs, Rows
<1>8. ProcessOK' /\ DeletionOK' /\ HandlerOK'
  BY <1>6, <1>7 DEF ProcessOK, DeletionOK, HandlerOK, Live, Exists, NoHandler, Pairing
<1>9. UploadOK'
  <2>1. jobs = << >> => jobs' = << >>
    BY <1>2
  <2> QED
    BY <1>6, <1>7, <2>1 DEF UploadOK, Live, Exists
<1>10. AudioIsNeverLost'
  BY <1>7 DEF AudioIsNeverLost, Live, Exists, Places
<1> QED
  BY <1>1, <1>3, <1>4, <1>5, <1>8, <1>9, <1>10 DEF IInv, TypeOK, JobsOK, ControlOK, FilesOK

LEMMA DiscardKeeps == ASSUME IInv, DiscardInterruptedUploads PROVE IInv'
<1> USE Apart
<1>1. /\ handler = NoHandler /\ UNCHANGED <<jobs, handler, home, staged, upload, deletion>>
      /\ upload = "none" /\ deletion = "none"
  BY DEF DiscardInterruptedUploads, ProcessOK
<1>2. row' \in Rows /\ JobsOK' /\ ControlOK' /\ FilesOK'
  BY Defaults DEF DiscardInterruptedUploads, JobsOK, ControlOK, FilesOK
<1>3. DirectoriesOK'
  BY <1>1, DirectoriesStay DEF JobsOK
<1>4. CASE row.stage = "upload"
  <2>1. row'.stage = "deleted" /\ process' = "cleaning"
    BY <1>4 DEF DiscardInterruptedUploads, DeletedRow, NoRow
  <2>2. ~Live /\ ~Live' /\ ~Exists'
    BY <1>4, <2>1 DEF Live, Exists
  <2> QED
    BY <1>1, <1>2, <1>3, <2>1, <2>2 DEF IInv, TypeOK, JobsOK, ControlOK, FilesOK, ProcessOK,
       UploadOK, DeletionOK, HandlerOK, AudioIsNeverLost, NoHandler, Pairing
<1>5. CASE row.stage # "upload"
  <2>1. row' = row /\ process' = "restoring"
    BY <1>5 DEF DiscardInterruptedUploads
  <2> QED
    BY <1>1, <1>2, <1>3, <2>1 DEF IInv, TypeOK, JobsOK, ControlOK, FilesOK, ProcessOK,
       UploadOK, DeletionOK, HandlerOK, AudioIsNeverLost, NoHandler, Pairing, Live, Exists, Places
<1> QED
  BY <1>4, <1>5

LEMMA RemoveUploadKeeps == ASSUME IInv, RemoveInterruptedUpload PROVE IInv'
<1> USE Apart
<1>1. /\ handler = NoHandler /\ upload = "none" /\ deletion = "none" /\ row.stage = "deleted"
      /\ UNCHANGED <<row, jobs, handler, upload, deletion, staged, crashes>>
      /\ process' = "restoring" /\ (home' = NoDir \/ home' = home) /\ cutShort' \in BOOLEAN
  BY DEF RemoveInterruptedUpload, ProcessOK, ControlOK
<1>2. row' \in Rows /\ JobsOK' /\ ControlOK' /\ FilesOK'
  BY <1>1, Defaults DEF JobsOK, ControlOK, FilesOK
<1>3. DirectoriesOK'
  BY <1>1, EmptyInOrder DEF JobsOK, DirectoriesOK, Places, HoldsNothing, MarkerOK
<1>4. ~Live /\ ~Live' /\ ~Exists'
  BY <1>1 DEF Live, Exists
<1>5. DeletionOK'
  BY <1>1 DEF DeletionOK, Pairing, NoHandler
<1> QED
  BY <1>1, <1>2, <1>3, <1>4, <1>5, EmptyFacts DEF IInv, TypeOK, JobsOK, ControlOK, FilesOK,
     ProcessOK, UploadOK, HandlerOK, AudioIsNeverLost, NoHandler

\* Moving one file back leaves what was gathered.
LEMMA RestoreKeeps == ASSUME IInv, RestoreOne PROVE IInv'
<1> USE Apart
<1>1. /\ handler = NoHandler /\ upload = "none" /\ deletion = "none" /\ process = "restoring"
      /\ UNCHANGED <<row, jobs, handler, upload, deletion, staged, process, cutShort, crashes>>
      /\ Exists /\ home.approval # NoApproval
  <2>1. home \in Directories
    BY DEF FilesOK
  <2>2. home.approval # NoApproval
    BY <2>1 DEF RestoreOne, NoApproval
  <2> QED
    BY <2>2 DEF RestoreOne, ProcessOK
<1>2. home.exists /\ ~staged.exists
  BY <1>1, EmptyFacts DEF DirectoriesOK, Places, HoldsNothing, DeletionOK
<1>3. /\ home' \in Directories /\ home'.exists = home.exists
      /\ home'.outputs[0].marker = home.outputs[0].marker
      /\ Gathered(home') = Gathered(home)
      /\ Recorded(home) => Recorded(home')
  <2> DEFINE pair == home.outputs[0]
  <2>1. home \in Directories /\ 0 \in 0..MaxJobs /\ pair \in Outputs
        /\ home.approval \in [original : BOOLEAN, flac : Audio, mp3 : Audio]
    BY BoundsAssumption DEF FilesOK, Directories
  <2>2. CASE home' = [home EXCEPT !.original = "whole", !.approval.original = FALSE]
    BY <2>1, <2>2 DEF Directories, Gathered, Recorded
  <2>3. CASE /\ home.approval.flac # NoAudio /\ pair.flac = NoAudio
             /\ home' = [Put(home, 0, [pair EXCEPT !.flac = home.approval.flac])
                           EXCEPT !.approval.flac = NoAudio]
    <3> DEFINE files == [pair EXCEPT !.flac = home.approval.flac]
               put   == Put(home, 0, files)
    <3>1. files \in Outputs /\ files.marker = pair.marker /\ files.mp3 = pair.mp3
          /\ files.flac = home.approval.flac
      BY <2>1 DEF Outputs
    <3> HIDE DEF files
    <3>2. put \in Directories /\ put.exists = home.exists /\ put.original = home.original
          /\ put.approval = home.approval /\ put.outputs[0] = files
      BY <2>1, <3>1, PutFiles
    <3>3. home' = [put EXCEPT !.approval.flac = NoAudio]
      BY <2>3 DEF files
    <3> HIDE DEF put
    <3>4. /\ home' \in Directories /\ home'.exists = put.exists /\ home'.original = put.original
          /\ home'.outputs = put.outputs
          /\ home'.approval = [put.approval EXCEPT !.flac = NoAudio]
      BY <3>2, <3>3, Defaults DEF Directories
    <3>5. /\ home'.approval.flac = NoAudio /\ home'.approval.mp3 = home.approval.mp3
          /\ home'.approval.original = home.approval.original
      BY <2>1, <3>2, <3>4
    <3> QED
      BY <2>3, <3>1, <3>2, <3>4, <3>5 DEF Gathered, Recorded
  <2>4. CASE /\ home.approval.mp3 # NoAudio /\ pair.mp3 = NoAudio
             /\ home' = [Put(home, 0, [pair EXCEPT !.mp3 = home.approval.mp3])
                           EXCEPT !.approval.mp3 = NoAudio]
    <3> DEFINE files == [pair EXCEPT !.mp3 = home.approval.mp3]
               put   == Put(home, 0, files)
    <3>1. files \in Outputs /\ files.marker = pair.marker /\ files.flac = pair.flac
          /\ files.mp3 = home.approval.mp3
      BY <2>1 DEF Outputs
    <3> HIDE DEF files
    <3>2. put \in Directories /\ put.exists = home.exists /\ put.original = home.original
          /\ put.approval = home.approval /\ put.outputs[0] = files
      BY <2>1, <3>1, PutFiles
    <3>3. home' = [put EXCEPT !.approval.mp3 = NoAudio]
      BY <2>4 DEF files
    <3> HIDE DEF put
    <3>4. /\ home' \in Directories /\ home'.exists = put.exists /\ home'.original = put.original
          /\ home'.outputs = put.outputs
          /\ home'.approval = [put.approval EXCEPT !.mp3 = NoAudio]
      BY <3>2, <3>3, Defaults DEF Directories
    <3>5. /\ home'.approval.mp3 = NoAudio /\ home'.approval.flac = home.approval.flac
          /\ home'.approval.original = home.approval.original
      BY <2>1, <3>2, <3>4
    <3> QED
      BY <2>4, <3>1, <3>2, <3>4, <3>5 DEF Gathered, Recorded
  <2> QED
    BY <2>2, <2>3, <2>4 DEF RestoreOne
<1>4. row' \in Rows /\ JobsOK' /\ ControlOK' /\ FilesOK'
  BY <1>1, <1>3 DEF JobsOK, ControlOK, FilesOK
<1>5. DirectoriesOK'
  <2>1. HoldsNothing(home') /\ MarkerOK(home', jobs)
    BY <1>2, <1>3 DEF DirectoriesOK, Places, HoldsNothing, MarkerOK
  <2> QED
    BY <1>1, <2>1 DEF DirectoriesOK, Places, HoldsNothing, MarkerOK
<1>6. Live
  BY <1>1 DEF ProcessOK
<1>7. ProcessOK' /\ UploadOK' /\ DeletionOK' /\ HandlerOK'
  BY <1>1, <1>2, <1>6 DEF ProcessOK, UploadOK, DeletionOK, HandlerOK, NoHandler, Pairing,
     Live, Exists
<1>8. AudioIsNeverLost'
  BY <1>1, <1>3 DEF AudioIsNeverLost, Places, Live, Exists
<1> QED
  BY <1>4, <1>5, <1>7, <1>8 DEF IInv, TypeOK, JobsOK, ControlOK, FilesOK

LEMMA ServeKeeps == ASSUME IInv, Serve PROVE IInv'
<1> USE Apart
<1>1. /\ handler = NoHandler /\ upload = "none" /\ deletion = "none"
      /\ UNCHANGED <<row, jobs, handler, upload, deletion, home, staged, cutShort, crashes>>
      /\ process' = "up" /\ home.approval = NoApproval
  BY DEF Serve, ProcessOK, Live
<1>2. DirectoriesOK'
  BY <1>1, DirectoriesStay DEF JobsOK
<1> QED
  BY <1>1, <1>2 DEF IInv, TypeOK, JobsOK, ControlOK, FilesOK, ProcessOK, UploadOK, DeletionOK,
     HandlerOK, AudioIsNeverLost, NoHandler, Pairing, Live, Exists, Places

LEMMA CrashKeeps == ASSUME IInv, Crash PROVE IInv'
<1> USE Apart
<1>1. /\ handler' = NoHandler /\ upload' = "none" /\ deletion' = "none"
      /\ UNCHANGED <<row, jobs, home, staged>> /\ process' = "down"
      /\ crashes < MaxCrashes /\ crashes' = crashes + 1 /\ cutShort' \in BOOLEAN
  BY DEF Crash, ControlOK
<1>2. DirectoriesOK'
  BY <1>1, DirectoriesStay DEF JobsOK
<1>3. ControlOK'
  BY <1>1, BoundsAssumption DEF ControlOK, NoHandler
<1>4. ProcessOK' /\ DeletionOK' /\ HandlerOK'
  BY <1>1 DEF ProcessOK, DeletionOK, HandlerOK, NoHandler, Pairing, Live, Exists
<1>5. UploadOK'
  BY <1>1 DEF UploadOK, Live, Exists
<1> QED
  BY <1>1, <1>2, <1>3, <1>4, <1>5 DEF IInv, TypeOK, JobsOK, ControlOK, FilesOK,
     AudioIsNeverLost, Live, Exists, Places

-----------------------------------------------------------------------------
(* Upload *)

\* While an upload is under way there is no job and no run.
LEMMA Uploading ==
  ASSUME IInv, upload # "none"
  PROVE  /\ jobs = << >> /\ handler = NoHandler /\ ~Live /\ process = "up"
         /\ home.approval = NoApproval
BY Apart DEF UploadOK, ProcessOK

LEMMA UploadMkdirKeeps == ASSUME IInv, UploadMkdir PROVE IInv'
<1> USE Apart
<1>1. /\ UNCHANGED <<row, jobs, handler, deletion, staged, process, cutShort, crashes>>
      /\ row.stage = "none" /\ process = "up" /\ upload' = "made" /\ home' = EmptyDir
  BY DEF UploadMkdir, Serving
<1>2. jobs = << >> /\ handler = NoHandler /\ deletion = "none" /\ staged = NoDir
  BY <1>1 DEF UploadOK
<1>3. DirectoriesOK'
  BY <1>1, EmptyInOrder DEF JobsOK, DirectoriesOK, Places, HoldsNothing, MarkerOK
<1>4. ProcessOK' /\ UploadOK' /\ DeletionOK' /\ HandlerOK'
  BY <1>1, <1>2, EmptyFacts DEF ProcessOK, UploadOK, DeletionOK, HandlerOK, NoHandler, Live, Exists
<1>5. AudioIsNeverLost'
  BY <1>1 DEF AudioIsNeverLost, Live, Exists
<1> QED
  BY <1>1, <1>3, <1>4, <1>5, Defaults DEF IInv, TypeOK, JobsOK, ControlOK, FilesOK

LEMMA UploadCreateKeeps == ASSUME IInv, UploadCreate PROVE IInv'
<1> USE Apart
<1>1. /\ UNCHANGED <<jobs, handler, deletion, staged, process, cutShort, crashes>>
      /\ upload = "made"
  BY DEF UploadCreate
<1>2. /\ jobs = << >> /\ handler = NoHandler /\ deletion = "none" /\ staged = NoDir
      /\ process = "up" /\ home.approval = NoApproval /\ row.stage = "none"
  BY <1>1, Uploading DEF UploadOK
<1>3. CASE /\ row' = [NoRow EXCEPT !.stage = "upload", !.status = "running"]
           /\ upload' = "row" /\ UNCHANGED home
  <2>1. row' \in Rows /\ row'.stage = "upload"
    BY <1>3, Defaults DEF Rows, Stages
  <2>2. DirectoriesOK'
    BY <1>1, <1>3, DirectoriesStay DEF JobsOK
  <2>3. ProcessOK' /\ UploadOK' /\ DeletionOK' /\ HandlerOK' /\ AudioIsNeverLost'
    BY <1>1, <1>2, <1>3, <2>1, EmptyFacts DEF ProcessOK, UploadOK, DeletionOK, HandlerOK,
       NoHandler, Live, Exists, AudioIsNeverLost
  <2> QED
    BY <1>1, <1>3, <2>1, <2>2, <2>3 DEF IInv, TypeOK, JobsOK, ControlOK, FilesOK
<1>4. CASE upload' = "none" /\ home' = NoDir /\ UNCHANGED row
  <2>1. DirectoriesOK'
    BY <1>1, <1>4, EmptyInOrder DEF JobsOK, DirectoriesOK, Places, HoldsNothing, MarkerOK
  <2>2. ProcessOK' /\ UploadOK' /\ DeletionOK' /\ HandlerOK' /\ AudioIsNeverLost'
    BY <1>1, <1>2, <1>4, EmptyFacts DEF ProcessOK, UploadOK, DeletionOK, HandlerOK,
       NoHandler, Live, Exists, AudioIsNeverLost
  <2> QED
    BY <1>1, <1>4, <2>1, <2>2, Defaults DEF IInv, TypeOK, JobsOK, ControlOK, FilesOK
<1> QED
  BY <1>3, <1>4 DEF UploadCreate

\* Changing the original leaves everything else of a directory.
LEMMA OriginalOf ==
  ASSUME NEW dir \in Directories, NEW original \in {"none", "partial", "whole"}
  PROVE  LET new == [dir EXCEPT !.original = original]
         IN  /\ new \in Directories /\ new.exists = dir.exists /\ new.original = original
             /\ new.outputs = dir.outputs /\ new.approval = dir.approval
BY DEF Directories

\* A directory whose original changes stays in order.
LEMMA OriginalInOrder ==
  ASSUME NEW dir, NEW new, NEW js, dir.exists, new.exists, new.outputs = dir.outputs,
         new.approval = dir.approval, MarkerOK(dir, js)
  PROVE  HoldsNothing(new) /\ MarkerOK(new, js)
BY DEF HoldsNothing, MarkerOK, Gathered

LEMMA UploadOpenKeeps == ASSUME IInv, UploadOpen PROVE IInv'
<1> USE Apart
<1>1. /\ UNCHANGED <<row, jobs, handler, deletion, staged, process, cutShort, crashes>>
      /\ upload = "row"
  BY DEF UploadOpen
<1>2. /\ jobs = << >> /\ handler = NoHandler /\ ~Live /\ process = "up"
      /\ home.approval = NoApproval
  BY <1>1, Uploading
<1>3. CASE ~home.exists /\ upload' = "abandoned" /\ UNCHANGED home
  <2>1. DirectoriesOK'
    BY <1>1, <1>3, DirectoriesStay DEF JobsOK
  <2>2. ProcessOK' /\ UploadOK' /\ DeletionOK' /\ HandlerOK' /\ AudioIsNeverLost'
    BY <1>1, <1>2, <1>3 DEF ProcessOK, UploadOK, DeletionOK, HandlerOK,
       NoHandler, Live, Exists, AudioIsNeverLost
  <2> QED
    BY <1>1, <1>3, <2>1, <2>2 DEF IInv, TypeOK, JobsOK, ControlOK, FilesOK
<1>4. CASE home.exists /\ upload' = "body" /\ home' = [home EXCEPT !.original = "partial"]
  <2>1. /\ home' \in Directories /\ home'.exists = home.exists /\ home'.original = "partial"
        /\ home'.outputs = home.outputs /\ home'.approval = home.approval
    <3>1. home \in Directories
      BY DEF FilesOK
    <3>2. home' = [home EXCEPT !.original = "partial"]
      BY <1>4
    <3> QED
      BY <3>1, <3>2, OriginalOf
  <2>2. DirectoriesOK'
    <3>1. MarkerOK(home, jobs)
      BY DEF DirectoriesOK, Places
    <3>2. HoldsNothing(home') /\ MarkerOK(home', jobs)
      BY <1>4, <2>1, <3>1, OriginalInOrder
    <3> QED
      BY <1>1, <3>2 DEF DirectoriesOK, Places, HoldsNothing, MarkerOK
  <2>3. ~staged.exists
    BY <1>1, <1>4, EmptyFacts DEF DeletionOK
  <2>4. ProcessOK' /\ UploadOK' /\ DeletionOK' /\ HandlerOK' /\ AudioIsNeverLost'
    BY <1>1, <1>2, <1>4, <2>1, <2>3 DEF ProcessOK, UploadOK, DeletionOK, HandlerOK,
       NoHandler, Live, Exists, AudioIsNeverLost, Places
  <2> QED
    BY <1>1, <1>4, <2>1, <2>2, <2>4 DEF IInv, TypeOK, JobsOK, ControlOK, FilesOK
<1> QED
  BY <1>3, <1>4 DEF UploadOpen

\* The end of the body in one directory.
LEMMA BodyIn ==
  ASSUME NEW dir \in Directories, NEW js, HoldsNothing(dir), MarkerOK(dir, js)
  PROVE  LET new == [dir EXCEPT !.original = IF @ = "partial" THEN "whole" ELSE @]
         IN  /\ new \in Directories /\ HoldsNothing(new) /\ MarkerOK(new, js)
             /\ new.exists = dir.exists /\ new.approval = dir.approval
             /\ dir.original = "partial" => new.original = "whole"
             /\ dir.original # "partial" => new = dir
<1> DEFINE new == [dir EXCEPT !.original = IF @ = "partial" THEN "whole" ELSE @]
<1>1. CASE dir.original = "partial"
  <2>1. new = [dir EXCEPT !.original = "whole"]
    BY <1>1
  <2>2. dir.exists
    BY <1>1, EmptyFacts DEF HoldsNothing
  <2> HIDE DEF new
  <2>3. /\ new \in Directories /\ new.exists = dir.exists /\ new.original = "whole"
        /\ new.outputs = dir.outputs /\ new.approval = dir.approval
    BY <2>1, OriginalOf
  <2> QED
    BY <1>1, <2>2, <2>3, OriginalInOrder DEF new
<1>2. CASE dir.original # "partial"
  <2>1. new = dir
    BY <1>2 DEF Directories
  <2> QED
    BY <1>2, <2>1
<1> QED
  BY <1>1, <1>2

LEMMA UploadBodyKeeps == ASSUME IInv, UploadBody PROVE IInv'
<1> USE Apart
<1>1. /\ UNCHANGED <<row, jobs, handler, deletion, process, cutShort, crashes>>
      /\ upload = "body"
  BY DEF UploadBody
<1>2. /\ jobs = << >> /\ handler = NoHandler /\ ~Live /\ process = "up"
      /\ home.approval = NoApproval
  BY <1>1, Uploading
<1>3. CASE upload' = "abandoned" /\ UNCHANGED <<home, staged>>
  <2>1. DirectoriesOK'
    BY <1>1, <1>3, DirectoriesStay DEF JobsOK
  <2>2. ProcessOK' /\ UploadOK' /\ DeletionOK' /\ HandlerOK' /\ AudioIsNeverLost'
    BY <1>1, <1>2, <1>3 DEF ProcessOK, UploadOK, DeletionOK, HandlerOK,
       NoHandler, Live, Exists, AudioIsNeverLost
  <2> QED
    BY <1>1, <1>3, <2>1, <2>2 DEF IInv, TypeOK, JobsOK, ControlOK, FilesOK
<1>4. CASE /\ upload' = "whole"
           /\ home' = [home EXCEPT !.original = IF @ = "partial" THEN "whole" ELSE @]
           /\ staged' = [staged EXCEPT !.original = IF @ = "partial" THEN "whole" ELSE @]
  <2>1. \A dir \in Places : dir \in Directories /\ HoldsNothing(dir) /\ MarkerOK(dir, jobs)
    BY DEF Places, FilesOK, DirectoriesOK
  <2>2. /\ home' \in Directories /\ HoldsNothing(home') /\ MarkerOK(home', jobs)
        /\ home'.exists = home.exists /\ home'.approval = home.approval
        /\ home.original = "partial" => home'.original = "whole"
        /\ home.original # "partial" => home' = home
    BY <1>4, <2>1, BodyIn DEF Places
  <2>3. /\ staged' \in Directories /\ HoldsNothing(staged') /\ MarkerOK(staged', jobs)
        /\ staged'.exists = staged.exists /\ staged'.approval = staged.approval
        /\ staged.original = "partial" => staged'.original = "whole"
        /\ staged.original # "partial" => staged' = staged
    BY <1>4, <2>1, BodyIn DEF Places
  <2>4. DirectoriesOK'
    BY <1>1, <2>2, <2>3 DEF DirectoriesOK, Places, HoldsNothing, MarkerOK
  <2>5. DeletionOK'
    BY <1>1, <1>2, <2>2, <2>3, EmptyFacts DEF DeletionOK
  <2>6. UploadOK'
    BY <1>1, <1>2, <1>4, <2>2, <2>3, EmptyFacts DEF UploadOK, Places, Live, Exists
  <2>7. ProcessOK' /\ HandlerOK' /\ AudioIsNeverLost'
    BY <1>1, <1>2, <1>4, <2>2 DEF ProcessOK, HandlerOK, NoHandler, Live, Exists, AudioIsNeverLost
  <2> QED
    BY <1>1, <1>4, <2>2, <2>3, <2>4, <2>5, <2>6, <2>7 DEF IInv, TypeOK, JobsOK, ControlOK, FilesOK
<1> QED
  BY <1>3, <1>4 DEF UploadBody

LEMMA CompleteUploadKeeps == ASSUME IInv, CompleteUpload PROVE IInv'
<1> USE Apart
<1>1. /\ UNCHANGED <<handler, deletion, home, staged, process, cutShort, crashes>>
      /\ upload = "whole"
  BY DEF CompleteUpload
<1>2. /\ jobs = << >> /\ handler = NoHandler /\ ~Live /\ process = "up"
      /\ home.approval = NoApproval
  BY <1>1, Uploading
<1>3. CASE upload' = "abandoned" /\ UNCHANGED <<row, jobs>>
  <2>1. DirectoriesOK'
    BY <1>1, <1>3, DirectoriesStay DEF JobsOK
  <2>2. ProcessOK' /\ UploadOK' /\ DeletionOK' /\ HandlerOK' /\ AudioIsNeverLost'
    BY <1>1, <1>2, <1>3 DEF ProcessOK, UploadOK, DeletionOK, HandlerOK,
       NoHandler, Live, Exists, AudioIsNeverLost
  <2> QED
    BY <1>1, <1>3, <2>1, <2>2 DEF IInv, TypeOK, JobsOK, ControlOK, FilesOK
<1>4. CASE /\ row.stage = "upload" /\ Current < MaxJobs /\ upload' = "none"
           /\ row' = [row EXCEPT !.stage = "normalization", !.status = "pending"]
           /\ jobs' = Append(jobs, NewJob("normalize"))
  <2>1. row' \in Rows /\ row'.stage = "normalization"
    BY <1>4 DEF Rows, Stages
  <2>2. jobs' \in Seq(Jobs) /\ Len(jobs') = Len(jobs) + 1
    BY <1>4, NewJobType DEF JobsOK, JobTypes
  <2>3. JobsOK'
    BY <1>4, <2>2, BoundsAssumption DEF JobsOK, Current
  <2>4. DirectoriesOK'
    BY <1>1, <2>2, DirectoriesStay
  <2>5. ProcessOK' /\ UploadOK' /\ DeletionOK' /\ HandlerOK'
    BY <1>1, <1>2, <1>4, <2>1 DEF ProcessOK, UploadOK, DeletionOK, HandlerOK,
       NoHandler, Pairing
  <2>6. AudioIsNeverLost'
    BY <1>1, <1>4, <2>1 DEF UploadOK, AudioIsNeverLost, Places, Recorded
  <2> QED
    BY <1>1, <1>4, <2>1, <2>3, <2>4, <2>5, <2>6 DEF IInv, TypeOK, JobsOK, ControlOK, FilesOK
<1> QED
  BY <1>3, <1>4 DEF CompleteUpload

LEMMA AbandonRowKeeps == ASSUME IInv, AbandonRow PROVE IInv'
<1> USE Apart
<1>1. /\ UNCHANGED <<jobs, handler, deletion, home, staged, process, crashes>>
      /\ upload = "abandoned" /\ upload' \in {"dropped", "none"} /\ cutShort' \in BOOLEAN
      /\ row' \in {DeletedRow, row}
  BY DEF AbandonRow, ControlOK
<1>2. /\ jobs = << >> /\ handler = NoHandler /\ ~Live /\ process = "up"
      /\ home.approval = NoApproval
  BY <1>1, Uploading
<1>3. row' \in Rows /\ row'.stage \in {"deleted", row.stage} /\ (row'.stage = row.stage \/ row'.stage = "deleted")
  BY <1>1, Defaults DEF DeletedRow, NoRow
<1>4. ~Live'
  BY <1>2, <1>3 DEF Live, Exists
<1>5. DirectoriesOK'
  BY <1>1, DirectoriesStay DEF JobsOK
<1>6. ProcessOK' /\ UploadOK' /\ DeletionOK' /\ HandlerOK' /\ AudioIsNeverLost'
  BY <1>1, <1>2, <1>3, <1>4 DEF ProcessOK, UploadOK, DeletionOK, HandlerOK, NoHandler,
     AudioIsNeverLost, Pairing
<1> QED
  BY <1>1, <1>3, <1>5, <1>6 DEF IInv, TypeOK, JobsOK, ControlOK, FilesOK

LEMMA AbandonFilesKeeps == ASSUME IInv, AbandonFiles PROVE IInv'
<1> USE Apart
<1>1. /\ UNCHANGED <<row, jobs, handler, deletion, staged, process, crashes>>
      /\ upload = "dropped" /\ upload' = "none" /\ cutShort' \in BOOLEAN
      /\ home' \in {NoDir, home}
  BY DEF AbandonFiles, WithoutAbandoned, ControlOK
<1>2. /\ jobs = << >> /\ handler = NoHandler /\ ~Live /\ process = "up"
      /\ home.approval = NoApproval
  BY <1>1, Uploading
<1>3. DirectoriesOK'
  BY <1>1, EmptyInOrder DEF JobsOK, DirectoriesOK, Places, HoldsNothing, MarkerOK
<1>4. ProcessOK' /\ UploadOK' /\ DeletionOK' /\ HandlerOK' /\ AudioIsNeverLost'
  BY <1>1, <1>2, EmptyFacts DEF ProcessOK, UploadOK, DeletionOK, HandlerOK, NoHandler,
     AudioIsNeverLost, Pairing, Live, Exists
<1> QED
  BY <1>1, <1>3, <1>4, Defaults DEF IInv, TypeOK, JobsOK, ControlOK, FilesOK

-----------------------------------------------------------------------------
(* Deletion *)

LEMMA DeleteBeginKeeps == ASSUME IInv, DeleteBegin PROVE IInv'
<1> USE Apart
<1>1. /\ UNCHANGED <<row, jobs, handler, upload, home, staged, process, cutShort, crashes>>
      /\ Exists /\ process = "up" /\ deletion' = "begun"
  BY DEF DeleteBegin, Serving
<1>2. DirectoriesOK'
  BY <1>1, DirectoriesStay DEF JobsOK
<1>3. ProcessOK' /\ UploadOK' /\ DeletionOK'
  BY <1>1 DEF ProcessOK, UploadOK, DeletionOK, Live, Exists, Places, Pairing
<1>4. HandlerOK' /\ AudioIsNeverLost'
  BY <1>1 DEF HandlerOK, AudioIsNeverLost, Live, Exists, Places, Job, Current, PhaseOK, Key,
     Pairing
<1> QED
  BY <1>1, <1>2, <1>3, <1>4 DEF IInv, TypeOK, JobsOK, ControlOK, FilesOK

\* Whatever a deletion does to the directories, the files stay in one of them.
LEMMA DeleteMoves ==
  ASSUME IInv, UNCHANGED <<row, jobs, handler, upload, process, crashes>>,
         process = "up", cutShort' \in BOOLEAN, row.stage # "none",
         deletion' \in {"none", "begun", "staged", "restoring", "committed"},
         deletion' = "committed" => row.stage = "deleted",
         \/ UNCHANGED <<home, staged>>
         \/ ~staged.exists /\ staged' = home /\ home' = NoDir
         \/ ~home.exists /\ home' = staged /\ staged' = NoDir
  PROVE  IInv'
<1> USE Apart
<1>1. ~home.exists => home = NoDir
  BY DEF DirectoriesOK, Places, HoldsNothing
<1>2. ~staged.exists => staged = NoDir
  BY DEF DirectoriesOK, Places, HoldsNothing
<1>3. Places' = Places
  BY <1>1, <1>2 DEF Places
<1>4. FilesOK'
  BY Defaults DEF FilesOK
<1>5. DirectoriesOK'
  BY <1>3 DEF DirectoriesOK, HoldsNothing, MarkerOK
<1>6. home.approval = NoApproval /\ staged.approval = NoApproval
  BY DEF ProcessOK, DeletionOK
<1>7. ProcessOK'
  BY <1>6, EmptyFacts DEF ProcessOK
<1>8. UploadOK'
  BY <1>3 DEF UploadOK, Live, Exists
<1>9. DeletionOK'
  BY <1>1, <1>2, <1>6, EmptyFacts DEF DeletionOK, Pairing
<1>10. HandlerOK'
  BY <1>3 DEF HandlerOK, Exists, Job, Current, PhaseOK, Key,
     Pairing
<1>11. AudioIsNeverLost'
  BY <1>3 DEF AudioIsNeverLost, Live, Exists
<1> QED
  BY <1>4, <1>5, <1>7, <1>8, <1>9, <1>10, <1>11 DEF IInv, TypeOK, JobsOK, ControlOK, FilesOK

\* A deletion under way is of a sermon that is or was.
LEMMA Deleting ==
  ASSUME IInv, deletion # "none"
  PROVE  process = "up" /\ row.stage # "none"
BY Apart DEF ProcessOK, UploadOK

LEMMA DeleteStageKeeps == ASSUME IInv, DeleteStage PROVE IInv'
<1>1. process = "up" /\ row.stage # "none"
  BY Deleting DEF DeleteStage
<1> QED
  BY <1>1, DeleteMoves, Apart DEF DeleteStage, ControlOK

LEMMA DeleteRestoreKeeps == ASSUME IInv, DeleteRestore PROVE IInv'
<1>1. process = "up" /\ row.stage # "none"
  BY Deleting DEF DeleteRestore
<1>2. cutShort' \in BOOLEAN
  BY Apart DEF DeleteRestore, ControlOK, Exists
<1> QED
  BY <1>1, <1>2, DeleteMoves DEF DeleteRestore

LEMMA DeleteCommitKeeps == ASSUME IInv, DeleteCommit PROVE IInv'
<1> USE Apart
<1>1. /\ UNCHANGED <<jobs, handler, upload, home, staged, process, cutShort, crashes>>
      /\ process = "up" /\ row.stage # "none"
  BY Deleting DEF DeleteCommit
<1>2. CASE row' = DeletedRow /\ deletion' = "committed"
  <2>1. row' \in Rows /\ row'.stage = "deleted" /\ ~Live' /\ ~Exists'
    BY <1>2, Defaults DEF DeletedRow, NoRow, Live, Exists
  <2>2. DirectoriesOK'
    BY <1>1, DirectoriesStay DEF JobsOK
  <2>3. ProcessOK' /\ UploadOK' /\ DeletionOK'
    BY <1>1, <1>2, <2>1 DEF ProcessOK, UploadOK, DeletionOK, Pairing
  <2>4. HandlerOK' /\ AudioIsNeverLost'
    BY <1>1, <2>1 DEF HandlerOK, AudioIsNeverLost, Places, Job, Current, PhaseOK, Key,
     Pairing
  <2> QED
    BY <1>1, <1>2, <2>1, <2>2, <2>3, <2>4 DEF IInv, TypeOK, JobsOK, ControlOK, FilesOK
<1>3. CASE UNCHANGED row /\ deletion' = "restoring"
  BY <1>1, <1>3, DeleteMoves DEF ControlOK
<1> QED
  BY <1>2, <1>3 DEF DeleteCommit

LEMMA DeleteFilesKeeps == ASSUME IInv, DeleteFiles PROVE IInv'
<1> USE Apart
<1>1. /\ UNCHANGED <<row, jobs, handler, upload, home, process, cutShort, crashes>>
      /\ row.stage = "deleted" /\ process = "up" /\ deletion' = "none"
      /\ staged' = NoDir \/ staged' = staged
  BY Deleting DEF DeleteFiles, DeletionOK
<1>2. ~Live /\ ~Exists
  BY <1>1 DEF Live, Exists
<1>3. DirectoriesOK'
  BY <1>1, EmptyInOrder DEF JobsOK, DirectoriesOK, Places, HoldsNothing, MarkerOK
<1>4. ProcessOK' /\ UploadOK' /\ DeletionOK'
  BY <1>1, <1>2, EmptyFacts DEF ProcessOK, UploadOK, DeletionOK, Live, Exists, Pairing, Places
<1>5. HandlerOK' /\ AudioIsNeverLost'
  BY <1>1, <1>2 DEF HandlerOK, AudioIsNeverLost, Live, Exists, Places, Job, Current, PhaseOK, Key,
     Pairing
<1> QED
  BY <1>1, <1>3, <1>4, <1>5, Defaults DEF IInv, TypeOK, JobsOK, ControlOK, FilesOK

-----------------------------------------------------------------------------
(* Claims, reports and requests *)

LEMMA LiveRow ==
  ASSUME NEW stage \in Stages \ {"none", "upload", "deleted"},
         NEW status \in {"none", "pending", "running", "done", "failed"}, row \in Rows,
         row' = [row EXCEPT !.stage = stage, !.status = status]
  PROVE  row' \in Rows /\ row'.stage = stage /\ row'.status = status /\ Exists' /\ Live'
BY DEF Rows, Exists, Live

LEMMA StageOfType == ASSUME NEW type \in JobTypes
                     PROVE  StageOf(type) \in Stages \ {"none", "upload", "deleted"}
BY DEF JobTypes, StageOf, Stages

\* A run belongs to the last job, which is one of the table.
LEMMA Running ==
  ASSUME IInv, handler.pc # "none"
  PROVE  /\ handler.job = Len(jobs) /\ Len(jobs) \in DOMAIN jobs /\ Len(jobs) \in 1..MaxJobs
         /\ Job = jobs[Len(jobs)] /\ Job \in Jobs /\ Job.type \in JobTypes
         /\ process = "up" /\ upload = "none" /\ row.stage \notin {"none", "upload"}
         /\ Exists => Live /\ row.status = "running"
         /\ home.approval = NoApproval
<1> USE Apart
<1>1. handler.job = Len(jobs) /\ Len(jobs) > 0 /\ (Exists => row.status = "running")
  BY DEF HandlerOK, Current
<1>2. Len(jobs) \in Nat /\ DOMAIN jobs = 1..Len(jobs) /\ Len(jobs) <= MaxJobs
  BY DEF JobsOK
<1>3. jobs[Len(jobs)] \in Jobs
  BY <1>1, <1>2 DEF JobsOK
<1>4. jobs # << >>
  BY <1>1, <1>2
<1> QED
  BY <1>1, <1>2, <1>3, <1>4, BoundsAssumption DEF Job, Jobs, UploadOK, ProcessOK, NoHandler,
     Live, Exists

\* Between runs, rows and jobs change together: the row stays live, and the jobs
\* keep their types or get one more.
LEMMA TableStepKeeps ==
  ASSUME IInv, UNCHANGED <<upload, deletion, home, staged, process, cutShort, crashes>>,
         Live, Live', Exists', row' \in Rows, process = "up", jobs' \in Seq(Jobs),
         Len(jobs') <= MaxJobs,
         \/ Len(jobs') = Len(jobs)
              /\ (Len(jobs) > 0 => jobs'[Len(jobs)].type = jobs[Len(jobs)].type)
         \/ Len(jobs') = Len(jobs) + 1,
         \/ handler' = NoHandler \/ (handler.pc = "none" /\ handler' = handler)
         \/ /\ handler' = [pc |-> "run", job |-> Len(jobs')] /\ Len(jobs') > 0
            /\ row'.status = "running"
  PROVE  IInv'
<1> USE Apart
<1>1. DirectoriesOK'
  BY DirectoriesStay
<1>2. upload = "none" /\ home.approval = NoApproval
  BY DEF UploadOK, ProcessOK
<1>3. row'.stage \notin {"none", "upload", "deleted"} /\ row.stage \notin {"none", "upload", "deleted"}
  BY DEF Live, Exists
<1>4. ControlOK'
  BY BoundsAssumption DEF ControlOK, NoHandler
<1>5. ProcessOK' /\ UploadOK' /\ DeletionOK'
  BY <1>2, <1>3 DEF ProcessOK, UploadOK, DeletionOK, Pairing, NoHandler
<1>6. HandlerOK'
  BY DEF HandlerOK, NoHandler, Current, PhaseOK, Job, Pairing
<1>7. AudioIsNeverLost'
  BY DEF AudioIsNeverLost, Places
<1> QED
  BY <1>1, <1>4, <1>5, <1>6, <1>7 DEF IInv, TypeOK, JobsOK, ControlOK, FilesOK

LEMMA ClaimKeeps == ASSUME IInv, ClaimNextJob PROVE IInv'
<1> USE Apart
<1>1. /\ UNCHANGED <<upload, deletion, home, staged, process, cutShort, crashes>>
      /\ Live /\ process = "up" /\ Len(jobs) > 0
      /\ jobs' = [jobs EXCEPT ![Len(jobs)].state = "running"]
      /\ row' = [row EXCEPT !.stage = StageOf(jobs[Len(jobs)].type), !.status = "running"]
      /\ handler' = [pc |-> "run", job |-> Len(jobs)]
  BY DEF ClaimNextJob, Current, Serving
<1>2. jobs \in Seq(Jobs) /\ Len(jobs) \in DOMAIN jobs /\ Len(jobs) <= MaxJobs
      /\ jobs[Len(jobs)].type \in JobTypes
  <2>1. jobs \in Seq(Jobs) /\ Len(jobs) \in DOMAIN jobs /\ Len(jobs) <= MaxJobs
    BY <1>1 DEF JobsOK
  <2>2. jobs[Len(jobs)] \in Jobs
    BY <2>1
  <2> QED
    BY <2>1, <2>2 DEF Jobs
<1>3. jobs' \in Seq(Jobs) /\ Len(jobs') = Len(jobs)
      /\ jobs'[Len(jobs)].type = jobs[Len(jobs)].type
  BY <1>1, <1>2, StateOfJobs
<1>4. row' \in Rows /\ row'.status = "running" /\ Live' /\ Exists'
  BY <1>1, <1>2, StageOfType, LiveRow
<1> QED
  BY <1>1, <1>2, <1>3, <1>4, TableStepKeeps

\* When the sermon is gone a run only ends.
LEMMA GoneKeeps ==
  ASSUME IInv, UNCHANGED <<row, jobs, upload, deletion, home, staged, process, cutShort, crashes>>,
         ~Exists, handler' = NoHandler
  PROVE  IInv'
<1> USE Apart
<1>1. DirectoriesOK'
  BY DirectoriesStay DEF JobsOK
<1>2. ControlOK'
  BY BoundsAssumption DEF ControlOK, NoHandler
<1>3. ProcessOK' /\ UploadOK' /\ DeletionOK' /\ HandlerOK' /\ AudioIsNeverLost'
  BY DEF ProcessOK, UploadOK, DeletionOK, HandlerOK, AudioIsNeverLost, Live, Exists, Places,
     NoHandler, Pairing
<1> QED
  BY <1>1, <1>2, <1>3 DEF IInv, TypeOK, JobsOK, ControlOK, FilesOK

LEMMA CompleteJobKeeps == ASSUME IInv, CompleteJob PROVE IInv'
<1> USE Apart
<1> DEFINE next == CASE Job.type = "normalize"                      -> "transcribe"
                     [] Job.type = "transcribe" /\ row.draft = 0    -> "prepare_edit"
                     [] OTHER                                       -> "none"
           stage == CASE Job.type = "prepare_edit" -> "editing"
                      [] Job.type = "export"       -> Job.return
                      [] OTHER                     -> "metadata"
           done == [jobs EXCEPT ![handler.job].state = "done"]
<1>1. /\ UNCHANGED <<upload, deletion, home, staged, process, cutShort, crashes>>
      /\ handler.pc # "none" /\ handler' = NoHandler
  BY DEF CompleteJob
<1>2. /\ handler.job = Len(jobs) /\ Len(jobs) \in DOMAIN jobs
      /\ process = "up" /\ (Exists => Live) /\ Job \in Jobs
  BY <1>1, Running
<1>3. stage \in Stages \ {"none", "upload", "deleted"}
  BY <1>2 DEF Jobs, Stages
<1>4. next # "none" => next \in JobTypes
  BY DEF JobTypes
<1>5. done \in Seq(Jobs) /\ Len(done) = Len(jobs) /\ done[Len(jobs)].type = jobs[Len(jobs)].type
  <2>1. done = [jobs EXCEPT ![Len(jobs)].state = "done"]
    BY <1>2
  <2> HIDE DEF done
  <2> QED
    BY <1>2, <2>1, StateOfJobs DEF JobsOK
<1> HIDE DEF next, stage, done
<1>6. CASE ~Exists /\ UNCHANGED <<row, jobs>>
  BY <1>1, <1>6, GoneKeeps
<1>7. CASE Exists /\ jobs' = done /\ row' = [row EXCEPT !.stage = stage, !.status = "done"]
  <2>1. row' \in Rows /\ Live' /\ Exists'
    BY <1>3, <1>7, LiveRow
  <2>2. jobs' \in Seq(Jobs) /\ Len(jobs') = Len(jobs) /\ Len(jobs) <= MaxJobs
        /\ jobs'[Len(jobs)].type = jobs[Len(jobs)].type
    BY <1>5, <1>7 DEF JobsOK
  <2> QED
    BY <1>1, <1>2, <1>7, <2>1, <2>2, TableStepKeeps
<1>8. CASE /\ Exists /\ next # "none" /\ Current < MaxJobs
           /\ jobs' = Append(done, NewJob(next))
           /\ row' = [row EXCEPT !.stage = StageOf(next), !.status = "pending"]
  <2>1. row' \in Rows /\ Live' /\ Exists'
    BY <1>4, <1>8, StageOfType, LiveRow
  <2>2. NewJob(next) \in Jobs
    BY <1>4, <1>8, NewJobType
  <2>3. jobs' \in Seq(Jobs) /\ Len(jobs') = Len(jobs) + 1
    BY <1>5, <1>8, <2>2, AppendedJob
  <2>4. Len(jobs') <= MaxJobs
    BY <1>8, <2>3, BoundsAssumption DEF Current, JobsOK
  <2> QED
    BY <1>1, <1>2, <1>8, <2>1, <2>3, <2>4, TableStepKeeps
<1> QED
  BY <1>6, <1>7, <1>8 DEF CompleteJob, next, stage, done

LEMMA EnqueueKeeps ==
  ASSUME IInv, NEW job \in Jobs, Enqueue(job), Live, row.status \in {"done", "failed"},
         row' \in Rows, Live', Exists'
  PROVE  IInv'
<1>1. handler.pc = "none"
  BY Apart DEF HandlerOK, Live
<1>2. jobs' \in Seq(Jobs) /\ Len(jobs') = Len(jobs) + 1
  BY Apart, AppendedJob DEF Enqueue, JobsOK
<1>3. Len(jobs') <= MaxJobs
  BY <1>2, Apart, BoundsAssumption DEF Enqueue, Current, JobsOK
<1>4. process = "up" /\ UNCHANGED <<upload, deletion, home, staged, process, cutShort, crashes, handler>>
  BY DEF Enqueue, Serving
<1> QED
  BY <1>1, <1>2, <1>3, <1>4, TableStepKeeps

LEMMA RerunNormalizationKeeps ==
  ASSUME IInv, NEW adjustment \in Adjustments, RerunNormalization(adjustment)
  PROVE  IInv'
<1>1. PICK settings \in AdjustNormalization(row.settings, adjustment) :
        Enqueue([NewJob("normalize") EXCEPT !.settings = settings])
  BY DEF RerunNormalization
<1>2. settings \in Settings
  BY <1>1 DEF AdjustNormalization
<1>3. [NewJob("normalize") EXCEPT !.settings = settings] \in Jobs
  BY <1>2, NewJobType DEF Jobs, JobTypes
<1>4. Live /\ row.status \in {"done", "failed"} /\ row' = [row EXCEPT !.status = "pending"]
  BY DEF RerunNormalization, Live, Exists
<1>5. row' \in Rows /\ row'.stage = row.stage
  BY <1>4, Apart DEF Rows
<1> QED
  BY <1>1, <1>3, <1>4, <1>5, EnqueueKeeps DEF Live, Exists

LEMMA RerunTranscriptionKeeps == ASSUME IInv, RerunTranscription PROVE IInv'
<1>1. NewJob("transcribe") \in Jobs
  BY NewJobType DEF JobTypes
<1>2. row' \in Rows /\ Live' /\ Exists'
  BY Apart, LiveRow DEF RerunTranscription, Stages
<1> QED
  BY <1>1, <1>2, EnqueueKeeps DEF RerunTranscription, Settled

LEMMA ApplyDraftKeeps ==
  ASSUME IInv, NEW skip \in BOOLEAN, ApplyDraft(skip)
  PROVE  IInv'
<1>1. row.draft \in 0..MaxDrafts
  BY Apart DEF Rows
<1>2. [NewJob("render_edit") EXCEPT !.draft = row.draft, !.skip = skip] \in Jobs
  BY <1>1, NewJobType DEF Jobs, JobTypes
<1>3. row' \in Rows /\ Live' /\ Exists'
  BY Apart, LiveRow DEF ApplyDraft, Stages
<1>4. Live /\ row.status \in {"done", "failed"}
  BY DEF ApplyDraft, MayEdit, Live, Exists
<1> QED
  BY <1>2, <1>3, <1>4, EnqueueKeeps DEF ApplyDraft

LEMMA EnqueueExportKeeps == ASSUME IInv, EnqueueExport PROVE IInv'
<1> DEFINE asked == Playing(IF home.exists THEN home ELSE staged)
           job   == [NewJob("export") EXCEPT !.source = PinnedSource, !.return = row.stage,
                                             !.asked = asked]
<1>1. PinnedSource \in 0..MaxJobs
  BY Apart, BoundsAssumption DEF Rows, PinnedSource, CommittedPlayback
<1>2. asked \in Audio
  <2>1. \A dir \in Directories : \A t \in 0..MaxJobs : dir.outputs[t].mp3 \in Audio
    BY DEF Directories, Outputs
  <2>2. (IF home.exists THEN home ELSE staged) \in Directories
    BY Apart DEF FilesOK
  <2>3. CommittedPlayback \in 0..MaxJobs /\ 0 \in 0..MaxJobs
    BY <1>1, BoundsAssumption DEF PinnedSource
  <2> QED
    BY <2>1, <2>2, <2>3 DEF Playing
<1> HIDE DEF asked
<1>3. row.stage \in {"editing", "metadata"} /\ row.status \in {"done", "failed"} /\ Live
  BY DEF EnqueueExport, MayEdit, Live, Exists
<1>4. job \in Jobs
  BY <1>1, <1>2, <1>3, NewJobType DEF Jobs, JobTypes
<1>5. row' \in Rows /\ Live' /\ Exists'
  BY Apart, LiveRow DEF EnqueueExport, Stages
<1>6. Enqueue(job)
  BY DEF EnqueueExport, asked
<1> QED
  BY <1>3, <1>4, <1>5, <1>6, EnqueueKeeps

LEMMA RetryKeeps == ASSUME IInv, RetryFailedJob PROVE IInv'
<1> USE Apart
<1>1. /\ UNCHANGED <<handler, upload, deletion, home, staged, process, cutShort, crashes>>
      /\ process = "up" /\ row.status = "failed" /\ Len(jobs) > 0
      /\ StageOf(jobs[Len(jobs)].type) = row.stage
      /\ jobs' = [jobs EXCEPT ![Len(jobs)].state = "queued"]
      /\ row' = [row EXCEPT !.status = "pending"]
  BY DEF RetryFailedJob, Serving, Current
<1>2. jobs \in Seq(Jobs) /\ Len(jobs) \in DOMAIN jobs /\ Len(jobs) <= MaxJobs
  BY <1>1 DEF JobsOK
<1>3. jobs[Len(jobs)] \in Jobs
  BY <1>2
<1>4. row.stage \in Stages \ {"none", "upload", "deleted"}
  BY <1>1, <1>3, StageOfType DEF Jobs
<1>5. Live
  BY <1>4 DEF Live, Exists
<1>6. row' \in Rows /\ row'.stage = row.stage
  BY <1>1 DEF Rows
<1>7. handler.pc = "none"
  BY <1>1, <1>5 DEF HandlerOK, Live
<1>8. jobs' \in Seq(Jobs) /\ Len(jobs') = Len(jobs)
      /\ jobs'[Len(jobs)].type = jobs[Len(jobs)].type
  BY <1>1, <1>2, StateOfJobs
<1>9. Live' /\ Exists'
  BY <1>5, <1>6 DEF Live, Exists
<1> QED
  BY <1>1, <1>2, <1>5, <1>6, <1>7, <1>8, <1>9, TableStepKeeps

LEMMA SaveDraftKeeps == ASSUME IInv, SaveDraft PROVE IInv'
<1> USE Apart
<1>1. /\ UNCHANGED <<jobs, handler, upload, deletion, home, staged, process, cutShort, crashes>>
      /\ process = "up" /\ Live /\ row.status \in {"done", "failed"}
      /\ row.draft < MaxDrafts /\ row' = [row EXCEPT !.draft = @ + 1]
  BY DEF SaveDraft, Serving, MayEdit, Live, Exists
<1>2. row.draft + 1 \in 0..MaxDrafts
  BY <1>1, BoundsAssumption DEF Rows
<1>3. row' \in Rows /\ row'.stage = row.stage
  BY <1>1, <1>2 DEF Rows
<1>4. Live' /\ Exists'
  BY <1>1, <1>3 DEF Live, Exists
<1>5. handler.pc = "none"
  BY <1>1 DEF HandlerOK, Live
<1>6. jobs' \in Seq(Jobs) /\ Len(jobs') = Len(jobs) /\ Len(jobs) <= MaxJobs
  BY <1>1 DEF JobsOK
<1> QED
  BY <1>1, <1>3, <1>4, <1>5, <1>6, TableStepKeeps

-----------------------------------------------------------------------------
(* The steps of a run *)

RunPCs == {"run", "made", "encoded", "half", "published", "committed", "adjusted",
           "listen", "returned"}

\* The whole recording, normalized by the run.
OwnAudio == [by |-> Key, cut |-> 0]

LEMMA OwnAudioIsAudio ==
  ASSUME IInv, handler.pc # "none"
  PROVE  /\ OwnAudio \in Audio /\ OwnAudio # NoAudio
         /\ Key \in (-Len(jobs))..Len(jobs) /\ Key \in (-MaxJobs)..MaxJobs
         /\ Key = KeyOf(jobs[Len(jobs)], Len(jobs))
<1>1. handler.job = Len(jobs) /\ Len(jobs) \in 1..MaxJobs /\ Job = jobs[Len(jobs)]
  BY Running
<1>2. Key = KeyOf(jobs[Len(jobs)], Len(jobs))
  BY <1>1 DEF Key
<1>3. Key \in (-Len(jobs))..Len(jobs) /\ Key # 0
  BY <1>1, <1>2, KeyIsNumber
<1>4. Key \in (-MaxJobs)..MaxJobs
  BY <1>1, <1>3, BoundsAssumption
<1> QED
  BY <1>2, <1>3, <1>4, BoundsAssumption DEF OwnAudio, Audio, NoAudio

\* The pair has one place, every generation its own.
LEMMA Targets ==
  ASSUME IInv, handler.pc # "none"
  PROVE  /\ Target \in 0..MaxJobs
         /\ Target = 0 <=> Job.type \notin {"render_edit", "export"}
         /\ home.outputs[Target] \in Outputs
<1>1. handler.job \in 1..MaxJobs
  BY Running
<1>2. Target \in 0..MaxJobs /\ (Target = 0 <=> Job.type \notin {"render_edit", "export"})
  BY <1>1, BoundsAssumption DEF Target
<1> QED
  BY <1>2, Apart DEF FilesOK, Directories

\* A step that moves no file.
LEMMA AdvanceKeeps ==
  ASSUME IInv, NEW pc \in RunPCs, handler.pc # "none", Goes(pc),
         UNCHANGED <<jobs, upload, deletion, home, staged, process, cutShort, crashes>>,
         row' \in Rows, row'.stage = row.stage, row'.status = row.status,
         \/ pc \in {"run", "made", "listen", "returned"}
         \/ pc = "adjusted" /\ handler.pc = "committed" /\ Job.type \in PairTypes
         \/ /\ pc = "committed" /\ ~staged.exists /\ Job.type # "prepare_edit"
            /\ Job.type \in PairTypes =>
                 home.outputs[0].flac = OwnAudio /\ home.outputs[0].mp3 = OwnAudio
  PROVE  IInv'
<1> USE Apart
<1>1. DirectoriesOK'
  BY DirectoriesStay DEF JobsOK
<1>2. /\ process = "up" /\ upload = "none" /\ row.stage \notin {"none", "upload"}
      /\ home.approval = NoApproval
  BY Running
<1>3. handler' \in [pc : RunPCs, job : 0..MaxJobs] /\ handler'.pc = pc
      /\ handler'.job = handler.job
  BY DEF Goes, ControlOK
<1>4. ControlOK'
  BY <1>3 DEF ControlOK, RunPCs
<1>5. Exists' = Exists /\ Live' = Live
  BY DEF Exists, Live
<1>6. ProcessOK' /\ UploadOK'
  BY <1>2, <1>5 DEF ProcessOK, UploadOK
<1>7. DeletionOK'
  BY <1>2, <1>3 DEF DeletionOK, Pairing
<1>8. HandlerOK'
  <2>1. Job' = Job /\ Key' = Key /\ Current' = Current
    BY <1>3 DEF Job, Key, Current
  <2>2. handler.job = Current /\ Current > 0 /\ (Exists => row.status = "running")
    BY DEF HandlerOK
  <2>3. Job.type \in PairTypes => \A dir \in Places : dir = NoDir \/ PhaseOK(dir)'
    <3> SUFFICES ASSUME Job.type \in PairTypes, NEW dir \in Places, dir # NoDir
                 PROVE  PhaseOK(dir)'
      OBVIOUS
    <3>1. CASE pc \in {"run", "made", "listen", "returned"}
      BY <1>3, <3>1 DEF PhaseOK
    <3>2. CASE pc = "adjusted" /\ handler.pc = "committed"
      <4>1. PhaseOK(dir)
        BY DEF HandlerOK
      <4> QED
        BY <1>3, <2>1, <3>2, <4>1 DEF PhaseOK
    <3>3. CASE pc = "committed" /\ ~staged.exists
      <4>1. dir = home
        BY <3>3 DEF Places, DirectoriesOK, HoldsNothing
      <4>2. home.outputs[0].flac = OwnAudio /\ home.outputs[0].mp3 = OwnAudio
        BY <3>3
      <4> QED
        BY <1>3, <2>1, <3>3, <4>1, <4>2 DEF PhaseOK, OwnAudio
    <3> QED
      BY <3>1, <3>2, <3>3
  <2> QED
    BY <1>3, <1>5, <2>1, <2>2, <2>3 DEF HandlerOK, Places, PhaseOK, Pairing
<1>9. AudioIsNeverLost'
  BY <1>5 DEF AudioIsNeverLost, Places
<1> QED
  BY <1>1, <1>4, <1>6, <1>7, <1>8, <1>9 DEF IInv, TypeOK, JobsOK, ControlOK, FilesOK

\* A step that writes files of the run's output where its directory still is.
LEMMA PutKeeps ==
  ASSUME IInv, NEW pc \in RunPCs, NEW files \in Outputs, handler.pc # "none", Goes(pc),
         UNCHANGED <<row, jobs, upload, deletion, staged, process, cutShort, crashes>>,
         home' = Put(home, Target, files), home.exists, ~staged.exists,
         Job.type # "prepare_edit", pc # "adjusted",
         Target = 0 =>
           LET pair == home.outputs[0]
           IN  /\ home.original = "whole" \/ (files.flac = pair.flac /\ files.mp3 = pair.mp3)
               /\ \/ files.marker = pair.marker
                     /\ (pair.marker # Key \/ (files.flac = pair.flac /\ files.mp3 = pair.mp3))
                  \/ files.marker = Key /\ files.flac = OwnAudio /\ files.mp3 = OwnAudio,
         Job.type \in PairTypes => PhaseOK(home)'
  PROVE  IInv'
<1> USE Apart
<1>1. /\ process = "up" /\ upload = "none" /\ row.stage \notin {"none", "upload"}
      /\ home.approval = NoApproval
  BY Running
<1>2. handler' \in [pc : RunPCs, job : 0..MaxJobs] /\ handler'.pc = pc
      /\ handler'.job = handler.job
  BY DEF Goes, ControlOK
<1>3. ControlOK'
  BY <1>2 DEF ControlOK, RunPCs
<1>4. /\ home' \in Directories /\ home'.exists = home.exists /\ home'.original = home.original
      /\ home'.approval = home.approval /\ home'.outputs[Target] = files
      /\ \A u \in 0..MaxJobs : u # Target => home'.outputs[u] = home.outputs[u]
  <2>1. home \in Directories /\ Target \in 0..MaxJobs
    BY Targets DEF FilesOK
  <2> DEFINE put == Put(home, Target, files)
  <2>2. /\ put \in Directories /\ put.exists = home.exists /\ put.original = home.original
        /\ put.approval = home.approval /\ put.outputs[Target] = files
        /\ \A u \in 0..MaxJobs : u # Target => put.outputs[u] = home.outputs[u]
    BY ONLY <2>1, PutFiles, files \in Outputs
  <2>3. home' = put
    OBVIOUS
  <2> HIDE DEF put
  <2> QED
    BY <2>2, <2>3
<1>5. FilesOK'
  BY <1>4 DEF FilesOK
<1>6. staged = NoDir
  BY DEF DirectoriesOK, Places, HoldsNothing
<1>7. DirectoriesOK'
  <2>1. MarkerOK(home, jobs)
    BY DEF DirectoriesOK, Places
  <2>2. MarkerOK(home', jobs)
    <3>1. CASE Target # 0
      BY <1>4, <2>1, <3>1, BoundsAssumption DEF MarkerOK, Gathered
    <3>2. CASE Target = 0 /\ files.marker = home.outputs[0].marker
               /\ (files.marker # Key \/ (files.flac = home.outputs[0].flac
                                            /\ files.mp3 = home.outputs[0].mp3))
      BY <1>4, <2>1, <3>2, OwnAudioIsAudio DEF MarkerOK, Gathered
    <3>3. CASE Target = 0 /\ files.marker = Key /\ files.flac = OwnAudio /\ files.mp3 = OwnAudio
      BY <1>4, <3>3, OwnAudioIsAudio DEF MarkerOK, Gathered, OwnAudio
    <3> QED
      BY <3>1, <3>2, <3>3
  <2>3. MarkerOK(staged, jobs) /\ HoldsNothing(staged)
    BY DEF DirectoriesOK, Places
  <2> QED
    BY <1>4, <2>2, <2>3 DEF DirectoriesOK, Places, HoldsNothing, MarkerOK
<1>8. ProcessOK' /\ UploadOK' /\ DeletionOK'
  BY <1>1, <1>4, <1>6, EmptyFacts DEF ProcessOK, UploadOK, DeletionOK, Live, Exists
<1>9. HandlerOK'
  BY <1>2, <1>6 DEF HandlerOK, Places, Job, Current, Exists
<1>10. Recorded(home) => Recorded(home')
  <2>1. CASE Target # 0
    BY <1>4, <2>1, BoundsAssumption DEF Recorded
  <2>2. CASE Target = 0 /\ home.original = "whole"
    BY <1>4, <2>2 DEF Recorded
  <2>3. CASE Target = 0 /\ files.flac = home.outputs[0].flac /\ files.mp3 = home.outputs[0].mp3
    BY <1>4, <2>3 DEF Recorded
  <2> QED
    BY <2>1, <2>2, <2>3
<1>11. AudioIsNeverLost'
  BY <1>6, <1>10, EmptyFacts DEF AudioIsNeverLost, Places, Live, Exists
<1> QED
  BY <1>3, <1>5, <1>7, <1>8, <1>9, <1>11 DEF IInv, TypeOK, JobsOK, ControlOK, FilesOK

\* Where a file is, there is the directory.
LEMMA Present ==
  ASSUME IInv, \/ home.original # "none"
               \/ \E t \in 0..MaxJobs : home.outputs[t] # NoOutputs
  PROVE  home.exists /\ ~staged.exists
BY Apart, EmptyFacts DEF DirectoriesOK, Places, HoldsNothing, DeletionOK

\* A recognised pair is the run's own.
LEMMA RecognisedPair ==
  ASSUME IInv, handler.pc # "none", HasCommittedArtifacts(home)
  PROVE  /\ home.exists /\ ~staged.exists
         /\ Job.type \in PairTypes =>
              home.outputs[0].flac = OwnAudio /\ home.outputs[0].mp3 = OwnAudio
<1>1. home.exists /\ ~staged.exists
  <2>1. home.outputs[Target].mp3 # NoAudio /\ Target \in 0..MaxJobs
    BY Targets DEF HasCommittedArtifacts
  <2>2. home.outputs[Target] # NoOutputs
    BY <2>1, EmptyFacts
  <2> QED
    BY <2>1, <2>2, Present
<1>2. ASSUME Job.type \in PairTypes
      PROVE  home.outputs[0].flac = OwnAudio /\ home.outputs[0].mp3 = OwnAudio
  <2>1. /\ home.outputs[0].marker = Key /\ home.outputs[0].mp3 # NoAudio
        /\ home.outputs[0].flac # NoAudio
    BY <1>2, Targets DEF HasCommittedArtifacts, PairTypes
  <2>2. Key = KeyOf(jobs[Len(jobs)], Len(jobs)) /\ Len(jobs) > 0
    BY OwnAudioIsAudio, Running
  <2>3. Gathered(home) = [flac |-> OwnAudio, mp3 |-> OwnAudio]
    BY <2>1, <2>2, Apart DEF DirectoriesOK, Places, MarkerOK, OwnAudio
  <2> QED
    BY <2>1, <2>3 DEF Gathered
<1> QED
  BY <1>1, <1>2

LEMMA EncodedKeeps ==
  ASSUME IInv, NEW audio \in Audio, handler.pc # "none", Encoded(audio), Goes("encoded"),
         UNCHANGED <<row, jobs, upload, deletion, staged, process, cutShort, crashes>>,
         home.exists, ~staged.exists, Job.type # "prepare_edit",
         Job.type \in PairTypes =>
           home.original = "whole" /\ home.outputs[0].marker # Key /\ audio = OwnAudio
  PROVE  IInv'
<1> DEFINE flac  == IF Job.type = "export" THEN NoAudio ELSE audio
           files == [home.outputs[Target] EXCEPT !.flacTemp = flac, !.mp3Temp = audio]
<1>1. Target \in 0..MaxJobs /\ home.outputs[Target] \in Outputs
      /\ (Job.type \in PairTypes => Target = 0)
  BY Targets DEF PairTypes
<1>2. flac \in Audio
  BY Defaults
<1>3. home' = Put(home, Target, files)
  <2>1. files = [home.outputs[Target] EXCEPT !.mp3Temp = audio, !.flacTemp = flac]
    BY <1>1 DEF Outputs
  <2> QED
    BY <2>1 DEF Encoded
<1>4. Job.type \in PairTypes => flac = audio
  BY DEF PairTypes
<1> HIDE DEF flac
<1>5. /\ files \in Outputs /\ files.flac = home.outputs[Target].flac
      /\ files.mp3 = home.outputs[Target].mp3 /\ files.marker = home.outputs[Target].marker
      /\ files.flacTemp = flac /\ files.mp3Temp = audio
  <2> DEFINE old == home.outputs[Target]
             new == [old EXCEPT !.flacTemp = flac, !.mp3Temp = audio]
  <2>1. old \in Outputs
    BY <1>1
  <2> HIDE DEF old
  <2>2. /\ new \in Outputs /\ new.flac = old.flac /\ new.mp3 = old.mp3
        /\ new.marker = old.marker /\ new.flacTemp = flac /\ new.mp3Temp = audio
    BY ONLY <1>2, <2>1, audio \in Audio DEF Outputs
  <2>3. files = new
    BY DEF old
  <2> HIDE DEF new, files
  <2> QED
    BY <2>2, <2>3 DEF old
<1> HIDE DEF files
<1>6. Job.type \in PairTypes => PhaseOK(home)'
  <2> SUFFICES ASSUME Job.type \in PairTypes PROVE PhaseOK(home)'
    OBVIOUS
  <2>1. home \in Directories
    BY Apart DEF FilesOK
  <2>2. home'.outputs[0] = files /\ home'.original = home.original
    BY <1>1, <1>3, <1>5, <2>1, PutFiles
  <2>3. handler'.pc = "encoded" /\ Key' = Key
    BY Apart DEF Goes, ControlOK, Key, Job
  <2> QED
    BY <1>1, <1>4, <1>5, <2>2, <2>3 DEF PhaseOK, OwnAudio
<1>7. "encoded" \in RunPCs
  BY DEF RunPCs
<1> QED
  BY <1>1, <1>3, <1>5, <1>6, <1>7, PutKeeps

LEMMA NormalizeKeeps == ASSUME IInv, Normalize PROVE IInv'
<1>1. /\ UNCHANGED <<row, jobs, upload, deletion, staged, process, cutShort, crashes>>
      /\ handler.pc # "none" /\ Job.type \in PairTypes /\ Job.type # "prepare_edit"
  BY DEF Normalize, PairTypes
<1>2. CASE HasCommittedArtifacts(home) /\ Goes("committed") /\ UNCHANGED home
  BY <1>1, <1>2, RecognisedPair, AdvanceKeeps, Apart DEF RunPCs
<1>3. CASE /\ ~HasCommittedArtifacts(home) /\ home.original = "whole"
           /\ Encoded(OwnAudio) /\ Goes("encoded")
  <2>1. home.exists /\ ~staged.exists
    BY <1>3, Present
  <2>2. home.outputs[0].marker # Key
    <3> SUFFICES ASSUME home.outputs[0].marker = Key PROVE FALSE
      OBVIOUS
    <3>1. Key = KeyOf(jobs[Len(jobs)], Len(jobs)) /\ Len(jobs) > 0
      BY <1>1, OwnAudioIsAudio, Running
    <3>2. Gathered(home) = [flac |-> OwnAudio, mp3 |-> OwnAudio]
      BY <3>1, Apart DEF DirectoriesOK, Places, MarkerOK, OwnAudio
    <3>3. home.approval = NoApproval /\ OwnAudio # NoAudio
      BY <1>1, Running, OwnAudioIsAudio
    <3>4. home.outputs[0].flac # NoAudio /\ home.outputs[0].mp3 # NoAudio
      BY <3>2, <3>3 DEF Gathered, NoApproval
    <3> QED
      BY <1>1, <1>3, <3>4, Targets DEF HasCommittedArtifacts, PairTypes
  <2> QED
    BY <1>1, <1>3, <2>1, <2>2, OwnAudioIsAudio, EncodedKeeps
<1> QED
  BY <1>2, <1>3 DEF Normalize, OwnAudio

LEMMA RenderKeeps == ASSUME IInv, Render PROVE IInv'
<1>1. /\ UNCHANGED <<row, jobs, upload, deletion, staged, process, cutShort, crashes>>
      /\ handler.pc # "none" /\ Job.type \notin PairTypes \cup {"prepare_edit"}
  BY DEF Render, PairTypes
<1>2. CASE HasCommittedArtifacts(home) /\ Goes("committed") /\ UNCHANGED home
  BY <1>1, <1>2, RecognisedPair, AdvanceKeeps, Apart DEF RunPCs
<1>3. CASE /\ home.outputs[0].flac # NoAudio /\ Goes("encoded")
           /\ Encoded([by |-> home.outputs[0].flac.by, cut |-> Job.draft])
  <2>1. home.outputs[0] # NoOutputs /\ 0 \in 0..MaxJobs
    BY <1>3, EmptyFacts, BoundsAssumption
  <2>2. home.outputs[0].flac \in Audio /\ Job.draft \in 0..MaxDrafts
    BY <1>1, <2>1, Running, Apart DEF FilesOK, Directories, Outputs, Jobs
  <2>3. [by |-> home.outputs[0].flac.by, cut |-> Job.draft] \in Audio
    BY <2>2 DEF Audio
  <2> QED
    BY <1>1, <1>3, <2>1, <2>3, Present, EncodedKeeps
<1> QED
  BY <1>2, <1>3 DEF Render

LEMMA ExportCopyKeeps == ASSUME IInv, ExportCopy PROVE IInv'
<1>1. /\ UNCHANGED <<row, jobs, upload, deletion, staged, process, cutShort, crashes>>
      /\ handler.pc # "none" /\ Job.type \notin PairTypes \cup {"prepare_edit"}
  BY DEF ExportCopy, PairTypes
<1>2. CASE HasCommittedArtifacts(home) /\ Goes("committed") /\ UNCHANGED home
  BY <1>1, <1>2, RecognisedPair, AdvanceKeeps, Apart DEF RunPCs
<1>3. CASE /\ home.outputs[Job.source].mp3 # NoAudio /\ Goes("encoded")
           /\ Encoded(home.outputs[Job.source].mp3)
  <2>1. Job.source \in 0..MaxJobs
    BY <1>1, Running DEF Jobs
  <2>2. home.outputs[Job.source] # NoOutputs
    BY <1>3, EmptyFacts
  <2>3. home.outputs[Job.source].mp3 \in Audio
    BY <2>1, Apart DEF FilesOK, Directories, Outputs
  <2> QED
    BY <1>1, <1>3, <2>1, <2>2, <2>3, Present, EncodedKeeps
<1> QED
  BY <1>2, <1>3 DEF ExportCopy

LEMMA PublishFlacKeeps == ASSUME IInv, PublishFlac PROVE IInv'
<1> DEFINE old   == home.outputs[Target]
           files == [old EXCEPT !.flac = old.flacTemp, !.flacTemp = NoAudio]
<1>1. /\ UNCHANGED <<row, jobs, upload, deletion, staged, process, cutShort, crashes>>
      /\ handler.pc = "encoded" /\ Goes("half") /\ old.flacTemp # NoAudio
      /\ home' = Put(home, Target, files)
  BY DEF PublishFlac
<1>2. Target \in 0..MaxJobs /\ old \in Outputs /\ (Target = 0 <=> Job.type \notin {"render_edit", "export"})
  BY <1>1, Targets
<1>3. home.exists /\ ~staged.exists
  <2>1. old # NoOutputs
    BY <1>1, EmptyFacts
  <2> QED
    BY <1>2, <2>1, Present
<1>4. /\ files \in Outputs /\ files.flac = old.flacTemp /\ files.mp3 = old.mp3
      /\ files.marker = old.marker /\ files.mp3Temp = old.mp3Temp
  BY <1>2, Defaults DEF Outputs
<1> HIDE DEF files
<1>5. Job.type \in PairTypes => PhaseOK(home)
  BY <1>1, <1>3, EmptyFacts, Apart DEF HandlerOK, Places
<1>6. Job.type # "prepare_edit" /\ (Target = 0 <=> Job.type \in PairTypes)
  BY <1>1, <1>2, Apart, Running DEF HandlerOK, Pairing, JobTypes, PairTypes
<1>7. Job.type \in PairTypes => PhaseOK(home)'
  <2> SUFFICES ASSUME Job.type \in PairTypes PROVE PhaseOK(home)'
    OBVIOUS
  <2>1. home \in Directories
    BY Apart DEF FilesOK
  <2>2. home'.outputs[0] = files /\ home'.original = home.original
    BY <1>1, <1>2, <1>4, <1>6, <2>1, PutFiles
  <2>3. handler'.pc = "half" /\ Key' = Key
    BY <1>1, Apart DEF Goes, ControlOK, Key, Job
  <2> QED
    BY <1>1, <1>4, <1>5, <1>6, <2>2, <2>3 DEF PhaseOK
<1> QED
  BY <1>1, <1>3, <1>4, <1>5, <1>6, <1>7, PutKeeps DEF PhaseOK, RunPCs

LEMMA PublishMp3Keeps == ASSUME IInv, PublishMp3 PROVE IInv'
<1> DEFINE old   == home.outputs[Target]
           files == [old EXCEPT !.mp3 = old.mp3Temp, !.mp3Temp = NoAudio]
<1>1. /\ UNCHANGED <<row, jobs, upload, deletion, staged, process, cutShort, crashes>>
      /\ handler.pc \in {"encoded", "half"} /\ (handler.pc = "encoded" <=> Job.type = "export")
      /\ Goes("published") /\ old.mp3Temp # NoAudio
      /\ home' = Put(home, Target, files)
  BY DEF PublishMp3, RenamedMp3, Renamed
<1>2. Target \in 0..MaxJobs /\ old \in Outputs /\ (Target = 0 <=> Job.type \notin {"render_edit", "export"})
  BY <1>1, Targets
<1>3. home.exists /\ ~staged.exists
  <2>1. old # NoOutputs
    BY <1>1, EmptyFacts
  <2> QED
    BY <1>2, <2>1, Present
<1>4. /\ files \in Outputs /\ files.flac = old.flac /\ files.mp3 = old.mp3Temp
      /\ files.marker = old.marker
  BY <1>2, Defaults DEF Outputs
<1> HIDE DEF files
<1>5. Job.type \in PairTypes => PhaseOK(home) /\ handler.pc = "half"
  BY <1>1, <1>3, EmptyFacts, Apart DEF HandlerOK, Places, PairTypes
<1>6. Job.type # "prepare_edit" /\ (Target = 0 <=> Job.type \in PairTypes)
  BY <1>1, <1>2, Apart, Running DEF HandlerOK, Pairing, JobTypes, PairTypes
<1>7. Job.type \in PairTypes => PhaseOK(home)'
  <2> SUFFICES ASSUME Job.type \in PairTypes PROVE PhaseOK(home)'
    OBVIOUS
  <2>1. home \in Directories
    BY Apart DEF FilesOK
  <2>2. home'.outputs[0] = files /\ home'.original = home.original
    BY <1>1, <1>2, <1>4, <1>6, <2>1, PutFiles
  <2>3. handler'.pc = "published" /\ Key' = Key
    BY <1>1, Apart DEF Goes, ControlOK, Key, Job
  <2> QED
    BY <1>1, <1>4, <1>5, <1>6, <2>2, <2>3 DEF PhaseOK
<1> QED
  BY <1>1, <1>3, <1>4, <1>5, <1>6, <1>7, PutKeeps DEF PhaseOK, RunPCs

LEMMA WriteMarkerKeeps == ASSUME IInv, WriteMarker PROVE IInv'
<1> DEFINE old   == home.outputs[Target]
           files == [old EXCEPT !.marker = Key]
<1>1. /\ UNCHANGED <<row, jobs, upload, deletion, staged, process, cutShort, crashes>>
      /\ handler.pc = "published" /\ Goes("committed") /\ home.exists
      /\ home' = Put(home, Target, files)
  BY DEF WriteMarker
<1>2. Target \in 0..MaxJobs /\ old \in Outputs /\ (Target = 0 <=> Job.type \notin {"render_edit", "export"})
  BY <1>1, Targets
<1>3. home.exists /\ ~staged.exists
  BY <1>1, EmptyFacts, Apart DEF DeletionOK, Pairing
<1>4. /\ files \in Outputs /\ files.flac = old.flac /\ files.mp3 = old.mp3
      /\ files.marker = Key
  BY <1>1, <1>2, OwnAudioIsAudio DEF Outputs
<1> HIDE DEF files
<1>5. Job.type \in PairTypes => PhaseOK(home)
  BY <1>1, <1>3, EmptyFacts, Apart DEF HandlerOK, Places
<1>6. Job.type # "prepare_edit" /\ (Target = 0 <=> Job.type \in PairTypes)
  BY <1>1, <1>2, Apart, Running DEF HandlerOK, Pairing, JobTypes, PairTypes
<1>7. Job.type \in PairTypes => PhaseOK(home)'
  <2> SUFFICES ASSUME Job.type \in PairTypes PROVE PhaseOK(home)'
    OBVIOUS
  <2>1. home \in Directories
    BY Apart DEF FilesOK
  <2>2. home'.outputs[0] = files
    BY <1>1, <1>2, <1>4, <1>6, <2>1, PutFiles
  <2>3. handler'.pc = "committed" /\ Key' = Key
    BY <1>1, Apart DEF Goes, ControlOK, Key, Job
  <2> QED
    BY <1>1, <1>4, <1>5, <1>6, <2>2, <2>3 DEF PhaseOK
<1>8. Target = 0 => files.flac = OwnAudio /\ files.mp3 = OwnAudio
  BY <1>1, <1>4, <1>5, <1>6 DEF PhaseOK, OwnAudio
<1> QED
  BY <1>1, <1>3, <1>4, <1>6, <1>7, <1>8, PutKeeps DEF RunPCs

LEMMA SetAdjustmentsKeeps == ASSUME IInv, SetNormalizationAdjustments PROVE IInv'
<1>1. /\ UNCHANGED <<jobs, upload, deletion, home, staged, process, cutShort, crashes>>
      /\ handler.pc = "committed" /\ Goes("adjusted") /\ Job.type \in PairTypes
      /\ row' = [row EXCEPT !.settings = Job.settings]
  BY DEF SetNormalizationAdjustments, PairTypes
<1>2. Job.settings \in Settings
  BY <1>1, Running DEF Jobs
<1>3. row' \in Rows /\ row'.stage = row.stage /\ row'.status = row.status
  BY <1>1, <1>2, Apart DEF Rows
<1> QED
  BY <1>1, <1>3, AdvanceKeeps DEF RunPCs

LEMMA TranscribeKeeps == ASSUME IInv, Transcribe PROVE IInv'
BY AdvanceKeeps, Apart DEF Transcribe, RunPCs

LEMMA PrepareEditKeeps == ASSUME IInv, PrepareEdit PROVE IInv'
<1>1. /\ UNCHANGED <<jobs, upload, deletion, home, staged, process, cutShort, crashes>>
      /\ handler.pc = "run" /\ Goes("returned")
      /\ row.draft < MaxDrafts /\ row' = [row EXCEPT !.draft = @ + 1]
  BY DEF PrepareEdit
<1>2. row.draft + 1 \in 0..MaxDrafts
  BY <1>1, Apart, BoundsAssumption DEF Rows
<1>3. row' \in Rows /\ row'.stage = row.stage /\ row'.status = row.status
  BY <1>1, <1>2, Apart DEF Rows
<1> QED
  BY <1>1, <1>3, AdvanceKeeps DEF RunPCs

LEMMA CommitEditingKeeps == ASSUME IInv, CommitEditing PROVE IInv'
<1> DEFINE skips == handler.pc = "run" /\ Job.skip
<1>1. /\ UNCHANGED <<jobs, upload, deletion, home, staged, process, cutShort, crashes>>
      /\ handler.pc # "none" /\ Goes("returned")
      /\ row' = IF ~Exists THEN row
                ELSE [row EXCEPT !.playback = IF skips THEN 0 ELSE handler.job,
                                 !.active = ~skips, !.applied = Job.draft]
  BY DEF CommitEditing
<1>2. Job.draft \in 0..MaxDrafts /\ handler.job \in 0..MaxJobs /\ skips \in BOOLEAN
  BY <1>1, Running DEF Jobs
<1>3. row' \in Rows /\ row'.stage = row.stage /\ row'.status = row.status
  <2> DEFINE playback == IF skips THEN 0 ELSE handler.job
             active   == ~skips
  <2>1. playback \in 0..MaxJobs /\ active \in BOOLEAN
    BY <1>2, BoundsAssumption
  <2>2. row' = row \/ row' = [row EXCEPT !.playback = playback, !.active = active,
                                        !.applied = Job.draft]
    BY <1>1
  <2> HIDE DEF playback, active
  <2> QED
    BY <1>2, <2>1, <2>2, Apart DEF Rows
<1> QED
  BY <1>1, <1>3, AdvanceKeeps DEF RunPCs

LEMMA ExportEndsKeeps == ASSUME IInv, ExportEnds PROVE IInv'
BY AdvanceKeeps, Apart DEF ExportEnds, RunPCs

\* Anything that can be read of a directory is unchanged by making it.
LEMMA MakeGenerationKeeps == ASSUME IInv, MakeGeneration PROVE IInv'
<1> USE Apart
<1>1. /\ UNCHANGED <<row, jobs, upload, deletion, staged, process, cutShort, crashes>>
      /\ handler.pc = "run" /\ Goes("made") /\ home' = [home EXCEPT !.exists = TRUE]
  BY DEF MakeGeneration
<1>2. /\ process = "up" /\ upload = "none" /\ row.stage \notin {"none", "upload"}
      /\ home.approval = NoApproval
  BY <1>1, Running
<1>3. /\ home' \in Directories /\ home'.exists /\ home'.original = home.original
      /\ home'.outputs = home.outputs /\ home'.approval = home.approval
  BY <1>1 DEF FilesOK, Directories
<1>4. handler' = [handler EXCEPT !.pc = "made"] /\ handler'.pc = "made"
      /\ handler'.job = handler.job
  BY <1>1 DEF Goes, ControlOK
<1>5. ControlOK'
  BY <1>1, <1>4 DEF ControlOK
<1>6. DirectoriesOK'
  <2>1. MarkerOK(home', jobs) /\ HoldsNothing(home')
    BY <1>3 DEF DirectoriesOK, Places, MarkerOK, Gathered, HoldsNothing
  <2> QED
    BY <1>1, <2>1 DEF DirectoriesOK, Places, MarkerOK, HoldsNothing
<1>7. DeletionOK'
  <2>1. home \in {NoDir, EmptyDir} => home' = EmptyDir
    BY <1>1 DEF EmptyDir, NoDir
  <2> QED
    BY <1>1, <1>2, <1>4, <2>1 DEF DeletionOK, Pairing
<1>8. ProcessOK' /\ UploadOK' /\ HandlerOK'
  BY <1>1, <1>2, <1>4 DEF ProcessOK, UploadOK, HandlerOK, PhaseOK, Pairing, Job, Current, Exists, Live
<1>9. AudioIsNeverLost'
  BY <1>1, <1>3 DEF AudioIsNeverLost, Places, Recorded, Live, Exists
<1> QED
  BY <1>1, <1>3, <1>5, <1>6, <1>7, <1>8, <1>9 DEF IInv, TypeOK, JobsOK, ControlOK, FilesOK

\* The original goes when both forms of the normalized recording are there.
LEMMA RemoveOriginalKeeps == ASSUME IInv, RemoveOriginal PROVE IInv'
<1> USE Apart
<1>1. /\ UNCHANGED <<row, jobs, upload, deletion, staged, process, cutShort, crashes>>
      /\ handler.pc = "adjusted" /\ home' = [home EXCEPT !.original = "none"]
      /\ handler' = [handler EXCEPT !.pc = IF Job.type = "normalize" THEN "returned"
                                                                     ELSE "listen"]
  BY DEF RemoveOriginal, Goes
<1>2. /\ process = "up" /\ upload = "none" /\ row.stage \notin {"none", "upload"}
      /\ home.approval = NoApproval
  BY <1>1, Running
<1>3. /\ home' \in Directories /\ home'.exists = home.exists
      /\ home'.outputs = home.outputs /\ home'.approval = home.approval
  BY <1>1 DEF FilesOK, Directories
<1>4. handler'.pc \in {"returned", "listen"} /\ handler'.job = handler.job
      /\ handler' \in [pc : {"returned", "listen"}, job : 0..MaxJobs]
  BY <1>1 DEF ControlOK
<1>5. ControlOK'
  BY <1>1, <1>4 DEF ControlOK
<1>6. home = NoDir => home' = home
  BY <1>1, EmptyFacts DEF FilesOK, Directories
<1>7. DirectoriesOK'
  <2>1. MarkerOK(home', jobs) /\ HoldsNothing(home')
    BY <1>3, <1>6 DEF DirectoriesOK, Places, MarkerOK, Gathered, HoldsNothing
  <2> QED
    BY <1>1, <2>1 DEF DirectoriesOK, Places, MarkerOK, HoldsNothing
<1>8. DeletionOK'
  BY <1>1, <1>2, <1>4, <1>6 DEF DeletionOK, Pairing
<1>9. ProcessOK' /\ UploadOK' /\ HandlerOK'
  BY <1>1, <1>2, <1>3, <1>4 DEF ProcessOK, UploadOK, HandlerOK, PhaseOK, Pairing, Job, Current,
     Exists, Live
<1>10. AudioIsNeverLost'
  <2>1. CASE home = NoDir
    BY <1>1, <1>6, <2>1 DEF AudioIsNeverLost, Places, Live, Exists
  <2>2. CASE home # NoDir
    <3>1. PhaseOK(home) /\ OwnAudio # NoAudio
      BY <1>1, <2>2, OwnAudioIsAudio DEF HandlerOK, Places
    <3>2. Recorded(home')
      BY <1>1, <1>3, <3>1 DEF PhaseOK, Recorded, OwnAudio
    <3> QED
      BY <3>2 DEF AudioIsNeverLost, Places
  <2> QED
    BY <2>1, <2>2
<1> QED
  BY <1>1, <1>3, <1>5, <1>7, <1>8, <1>9, <1>10 DEF IInv, TypeOK, JobsOK, ControlOK, FilesOK

\* Dropping temporary files shows in nothing that is published.
LEMMA WithoutTemporaries ==
  ASSUME NEW dir \in Directories, NEW t \in 0..MaxJobs
  PROVE  LET new == Put(dir, t, [dir.outputs[t] EXCEPT !.flacTemp = NoAudio,
                                                       !.mp3Temp = NoAudio])
         IN  /\ new \in Directories /\ new.exists = dir.exists
             /\ new.original = dir.original /\ new.approval = dir.approval
             /\ new.outputs[0].flac = dir.outputs[0].flac
             /\ new.outputs[0].mp3 = dir.outputs[0].mp3
             /\ new.outputs[0].marker = dir.outputs[0].marker
             /\ dir \in {NoDir, EmptyDir} => new = dir
<1> DEFINE old   == dir.outputs[t]
           files == [old EXCEPT !.flacTemp = NoAudio, !.mp3Temp = NoAudio]
           new   == Put(dir, t, files)
<1>1. old \in Outputs
  BY DEF Directories
<1>2. files \in Outputs /\ files.flac = old.flac /\ files.mp3 = old.mp3
      /\ files.marker = old.marker
  BY <1>1, Defaults DEF Outputs
<1>3. dir \in {NoDir, EmptyDir} => files = old
  <2>1. dir \in {NoDir, EmptyDir} => old = NoOutputs
    BY EmptyFacts
  <2> QED
    BY <1>1, <2>1, EmptyFacts DEF Outputs
<1> HIDE DEF files
<1>4. /\ new \in Directories /\ new.exists = dir.exists /\ new.original = dir.original
      /\ new.approval = dir.approval /\ new.outputs[t] = files
      /\ \A u \in 0..MaxJobs : u # t => new.outputs[u] = dir.outputs[u]
  BY <1>2, PutFiles
<1>5. files = old => new = dir
  BY DEF Put, Directories
<1> HIDE DEF new
<1>6. 0 \in 0..MaxJobs
  BY BoundsAssumption
<1>7. /\ new.outputs[0].flac = dir.outputs[0].flac /\ new.outputs[0].mp3 = dir.outputs[0].mp3
      /\ new.outputs[0].marker = dir.outputs[0].marker
  BY <1>2, <1>4, <1>6
<1> QED
  BY <1>3, <1>4, <1>5, <1>7 DEF new, files

LEMMA HandlerFailsKeeps == ASSUME IInv, HandlerFails PROVE IInv'
<1> USE Apart
<1>1. /\ UNCHANGED <<upload, deletion, staged, process, cutShort, crashes>>
      /\ handler.pc # "none" /\ handler' = NoHandler
      /\ home' = Put(home, Target, [home.outputs[Target] EXCEPT !.flacTemp = NoAudio,
                                                                !.mp3Temp = NoAudio])
  BY DEF HandlerFails
<1>2. /\ handler.job = Len(jobs) /\ Len(jobs) \in DOMAIN jobs /\ process = "up" /\ upload = "none"
      /\ row.stage \notin {"none", "upload"} /\ home.approval = NoApproval
      /\ (Exists => Live)
  BY <1>1, Running
<1>3. /\ home' \in Directories /\ home'.exists = home.exists
      /\ home'.original = home.original /\ home'.approval = home.approval
      /\ home'.outputs[0].flac = home.outputs[0].flac
      /\ home'.outputs[0].mp3 = home.outputs[0].mp3
      /\ home'.outputs[0].marker = home.outputs[0].marker
      /\ home \in {NoDir, EmptyDir} => home' = home
  BY <1>1, Targets, WithoutTemporaries DEF FilesOK
<1>4. /\ row' \in Rows /\ row'.stage = row.stage
      /\ jobs' \in Seq(Jobs) /\ Len(jobs') = Len(jobs)
      /\ jobs'[Len(jobs)].type = jobs[Len(jobs)].type
  <2>1. CASE UNCHANGED <<row, jobs>>
    BY <2>1 DEF JobsOK
  <2>2. CASE jobs' = [jobs EXCEPT ![Len(jobs)].state = "queued"] /\ UNCHANGED row
    BY <1>2, <2>2, StateOfJobs DEF JobsOK
  <2>3. CASE /\ jobs' = [jobs EXCEPT ![Len(jobs)].state = "failed"]
             /\ row' = [row EXCEPT !.status = "failed"]
    <3>1. row' \in Rows /\ row'.stage = row.stage
      BY <2>3 DEF Rows
    <3> QED
      BY <1>2, <2>3, <3>1, StateOfJobs DEF JobsOK
  <2> QED
    BY <1>2, <2>1, <2>2, <2>3 DEF HandlerFails
<1>5. ControlOK' /\ FilesOK' /\ JobsOK'
  BY <1>1, <1>3, <1>4, BoundsAssumption DEF ControlOK, FilesOK, JobsOK, NoHandler
<1>6. DirectoriesOK'
  <2>1. \A dir \in Places : MarkerOK(dir, jobs)
    BY DEF DirectoriesOK
  <2>2. MarkerOK(home', jobs) /\ HoldsNothing(home')
    BY <1>3, <2>1 DEF DirectoriesOK, Places, MarkerOK, Gathered, HoldsNothing
  <2>3. \A dir \in {home', staged} : MarkerOK(dir, jobs')
    BY <1>4, <2>1, <2>2, MarkersLater DEF Places, JobsOK
  <2> QED
    BY <1>1, <2>2, <2>3 DEF DirectoriesOK, Places, MarkerOK, HoldsNothing
<1>7. Exists' = Exists /\ Live' = Live
  BY <1>4 DEF Exists, Live
<1>8. ProcessOK' /\ UploadOK' /\ DeletionOK' /\ HandlerOK'
  BY <1>1, <1>2, <1>3, <1>4, <1>7 DEF ProcessOK, UploadOK, DeletionOK, HandlerOK, NoHandler,
     Pairing
<1>9. AudioIsNeverLost'
  BY <1>1, <1>3, <1>7 DEF AudioIsNeverLost, Places, Recorded
<1> QED
  BY <1>4, <1>5, <1>6, <1>8, <1>9 DEF IInv, TypeOK, JobsOK, ControlOK, FilesOK

-----------------------------------------------------------------------------
(* The theorems *)

\* Whatever earlier versions left is in order.
LEMMA InitIInv == Init => IInv
<1> SUFFICES ASSUME Init PROVE IInv
  OBVIOUS
<1>1. PICK u \in Upgrades : row = u.row /\ jobs = u.jobs /\ home = u.home
  BY DEF Init
<1>2. /\ staged = NoDir /\ handler = NoHandler /\ upload = "none" /\ deletion = "none"
      /\ process = "down" /\ cutShort = FALSE /\ crashes = 0
  BY DEF Init
<1>3. row \in Rows /\ jobs \in Seq(Jobs) /\ home \in Directories /\ Len(jobs) <= MaxJobs
  BY <1>1, UpgradesAssumption, CoherentUpgrades
<1>4. /\ home.exists \/ home = NoDir
      /\ home.outputs[0].marker \in (-Len(jobs))..Len(jobs)
      /\ MarkerOK(home, jobs)
  BY <1>1, CoherentUpgrades DEF MarkerOK
<1>5. /\ row.stage \in {"none", "upload", "deleted"} =>
           jobs = << >> /\ home.approval = NoApproval
      /\ row.stage \notin {"none", "upload", "deleted"} => Recorded(home)
  BY <1>1, CoherentUpgrades
<1>6. TypeOK
  <2>1. ControlOK
    <3>1. handler \in [pc : {"none"}, job : 0..MaxJobs]
      BY <1>2, BoundsAssumption DEF NoHandler
    <3>2. cutShort \in BOOLEAN
      BY <1>2
    <3>3. crashes \in 0..MaxCrashes
      BY <1>2, BoundsAssumption
    <3> QED
      BY <1>2, <3>1, <3>2, <3>3 DEF ControlOK
  <2>2. staged \in Directories
    BY <1>2, Defaults
  <2> QED
    BY <1>3, <2>1, <2>2 DEF TypeOK, ControlOK
<1>7. DirectoriesOK
  BY <1>2, <1>3, <1>4, EmptyInOrder DEF DirectoriesOK, Places, HoldsNothing
<1>8. ProcessOK /\ UploadOK /\ DeletionOK /\ HandlerOK /\ AudioIsNeverLost
  BY <1>2, <1>5, EmptyFacts DEF ProcessOK, UploadOK, DeletionOK, HandlerOK, AudioIsNeverLost,
     NoHandler, Live, Exists, Places
<1> QED
  BY <1>6, <1>7, <1>8 DEF IInv

LEMMA NextKeeps == ASSUME IInv, Next PROVE IInv'
<1>1. CASE Start
  BY <1>1, RecoverKeeps, DiscardKeeps, RemoveUploadKeeps, RestoreKeeps, ServeKeeps, CrashKeeps
  DEF Start
<1>2. CASE Uploads
  BY <1>2, UploadMkdirKeeps, UploadCreateKeeps, UploadOpenKeeps, UploadBodyKeeps,
     CompleteUploadKeeps, AbandonRowKeeps, AbandonFilesKeeps DEF Uploads
<1>3. CASE Deletes
  BY <1>3, DeleteBeginKeeps, DeleteStageKeeps, DeleteCommitKeeps, DeleteRestoreKeeps,
     DeleteFilesKeeps DEF Deletes
<1>4. CASE Works
  <2>1. CASE ClaimNextJob \/ CompleteJob \/ HandlerFails
    BY <2>1, ClaimKeeps, CompleteJobKeeps, HandlerFailsKeeps
  <2>2. CASE Commits
    BY <2>2, PublishFlacKeeps, PublishMp3Keeps, WriteMarkerKeeps DEF Commits
  <2>3. CASE Normalizes
    BY <2>3, NormalizeKeeps, SetAdjustmentsKeeps, RemoveOriginalKeeps, TranscribeKeeps
    DEF Normalizes
  <2>4. CASE Edits
    BY <2>4, PrepareEditKeeps, MakeGenerationKeeps, RenderKeeps, CommitEditingKeeps DEF Edits
  <2>5. CASE Exports
    BY <2>5, ExportCopyKeeps, ExportEndsKeeps DEF Exports
  <2> QED
    BY <1>4, <2>1, <2>2, <2>3, <2>4, <2>5 DEF Works
<1>5. CASE Requests
  BY <1>5, RerunNormalizationKeeps, RerunTranscriptionKeeps, ApplyDraftKeeps,
     EnqueueExportKeeps, RetryKeeps, SaveDraftKeeps DEF Requests
<1> QED
  BY <1>1, <1>2, <1>3, <1>4, <1>5 DEF Next

LEMMA StepKeepsIInv == IInv /\ [Next]_vars => IInv'
<1> SUFFICES ASSUME IInv, [Next]_vars PROVE IInv'
  OBVIOUS
<1>1. CASE Next
  BY <1>1, NextKeeps
<1>2. CASE UNCHANGED vars
  BY <1>2 DEF vars, IInv, TypeOK, ProcessOK, UploadOK, DeletionOK, HandlerOK, DirectoriesOK,
     AudioIsNeverLost, MarkerOK, HoldsNothing, PhaseOK, Pairing, Places, Live, Exists, Job,
     Key, Current
<1> QED
  BY <1>1, <1>2

\* The invariant that carries the two theorems below.
THEOREM InductiveInvariant == Spec => []IInv
<1>1. Init => IInv
  BY InitIInv
<1>2. IInv /\ [Next]_vars => IInv'
  BY StepKeepsIInv
<1> QED
  BY <1>1, <1>2, PTL DEF Spec

\* Every variable keeps its type, the adjustments their limits (store/jobs.go,
\* processing/normalize.go).
THEOREM TypeCorrect == Spec => []TypeOK
<1>1. IInv => TypeOK
  BY DEF IInv
<1> QED
  BY <1>1, InductiveInvariant, PTL

\* A live sermon never loses its recording (normalize.go:183-184, the renames of
\* marker.go, the deletion of server.go:622-662), for any number of jobs, of
\* drafts and of crashes.
THEOREM RecordingIsNeverLost == Spec => []AudioIsNeverLost
<1>1. IInv => AudioIsNeverLost
  BY DEF IInv
<1> QED
  BY <1>1, InductiveInvariant, PTL

-----------------------------------------------------------------------------
(***************************************************************************)
(* What plays, what is downloaded, what a retry finds and what a deletion  *)
(* leaves: the invariants of the files of a sermon, for any number of      *)
(* jobs, drafts and crashes.                                               *)
(*                                                                         *)
(* The files of a live sermon are in one place, Files: beside the row, or  *)
(* where a deletion renamed them to; the other place is then empty, and    *)
(* the handler can do nothing there.  FilesInOrder says of that one place  *)
(* what the tables and the markers promise, RunOK how far the run of an    *)
(* edit or an export has come, and GoneOK that nothing comes back once     *)
(* the row is gone.  A step changes the tables or one output, seldom both: *)
(* TablesKeepFiles and the two lemmas after it, PairWritten and            *)
(* GenerationWritten carry most of the actions.                            *)
(***************************************************************************)

Files == IF staged.exists THEN staged ELSE home

\* A handler made the directory anew while the deletion had moved it, which can
\* therefore not be undone: no run finds its input any more.
Stuck == staged.exists /\ home = EmptyDir

DeletionsOK ==
  /\ deletion \in {"begun", "staged"} => Exists
  /\ deletion \in {"staged", "restoring", "committed"} => staged.exists
  /\ staged.exists /\ Exists => deletion \in {"staged", "restoring"} \/ cutShort

GoneOK ==
  row.stage = "deleted" /\ upload # "dropped" /\ process # "cleaning" /\ ~cutShort =>
    /\ home \in {NoDir, EmptyDir}
    /\ upload # "none" \/ Pairing => home = NoDir

FilesInOrder ==
  Live => /\ PairInOrder(row, jobs, Files)
          /\ EditInOrder(row, jobs, Files)
          /\ GenerationsInOrder(jobs, Files)
          /\ Stuck \/ SourceInOrder(jobs, Files)

\* How far a run has come when it goes on at pc, where its files are in dir.
RunInOrder(pc, dir) ==
  LET own  == dir.outputs[Target]
      pair == dir.outputs[0]
      edit == [by |-> pair.flac.by, cut |-> Job.draft]
      made == Made(Job, handler.job, dir)
  IN  /\ Job.state = "running"
      /\ pc \in {"committed", "adjusted"} => own.marker = Key
      /\ Job.type = "transcribe" /\ pc = "returned" => pair.mp3 # NoAudio
      /\ Job.type \in {"render_edit", "export"} =>
           /\ pc \in {"encoded", "half", "published"} => own.marker # Key
           /\ pc \in {"published", "committed"} => made
      /\ Job.type = "render_edit" =>
           /\ pc \in {"encoded", "half"} => pair.flac # NoAudio /\ own.mp3Temp = edit
           /\ pc = "encoded" => own.flacTemp = edit
           /\ pc = "half" => own.flac = edit
      /\ Job.type = "export" =>
           /\ pc = "encoded" => Job.asked # NoAudio /\ own.mp3Temp = Job.asked
           /\ pc = "returned" => made
           /\ pc # "half"

RunOK == handler.pc # "none" /\ Live => RunInOrder(handler.pc, Files)

\* An upload begins with an empty directory and an empty row.
FreshOK ==
  /\ upload = "made" => home = EmptyDir
  /\ upload \in {"row", "body", "whole"} /\ row.stage = "upload" =>
       row.draft = 0 /\ ~row.active /\ \A t \in 0..MaxJobs : Files.outputs[t] = NoOutputs

FilesHold == FreshOK /\ FilesInOrder /\ RunOK

QInv == IInv /\ DeletionsOK /\ GoneOK /\ FilesHold

-----------------------------------------------------------------------------
(* Deletion *)

\* Steps that move no file and delete no row; a run that begins to publish has
\* found a directory.
LEMMA TablesKeepGone ==
  ASSUME DeletionsOK, GoneOK, UNCHANGED <<upload, deletion, home, staged, cutShort>>,
         process' # "cleaning" => process # "cleaning",
         row'.stage = "deleted" <=> row.stage = "deleted", Exists' <=> Exists, Live' <=> Live,
         Pairing' => Pairing \/ ~(row.stage = "deleted")
  PROVE  DeletionsOK' /\ GoneOK'
BY DEF DeletionsOK, GoneOK

\* A row that changes its stage for another one of a live row.
LEMMA LiveStage ==
  ASSUME Live, row'.stage \in Stages \ {"none", "upload", "deleted"}
  PROVE  Live' /\ Exists' /\ Exists /\ row.stage # "deleted" /\ row'.stage # "deleted"
BY DEF Live, Exists

LEMMA StartKeepsGone == ASSUME IInv, DeletionsOK, GoneOK, Start PROVE DeletionsOK' /\ GoneOK'
<1> USE Apart
<1>1. CASE RecoverRunningJobs
  <2>1. row'.stage = row.stage
    BY <1>1 DEF RecoverRunningJobs, Rows
  <2> QED
    BY <1>1, <2>1, TablesKeepGone DEF RecoverRunningJobs, Exists, Live, Pairing
<1>2. CASE DiscardInterruptedUploads
  <2>1. deletion = "none" /\ deletion' = "none" /\ UNCHANGED <<handler, upload, home, staged, cutShort>>
    BY <1>2 DEF DiscardInterruptedUploads, ProcessOK
  <2>2. CASE row.stage = "upload"
    BY <1>2, <2>1, <2>2 DEF DiscardInterruptedUploads, DeletionsOK, GoneOK, DeletedRow, NoRow,
       Live, Exists
  <2>3. CASE row.stage # "upload"
    BY <1>2, <2>1, <2>3, TablesKeepGone DEF DiscardInterruptedUploads, Exists, Live, Pairing
  <2> QED
    BY <2>2, <2>3
<1>3. CASE RemoveInterruptedUpload
  <2>1. deletion = "none" /\ upload = "none" /\ handler = NoHandler /\ row.stage = "deleted"
        /\ UNCHANGED <<row, handler, upload, deletion, staged>>
    BY <1>3 DEF RemoveInterruptedUpload, ProcessOK
  <2> QED
    BY <1>3, <2>1 DEF RemoveInterruptedUpload, DeletionsOK, GoneOK, Live, Exists, Pairing, NoHandler
<1>4. CASE RestoreOne
  BY <1>4 DEF RestoreOne, DeletionsOK, GoneOK, Live, Exists
<1>5. CASE Serve
  BY <1>5, TablesKeepGone DEF Serve, Exists, Live, Pairing
<1>6. CASE Crash
  <2>1. UNCHANGED <<row, home, staged>> /\ upload' = "none" /\ deletion' = "none"
        /\ process' = "down" /\ handler' = NoHandler
        /\ cutShort' = (cutShort \/ deletion \in {"staged", "restoring", "committed"}
                                 \/ upload \in {"made", "dropped"} \/ process = "cleaning")
    BY <1>6 DEF Crash
  <2>2. DeletionsOK'
    BY <2>1 DEF DeletionsOK, Live, Exists
  <2>3. GoneOK'
    BY <2>1 DEF GoneOK, Pairing, NoHandler
  <2> QED
    BY <2>2, <2>3
<1> QED
  BY <1>1, <1>2, <1>3, <1>4, <1>5, <1>6 DEF Start

LEMMA UploadsKeepGone == ASSUME IInv, DeletionsOK, GoneOK, Uploads PROVE DeletionsOK' /\ GoneOK'
<1> USE Apart
<1>1. CASE UploadMkdir
  BY <1>1 DEF UploadMkdir, DeletionsOK, GoneOK, Live, Exists
<1>2. CASE UploadCreate
  <2>1. row.stage = "none" /\ staged = NoDir /\ deletion = "none"
    BY <1>2 DEF UploadCreate, UploadOK
  <2>2. row'.stage # "deleted" /\ UNCHANGED <<deletion, staged>> /\ ~staged.exists
    BY <1>2, <2>1, EmptyFacts DEF UploadCreate, NoRow
  <2> QED
    BY <2>1, <2>2 DEF DeletionsOK, GoneOK
<1>3. CASE UploadOpen
  <2>1. UNCHANGED <<row, handler, deletion, staged, process, cutShort>> /\ upload = "row"
        /\ handler = NoHandler
    BY <1>3 DEF UploadOpen, UploadOK
  <2>2. ~NoDir.exists
    BY EmptyFacts
  <2> QED
    BY <1>3, <2>1, <2>2 DEF UploadOpen, DeletionsOK, GoneOK, Live, Exists, Pairing, NoHandler
<1>4. CASE UploadBody
  <2>1. UNCHANGED <<row, handler, deletion, process, cutShort>> /\ upload = "body"
        /\ upload' \in {"whole", "abandoned"} /\ ~Live
    BY <1>4 DEF UploadBody, UploadOK
  <2>2. staged'.exists = staged.exists /\ (home = NoDir => home' = home)
    <3>1. home = NoDir => home.original = "none" /\ [home EXCEPT !.original = home.original] = home
      BY EmptyFacts DEF FilesOK, Directories
    <3> QED
      BY <1>4, <3>1 DEF UploadBody, FilesOK, Directories
  <2> QED
    BY <2>1, <2>2 DEF DeletionsOK, GoneOK, Live, Exists, Pairing
<1>5. CASE CompleteUpload
  <2>1. UNCHANGED <<handler, deletion, home, staged, process, cutShort>> /\ upload = "whole" /\ DbFree
    BY <1>5 DEF CompleteUpload
  <2>2. CASE row.stage = "upload" /\ row' = [row EXCEPT !.stage = "normalization", !.status = "pending"]
    <3>1. row'.stage = "normalization"
      BY <2>2 DEF Rows
    <3>2. deletion \notin {"begun", "staged"}
      BY <2>1 DEF DbFree
    <3>3. staged.exists => deletion = "restoring" \/ cutShort
      BY <2>2, <3>2 DEF DeletionsOK, Exists
    <3> QED
      BY <2>1, <2>2, <3>1, <3>2, <3>3 DEF DeletionsOK, GoneOK, Live, Exists
  <2>3. CASE UNCHANGED row /\ upload' = "abandoned"
    BY <2>1, <2>3 DEF DeletionsOK, GoneOK, Live, Exists, Pairing
  <2> QED
    BY <1>5, <2>2, <2>3 DEF CompleteUpload
<1>6. CASE AbandonRow
  <2>1. UNCHANGED <<handler, deletion, home, staged, process>> /\ upload = "abandoned" /\ DbFree
        /\ handler = NoHandler
    BY <1>6 DEF AbandonRow, UploadOK
  <2>2. CASE /\ row' = IF Exists THEN DeletedRow ELSE row
             /\ upload' = "dropped" /\ UNCHANGED cutShort
    <3>1. ~Exists'
      BY <2>2 DEF Exists, DeletedRow, NoRow
    <3>2. DeletionsOK'
      BY <2>1, <2>2, <3>1 DEF DeletionsOK, DbFree
    <3> QED
      BY <2>2, <3>2 DEF GoneOK
  <2>3. CASE upload' = "none" /\ cutShort' = TRUE /\ UNCHANGED row
    BY <2>1, <2>3 DEF DeletionsOK, GoneOK, Live, Exists
  <2> QED
    BY <1>6, <2>2, <2>3 DEF AbandonRow
<1>7. CASE AbandonFiles
  <2>1. UNCHANGED <<row, handler, deletion, staged, process>> /\ upload = "dropped"
        /\ (home' = NoDir \/ cutShort' = TRUE) /\ (cutShort => cutShort')
    BY <1>7 DEF AbandonFiles, WithoutAbandoned, ControlOK
  <2> QED
    BY <2>1 DEF DeletionsOK, GoneOK, Live, Exists
<1> QED
  BY <1>1, <1>2, <1>3, <1>4, <1>5, <1>6, <1>7 DEF Uploads

LEMMA DeletesKeepGone == ASSUME IInv, DeletionsOK, GoneOK, Deletes PROVE DeletionsOK' /\ GoneOK'
<1> USE Apart
<1>1. CASE DeleteBegin
  BY <1>1 DEF DeleteBegin, DeletionsOK, GoneOK, Exists, Pairing
<1>2. CASE DeleteStage
  <2>1. UNCHANGED <<row, handler, upload, process, cutShort>> /\ Exists
        /\ \/ UNCHANGED <<home, staged>> /\ deletion' = "none"
           \/ home.exists /\ staged' = home /\ home' = NoDir /\ deletion' = "staged"
    BY <1>2 DEF DeleteStage, DeletionsOK
  <2>2. row.stage # "deleted"
    BY <2>1 DEF Exists
  <2> QED
    BY <1>2, <2>1, <2>2 DEF DeleteStage, DeletionsOK, GoneOK, Exists
<1>3. CASE DeleteCommit
  <2>1. UNCHANGED <<handler, upload, home, staged, process, cutShort>> /\ deletion = "staged"
        /\ staged.exists /\ Exists
        /\ \/ row' = DeletedRow /\ deletion' = "committed"
           \/ row' = row /\ deletion' = "restoring"
    BY <1>3 DEF DeleteCommit, DeletionsOK
  <2>2. home \in {NoDir, EmptyDir} /\ (upload # "none" \/ Pairing => home = NoDir)
    BY <2>1 DEF DeletionOK
  <2>3. row' = DeletedRow => ~Exists'
    BY DEF DeletedRow, NoRow, Exists
  <2>4. DeletionsOK'
    BY <2>1, <2>3 DEF DeletionsOK, Exists
  <2> QED
    BY <2>1, <2>2, <2>4 DEF GoneOK, Pairing
<1>4. CASE DeleteRestore
  <2>1. UNCHANGED <<row, handler, upload, process>> /\ deletion' = "none"
        /\ (cutShort => cutShort')
        /\ \/ cutShort' = TRUE /\ UNCHANGED <<home, staged>>
           \/ ~home.exists /\ home' = staged /\ staged' = NoDir /\ (~Exists => cutShort')
    BY <1>4 DEF DeleteRestore, ControlOK
  <2>2. row.stage = "deleted" => ~Exists
    BY DEF Exists
  <2> QED
    BY <2>1, <2>2, EmptyFacts DEF DeletionsOK, GoneOK, Exists
<1>5. CASE DeleteFiles
  <2>1. UNCHANGED <<row, handler, upload, home, process, cutShort>> /\ deletion' = "none"
        /\ row.stage = "deleted"
    BY <1>5 DEF DeleteFiles, DeletionOK
  <2> QED
    BY <2>1 DEF DeletionsOK, GoneOK, Exists, Pairing
<1> QED
  BY <1>1, <1>2, <1>3, <1>4, <1>5 DEF Deletes

\* A run that publishes for a sermon that is gone has no directory to do it in,
\* and the others find nothing to encode.
LEMMA WorksKeepGone == ASSUME IInv, DeletionsOK, GoneOK, Works PROVE DeletionsOK' /\ GoneOK'
<1> USE Apart
<1>1. CASE ClaimNextJob
  <2>1. StageOf(jobs[Current].type) \in Stages \ {"none", "upload", "deleted"}
    <3>1. Current \in DOMAIN jobs
      <4>1. jobs \in Seq(Jobs) /\ Current > 0
        BY <1>1 DEF ClaimNextJob, JobsOK
      <4> QED
        BY <4>1 DEF Current
    <3>2. jobs[Current] \in Jobs
      BY <3>1 DEF JobsOK
    <3>3. jobs[Current].type \in JobTypes
      BY <3>2 DEF Jobs
    <3> QED
      BY <3>3, StageOfType
  <2>2. row'.stage = StageOf(jobs[Current].type)
    BY <1>1 DEF ClaimNextJob, Rows
  <2> QED
    BY <1>1, <2>1, <2>2, LiveStage, TablesKeepGone DEF ClaimNextJob
<1>2. CASE CompleteJob
  <2>1. UNCHANGED <<upload, deletion, home, staged, process, cutShort>> /\ handler' = NoHandler
    BY <1>2 DEF CompleteJob
  <2>2. CASE UNCHANGED row
    BY <2>1, <2>2, TablesKeepGone DEF Exists, Live, Pairing, NoHandler
  <2>3. CASE row.stage \notin {"none", "upload", "deleted"} /\ row'.stage \in Stages \ {"none", "upload", "deleted"}
    BY <2>1, <2>3, TablesKeepGone DEF Exists, Live, Pairing, NoHandler
  <2>4. row' = row \/ /\ row.stage \notin {"none", "upload", "deleted"}
                      /\ row'.stage \in Stages \ {"none", "upload", "deleted"}
    <3>1. handler.pc # "none"
      BY <1>2 DEF CompleteJob
    <3>2. Job \in Jobs /\ (Exists => Live)
      BY <3>1, Running
    <3>3. Job.return \in {"editing", "metadata"}
      BY <3>2 DEF Jobs
    <3>4. StageOf("transcribe") \in Stages \ {"none", "upload", "deleted"}
          /\ StageOf("prepare_edit") \in Stages \ {"none", "upload", "deleted"}
      BY StageOfType DEF JobTypes
    <3> QED
      BY <1>2, <3>2, <3>3, <3>4 DEF CompleteJob, Rows, Live, Exists, Stages
  <2> QED
    BY <2>2, <2>3, <2>4
<1>3. CASE HandlerFails
  <2>1. handler.pc # "none" /\ UNCHANGED <<upload, deletion, staged, process, cutShort>>
        /\ handler' = NoHandler
    BY <1>3 DEF HandlerFails
  <2>2. row'.stage = row.stage
    BY <1>3 DEF HandlerFails, Rows
  <2>3. home \in {NoDir, EmptyDir} => home' = home
    BY <1>3, <2>1, Targets, WithoutTemporaries DEF HandlerFails, FilesOK
  <2> QED
    BY <2>1, <2>2, <2>3 DEF DeletionsOK, GoneOK, Exists, Pairing, NoHandler
<1>4. CASE Commits
  <2>1. UNCHANGED <<row, upload, deletion, staged, process, cutShort>> /\ Pairing /\ handler.pc # "none"
    BY <1>4 DEF Commits, PublishFlac, PublishMp3, WriteMarker, Pairing
  <2>2. home # NoDir
    BY <1>4, <2>1, Targets, EmptyFacts DEF Commits, PublishFlac, PublishMp3, WriteMarker
  <2> QED
    BY <2>1, <2>2 DEF DeletionsOK, GoneOK, Exists
<1>5. CASE Normalizes
  <2>1. CASE Normalize
    <3>1. UNCHANGED <<row, upload, deletion, staged, process, cutShort>> /\ handler.pc # "none"
      BY <2>1 DEF Normalize
    <3>2. home \notin {NoDir, EmptyDir}
      BY <2>1, <3>1, RecognisedPair, Present, EmptyFacts, Targets DEF Normalize, HasCommittedArtifacts
    <3> QED
      BY <3>1, <3>2 DEF DeletionsOK, GoneOK, Exists
  <2>2. CASE SetNormalizationAdjustments
    BY <2>2, TablesKeepGone DEF SetNormalizationAdjustments, Exists, Live, Pairing, Rows
  <2>3. CASE RemoveOriginal
    <3>1. UNCHANGED <<row, upload, deletion, staged, process, cutShort>> /\ Pairing
          /\ home' = [home EXCEPT !.original = "none"]
      BY <2>3 DEF RemoveOriginal, Pairing
    <3>2. home = NoDir => home' = home
      BY <3>1, EmptyFacts DEF FilesOK, Directories
    <3>3. ~Pairing'
      BY <2>3 DEF RemoveOriginal, Goes, Pairing, ControlOK
    <3> QED
      BY <3>1, <3>2 DEF DeletionsOK, GoneOK, Exists
  <2>4. CASE Transcribe
    BY <2>4, TablesKeepGone DEF Transcribe, Exists, Live
  <2> QED
    BY <1>5, <2>1, <2>2, <2>3, <2>4 DEF Normalizes
<1>6. CASE Edits \/ Exports
  <2>1. CASE PrepareEdit
    BY <2>1, TablesKeepGone DEF PrepareEdit, Exists, Live, Rows
  <2>2. CASE MakeGeneration
    <3>1. UNCHANGED <<row, upload, deletion, staged, process, cutShort>> /\ handler.pc = "run"
          /\ home' = [home EXCEPT !.exists = TRUE] /\ handler' = [handler EXCEPT !.pc = "made"]
      BY <2>2 DEF MakeGeneration, Goes
    <3>2. home \in {NoDir, EmptyDir} => home' = EmptyDir
      BY <3>1, EmptyFacts DEF EmptyDir
    <3>3. ~Pairing' /\ upload = "none"
      BY <3>1, Running DEF Pairing, ControlOK
    <3> QED
      BY <3>1, <3>2, <3>3 DEF DeletionsOK, GoneOK, Exists
  <2>3. CASE Render \/ ExportCopy
    <3>1. UNCHANGED <<row, upload, deletion, staged, process, cutShort>> /\ handler.pc # "none"
      BY <2>3 DEF Render, ExportCopy
    <3>2. Job.source \in 0..MaxJobs /\ 0 \in 0..MaxJobs
      BY <3>1, Running, BoundsAssumption DEF Jobs
    <3>3. home \notin {NoDir, EmptyDir}
      BY <2>3, <3>1, <3>2, EmptyFacts, Targets DEF Render, ExportCopy, HasCommittedArtifacts
    <3> QED
      BY <3>1, <3>3 DEF DeletionsOK, GoneOK, Exists
  <2>4. CASE CommitEditing
    <3>1. row'.stage = row.stage
      BY <2>4 DEF CommitEditing, Rows
    <3>2. ~Pairing'
      BY <2>4 DEF CommitEditing, Goes, Pairing, ControlOK
    <3> QED
      BY <2>4, <3>1, <3>2, TablesKeepGone DEF CommitEditing, Exists, Live
  <2>5. CASE ExportEnds
    BY <2>5, TablesKeepGone DEF ExportEnds, Exists, Live, Goes, Pairing, ControlOK
  <2> QED
    BY <1>6, <2>1, <2>2, <2>3, <2>4, <2>5 DEF Edits, Exports
<1> QED
  BY <1>1, <1>2, <1>3, <1>4, <1>5, <1>6 DEF Works

\* A request changes the tables of a live sermon.
LEMMA RequestsKeepGone ==
  ASSUME IInv, DeletionsOK, GoneOK, Requests
  PROVE  DeletionsOK' /\ GoneOK'
<1> USE Apart
<1>1. /\ UNCHANGED <<handler, upload, deletion, home, staged, process, cutShort>>
      /\ row'.stage = row.stage \/ (Live /\ row'.stage \in {"transcription", "editing", "export"})
  <2>1. CASE RerunTranscription \/ RetryFailedJob \/ SaveDraft \/ EnqueueExport
    BY <2>1 DEF RerunTranscription, RetryFailedJob, SaveDraft, EnqueueExport, Enqueue, Settled,
       MayEdit, Live, Exists, Rows
  <2>2. CASE \E adjustment \in Adjustments : RerunNormalization(adjustment)
    BY <2>2 DEF RerunNormalization, Enqueue, Rows
  <2>3. CASE \E skip \in BOOLEAN : ApplyDraft(skip)
    BY <2>3 DEF ApplyDraft, Enqueue, MayEdit, Live, Exists, Rows
  <2> QED
    BY <2>1, <2>2, <2>3 DEF Requests
<1> QED
  BY <1>1, TablesKeepGone DEF Live, Exists, Pairing

\* What is gone stays gone, in one step.
LEMMA StepKeepsGone ==
  ASSUME IInv, DeletionsOK, GoneOK, [Next]_vars
  PROVE  DeletionsOK' /\ GoneOK'
<1>1. CASE Next
  BY <1>1, StartKeepsGone, UploadsKeepGone, DeletesKeepGone, WorksKeepGone, RequestsKeepGone
  DEF Next
<1>2. CASE UNCHANGED vars
  BY <1>2, TablesKeepGone DEF vars, Live, Exists, Pairing
<1> QED
  BY <1>1, <1>2

-----------------------------------------------------------------------------
(* What the tables and the outputs have to do with each other *)

\* Jobs that change their state, and a row that gets a draft when there is a pair.
LEMMA TablesKeepFiles ==
  ASSUME NEW r, NEW s, NEW js \in Seq(Jobs), NEW new \in Seq(Jobs), NEW dir, Len(new) = Len(js),
         \A j \in 1..Len(js) :
           /\ new[j].type = js[j].type /\ new[j].draft = js[j].draft
           /\ new[j].source = js[j].source /\ new[j].asked = js[j].asked
           /\ js[j].state = "done" => new[j].state = "done"
           /\ new[j].state = "done" => js[j].state = "done" \/ js[j].type # "export"
                                                          \/ Made(js[j], j, dir),
         s.draft > 0 => r.draft > 0 \/ Gathered(dir).mp3 # NoAudio,
         PairInOrder(r, js, dir), GenerationsInOrder(js, dir)
  PROVE  /\ PairInOrder(s, new, dir) /\ GenerationsInOrder(new, dir)
         /\ SourceInOrder(js, dir) => SourceInOrder(new, dir)
         /\ EditInOrder(r, js, dir) => EditInOrder(r, new, dir)
<1> DEFINE n == Len(js)
<1>0. n \in Nat /\ (n > 0 => n \in 1..n)
  OBVIOUS
<1>1. PairInOrder(s, new, dir)
  BY <1>0 DEF PairInOrder
<1>2. \A j \in 1..n : Made(js[j], j, dir) => Made(new[j], j, dir)
  BY DEF Made
<1>3. GenerationsInOrder(new, dir)
  BY <1>0, <1>2 DEF GenerationsInOrder
<1>4. SourceInOrder(js, dir) => SourceInOrder(new, dir)
  BY <1>0 DEF SourceInOrder
<1>5. EditInOrder(r, js, dir) => EditInOrder(r, new, dir)
  BY DEF EditInOrder
<1> QED
  BY <1>1, <1>3, <1>4, <1>5

\* The current job changes its state; an export is done when it is made.
LEMMA StateKeepsFiles ==
  ASSUME NEW r, NEW s, NEW js \in Seq(Jobs), Len(js) \in DOMAIN js, NEW dir,
         NEW state \in {"queued", "running", "done", "failed"},
         js[Len(js)].state # "done",
         state = "done" /\ js[Len(js)].type = "export" => Made(js[Len(js)], Len(js), dir),
         s.draft = r.draft, s.active = r.active, s.playback = r.playback, s.applied = r.applied,
         PairInOrder(r, js, dir), GenerationsInOrder(js, dir)
  PROVE  LET new == [js EXCEPT ![Len(js)].state = state]
         IN  /\ new \in Seq(Jobs) /\ Len(new) = Len(js) /\ new[Len(js)].type = js[Len(js)].type
             /\ PairInOrder(s, new, dir) /\ GenerationsInOrder(new, dir)
             /\ SourceInOrder(js, dir) => SourceInOrder(new, dir)
             /\ EditInOrder(r, js, dir) => EditInOrder(s, new, dir)
<1> DEFINE n == Len(js) job == [js[n] EXCEPT !.state = state] new == [js EXCEPT ![n] = job]
<1>1. js[n] \in Jobs /\ DOMAIN js = 1..n
  OBVIOUS
<1>2. /\ job \in Jobs /\ job.type = js[n].type /\ job.draft = js[n].draft
      /\ job.source = js[n].source /\ job.asked = js[n].asked /\ job.state = state
  BY <1>1 DEF Jobs
<1>3. [js EXCEPT ![n].state = state] = new
  OBVIOUS
<1> HIDE DEF job
<1>4. new \in Seq(Jobs) /\ Len(new) = n
  BY <1>2
<1>5. \A j \in 1..n : new[j] = IF j = n THEN job ELSE js[j]
  BY <1>1
<1> HIDE DEF new
<1>6. /\ PairInOrder(s, new, dir) /\ GenerationsInOrder(new, dir)
      /\ SourceInOrder(js, dir) => SourceInOrder(new, dir)
      /\ EditInOrder(r, js, dir) => EditInOrder(r, new, dir)
  BY <1>2, <1>4, <1>5, TablesKeepFiles
<1>7. EditInOrder(r, new, dir) => EditInOrder(s, new, dir)
  BY DEF EditInOrder
<1> QED
  BY <1>1, <1>2, <1>3, <1>4, <1>5, <1>6, <1>7

\* One more job, which asks for nothing that is not there.
LEMMA AppendKeepsFiles ==
  ASSUME NEW r, NEW s, NEW js \in Seq(Jobs), NEW job \in Jobs, NEW dir, job.state = "queued",
         s.draft > 0 => r.draft > 0 \/ Gathered(dir).mp3 # NoAudio,
         job.type \in {"prepare_edit", "render_edit"} => Gathered(dir).mp3 # NoAudio,
         job.type = "normalize" => dir.original = "whole",
         PairInOrder(r, js, dir), GenerationsInOrder(js, dir)
  PROVE  /\ PairInOrder(s, Append(js, job), dir) /\ GenerationsInOrder(Append(js, job), dir)
         /\ EditInOrder(r, js, dir) => EditInOrder(r, Append(js, job), dir)
<1> DEFINE n == Len(js) new == Append(js, job)
<1>1. n \in Nat /\ Len(new) = n + 1 /\ new[n + 1] = job /\ \A j \in 1..n : new[j] = js[j]
  OBVIOUS
<1> HIDE DEF new
<1>2. PairInOrder(s, new, dir)
  BY <1>1 DEF PairInOrder
<1>3. GenerationsInOrder(new, dir)
  <2>1. \A j \in 1..MaxJobs : dir.outputs[j].marker = j => j <= n
    BY DEF GenerationsInOrder
  <2>2. \A j \in 1..n : js[j].type = "export" /\ js[j].state = "done" => Made(js[j], j, dir)
    BY DEF GenerationsInOrder
  <2>3. \A j \in 1..(n + 1) : j \in 1..n \/ j = n + 1
    BY <1>1
  <2>4. \A j \in 1..(n + 1) : new[j].type = "export" /\ new[j].state = "done" => Made(new[j], j, dir)
    BY <1>1, <2>2, <2>3
  <2> QED
    BY <1>1, <2>1, <2>4, BoundsAssumption DEF GenerationsInOrder
<1>4. EditInOrder(r, js, dir) => EditInOrder(r, new, dir)
  BY <1>1 DEF EditInOrder
<1> QED
  BY <1>2, <1>3, <1>4 DEF new

\* Normalization writes the pair: it adds to it, uncut and the FLAC first.
LEMMA PairWritten ==
  ASSUME NEW r, NEW js \in Seq(Jobs), NEW dir \in Directories, NEW files \in Outputs,
         Len(js) \in 1..MaxJobs, js[Len(js)].type \notin {"render_edit", "export"},
         dir.approval = NoApproval,
         files.marker \in {dir.outputs[0].marker, KeyOf(js[Len(js)], Len(js))},
         \/ files.flac = dir.outputs[0].flac /\ files.mp3 = dir.outputs[0].mp3
         \/ /\ files.flac # NoAudio /\ files.flac.cut = 0
            /\ \/ files.mp3 = dir.outputs[0].mp3
               \/ files.mp3 # NoAudio /\ files.mp3.cut = 0,
         PairInOrder(r, js, dir), EditInOrder(r, js, dir), GenerationsInOrder(js, dir)
  PROVE  LET new == Put(dir, 0, files)
         IN  /\ PairInOrder(r, js, new) /\ EditInOrder(r, js, new)
             /\ GenerationsInOrder(js, new) /\ SourceInOrder(js, new)
<1> DEFINE n == Len(js) new == Put(dir, 0, files)
<1>1. /\ new \in Directories /\ new.original = dir.original /\ new.approval = dir.approval
      /\ new.outputs[0] = files /\ \A u \in 1..MaxJobs : new.outputs[u] = dir.outputs[u]
  BY PutFiles, BoundsAssumption
<1> HIDE DEF new
<1>2. PairInOrder(r, js, new)
  BY <1>1 DEF PairInOrder, Gathered, NoApproval, KeyOf
<1>3. EditInOrder(r, js, new)
  <2>1. r.active => r.playback \in 1..MaxJobs
    BY BoundsAssumption DEF EditInOrder
  <2> QED
    BY <1>1, <2>1 DEF EditInOrder
<1>4. GenerationsInOrder(js, new)
  <2>1. \A j \in 1..n : js[j].type = "export" => (Made(js[j], j, dir) <=> Made(js[j], j, new))
    BY <1>1, BoundsAssumption DEF Made
  <2> QED
    BY <1>1, <2>1 DEF GenerationsInOrder
<1>5. SourceInOrder(js, new)
  BY DEF SourceInOrder
<1> QED
  BY <1>2, <1>3, <1>4, <1>5 DEF new

\* The run of an edit or an export writes its own generation, unless the marker
\* is there already.
LEMMA GenerationWritten ==
  ASSUME NEW r, NEW js \in Seq(Jobs), NEW dir \in Directories, NEW files \in Outputs,
         Len(js) \in 1..MaxJobs, js[Len(js)].state # "done",
         LET own == dir.outputs[Len(js)]
         IN  \/ files.flac = own.flac /\ files.mp3 = own.mp3 /\ files.marker = own.marker
             \/ own.marker # Len(js) /\ files.marker # Len(js)
             \/ own.marker # Len(js) /\ Made(js[Len(js)], Len(js), Put(dir, Len(js), files)),
         PairInOrder(r, js, dir), EditInOrder(r, js, dir), GenerationsInOrder(js, dir)
  PROVE  LET new == Put(dir, Len(js), files)
         IN  /\ PairInOrder(r, js, new) /\ EditInOrder(r, js, new) /\ GenerationsInOrder(js, new)
             /\ SourceInOrder(js, dir) => SourceInOrder(js, new)
<1> DEFINE n == Len(js) new == Put(dir, n, files)
<1>1. /\ new \in Directories /\ new.original = dir.original /\ new.approval = dir.approval
      /\ new.outputs[n] = files /\ \A u \in 0..MaxJobs : u # n => new.outputs[u] = dir.outputs[u]
  BY PutFiles, BoundsAssumption
<1>2. n \in 1..MaxJobs /\ 0 \in 0..MaxJobs /\ 0 # n /\ \A j \in 1..n : j \in 0..MaxJobs
  BY BoundsAssumption
<1> HIDE DEF new
<1>3. PairInOrder(r, js, new)
  <2>1. new.outputs[0] = dir.outputs[0]
    BY <1>1, <1>2
  <2> QED
    BY <1>1, <2>1 DEF PairInOrder, Gathered
<1>4. EditInOrder(r, js, new)
  <2>1. SUFFICES ASSUME r.active PROVE EditInOrder(r, js, new)
    BY DEF EditInOrder
  <2>2. r.playback \in 1..n /\ dir.outputs[r.playback].marker = r.playback
    BY <2>1 DEF EditInOrder
  <2>3. CASE r.playback # n
    <3>1. r.playback \in 0..MaxJobs
      BY <1>2, <2>2
    <3>2. new.outputs[r.playback] = dir.outputs[r.playback]
      BY <1>1, <2>3, <3>1
    <3> QED
      BY <3>2 DEF EditInOrder
  <2>4. CASE r.playback = n
    BY <1>1, <1>2, <2>2, <2>4 DEF EditInOrder
  <2> QED
    BY <2>3, <2>4
<1>5. GenerationsInOrder(js, new)
  <2>1. \A j \in 1..n : js[j].type = "export" /\ js[j].state = "done" => Made(js[j], j, new)
    <3> SUFFICES ASSUME NEW j \in 1..n, js[j].type = "export", js[j].state = "done"
                 PROVE  Made(js[j], j, new)
      OBVIOUS
    <3>1. j # n /\ j \in 0..MaxJobs /\ Made(js[j], j, dir)
      <4>1. j # n
        OBVIOUS
      <4>2. Made(js[j], j, dir)
        BY DEF GenerationsInOrder
      <4> QED
        BY <1>2, <4>1, <4>2
    <3> QED
      BY <1>1, <3>1 DEF Made
  <2>2. \A j \in 1..MaxJobs : new.outputs[j].marker = j => j <= n
    BY <1>1, <1>2 DEF GenerationsInOrder
  <2>3. new.outputs[n].marker = n /\ js[n].type \in {"render_edit", "export"} => Made(js[n], n, new)
    <3>1. SUFFICES ASSUME new.outputs[n].marker = n, js[n].type \in {"render_edit", "export"}
                   PROVE  Made(js[n], n, new)
      OBVIOUS
    <3>2. CASE /\ files.flac = dir.outputs[n].flac /\ files.mp3 = dir.outputs[n].mp3
               /\ files.marker = dir.outputs[n].marker
      <4>1. Made(js[n], n, dir)
        BY <1>1, <1>2, <3>1, <3>2 DEF GenerationsInOrder
      <4> QED
        BY <1>1, <1>2, <3>2, <4>1 DEF Made
    <3> QED
      BY <1>1, <3>1, <3>2 DEF new
  <2> QED
    BY <1>2, <2>1, <2>2, <2>3 DEF GenerationsInOrder
<1>6. SourceInOrder(js, dir) => SourceInOrder(js, new)
  <2>1. SUFFICES ASSUME SourceInOrder(js, dir), js[n].type = "export" PROVE SourceInOrder(js, new)
    BY DEF SourceInOrder
  <2>2. js[n].source \in 0..MaxJobs /\ js[n].source # n
    <3>1. js[n] \in Jobs
      BY <1>2
    <3> QED
      BY <1>2, <2>1, <3>1 DEF SourceInOrder, Jobs
  <2> QED
    BY <1>1, <2>1, <2>2 DEF SourceInOrder
<1> QED
  BY <1>3, <1>4, <1>5, <1>6 DEF new

-----------------------------------------------------------------------------
(* The place of the files *)

\* The files are in one of the two places, and the other one holds none.
LEMMA WhereTheFilesAre ==
  ASSUME IInv
  PROVE  /\ Files \in Directories
         /\ staged.exists => /\ Files = staged /\ home \in {NoDir, EmptyDir}
                             /\ Pairing \/ upload # "none" => home = NoDir
         /\ ~staged.exists => Files = home /\ staged = NoDir
         /\ \A t \in 0..MaxJobs : home.outputs[t] # NoOutputs => ~staged.exists
         /\ home.original # "none" \/ home.approval # NoApproval => ~staged.exists
<1> USE Apart
<1>1. staged.exists => home \in {NoDir, EmptyDir} /\ (Pairing \/ upload # "none" => home = NoDir)
  BY DEF DeletionOK
<1>2. ~staged.exists => staged = NoDir
  BY DEF DirectoriesOK, Places, HoldsNothing
<1>3. home \in {NoDir, EmptyDir} =>
        /\ home.original = "none" /\ home.approval = NoApproval
        /\ \A t \in 0..MaxJobs : home.outputs[t] = NoOutputs
  BY EmptyFacts
<1> QED
  BY <1>1, <1>2, <1>3 DEF FilesOK, Files

\* What a handler finds beside the row is beside the row.
LEMMA FoundAtHome ==
  ASSUME IInv, NEW t \in 0..MaxJobs,
         \/ home.outputs[t].flac # NoAudio \/ home.outputs[t].mp3 # NoAudio
         \/ home.outputs[t].flacTemp # NoAudio \/ home.outputs[t].mp3Temp # NoAudio
  PROVE  ~staged.exists /\ Files = home /\ staged = NoDir
<1>1. home.outputs[t] # NoOutputs
  BY EmptyFacts
<1> QED
  BY <1>1, WhereTheFilesAre

\* A live row has its files in their place, unless the handler made an empty one.
LEMMA LiveHasFiles ==
  ASSUME IInv, Live
  PROVE  Files.exists /\ Files # EmptyDir
<1>1. Recorded(home) \/ Recorded(staged)
  BY Apart DEF AudioIsNeverLost, Places
<1>2. ~Recorded(NoDir) /\ ~Recorded(EmptyDir) /\ ~NoDir.exists
  BY EmptyFacts
<1>3. Recorded(Files)
  BY <1>1, <1>2, WhereTheFilesAre
<1>4. HoldsNothing(Files)
  BY Apart, WhereTheFilesAre DEF DirectoriesOK, Places
<1> QED
  BY <1>2, <1>3, <1>4 DEF HoldsNothing

\* A step that leaves row, jobs and files alone, the end of a run included.
LEMMA StillHold ==
  ASSUME FilesHold, UNCHANGED <<row, jobs>>, handler' \in {handler, NoHandler}, Files' = Files,
         Stuck => Stuck', upload' \in {upload, "none", "abandoned", "dropped"},
         upload = "made" => home' = home
  PROVE  FilesHold'
<1>1. FreshOK'
  BY DEF FilesHold, FreshOK
<1>2. FilesInOrder'
  BY DEF FilesHold, FilesInOrder, Live, Exists, PairInOrder, EditInOrder, GenerationsInOrder,
     SourceInOrder, Made, Gathered
<1>3. CASE handler' = NoHandler
  BY <1>1, <1>2, <1>3 DEF FilesHold, RunOK, NoHandler
<1>4. CASE handler' = handler
  BY <1>1, <1>2, <1>4 DEF FilesHold, RunOK, RunInOrder, Live, Exists, Job, Key, Target, Made
<1> QED
  BY <1>3, <1>4

\* Nothing is promised of the files of a row that is gone.
LEMMA GoneHold ==
  ASSUME ~Live', row'.stage # "upload", upload' # "made"
  PROVE  FilesHold'
BY DEF FilesHold, FreshOK, FilesInOrder, RunOK

\* New rows, jobs or files between runs, or at the start of one.
LEMMA TablesHold ==
  ASSUME NEW dir, Files' = dir,
         PairInOrder(row', jobs', dir), EditInOrder(row', jobs', dir),
         GenerationsInOrder(jobs', dir), Stuck' \/ SourceInOrder(jobs', dir),
         handler'.pc \in {"none", "run"}, handler'.pc = "run" => Job'.state = "running",
         upload' = "none"
  PROVE  FilesHold'
<1>1. FreshOK'
  BY DEF FreshOK
<1>2. FilesInOrder'
  BY DEF FilesInOrder, PairInOrder, EditInOrder, GenerationsInOrder, SourceInOrder, Made, Gathered
<1>3. RunOK'
  BY DEF RunOK, RunInOrder
<1> QED
  BY <1>1, <1>2, <1>3 DEF FilesHold

\* A run goes on: the same job, at another place.
LEMMA RunHolds ==
  ASSUME QInv, NEW pc, NEW dir, handler.pc # "none", Goes(pc), UNCHANGED <<jobs, upload>>,
         row'.stage = row.stage, Files' = dir,
         Live => /\ PairInOrder(row', jobs, dir) /\ EditInOrder(row', jobs, dir)
                 /\ GenerationsInOrder(jobs, dir) /\ (Stuck' \/ SourceInOrder(jobs, dir))
                 /\ RunInOrder(pc, dir)
  PROVE  FilesHold'
<1>1. upload' = "none" /\ (Live' <=> Live)
  BY Running DEF QInv, Live, Exists
<1>2. handler'.pc = pc /\ handler'.job = handler.job
  BY Apart DEF Goes, QInv, ControlOK
<1>3. Job' = Job /\ Key' = Key /\ Target' = Target
  BY <1>2 DEF Job, Key, Target
<1>4. FreshOK'
  BY <1>1 DEF FreshOK
<1>5. FilesInOrder'
  BY <1>1 DEF FilesInOrder, PairInOrder, EditInOrder, GenerationsInOrder, SourceInOrder, Made,
     Gathered
<1>6. RunOK'
  BY <1>1, <1>2, <1>3 DEF RunOK, RunInOrder, Made
<1> QED
  BY <1>4, <1>5, <1>6 DEF FilesHold

-----------------------------------------------------------------------------
(* Start-up, uploads and deletions *)

\* A staged file that goes back to its place was missing there, and what is
\* promised of the files is promised of the ones in place.
LEMMA RestoredHold ==
  ASSUME NEW r, NEW js \in Seq(Jobs), NEW dir \in Directories, NEW new, Len(js) <= MaxJobs,
         PairInOrder(r, js, dir), EditInOrder(r, js, dir), GenerationsInOrder(js, dir),
         SourceInOrder(js, dir),
         new.original \in {dir.original, "whole"}, Gathered(new) = Gathered(dir),
         dir.approval.original => new.approval.original \/ new.original = "whole",
         new.outputs[0].flac \in {dir.outputs[0].flac, dir.approval.flac},
         new.outputs[0].mp3 \in {dir.outputs[0].mp3, dir.approval.mp3},
         new.approval.flac \in {dir.approval.flac, NoAudio},
         new.approval.mp3 \in {dir.approval.mp3, NoAudio},
         dir.outputs[0].flac # NoAudio => new.outputs[0].flac = dir.outputs[0].flac,
         dir.outputs[0].mp3 # NoAudio => new.outputs[0].mp3 = dir.outputs[0].mp3,
         new.outputs[0].marker = dir.outputs[0].marker,
         \A u \in 1..MaxJobs : new.outputs[u] = dir.outputs[u]
  PROVE  /\ PairInOrder(r, js, new) /\ EditInOrder(r, js, new)
         /\ GenerationsInOrder(js, new) /\ SourceInOrder(js, new)
<1> DEFINE n == Len(js)
<1>1. n \in Nat /\ \A j \in 1..n : j \in 1..MaxJobs
  BY BoundsAssumption
<1>2. PairInOrder(r, js, new)
  BY DEF PairInOrder, NoAudio
<1>3. EditInOrder(r, js, new)
  BY <1>1 DEF EditInOrder
<1>4. \A j \in 1..n : Made(js[j], j, dir) => Made(js[j], j, new)
  BY <1>1 DEF Made
<1>5. GenerationsInOrder(js, new)
  <2>1. \A j \in 1..n : js[j].type = "export" /\ js[j].state = "done" => Made(js[j], j, new)
    BY <1>4 DEF GenerationsInOrder
  <2>2. \A j \in 1..MaxJobs : new.outputs[j].marker = j => j <= n
    BY DEF GenerationsInOrder
  <2>3. \A j \in 1..MaxJobs :
          new.outputs[j].marker = j /\ j = n /\ js[j].type \in {"render_edit", "export"} =>
            Made(js[j], j, new)
    BY <1>1, <1>4 DEF GenerationsInOrder
  <2> QED
    BY <2>1, <2>2, <2>3 DEF GenerationsInOrder
<1>6. SourceInOrder(js, new)
  <2>1. SUFFICES ASSUME n > 0, js[n].type = "export" PROVE SourceInOrder(js, new)
    BY DEF SourceInOrder
  <2>2. js[n] \in Jobs
    BY <1>1, <2>1
  <2>3. js[n].source \in 0..MaxJobs
    BY <2>2 DEF Jobs
  <2>4. js[n].source = 0 \/ js[n].source \in 1..MaxJobs
    BY <2>3, BoundsAssumption
  <2> QED
    BY <2>1, <2>4 DEF SourceInOrder
<1> QED
  BY <1>2, <1>3, <1>5, <1>6

LEMMA StartHolds == ASSUME QInv, Start PROVE FilesHold'
<1>0. IInv /\ DeletionsOK /\ GoneOK /\ FilesHold
  BY DEF QInv
<1> USE <1>0, Apart
<1>1. CASE RecoverRunningJobs
  <2>1. /\ row'.stage = row.stage /\ row'.draft = row.draft /\ row'.active = row.active
        /\ row'.playback = row.playback /\ row'.applied = row.applied
        /\ UNCHANGED <<handler, upload, deletion, home, staged>> /\ handler = NoHandler
        /\ upload = "none"
    BY <1>1 DEF RecoverRunningJobs, Rows, ProcessOK
  <2>2. CASE ~Live
    BY <2>1, <2>2 DEF FilesHold, FreshOK, FilesInOrder, RunOK, Live, Exists
  <2>3. CASE Live
    <3>1. /\ jobs \in Seq(Jobs) /\ jobs' \in Seq(Jobs) /\ Len(jobs') = Len(jobs)
          /\ \A j \in 1..Len(jobs) :
               /\ jobs'[j].type = jobs[j].type /\ jobs'[j].draft = jobs[j].draft
               /\ jobs'[j].source = jobs[j].source /\ jobs'[j].asked = jobs[j].asked
               /\ jobs'[j].state = "done" <=> jobs[j].state = "done"
      <4> DEFINE new(j) == IF jobs[j].state = "running" THEN [jobs[j] EXCEPT !.state = "queued"]
                                                        ELSE jobs[j]
      <4>1. jobs \in Seq(Jobs) /\ DOMAIN jobs = 1..Len(jobs) /\ Len(jobs) \in Nat
        BY DEF JobsOK
      <4>2. \A j \in DOMAIN jobs :
              /\ new(j).type = jobs[j].type /\ new(j).draft = jobs[j].draft
              /\ new(j).source = jobs[j].source /\ new(j).asked = jobs[j].asked
              /\ new(j).state = "done" <=> jobs[j].state = "done"
        <5> TAKE j \in DOMAIN jobs
        <5>1. jobs[j] \in Jobs
          BY <4>1
        <5> QED
          BY <5>1 DEF Jobs
      <4>3. jobs' = [j \in DOMAIN jobs |-> new(j)]
        BY <1>1 DEF RecoverRunningJobs
      <4>4. jobs' \in Seq(Jobs)
        BY <1>1, RecoverKeeps DEF IInv, TypeOK
      <4> HIDE DEF new
      <4>5. DOMAIN jobs' = 1..Len(jobs)
        BY <4>1, <4>3
      <4>6. Len(jobs') = Len(jobs)
        BY <4>1, <4>4, <4>5
      <4> QED
        BY <4>1, <4>2, <4>3, <4>4, <4>6
    <3>2. /\ PairInOrder(row', jobs', Files) /\ GenerationsInOrder(jobs', Files)
          /\ SourceInOrder(jobs, Files) => SourceInOrder(jobs', Files)
          /\ EditInOrder(row, jobs', Files)
      BY <2>1, <2>3, <3>1, TablesKeepFiles DEF FilesHold, FilesInOrder
    <3>3. EditInOrder(row', jobs', Files)
      BY <2>1, <3>2 DEF EditInOrder
    <3>4. Files' = Files /\ Stuck' = Stuck /\ (Stuck \/ SourceInOrder(jobs, Files))
      BY <2>1, <2>3 DEF Files, Stuck, FilesHold, FilesInOrder
    <3> QED
      BY <2>1, <3>2, <3>3, <3>4, TablesHold DEF NoHandler
  <2> QED
    BY <2>2, <2>3
<1>2. CASE DiscardInterruptedUploads
  <2>1. UNCHANGED <<jobs, handler, upload, home, staged>> /\ upload = "none"
    BY <1>2 DEF DiscardInterruptedUploads, ProcessOK
  <2>2. CASE row.stage = "upload"
    BY <1>2, <2>1, <2>2, GoneHold DEF DiscardInterruptedUploads, DeletedRow, NoRow, Live, Exists
  <2>3. CASE row.stage # "upload"
    BY <1>2, <2>1, <2>3, StillHold DEF DiscardInterruptedUploads, Files, Stuck
  <2> QED
    BY <2>2, <2>3
<1>3. CASE RemoveInterruptedUpload
  <2>1. UNCHANGED <<row, upload>> /\ upload = "none" /\ row.stage = "deleted"
    BY <1>3 DEF RemoveInterruptedUpload, ProcessOK
  <2> QED
    BY <2>1, GoneHold DEF Live, Exists
<1>4. CASE RestoreOne
  <2>1. /\ handler = NoHandler /\ upload = "none" /\ deletion = "none"
        /\ UNCHANGED <<row, jobs, handler, upload, deletion, staged>> /\ Exists
    BY <1>4 DEF RestoreOne, ProcessOK
  <2> DEFINE pair == home.outputs[0]
  <2>2. /\ home \in Directories /\ 0 \in 0..MaxJobs /\ pair \in Outputs
        /\ home.approval \in [original : BOOLEAN, flac : Audio, mp3 : Audio]
    BY BoundsAssumption DEF FilesOK, Directories
  <2>3. home.approval # NoApproval
    BY <1>4, <2>2 DEF RestoreOne, NoApproval
  <2>4. ~staged.exists /\ Files = home /\ Live
    BY <2>1, <2>3, WhereTheFilesAre DEF ProcessOK
  <2>5. Files' = home' /\ ~Stuck' /\ ~Stuck
    BY <2>1, <2>4 DEF Files, Stuck
  <2>6. /\ home'.original \in {home.original, "whole"} /\ Gathered(home') = Gathered(home)
        /\ home.approval.original => home'.approval.original \/ home'.original = "whole"
        /\ home'.outputs[0].flac \in {pair.flac, home.approval.flac}
        /\ home'.outputs[0].mp3 \in {pair.mp3, home.approval.mp3}
        /\ home'.approval.flac \in {home.approval.flac, NoAudio}
        /\ home'.approval.mp3 \in {home.approval.mp3, NoAudio}
        /\ pair.flac # NoAudio => home'.outputs[0].flac = pair.flac
        /\ pair.mp3 # NoAudio => home'.outputs[0].mp3 = pair.mp3
        /\ home'.outputs[0].marker = pair.marker
        /\ \A u \in 1..MaxJobs : home'.outputs[u] = home.outputs[u]
    <3>1. CASE home' = [home EXCEPT !.original = "whole", !.approval.original = FALSE]
      BY <2>2, <3>1 DEF Directories, Gathered
    <3>2. CASE /\ home.approval.flac # NoAudio /\ pair.flac = NoAudio
               /\ home' = [Put(home, 0, [pair EXCEPT !.flac = home.approval.flac])
                             EXCEPT !.approval.flac = NoAudio]
      <4> DEFINE files == [pair EXCEPT !.flac = home.approval.flac]
                 put   == Put(home, 0, files)
      <4>1. files \in Outputs /\ files.marker = pair.marker /\ files.mp3 = pair.mp3
            /\ files.flac = home.approval.flac
        BY <2>2 DEF Outputs
      <4> HIDE DEF files
      <4>2. put \in Directories /\ put.original = home.original /\ put.outputs[0] = files
            /\ put.approval = home.approval /\ \A u \in 1..MaxJobs : put.outputs[u] = home.outputs[u]
        BY <2>2, <4>1, PutFiles, BoundsAssumption
      <4>3. home' = [put EXCEPT !.approval.flac = NoAudio]
        BY <3>2 DEF files
      <4> HIDE DEF put
      <4>4. /\ home'.original = put.original /\ home'.outputs = put.outputs
            /\ home'.approval = [put.approval EXCEPT !.flac = NoAudio]
        BY <4>2, <4>3 DEF Directories
      <4>5. /\ home'.approval.flac = NoAudio /\ home'.approval.mp3 = home.approval.mp3
            /\ home'.approval.original = home.approval.original
        BY <2>2, <4>2, <4>4
      <4> QED
        BY <3>2, <4>1, <4>2, <4>4, <4>5 DEF Gathered
    <3>3. CASE /\ home.approval.mp3 # NoAudio /\ pair.mp3 = NoAudio
               /\ home' = [Put(home, 0, [pair EXCEPT !.mp3 = home.approval.mp3])
                             EXCEPT !.approval.mp3 = NoAudio]
      <4> DEFINE files == [pair EXCEPT !.mp3 = home.approval.mp3]
                 put   == Put(home, 0, files)
      <4>1. files \in Outputs /\ files.marker = pair.marker /\ files.flac = pair.flac
            /\ files.mp3 = home.approval.mp3
        BY <2>2 DEF Outputs
      <4> HIDE DEF files
      <4>2. put \in Directories /\ put.original = home.original /\ put.outputs[0] = files
            /\ put.approval = home.approval /\ \A u \in 1..MaxJobs : put.outputs[u] = home.outputs[u]
        BY <2>2, <4>1, PutFiles, BoundsAssumption
      <4>3. home' = [put EXCEPT !.approval.mp3 = NoAudio]
        BY <3>3 DEF files
      <4> HIDE DEF put
      <4>4. /\ home'.original = put.original /\ home'.outputs = put.outputs
            /\ home'.approval = [put.approval EXCEPT !.mp3 = NoAudio]
        BY <4>2, <4>3 DEF Directories
      <4>5. /\ home'.approval.mp3 = NoAudio /\ home'.approval.flac = home.approval.flac
            /\ home'.approval.original = home.approval.original
        BY <2>2, <4>2, <4>4
      <4> QED
        BY <3>3, <4>1, <4>2, <4>4, <4>5 DEF Gathered
    <3> QED
      BY <1>4, <3>1, <3>2, <3>3 DEF RestoreOne
  <2>7. /\ PairInOrder(row, jobs, home) /\ EditInOrder(row, jobs, home)
        /\ GenerationsInOrder(jobs, home) /\ SourceInOrder(jobs, home)
    BY <2>4, <2>5 DEF FilesHold, FilesInOrder
  <2>8. /\ PairInOrder(row, jobs, home') /\ EditInOrder(row, jobs, home')
        /\ GenerationsInOrder(jobs, home') /\ SourceInOrder(jobs, home')
    <3>1. jobs \in Seq(Jobs) /\ Len(jobs) <= MaxJobs
      BY DEF JobsOK
    <3> QED
      BY <2>2, <2>6, <2>7, <3>1, RestoredHold
  <2>9. FilesInOrder'
    BY <2>1, <2>5, <2>8 DEF FilesInOrder, PairInOrder, EditInOrder, GenerationsInOrder,
       SourceInOrder, Made, Gathered
  <2> QED
    BY <2>1, <2>9 DEF FilesHold, FreshOK, RunOK, NoHandler
<1>5. CASE Serve
  BY <1>5, StillHold DEF Serve, Files, Stuck
<1>6. CASE Crash
  <2>1. upload = "made" => home' = home
    BY <1>6 DEF Crash
  <2> QED
    BY <1>6, <2>1, StillHold DEF Crash, Files, Stuck
<1> QED
  BY <1>1, <1>2, <1>3, <1>4, <1>5, <1>6 DEF Start, QInv

LEMMA UploadsHold == ASSUME QInv, Uploads PROVE FilesHold'
<1>0. IInv /\ DeletionsOK /\ GoneOK /\ FilesHold
  BY DEF QInv
<1> USE <1>0, Apart
<1>1. CASE UploadMkdir
  BY <1>1 DEF UploadMkdir, FilesHold, FreshOK, FilesInOrder, RunOK, Live, Exists
<1>2. CASE UploadCreate
  <2>1. row.stage = "none" /\ staged = NoDir /\ home = EmptyDir /\ UNCHANGED staged
    BY <1>2 DEF UploadCreate, UploadOK, FilesHold, FreshOK
  <2>2. CASE /\ row' = [NoRow EXCEPT !.stage = "upload", !.status = "running"]
             /\ upload' = "row" /\ UNCHANGED home
    <3>1. row'.stage = "upload" /\ row'.draft = 0 /\ ~row'.active
      BY <2>2 DEF NoRow
    <3>2. Files' = EmptyDir
      BY <2>1, <2>2, EmptyFacts DEF Files
    <3>3. FreshOK'
      BY <2>2, <3>1, <3>2, EmptyFacts DEF FreshOK
    <3> QED
      BY <3>1, <3>3 DEF FilesHold, FilesInOrder, RunOK, Live, Exists
  <2>3. CASE upload' = "none" /\ UNCHANGED row
    BY <2>1, <2>3, GoneHold DEF Live, Exists
  <2> QED
    BY <1>2, <2>2, <2>3 DEF UploadCreate
<1>3. CASE UploadOpen \/ UploadBody
  <2>1. /\ UNCHANGED row /\ ~Live /\ upload \in {"row", "body"}
        /\ upload' \in {"body", "whole", "abandoned"}
    BY <1>3 DEF UploadOpen, UploadBody, UploadOK
  <2>2. /\ staged'.exists = staged.exists /\ staged'.outputs = staged.outputs
        /\ home'.outputs = home.outputs
    BY <1>3 DEF UploadOpen, UploadBody, FilesOK, Directories
  <2>3. Files'.outputs = Files.outputs
    BY <2>2 DEF Files
  <2> QED
    BY <2>1, <2>3 DEF FilesHold, FreshOK, FilesInOrder, RunOK, Live, Exists
<1>4. CASE CompleteUpload
  <2>1. /\ UNCHANGED <<handler, deletion, home, staged, process, cutShort>>
        /\ upload = "whole" /\ ~Live /\ jobs = << >> /\ handler = NoHandler
        /\ home.approval = NoApproval /\ staged.approval = NoApproval
    BY <1>4 DEF CompleteUpload, UploadOK, ProcessOK, DeletionOK
  <2>2. CASE row.stage # "upload" \/ upload' = "abandoned"
    <3>1. UNCHANGED row /\ upload' = "abandoned"
      BY <1>4, <2>2 DEF CompleteUpload
    <3> QED
      BY <2>1, <3>1, GoneHold DEF FilesHold, FreshOK, FilesInOrder, RunOK, Live, Exists
  <2>3. CASE row.stage = "upload" /\ upload' # "abandoned"
    <3>1. /\ row' = [row EXCEPT !.stage = "normalization", !.status = "pending"]
          /\ jobs' = Append(jobs, NewJob("normalize")) /\ upload' = "none"
      BY <1>4, <2>3 DEF CompleteUpload
    <3>2. /\ row'.draft = 0 /\ ~row'.active
          /\ \A t \in 0..MaxJobs : Files.outputs[t] = NoOutputs
      BY <2>1, <2>3, <3>1 DEF FilesHold, FreshOK, Rows
    <3>3. Files.original = "whole" /\ Files.approval = NoApproval
      <4>1. \E dir \in Places : dir.original = "whole"
        BY <2>1, <2>3 DEF UploadOK
      <4>2. NoDir.original # "whole" /\ EmptyDir.original # "whole"
        BY EmptyFacts
      <4> QED
        BY <2>1, <4>1, <4>2, WhereTheFilesAre DEF Places
    <3> DEFINE job == NewJob("normalize")
    <3>4. job.type = "normalize" /\ job.state = "queued"
      BY DEF NewJob
    <3>5. jobs' = <<job>> /\ Len(jobs') = 1 /\ jobs'[1] = job
      BY <2>1, <3>1
    <3> HIDE DEF job
    <3>6. \A j \in 1..1 : j = 1
      OBVIOUS
    <3>7. PairInOrder(row', jobs', Files)
      BY <3>2, <3>3, <3>4, <3>5, EmptyFacts, BoundsAssumption
      DEF PairInOrder, Gathered, NoApproval, NoAudio
    <3>8. EditInOrder(row', jobs', Files) /\ SourceInOrder(jobs', Files)
      BY <3>2, <3>4, <3>5 DEF EditInOrder, SourceInOrder
    <3>9. GenerationsInOrder(jobs', Files)
      BY <3>2, <3>4, <3>5, <3>6, EmptyFacts, BoundsAssumption DEF GenerationsInOrder
    <3>10. Files' = Files /\ Stuck' = Stuck
      BY <2>1 DEF Files, Stuck
    <3> QED
      BY <2>1, <3>1, <3>7, <3>8, <3>9, <3>10, TablesHold DEF NoHandler
  <2> QED
    BY <2>2, <2>3
<1>5. CASE AbandonRow
  <2>1. \/ ~Live' /\ row'.stage # "upload" /\ upload' # "made"
        \/ UNCHANGED row /\ upload' = "none"
    BY <1>5 DEF AbandonRow, DeletedRow, NoRow, Live, Exists
  <2>2. upload = "abandoned" /\ ~Live
    BY <1>5 DEF AbandonRow, UploadOK
  <2>3. CASE UNCHANGED row /\ upload' = "none"
    BY <2>2, <2>3 DEF FilesHold, FreshOK, FilesInOrder, RunOK, Live, Exists
  <2> QED
    BY <2>1, <2>3, GoneHold
<1>6. CASE AbandonFiles
  BY <1>6 DEF AbandonFiles, UploadOK, FilesHold, FreshOK, FilesInOrder, RunOK, Live, Exists
<1> QED
  BY <1>1, <1>2, <1>3, <1>4, <1>5, <1>6 DEF Uploads, QInv

\* A deletion moves the files from one place to the other and back.
LEMMA DeletesHold == ASSUME QInv, Deletes PROVE FilesHold'
<1>0. IInv /\ DeletionsOK /\ GoneOK /\ FilesHold
  BY DEF QInv
<1> USE <1>0, Apart
<1>1. UNCHANGED <<jobs, handler, upload>>
  BY DEF Deletes, DeleteBegin, DeleteStage, DeleteCommit, DeleteRestore, DeleteFiles
<1>2. deletion # "none" \/ Exists => upload # "made"
  BY DEF UploadOK, Exists
<1>3. CASE DeleteBegin
  BY <1>1, <1>2, <1>3, StillHold DEF DeleteBegin, Files, Stuck
<1>4. CASE DeleteStage
  <2>1. UNCHANGED row /\ deletion = "begun"
    BY <1>4 DEF DeleteStage
  <2>2. CASE UNCHANGED <<home, staged>>
    BY <1>1, <2>1, <2>2, StillHold DEF Files, Stuck
  <2>3. CASE home.exists /\ ~staged.exists /\ staged' = home
    <3>1. Files' = Files /\ ~Stuck
      BY <2>3 DEF Files, Stuck
    <3> QED
      BY <1>1, <1>2, <2>1, <3>1, StillHold
  <2> QED
    BY <1>4, <2>2, <2>3 DEF DeleteStage
<1>5. CASE DeleteCommit
  <2>1. UNCHANGED <<home, staged>> /\ upload # "made"
    BY <1>2, <1>5 DEF DeleteCommit
  <2>2. CASE row' = DeletedRow
    BY <1>1, <2>1, <2>2, GoneHold DEF DeletedRow, NoRow, Live, Exists
  <2>3. CASE row' = row
    BY <1>1, <2>1, <2>3, StillHold DEF Files, Stuck
  <2> QED
    BY <1>5, <2>2, <2>3 DEF DeleteCommit
<1>6. CASE DeleteRestore
  <2>1. UNCHANGED row /\ staged.exists /\ upload # "made"
    BY <1>2, <1>6 DEF DeleteRestore, DeletionsOK
  <2>2. CASE UNCHANGED <<home, staged>>
    BY <1>1, <2>1, <2>2, StillHold DEF Files, Stuck
  <2>3. CASE ~home.exists /\ home' = staged /\ staged' = NoDir
    <3>1. Files' = Files /\ ~Stuck
      BY <2>1, <2>3, EmptyFacts DEF Files, Stuck
    <3> QED
      BY <1>1, <2>1, <3>1, StillHold
  <2> QED
    BY <1>6, <2>2, <2>3 DEF DeleteRestore
<1>7. CASE DeleteFiles
  <2>1. UNCHANGED row /\ row.stage = "deleted" /\ upload # "made"
    BY <1>2, <1>7 DEF DeleteFiles, DeletionOK
  <2> QED
    BY <1>1, <2>1, GoneHold DEF Live, Exists
<1> QED
  BY <1>3, <1>4, <1>5, <1>6, <1>7 DEF Deletes

-----------------------------------------------------------------------------
(* Requests *)

\* A request for a job that needs nothing that is not there.
LEMMA EnqueueHolds ==
  ASSUME QInv, NEW job \in Jobs, Enqueue(job), job.state = "queued", Live, Live',
         row.status \in {"done", "failed"},
         row'.draft = row.draft, row'.active = row.active, row'.playback = row.playback,
         row'.applied = row.applied,
         job.type = "normalize" => Files.original = "whole",
         job.type \in {"prepare_edit", "render_edit"} => Gathered(Files).mp3 # NoAudio,
         job.type = "export" =>
           \/ Stuck
           \/ /\ job.source <= Len(jobs) /\ job.asked # NoAudio
              /\ Files.outputs[job.source].mp3 = job.asked
  PROVE  FilesHold'
<1>0. IInv /\ DeletionsOK /\ GoneOK /\ FilesHold
  BY DEF QInv
<1> USE <1>0, Apart
<1>1. handler.pc = "none" /\ upload = "none"
  BY DEF HandlerOK, UploadOK, Live
<1>2. /\ jobs' = Append(jobs, job) /\ UNCHANGED <<handler, upload, home, staged>>
      /\ jobs \in Seq(Jobs)
  BY DEF Enqueue, JobsOK
<1>3. /\ PairInOrder(row, jobs, Files) /\ EditInOrder(row, jobs, Files)
      /\ GenerationsInOrder(jobs, Files)
  BY DEF FilesHold, FilesInOrder
<1>4. /\ PairInOrder(row', jobs', Files) /\ GenerationsInOrder(jobs', Files)
      /\ EditInOrder(row, jobs', Files)
  BY <1>2, <1>3, AppendKeepsFiles
<1>5. EditInOrder(row', jobs', Files)
  BY <1>4 DEF EditInOrder
<1>6. Stuck \/ SourceInOrder(jobs', Files)
  <2>1. Len(jobs') = Len(jobs) + 1 /\ jobs'[Len(jobs')] = job /\ Len(jobs) \in Nat
    BY <1>2
  <2>2. job.source \in Nat
    BY BoundsAssumption DEF Jobs
  <2> QED
    BY <2>1, <2>2 DEF SourceInOrder
<1>7. Files' = Files /\ Stuck' = Stuck
  BY <1>2 DEF Files, Stuck
<1> QED
  BY <1>1, <1>2, <1>4, <1>5, <1>6, <1>7, TablesHold

LEMMA RequestsHold == ASSUME QInv, Requests PROVE FilesHold'
<1>0. IInv /\ DeletionsOK /\ GoneOK /\ FilesHold
  BY DEF QInv
<1> USE <1>0, Apart
<1>1. ASSUME NEW adjustment \in Adjustments, RerunNormalization(adjustment) PROVE FilesHold'
  <2>1. PICK settings \in AdjustNormalization(row.settings, adjustment) :
          Enqueue([NewJob("normalize") EXCEPT !.settings = settings])
    BY <1>1 DEF RerunNormalization
  <2> DEFINE job == [NewJob("normalize") EXCEPT !.settings = settings]
  <2>2. job \in Jobs /\ job.state = "queued" /\ job.type = "normalize"
    <3>1. settings \in Settings
      BY DEF AdjustNormalization
    <3>2. NewJob("normalize") \in Jobs /\ NewJob("normalize").type = "normalize"
      BY NewJobType DEF JobTypes
    <3> QED
      BY <3>1, <3>2 DEF Jobs, NewJob
  <2>3. /\ Live /\ Live' /\ row.status = "done"
        /\ row'.draft = row.draft /\ row'.active = row.active /\ row'.playback = row.playback
        /\ row'.applied = row.applied
    BY <1>1 DEF RerunNormalization, Rows, Live, Exists
  <2>4. Files.original = "whole"
    <3>1. home.original # "none" /\ Files = home
      BY <1>1, WhereTheFilesAre DEF RerunNormalization
    <3>2. home.original # "partial"
      BY <2>3, <3>1 DEF FilesHold, FilesInOrder, PairInOrder
    <3> QED
      BY <3>1, <3>2 DEF FilesOK, Directories
  <2> HIDE DEF job
  <2>5. Enqueue(job)
    BY <2>1 DEF job
  <2> QED
    BY <2>2, <2>3, <2>4, <2>5, EnqueueHolds
<1>2. CASE RerunTranscription
  <2>1. /\ Live /\ Live' /\ row.status \in {"done", "failed"} /\ Enqueue(NewJob("transcribe"))
        /\ row'.draft = row.draft /\ row'.active = row.active /\ row'.playback = row.playback
        /\ row'.applied = row.applied
    BY <1>2 DEF RerunTranscription, Settled, Rows, Live, Exists
  <2>2. /\ NewJob("transcribe") \in Jobs /\ NewJob("transcribe").type = "transcribe"
        /\ NewJob("transcribe").state = "queued"
    BY NewJobType DEF JobTypes, NewJob
  <2> QED
    BY <2>1, <2>2, EnqueueHolds
<1>3. ASSUME NEW skip \in BOOLEAN, ApplyDraft(skip) PROVE FilesHold'
  <2> DEFINE job == [NewJob("render_edit") EXCEPT !.draft = row.draft, !.skip = skip]
  <2>1. job \in Jobs /\ job.state = "queued" /\ job.type = "render_edit"
    <3>1. NewJob("render_edit") \in Jobs /\ NewJob("render_edit").type = "render_edit"
      BY NewJobType DEF JobTypes
    <3>2. row.draft \in 0..MaxDrafts
      BY DEF Rows
    <3> QED
      BY <3>1, <3>2 DEF Jobs, NewJob
  <2>2. /\ Live /\ Live' /\ row.status \in {"done", "failed"} /\ row.draft > 0
        /\ row'.draft = row.draft /\ row'.active = row.active /\ row'.playback = row.playback
        /\ row'.applied = row.applied
    BY <1>3 DEF ApplyDraft, MayEdit, Rows, Live, Exists
  <2>3. Gathered(Files).mp3 # NoAudio
    BY <2>2 DEF FilesHold, FilesInOrder, PairInOrder
  <2>4. Enqueue(job)
    BY <1>3 DEF ApplyDraft
  <2> HIDE DEF job
  <2> QED
    BY <2>1, <2>2, <2>3, <2>4, EnqueueHolds
<1>4. CASE EnqueueExport
  <2> DEFINE asked == Playing(IF home.exists THEN home ELSE staged)
             job   == [NewJob("export") EXCEPT !.source = PinnedSource, !.return = row.stage,
                                               !.asked = asked]
  <2>1. /\ Live /\ Live' /\ row.status \in {"done", "failed"} /\ row.draft > 0
        /\ row'.draft = row.draft /\ row'.active = row.active /\ row'.playback = row.playback
        /\ row'.applied = row.applied /\ row.stage \in {"editing", "metadata"}
        /\ process = "up"
    BY <1>4 DEF EnqueueExport, Enqueue, Serving, MayEdit, Rows, Live, Exists
  <2>2. /\ PairInOrder(row, jobs, Files) /\ EditInOrder(row, jobs, Files)
    BY <2>1 DEF FilesHold, FilesInOrder
  <2>3. PinnedSource \in 0..MaxJobs /\ (row.active => PinnedSource <= Len(jobs))
        /\ (~row.active => PinnedSource = 0)
    BY <2>2, BoundsAssumption DEF PinnedSource, CommittedPlayback, Rows, EditInOrder
  <2>4. Files.outputs[PinnedSource].mp3 # NoAudio
    <3>1. CASE row.active
      BY <2>2, <3>1 DEF PinnedSource, CommittedPlayback, EditInOrder
    <3>2. CASE ~row.active
      <4>1. Gathered(Files).mp3 # NoAudio
        BY <2>1, <2>2 DEF PairInOrder
      <4>2. Files.approval = NoApproval
        BY <2>1, WhereTheFilesAre DEF ProcessOK, DeletionOK
      <4> QED
        BY <2>3, <3>2, <4>1, <4>2 DEF Gathered, NoApproval
    <3> QED
      BY <3>1, <3>2
  <2>5. Stuck \/ asked = Files.outputs[PinnedSource].mp3
    <3>1. CASE ~home.exists
      <4>1. home = NoDir
        BY <3>1 DEF DirectoriesOK, Places, HoldsNothing
      <4>2. Files = staged
        BY <2>1, <3>1, LiveHasFiles DEF Files
      <4> QED
        BY <2>4, <3>1, <4>2 DEF Playing, PinnedSource
    <3>2. CASE home.exists
      <4>1. Stuck \/ Files = home
        BY <3>2, WhereTheFilesAre, EmptyFacts DEF Stuck
      <4> QED
        BY <2>4, <3>2, <4>1 DEF Playing, PinnedSource
    <3> QED
      BY <3>1, <3>2
  <2>6. asked \in Audio
    <3>1. \A dir \in {home, staged} : dir \in Directories
      BY DEF FilesOK
    <3>2. CommittedPlayback \in 0..MaxJobs /\ 0 \in 0..MaxJobs
      BY <2>3, BoundsAssumption DEF PinnedSource
    <3> QED
      BY <3>1, <3>2 DEF Playing, Directories, Outputs
  <2> HIDE DEF asked
  <2>7. /\ job \in Jobs /\ job.state = "queued" /\ job.type = "export"
        /\ job.source = PinnedSource /\ job.asked = asked
    <3>1. NewJob("export") \in Jobs /\ NewJob("export").type = "export"
      BY NewJobType DEF JobTypes
    <3> QED
      BY <2>1, <2>3, <2>6, <3>1 DEF Jobs, NewJob
  <2>8. Enqueue(job)
    BY <1>4 DEF EnqueueExport, asked
  <2>9. PinnedSource <= Len(jobs)
    BY <2>3 DEF JobsOK
  <2> HIDE DEF job
  <2> QED
    BY <2>1, <2>4, <2>5, <2>7, <2>8, <2>9, EnqueueHolds
<1>5. CASE RetryFailedJob
  <2>1. /\ UNCHANGED <<handler, upload, home, staged>> /\ row.status = "failed"
        /\ Len(jobs) \in DOMAIN jobs /\ jobs[Len(jobs)].state = "failed"
        /\ StageOf(jobs[Len(jobs)].type) = row.stage
        /\ jobs' = [jobs EXCEPT ![Len(jobs)].state = "queued"]
        /\ row'.draft = row.draft /\ row'.active = row.active /\ row'.playback = row.playback
        /\ row'.applied = row.applied
    BY <1>5 DEF RetryFailedJob, Current, JobsOK, Rows
  <2>2. jobs[Len(jobs)] \in Jobs
    BY <2>1 DEF JobsOK
  <2>3. Live
    BY <2>1, <2>2, StageOfType DEF Jobs, Live, Exists
  <2>4. handler.pc = "none" /\ upload = "none"
    BY <2>1, <2>3 DEF HandlerOK, UploadOK, Live
  <2>5. /\ PairInOrder(row', jobs', Files) /\ EditInOrder(row', jobs', Files)
        /\ GenerationsInOrder(jobs', Files) /\ (Stuck \/ SourceInOrder(jobs', Files))
    BY <2>1, <2>3, StateKeepsFiles DEF FilesHold, FilesInOrder, JobsOK
  <2> QED
    BY <2>1, <2>4, <2>5, TablesHold DEF Files, Stuck
<1>6. CASE SaveDraft
  <2>1. /\ UNCHANGED <<jobs, handler, upload, home, staged>> /\ Live
        /\ row.status \in {"done", "failed"} /\ row.draft > 0
        /\ row'.active = row.active /\ row'.playback = row.playback /\ row'.applied = row.applied
    BY <1>6 DEF SaveDraft, MayEdit, Live, Exists, Rows
  <2>2. handler.pc = "none" /\ upload = "none"
    BY <2>1 DEF HandlerOK, UploadOK, Live
  <2>3. /\ PairInOrder(row, jobs, Files) /\ EditInOrder(row, jobs, Files)
        /\ GenerationsInOrder(jobs, Files) /\ (Stuck \/ SourceInOrder(jobs, Files))
    BY <2>1 DEF FilesHold, FilesInOrder
  <2>4. /\ PairInOrder(row', jobs', Files) /\ EditInOrder(row', jobs', Files)
        /\ GenerationsInOrder(jobs', Files) /\ (Stuck \/ SourceInOrder(jobs', Files))
    BY <2>1, <2>3 DEF PairInOrder, EditInOrder, GenerationsInOrder, SourceInOrder, Made, Gathered
  <2> QED
    BY <2>1, <2>2, <2>4, TablesHold DEF Files, Stuck
<1> QED
  BY <1>1, <1>2, <1>3, <1>4, <1>5, <1>6 DEF Requests

-----------------------------------------------------------------------------
(* Claims and reports *)

LEMMA ClaimHolds == ASSUME QInv, ClaimNextJob PROVE FilesHold'
<1>0. IInv /\ DeletionsOK /\ GoneOK /\ FilesHold
  BY DEF QInv
<1> USE <1>0, Apart
<1>1. /\ UNCHANGED <<upload, home, staged>> /\ Live /\ Len(jobs) \in DOMAIN jobs
      /\ jobs[Len(jobs)].state = "queued"
      /\ jobs' = [jobs EXCEPT ![Len(jobs)].state = "running"]
      /\ handler' = [pc |-> "run", job |-> Len(jobs)]
      /\ row'.draft = row.draft /\ row'.active = row.active /\ row'.playback = row.playback
      /\ row'.applied = row.applied
  BY DEF ClaimNextJob, Current, JobsOK, Rows
<1>2. upload = "none" /\ jobs[Len(jobs)] \in Jobs
  BY <1>1 DEF UploadOK, JobsOK, Live
<1>3. /\ PairInOrder(row', jobs', Files) /\ EditInOrder(row', jobs', Files)
      /\ GenerationsInOrder(jobs', Files) /\ (Stuck \/ SourceInOrder(jobs', Files))
  BY <1>1, StateKeepsFiles DEF FilesHold, FilesInOrder, JobsOK
<1>4. Job'.state = "running"
  BY <1>1, <1>2 DEF Job, Jobs
<1> QED
  BY <1>1, <1>2, <1>3, <1>4, TablesHold DEF Files, Stuck

LEMMA CompleteJobHolds == ASSUME QInv, CompleteJob PROVE FilesHold'
<1>0. IInv /\ DeletionsOK /\ GoneOK /\ FilesHold
  BY DEF QInv
<1> USE <1>0, Apart
<1>1. /\ UNCHANGED <<upload, deletion, home, staged>> /\ handler' = NoHandler
      /\ handler.pc = "returned"
  BY DEF CompleteJob
<1> DEFINE n == Len(jobs)
           done == [jobs EXCEPT ![n].state = "done"]
<1>2. /\ handler.job = n /\ n \in DOMAIN jobs /\ Job = jobs[n] /\ Job.type \in JobTypes
      /\ upload = "none" /\ (Exists => Live)
  BY <1>1, Running
<1>3. CASE UNCHANGED <<row, jobs>>
  BY <1>1, <1>2, <1>3, StillHold DEF Files, Stuck
<1>4. CASE Exists /\ ~UNCHANGED <<row, jobs>>
  <2>1. /\ PairInOrder(row, jobs, Files) /\ EditInOrder(row, jobs, Files)
        /\ GenerationsInOrder(jobs, Files) /\ (Stuck \/ SourceInOrder(jobs, Files))
        /\ RunInOrder(handler.pc, Files)
    BY <1>1, <1>2, <1>4 DEF FilesHold, FilesInOrder, RunOK
  <2>2. /\ jobs[n].state = "running"
        /\ jobs[n].type = "export" => Made(jobs[n], n, Files)
        /\ jobs[n].type = "transcribe" => Files.outputs[0].mp3 # NoAudio
    BY <1>1, <1>2, <2>1 DEF RunInOrder
  <2>3. /\ row'.draft = row.draft /\ row'.active = row.active /\ row'.playback = row.playback
        /\ row'.applied = row.applied
    BY <1>4 DEF CompleteJob, Rows
  <2>4. /\ done \in Seq(Jobs) /\ PairInOrder(row', done, Files)
        /\ EditInOrder(row', done, Files) /\ GenerationsInOrder(done, Files)
        /\ Stuck \/ SourceInOrder(done, Files)
    BY <1>2, <2>1, <2>2, <2>3, StateKeepsFiles DEF JobsOK
  <2>5. Files' = Files /\ Stuck' = Stuck
    BY <1>1 DEF Files, Stuck
  <2>6. CASE jobs' = done
    BY <1>1, <1>2, <2>4, <2>5, <2>6, TablesHold DEF NoHandler
  <2>7. ASSUME NEW next \in {"transcribe", "prepare_edit"}, jobs' = Append(done, NewJob(next)),
               next = "prepare_edit" => jobs[n].type = "transcribe"
        PROVE  FilesHold'
    <3>1. NewJob(next) \in Jobs /\ NewJob(next).type = next /\ NewJob(next).state = "queued"
      BY NewJobType DEF JobTypes, NewJob
    <3>2. next = "prepare_edit" => Gathered(Files).mp3 # NoAudio
      BY <2>2, <2>7 DEF Gathered
    <3>3. /\ PairInOrder(row', jobs', Files) /\ GenerationsInOrder(jobs', Files)
          /\ EditInOrder(row', jobs', Files)
      BY <2>4, <2>7, <3>1, <3>2, AppendKeepsFiles
    <3>4. SourceInOrder(jobs', Files)
      <4>1. jobs'[Len(jobs')] = NewJob(next)
        BY <2>4, <2>7, <3>1
      <4> QED
        BY <3>1, <4>1 DEF SourceInOrder
    <3> QED
      BY <1>1, <1>2, <2>5, <3>3, <3>4, TablesHold DEF NoHandler
  <2>8. \/ jobs' = done
        \/ jobs' = Append(done, NewJob("transcribe"))
        \/ jobs' = Append(done, NewJob("prepare_edit")) /\ jobs[n].type = "transcribe"
    BY <1>2, <1>4 DEF CompleteJob
  <2> QED
    BY <2>6, <2>7, <2>8
<1> QED
  BY <1>3, <1>4 DEF CompleteJob

\* A run that fails loses its temporary files, which nobody was promised.
LEMMA HandlerFailsHolds == ASSUME QInv, HandlerFails PROVE FilesHold'
<1>0. IInv /\ DeletionsOK /\ GoneOK /\ FilesHold
  BY DEF QInv
<1> USE <1>0, Apart
<1> DEFINE n     == Len(jobs)
           old   == home.outputs[Target]
           files == [old EXCEPT !.flacTemp = NoAudio, !.mp3Temp = NoAudio]
<1>1. /\ UNCHANGED <<upload, staged>> /\ handler.pc # "none" /\ handler' = NoHandler
      /\ home' = Put(home, Target, files)
  BY DEF HandlerFails
<1>2. /\ handler.job = n /\ n \in DOMAIN jobs /\ n \in 1..MaxJobs /\ Job = jobs[n]
      /\ upload = "none" /\ (Exists => Live) /\ home.approval = NoApproval
  BY <1>1, Running
<1>3. home \in Directories /\ Target \in 0..MaxJobs /\ old \in Outputs
      /\ (Target = 0 <=> Job.type \notin {"render_edit", "export"})
  BY <1>1, Targets DEF FilesOK
<1>4. /\ files \in Outputs /\ files.flac = old.flac /\ files.mp3 = old.mp3
      /\ files.marker = old.marker
  BY <1>3, Defaults DEF Outputs
<1>5. home = EmptyDir => home' = home
  BY <1>1, <1>3, WithoutTemporaries
<1> HIDE DEF files
<1>6. CASE ~Exists
  <2>1. UNCHANGED row
    BY <1>6 DEF HandlerFails
  <2> QED
    BY <1>1, <1>2, <1>6, <2>1 DEF FilesHold, FreshOK, FilesInOrder, RunOK, NoHandler, Live, Exists
<1>7. CASE Exists
  <2>1. /\ PairInOrder(row, jobs, Files) /\ EditInOrder(row, jobs, Files)
        /\ GenerationsInOrder(jobs, Files) /\ (Stuck \/ SourceInOrder(jobs, Files))
        /\ RunInOrder(handler.pc, Files)
    BY <1>1, <1>2, <1>7 DEF FilesHold, FilesInOrder, RunOK
  <2>2. jobs[n].state = "running"
    BY <1>2, <2>1 DEF RunInOrder
  <2>3. /\ PairInOrder(row, jobs, Files') /\ EditInOrder(row, jobs, Files')
        /\ GenerationsInOrder(jobs, Files') /\ (Stuck' \/ SourceInOrder(jobs, Files'))
    <3>1. CASE staged.exists
      <4>1. Files' = Files /\ (Stuck => Stuck')
        BY <1>1, <1>5, <3>1 DEF Files, Stuck
      <4> QED
        BY <2>1, <4>1
    <3>2. CASE ~staged.exists
      <4>1. Files = home /\ ~Stuck /\ Files' = home'
        BY <1>1, <3>2 DEF Files, Stuck
      <4>2. CASE Target = 0
        <5>1. home' = Put(home, 0, files) /\ old = home.outputs[0]
          BY <1>1, <4>2
        <5> HIDE DEF old
        <5> QED
          BY <1>2, <1>3, <1>4, <2>1, <4>1, <4>2, <5>1, PairWritten DEF JobsOK
      <4>3. CASE Target # 0
        <5>1. Target = n
          BY <1>2, <4>3 DEF Target
        <5>2. home' = Put(home, n, files) /\ old = home.outputs[n]
          BY <1>1, <5>1
        <5> HIDE DEF old
        <5> QED
          BY <1>2, <1>3, <1>4, <2>1, <2>2, <4>1, <5>2, GenerationWritten DEF JobsOK
      <4> QED
        BY <4>2, <4>3
    <3> QED
      BY <3>1, <3>2
  <2>4. PICK state \in {"queued", "failed"} : jobs' = [jobs EXCEPT ![n].state = state]
    BY <1>2, <1>7 DEF HandlerFails
  <2>5. /\ row'.draft = row.draft /\ row'.active = row.active /\ row'.playback = row.playback
        /\ row'.applied = row.applied
    BY <1>7 DEF HandlerFails, Rows
  <2>6. /\ PairInOrder(row', jobs', Files') /\ EditInOrder(row', jobs', Files')
        /\ GenerationsInOrder(jobs', Files') /\ (Stuck' \/ SourceInOrder(jobs', Files'))
    BY <1>2, <2>2, <2>3, <2>4, <2>5, StateKeepsFiles DEF JobsOK
  <2> QED
    BY <1>1, <1>2, <2>6, TablesHold DEF NoHandler
<1> QED
  BY <1>6, <1>7

-----------------------------------------------------------------------------
(* The steps of a run that move no file *)

\* What is known of a run of a live sermon.
LEMMA RunKnown ==
  ASSUME QInv, handler.pc # "none", Live
  PROVE  /\ PairInOrder(row, jobs, Files) /\ EditInOrder(row, jobs, Files)
         /\ GenerationsInOrder(jobs, Files) /\ (Stuck \/ SourceInOrder(jobs, Files))
         /\ RunInOrder(handler.pc, Files)
         /\ Job = jobs[Len(jobs)] /\ handler.job = Len(jobs) /\ Len(jobs) \in 1..MaxJobs
         /\ Job.state = "running"
         /\ Job.type \in {"render_edit", "export"} => Target = Len(jobs) /\ Key = Len(jobs)
         /\ Job.type \notin {"render_edit", "export"} => Target = 0
<1>1. /\ Job = jobs[Len(jobs)] /\ handler.job = Len(jobs) /\ Len(jobs) \in 1..MaxJobs
  BY Running DEF QInv
<1>2. RunInOrder(handler.pc, Files)
  BY DEF QInv, FilesHold, RunOK
<1> QED
  BY <1>1, <1>2 DEF QInv, FilesHold, FilesInOrder, RunInOrder, Target, Key, KeyOf

\* A run goes on without a change of the files.
LEMMA AdvanceHolds ==
  ASSUME QInv, NEW pc, handler.pc # "none", Goes(pc), UNCHANGED <<jobs, upload, staged>>,
         home' = home \/ (staged.exists /\ (home = EmptyDir => home' = EmptyDir)),
         row'.stage = row.stage,
         Live => /\ PairInOrder(row', jobs, Files) /\ EditInOrder(row', jobs, Files)
                 /\ RunInOrder(pc, Files)
  PROVE  FilesHold'
<1>1. Files' = Files /\ (Stuck => Stuck')
  BY DEF Files, Stuck
<1>2. Live => GenerationsInOrder(jobs, Files) /\ (Stuck' \/ SourceInOrder(jobs, Files))
  BY <1>1, RunKnown
<1> QED
  BY <1>1, <1>2, RunHolds

\* The row that stays the same stays in order.
LEMMA SameRow ==
  ASSUME QInv, handler.pc # "none", UNCHANGED row
  PROVE  row'.stage = row.stage
         /\ (Live => PairInOrder(row', jobs, Files) /\ EditInOrder(row', jobs, Files))
BY RunKnown

LEMMA SetAdjustmentsHolds == ASSUME QInv, SetNormalizationAdjustments PROVE FilesHold'
<1>1. /\ UNCHANGED <<jobs, upload, staged, home>> /\ handler.pc = "committed" /\ Goes("adjusted")
      /\ Job.type \in {"normalize", "transcribe"}
      /\ row'.draft = row.draft /\ row'.active = row.active /\ row'.playback = row.playback
      /\ row'.applied = row.applied /\ row'.stage = row.stage
  BY Apart DEF SetNormalizationAdjustments, QInv, Rows
<1>2. ASSUME Live
      PROVE  PairInOrder(row', jobs, Files) /\ EditInOrder(row', jobs, Files)
             /\ RunInOrder("adjusted", Files)
  <2>1. /\ PairInOrder(row, jobs, Files) /\ EditInOrder(row, jobs, Files)
        /\ RunInOrder(handler.pc, Files)
    BY <1>1, <1>2, RunKnown
  <2> QED
    BY <1>1, <2>1 DEF PairInOrder, EditInOrder, RunInOrder
<1> QED
  BY <1>1, <1>2, AdvanceHolds

LEMMA TranscribeHolds == ASSUME QInv, Transcribe PROVE FilesHold'
<1>1. /\ UNCHANGED <<row, jobs, upload, staged, home>> /\ handler.pc # "none" /\ Goes("returned")
      /\ Job.type = "transcribe" /\ home.outputs[0].mp3 # NoAudio
  BY DEF Transcribe
<1>2. Files.outputs[0].mp3 # NoAudio
  BY <1>1, FoundAtHome, BoundsAssumption DEF QInv
<1>3. Live => RunInOrder("returned", Files)
  BY <1>1, <1>2, RunKnown DEF RunInOrder
<1> QED
  BY <1>1, <1>3, SameRow, AdvanceHolds

LEMMA PrepareEditHolds == ASSUME QInv, PrepareEdit PROVE FilesHold'
<1>1. /\ UNCHANGED <<jobs, upload, staged, home>> /\ handler.pc # "none" /\ Goes("returned")
      /\ Job.type = "prepare_edit"
      /\ row'.active = row.active /\ row'.playback = row.playback
      /\ row'.applied = row.applied /\ row'.stage = row.stage
  BY Apart DEF PrepareEdit, QInv, Rows
<1>2. ASSUME Live
      PROVE  PairInOrder(row', jobs, Files) /\ EditInOrder(row', jobs, Files)
             /\ RunInOrder("returned", Files)
  <2>1. /\ PairInOrder(row, jobs, Files) /\ EditInOrder(row, jobs, Files)
        /\ Job = jobs[Len(jobs)] /\ Len(jobs) \in 1..MaxJobs /\ Job.state = "running"
    BY <1>1, <1>2, RunKnown
  <2>2. Gathered(Files).mp3 # NoAudio
    BY <1>1, <2>1, BoundsAssumption DEF PairInOrder
  <2>3. PairInOrder(row', jobs, Files)
    BY <2>1, <2>2 DEF PairInOrder
  <2> QED
    BY <1>1, <2>1, <2>3 DEF EditInOrder, RunInOrder
<1> QED
  BY <1>1, <1>2, AdvanceHolds

\* The edit that will play from now on is the one that was rendered.
LEMMA CommitEditingHolds == ASSUME QInv, CommitEditing PROVE FilesHold'
<1> DEFINE skips == handler.pc = "run" /\ Job.skip
<1>1. /\ UNCHANGED <<jobs, upload, staged, home>> /\ handler.pc # "none" /\ Goes("returned")
      /\ Job.type = "render_edit" /\ (handler.pc = "committed" \/ skips)
      /\ row'.stage = row.stage
      /\ Exists => /\ row'.draft = row.draft /\ row'.applied = Job.draft
                   /\ row'.playback = (IF skips THEN 0 ELSE handler.job)
                   /\ row'.active = ~skips
  BY Apart DEF CommitEditing, QInv, Rows
<1>2. ASSUME Live
      PROVE  PairInOrder(row', jobs, Files) /\ EditInOrder(row', jobs, Files)
             /\ RunInOrder("returned", Files)
  <2>1. /\ PairInOrder(row, jobs, Files) /\ EditInOrder(row, jobs, Files)
        /\ RunInOrder(handler.pc, Files) /\ Job.state = "running"
        /\ handler.job = Len(jobs) /\ Len(jobs) \in 1..MaxJobs
        /\ Target = Len(jobs) /\ Key = Len(jobs)
    BY <1>1, <1>2, RunKnown
  <2>2. Exists
    BY <1>2 DEF Live
  <2>3. PairInOrder(row', jobs, Files)
    BY <1>1, <2>1, <2>2 DEF PairInOrder
  <2>4. EditInOrder(row', jobs, Files)
    <3>1. CASE skips
      BY <1>1, <2>2, <3>1 DEF EditInOrder
    <3>2. CASE ~skips
      <4> DEFINE own == Files.outputs[Len(jobs)]
      <4>1. own.marker = Len(jobs) /\ Made(Job, Len(jobs), Files)
        BY <1>1, <2>1, <3>2 DEF RunInOrder
      <4>2. /\ Files.outputs[0].flac # NoAudio /\ own.flac = own.mp3
            /\ own.mp3 = [by |-> Files.outputs[0].flac.by, cut |-> Job.draft]
        BY <1>1, <4>1 DEF Made
      <4>3. own.mp3 # NoAudio
        <5>1. Files.outputs[0].flac.cut = 0 /\ Files.outputs[0].flac \in Audio
          BY <2>1, WhereTheFilesAre, BoundsAssumption DEF PairInOrder, QInv, Directories, Outputs
        <5>2. Files.outputs[0].flac.by # 0
          BY <4>2, <5>1 DEF NoAudio, Audio
        <5> QED
          BY <4>2, <5>2 DEF NoAudio
      <4>4. Len(jobs) \in 1..Len(jobs)
        BY <2>1, BoundsAssumption
      <4> QED
        BY <1>1, <2>1, <2>2, <3>2, <4>1, <4>2, <4>3, <4>4 DEF EditInOrder
    <3> QED
      BY <3>1, <3>2
  <2> QED
    BY <1>1, <2>1, <2>3, <2>4 DEF RunInOrder
<1> QED
  BY <1>1, <1>2, AdvanceHolds

LEMMA ExportEndsHolds == ASSUME QInv, ExportEnds PROVE FilesHold'
<1>1. /\ UNCHANGED <<row, jobs, upload, staged, home>> /\ handler.pc = "committed"
      /\ Goes("returned") /\ Job.type = "export"
  BY DEF ExportEnds
<1>2. Live => RunInOrder("returned", Files)
  BY <1>1, RunKnown DEF RunInOrder
<1> QED
  BY <1>1, <1>2, SameRow, AdvanceHolds

LEMMA MakeGenerationHolds == ASSUME QInv, MakeGeneration PROVE FilesHold'
<1>1. /\ UNCHANGED <<row, jobs, upload, staged>> /\ handler.pc # "none" /\ Goes("made")
      /\ home' = [home EXCEPT !.exists = TRUE]
  BY DEF MakeGeneration
<1>2. Live => RunInOrder("made", Files)
  BY <1>1, RunKnown DEF RunInOrder
<1>3. home.exists => home' = home
  <2>1. home \in Directories
    BY Apart DEF QInv, FilesOK
  <2> QED
    BY <1>1, <2>1 DEF Directories
<1>4. ~home.exists /\ ~staged.exists => ~Live
  BY LiveHasFiles, WhereTheFilesAre DEF QInv
<1>5. EmptyDir.exists
  BY EmptyFacts
<1>6. CASE home.exists \/ staged.exists
  BY <1>1, <1>2, <1>3, <1>5, <1>6, SameRow, AdvanceHolds
<1>7. CASE ~home.exists /\ ~staged.exists
  <2>1. ~Live' /\ row'.stage # "upload" /\ upload' # "made"
    BY <1>1, <1>4, <1>7, Running DEF QInv, Live, Exists
  <2> QED
    BY <2>1, GoneHold
<1> QED
  BY <1>6, <1>7

-----------------------------------------------------------------------------
(* The steps of a run that move files *)

\* A run writes its output: a pair in order, or its own generation.
LEMMA OutputHolds ==
  ASSUME QInv, NEW pc, NEW files \in Outputs, handler.pc # "none", Goes(pc),
         UNCHANGED <<row, jobs, upload, staged>>, ~staged.exists,
         home' = Put(home, Target, files),
         LET old == home.outputs[Target]
         IN  \/ files.flac = old.flac /\ files.mp3 = old.mp3 /\ files.marker = old.marker
             \/ /\ Target = 0 /\ files.marker \in {old.marker, Key}
                /\ \/ files.flac = old.flac /\ files.mp3 = old.mp3
                   \/ /\ files.flac # NoAudio /\ files.flac.cut = 0
                      /\ \/ files.mp3 = old.mp3
                         \/ files.mp3 # NoAudio /\ files.mp3.cut = 0
             \/ /\ Target # 0 /\ old.marker # Key
                /\ \/ files.marker # Key
                   \/ Made(Job, handler.job, Put(home, Target, files)),
         Live => RunInOrder(pc, Put(home, Target, files))
  PROVE  FilesHold'
<1>0. IInv
  BY DEF QInv
<1> DEFINE old == home.outputs[Target] n == Len(jobs)
<1>1. Files = home /\ Files' = home' /\ ~Stuck
  BY DEF Files, Stuck
<1>2. /\ home \in Directories /\ jobs \in Seq(Jobs) /\ home.approval = NoApproval
      /\ (Target = 0 <=> Job.type \notin {"render_edit", "export"})
  BY <1>0, Apart, Running, Targets DEF FilesOK, JobsOK
<1>3. ASSUME Live
      PROVE  /\ PairInOrder(row, jobs, home') /\ EditInOrder(row, jobs, home')
             /\ GenerationsInOrder(jobs, home') /\ SourceInOrder(jobs, home')
  <2>1. /\ PairInOrder(row, jobs, home) /\ EditInOrder(row, jobs, home)
        /\ GenerationsInOrder(jobs, home) /\ SourceInOrder(jobs, home)
        /\ Job = jobs[n] /\ handler.job = n /\ n \in 1..MaxJobs /\ Job.state = "running"
        /\ (Target # 0 => Target = n /\ Key = n)
    BY <1>1, <1>2, <1>3, RunKnown
  <2>2. CASE Target = 0
    <3>1. old = home.outputs[0] /\ home' = Put(home, 0, files)
      BY <2>2
    <3>2. Key = KeyOf(jobs[n], n)
      BY <2>1 DEF Key
    <3> HIDE DEF old
    <3>3. files.marker \in {old.marker, Key}
          /\ \/ files.flac = old.flac /\ files.mp3 = old.mp3
             \/ /\ files.flac # NoAudio /\ files.flac.cut = 0
                /\ \/ files.mp3 = old.mp3
                   \/ files.mp3 # NoAudio /\ files.mp3.cut = 0
      BY <2>2 DEF old
    <3> QED
      BY <1>2, <2>1, <2>2, <3>1, <3>2, <3>3, PairWritten
  <2>3. CASE Target # 0
    <3>1. old = home.outputs[n] /\ home' = Put(home, n, files)
      BY <2>1, <2>3
    <3>2. \/ files.flac = old.flac /\ files.mp3 = old.mp3 /\ files.marker = old.marker
          \/ old.marker # n /\ files.marker # n
          \/ old.marker # n /\ Made(jobs[n], n, Put(home, n, files))
      BY <2>1, <2>3
    <3> HIDE DEF old
    <3> QED
      BY <1>2, <2>1, <3>1, <3>2, GenerationWritten
  <2> QED
    BY <2>2, <2>3
<1> QED
  BY <1>1, <1>3, RunHolds

\* The marker that is found vouches for the files, so that a repeated run goes
\* on with what the first one made.
LEMMA RecognisedHolds ==
  ASSUME QInv, handler.pc # "none", Goes("committed"), HasCommittedArtifacts(home),
         UNCHANGED <<row, jobs, upload, staged, home>>
  PROVE  FilesHold'
<1>1. Files = home
  BY RecognisedPair DEF QInv, Files
<1>2. Live => RunInOrder("committed", Files)
  <2>1. SUFFICES ASSUME Live PROVE RunInOrder("committed", Files)
    OBVIOUS
  <2>2. home.outputs[Target].marker = Key
    BY DEF HasCommittedArtifacts
  <2>3. Job.type \in {"render_edit", "export"} => Made(Job, handler.job, Files)
    BY <1>1, <2>1, <2>2, RunKnown DEF GenerationsInOrder
  <2> QED
    BY <1>1, <2>1, <2>2, <2>3, RunKnown DEF RunInOrder
<1> QED
  BY <1>2, SameRow, AdvanceHolds

\* Otherwise the marker is not there: it would vouch for the files.
LEMMA EncodedHolds ==
  ASSUME QInv, NEW audio \in Audio, handler.pc # "none", Encoded(audio), Goes("encoded"),
         UNCHANGED <<row, jobs, upload, staged>>, ~staged.exists,
         ~HasCommittedArtifacts(home),
         Job.type = "render_edit" =>
           home.outputs[0].flac # NoAudio
           /\ audio = [by |-> home.outputs[0].flac.by, cut |-> Job.draft],
         Live /\ Job.type = "export" => Job.asked # NoAudio /\ audio = Job.asked
  PROVE  FilesHold'
<1>0. IInv
  BY DEF QInv
<1> DEFINE old   == home.outputs[Target]
           flac  == IF Job.type = "export" THEN NoAudio ELSE audio
           files == [old EXCEPT !.flacTemp = flac, !.mp3Temp = audio]
           new   == Put(home, Target, files)
<1>1. home \in Directories /\ Target \in 0..MaxJobs /\ old \in Outputs /\ Files = home
  BY <1>0, Apart, Targets DEF FilesOK, Files
<1>2. /\ files \in Outputs /\ files.flac = old.flac /\ files.mp3 = old.mp3
      /\ files.marker = old.marker /\ files.flacTemp = flac /\ files.mp3Temp = audio
  BY <1>1, Defaults DEF Outputs
<1>3. home' = new
  BY DEF Encoded
<1> HIDE DEF files
<1>4. /\ new.outputs[Target] = files
      /\ \A u \in 0..MaxJobs : u # Target => new.outputs[u] = home.outputs[u]
  BY <1>1, <1>2, PutFiles
<1> HIDE DEF new
<1>5. Live => RunInOrder("encoded", new)
  <2>1. SUFFICES ASSUME Live PROVE RunInOrder("encoded", new)
    OBVIOUS
  <2>2. /\ GenerationsInOrder(jobs, home) /\ EditInOrder(row, jobs, home)
        /\ PairInOrder(row, jobs, home)
        /\ Job = jobs[Len(jobs)] /\ handler.job = Len(jobs) /\ Len(jobs) \in 1..MaxJobs
        /\ Job.state = "running"
        /\ (Job.type \in {"render_edit", "export"} => Target = Len(jobs) /\ Key = Len(jobs))
    BY <1>1, <2>1, RunKnown
  <2>3. Job.type \in {"render_edit", "export"} => old.marker # Key
    <3>1. SUFFICES ASSUME Job.type \in {"render_edit", "export"}, old.marker = Key PROVE FALSE
      OBVIOUS
    <3>2. Made(Job, handler.job, home)
      BY <2>2, <3>1 DEF GenerationsInOrder
    <3>3. CASE Job.type = "export"
      BY <2>2, <3>1, <3>2, <3>3 DEF Made, HasCommittedArtifacts
    <3>4. CASE Job.type = "render_edit"
      <4>1. /\ old.flac = [by |-> home.outputs[0].flac.by, cut |-> Job.draft]
            /\ old.mp3 = old.flac /\ home.outputs[0].flac # NoAudio
        BY <2>2, <3>2, <3>4 DEF Made
      <4>2. home.outputs[0].flac.cut = 0 /\ home.outputs[0].flac \in Audio
        BY <1>1, <2>2, BoundsAssumption DEF PairInOrder, Directories, Outputs
      <4>3. home.outputs[0].flac.by # 0
        BY <4>1, <4>2 DEF NoAudio, Audio
      <4>4. old.flac # NoAudio
        BY <4>1, <4>3 DEF NoAudio
      <4> QED
        BY <3>1, <4>1, <4>4 DEF HasCommittedArtifacts
    <3> QED
      BY <3>1, <3>3, <3>4
  <2>4. Job.type = "render_edit" => new.outputs[0] = home.outputs[0]
    BY <1>4, <2>2, BoundsAssumption
  <2> QED
    BY <1>2, <1>4, <2>1, <2>2, <2>3, <2>4 DEF RunInOrder
<1> QED
  BY <1>2, <1>3, <1>5, OutputHolds DEF new

\* The actions that encode, publish and mark: by the three lemmas above.
LEMMA NormalizeHolds == ASSUME QInv, Normalize PROVE FilesHold'
<1>1. /\ UNCHANGED <<row, jobs, upload, staged>> /\ handler.pc # "none"
      /\ Job.type \in PairTypes
  BY DEF Normalize, PairTypes
<1>2. CASE HasCommittedArtifacts(home) /\ Goes("committed") /\ UNCHANGED home
  BY <1>1, <1>2, RecognisedHolds
<1>3. CASE /\ ~HasCommittedArtifacts(home) /\ home.original = "whole"
           /\ Encoded(OwnAudio) /\ Goes("encoded")
  <2>1. ~staged.exists
    BY <1>3, WhereTheFilesAre DEF QInv
  <2> QED
    BY <1>1, <1>3, <2>1, OwnAudioIsAudio, EncodedHolds DEF QInv, PairTypes
<1> QED
  BY <1>2, <1>3 DEF Normalize, OwnAudio

LEMMA RenderHolds == ASSUME QInv, Render PROVE FilesHold'
<1>1. /\ UNCHANGED <<row, jobs, upload, staged>> /\ handler.pc # "none"
      /\ Job.type = "render_edit"
  BY DEF Render
<1>2. CASE HasCommittedArtifacts(home) /\ Goes("committed") /\ UNCHANGED home
  BY <1>1, <1>2, RecognisedHolds
<1>3. CASE /\ ~HasCommittedArtifacts(home)
           /\ home.outputs[0].flac # NoAudio /\ Goes("encoded")
           /\ Encoded([by |-> home.outputs[0].flac.by, cut |-> Job.draft])
  <2>1. ~staged.exists
    BY <1>3, FoundAtHome, BoundsAssumption DEF QInv
  <2>2. home.outputs[0].flac \in Audio /\ Job.draft \in 0..MaxDrafts
    BY <1>1, Running, Apart, BoundsAssumption DEF QInv, FilesOK, Directories, Outputs, Jobs
  <2>3. [by |-> home.outputs[0].flac.by, cut |-> Job.draft] \in Audio
    BY <2>2 DEF Audio
  <2> QED
    BY <1>1, <1>3, <2>1, <2>3, EncodedHolds
<1> QED
  BY <1>2, <1>3 DEF Render

\* The export of a live sermon copies what was playing when it was requested.
LEMMA ExportCopyHolds == ASSUME QInv, ExportCopy PROVE FilesHold'
<1>1. /\ UNCHANGED <<row, jobs, upload, staged>> /\ handler.pc # "none"
      /\ Job.type = "export"
  BY DEF ExportCopy
<1>2. CASE HasCommittedArtifacts(home) /\ Goes("committed") /\ UNCHANGED home
  BY <1>1, <1>2, RecognisedHolds
<1>3. CASE /\ ~HasCommittedArtifacts(home)
           /\ home.outputs[Job.source].mp3 # NoAudio /\ Goes("encoded")
           /\ Encoded(home.outputs[Job.source].mp3)
  <2>1. Job.source \in 0..MaxJobs
    BY <1>1, Running DEF QInv, Jobs
  <2>2. ~staged.exists /\ Files = home
    BY <1>3, <2>1, FoundAtHome DEF QInv
  <2>3. home.outputs[Job.source].mp3 \in Audio
    BY <2>1, Apart DEF QInv, FilesOK, Directories, Outputs
  <2>4. Live => Job.asked # NoAudio /\ home.outputs[Job.source].mp3 = Job.asked
    <3> SUFFICES ASSUME Live PROVE Job.asked # NoAudio /\ home.outputs[Job.source].mp3 = Job.asked
      OBVIOUS
    <3>1. SourceInOrder(jobs, home) /\ Job = jobs[Len(jobs)] /\ Len(jobs) \in 1..MaxJobs
      BY <1>1, <2>2, RunKnown DEF Stuck
    <3> QED
      BY <1>1, <3>1 DEF SourceInOrder
  <2> QED
    BY <1>1, <1>3, <2>2, <2>3, <2>4, EncodedHolds
<1> QED
  BY <1>2, <1>3 DEF ExportCopy

LEMMA PublishFlacHolds == ASSUME QInv, PublishFlac PROVE FilesHold'
<1>0. IInv
  BY DEF QInv
<1> DEFINE old   == home.outputs[Target]
           files == [old EXCEPT !.flac = old.flacTemp, !.flacTemp = NoAudio]
           new   == Put(home, Target, files)
<1>1. /\ UNCHANGED <<row, jobs, upload, staged>>
      /\ handler.pc = "encoded" /\ Goes("half") /\ old.flacTemp # NoAudio
      /\ Job.type # "export" /\ home' = new
  BY DEF PublishFlac
<1>2. /\ Target \in 0..MaxJobs /\ old \in Outputs /\ home \in Directories
      /\ (Target = 0 <=> Job.type \notin {"render_edit", "export"})
  BY <1>0, <1>1, Targets, Apart DEF FilesOK
<1>3. ~staged.exists /\ Files = home /\ home # NoDir
  BY <1>0, <1>1, <1>2, FoundAtHome, EmptyFacts
<1>4. /\ files \in Outputs /\ files.flac = old.flacTemp /\ files.mp3 = old.mp3
      /\ files.marker = old.marker /\ files.mp3Temp = old.mp3Temp
  BY <1>2, Defaults DEF Outputs
<1> HIDE DEF files
<1>5. /\ new.outputs[Target] = files
      /\ \A u \in 0..MaxJobs : u # Target => new.outputs[u] = home.outputs[u]
  BY <1>2, <1>4, PutFiles
<1>6. Target = 0 => files.flac # NoAudio /\ files.flac.cut = 0
  <2> SUFFICES ASSUME Target = 0 PROVE files.flac # NoAudio /\ files.flac.cut = 0
    OBVIOUS
  <2>1. Job.type \in PairTypes
    BY <1>0, <1>1, <1>2, Apart, Running DEF HandlerOK, Pairing, JobTypes, PairTypes
  <2>2. PhaseOK(home)
    BY <1>0, <1>1, <1>3, <2>1, Apart DEF HandlerOK, Places
  <2> QED
    BY <1>1, <1>4, <2>2 DEF PhaseOK
<1>7. Live /\ Target # 0 => old.marker # Key
  BY <1>1, <1>2, <1>3, RunKnown DEF RunInOrder
<1> HIDE DEF new
<1>8. Live => RunInOrder("half", new)
  <2>1. SUFFICES ASSUME Live PROVE RunInOrder("half", new)
    OBVIOUS
  <2>2. /\ RunInOrder("encoded", home) /\ Len(jobs) \in 1..MaxJobs
        /\ (Job.type = "render_edit" => Target = Len(jobs))
    BY <1>1, <1>3, <2>1, RunKnown
  <2>3. Job.type = "render_edit" => new.outputs[0] = home.outputs[0]
    BY <1>5, <2>2, BoundsAssumption
  <2> QED
    BY <1>1, <1>4, <1>5, <2>2, <2>3 DEF RunInOrder
<1>9. ~Live => FilesHold'
  <2>1. ~Live => ~Live' /\ row'.stage # "upload" /\ upload' # "made"
    BY <1>0, <1>1, Running DEF Live, Exists
  <2> QED
    BY <2>1, GoneHold
<1>10. Live => FilesHold'
  <2> SUFFICES ASSUME Live PROVE FilesHold'
    OBVIOUS
  <2>1. \/ /\ Target = 0 /\ files.marker \in {old.marker, Key} /\ files.flac # NoAudio
           /\ files.flac.cut = 0 /\ files.mp3 = old.mp3
        \/ Target # 0 /\ old.marker # Key /\ files.marker # Key
    BY <1>4, <1>6, <1>7
  <2> QED
    BY <1>1, <1>3, <1>4, <1>8, <2>1, OutputHolds DEF new
<1> QED
  BY <1>9, <1>10

LEMMA PublishMp3Holds == ASSUME QInv, PublishMp3 PROVE FilesHold'
<1>0. IInv
  BY DEF QInv
<1> DEFINE old   == home.outputs[Target]
           files == [old EXCEPT !.mp3 = old.mp3Temp, !.mp3Temp = NoAudio]
           new   == Put(home, Target, files)
<1>1. /\ UNCHANGED <<row, jobs, upload, staged>>
      /\ handler.pc \in {"encoded", "half"} /\ (handler.pc = "encoded" <=> Job.type = "export")
      /\ Goes("published") /\ old.mp3Temp # NoAudio /\ home' = new
  BY DEF PublishMp3, RenamedMp3, Renamed
<1>2. /\ Target \in 0..MaxJobs /\ old \in Outputs /\ home \in Directories
      /\ (Target = 0 <=> Job.type \notin {"render_edit", "export"})
  BY <1>0, <1>1, Targets, Apart DEF FilesOK
<1>3. ~staged.exists /\ Files = home /\ home # NoDir
  BY <1>0, <1>1, <1>2, FoundAtHome, EmptyFacts
<1>4. /\ files \in Outputs /\ files.flac = old.flac /\ files.mp3 = old.mp3Temp
      /\ files.marker = old.marker
  BY <1>2, Defaults DEF Outputs
<1> HIDE DEF files
<1>5. /\ new.outputs[Target] = files
      /\ \A u \in 0..MaxJobs : u # Target => new.outputs[u] = home.outputs[u]
  BY <1>2, <1>4, PutFiles
<1>6. Target = 0 => /\ files.flac = OwnAudio /\ files.mp3 = OwnAudio
  <2> SUFFICES ASSUME Target = 0 PROVE files.flac = OwnAudio /\ files.mp3 = OwnAudio
    OBVIOUS
  <2>1. Job.type \in PairTypes
    BY <1>0, <1>1, <1>2, Apart, Running DEF HandlerOK, Pairing, JobTypes, PairTypes
  <2>2. PhaseOK(home) /\ handler.pc = "half"
    BY <1>0, <1>1, <1>3, <2>1, Apart DEF HandlerOK, Places, PairTypes
  <2> QED
    BY <1>4, <2>2 DEF PhaseOK, OwnAudio
<1> HIDE DEF new
<1>7. ~Live => FilesHold'
  <2>1. ~Live => ~Live' /\ row'.stage # "upload" /\ upload' # "made"
    BY <1>0, <1>1, Running DEF Live, Exists
  <2> QED
    BY <2>1, GoneHold
<1>8. Live => FilesHold'
  <2> SUFFICES ASSUME Live PROVE FilesHold'
    OBVIOUS
  <2>1. /\ RunInOrder(handler.pc, home) /\ Len(jobs) \in 1..MaxJobs /\ handler.job = Len(jobs)
        /\ (Job.type \in {"render_edit", "export"} => Target = Len(jobs))
    BY <1>1, <1>3, RunKnown
  <2>2. Target # 0 => old.marker # Key
    BY <1>1, <1>2, <2>1 DEF RunInOrder
  <2>3. Job.type = "render_edit" => new.outputs[0] = home.outputs[0]
    BY <1>5, <2>1, BoundsAssumption
  <2>4. Job.type \in {"render_edit", "export"} => Made(Job, handler.job, new)
    BY <1>1, <1>4, <1>5, <2>1, <2>3 DEF RunInOrder, Made
  <2>5. RunInOrder("published", new)
    BY <1>4, <1>5, <2>1, <2>2, <1>2, <2>4 DEF RunInOrder
  <2>6. \/ /\ Target = 0 /\ files.marker \in {old.marker, Key} /\ files.flac # NoAudio
           /\ files.flac.cut = 0 /\ files.mp3 # NoAudio /\ files.mp3.cut = 0
        \/ Target # 0 /\ old.marker # Key /\ files.marker # Key
    BY <1>0, <1>1, <1>4, <1>6, <2>2, OwnAudioIsAudio DEF OwnAudio
  <2> QED
    BY <1>1, <1>3, <1>4, <2>5, <2>6, OutputHolds DEF new
<1> QED
  BY <1>7, <1>8

\* The marker is written when both files of the run are in place.
LEMMA WriteMarkerHolds == ASSUME QInv, WriteMarker PROVE FilesHold'
<1>0. IInv
  BY DEF QInv
<1> DEFINE old   == home.outputs[Target]
           files == [old EXCEPT !.marker = Key]
           new   == Put(home, Target, files)
<1>1. /\ UNCHANGED <<row, jobs, upload, staged>>
      /\ handler.pc = "published" /\ Goes("committed") /\ home.exists /\ home' = new
  BY DEF WriteMarker
<1>2. /\ Target \in 0..MaxJobs /\ old \in Outputs /\ home \in Directories
      /\ (Target = 0 <=> Job.type \notin {"render_edit", "export"})
  BY <1>0, <1>1, Targets, Apart DEF FilesOK
<1>3. ~staged.exists /\ Files = home
  BY <1>0, <1>1, EmptyFacts, Apart DEF DeletionOK, Pairing, Files
<1>4. /\ files \in Outputs /\ files.flac = old.flac /\ files.mp3 = old.mp3
      /\ files.marker = Key
  BY <1>0, <1>1, <1>2, OwnAudioIsAudio DEF Outputs
<1> HIDE DEF files
<1>5. /\ new.outputs[Target] = files
      /\ \A u \in 0..MaxJobs : u # Target => new.outputs[u] = home.outputs[u]
  BY <1>2, <1>4, PutFiles
<1> HIDE DEF new
<1>6. ~Live => FilesHold'
  <2>1. ~Live => ~Live' /\ row'.stage # "upload" /\ upload' # "made"
    BY <1>0, <1>1, Running DEF Live, Exists
  <2> QED
    BY <2>1, GoneHold
<1>7. Live => FilesHold'
  <2> SUFFICES ASSUME Live PROVE FilesHold'
    OBVIOUS
  <2>1. /\ RunInOrder("published", home) /\ Len(jobs) \in 1..MaxJobs /\ handler.job = Len(jobs)
        /\ (Job.type \in {"render_edit", "export"} => Target = Len(jobs))
    BY <1>1, <1>3, RunKnown
  <2>2. Target # 0 => old.marker # Key
    BY <1>2, <2>1 DEF RunInOrder
  <2>3. Job.type = "render_edit" => new.outputs[0] = home.outputs[0]
    BY <1>5, <2>1, BoundsAssumption
  <2>4. Job.type \in {"render_edit", "export"} => Made(Job, handler.job, new)
    BY <1>1, <1>4, <1>5, <2>1, <2>3 DEF RunInOrder, Made
  <2>5. RunInOrder("committed", new)
    BY <1>4, <1>5, <2>1, <2>4 DEF RunInOrder
  <2>6. \/ /\ Target = 0 /\ files.marker \in {old.marker, Key}
           /\ files.flac = old.flac /\ files.mp3 = old.mp3
        \/ Target # 0 /\ old.marker # Key /\ Made(Job, handler.job, new)
    BY <1>2, <1>4, <2>2, <2>4
  <2> QED
    BY <1>1, <1>3, <1>4, <2>5, <2>6, OutputHolds DEF new
<1> QED
  BY <1>6, <1>7

\* Without its original a normalization still has its marker.
LEMMA RemoveOriginalHolds == ASSUME QInv, RemoveOriginal PROVE FilesHold'
<1>0. IInv
  BY DEF QInv
<1> DEFINE pc == IF Job.type = "normalize" THEN "returned" ELSE "listen"
           new == [home EXCEPT !.original = "none"]
<1>1. /\ UNCHANGED <<row, jobs, upload, staged>> /\ handler.pc = "adjusted" /\ Goes(pc)
      /\ home' = new
  BY DEF RemoveOriginal
<1>2. home \in Directories /\ Job.type \in PairTypes
  BY <1>0, <1>1, Apart DEF FilesOK, HandlerOK
<1>3. /\ new.outputs = home.outputs /\ new.approval = home.approval /\ new.original = "none"
      /\ home = NoDir => new = home
  BY <1>2, EmptyFacts DEF Directories
<1>4. pc \in {"returned", "listen"} /\ (Job.type = "transcribe" => pc = "listen")
  OBVIOUS
<1> HIDE DEF pc, new
<1>5. ASSUME NEW dir, Live, RunInOrder("adjusted", dir) PROVE RunInOrder(pc, dir)
  BY <1>2, <1>4, <1>5 DEF RunInOrder, PairTypes
<1>6. CASE staged.exists
  <2>1. home' = home
    BY <1>0, <1>1, <1>3, <1>6, WhereTheFilesAre DEF Pairing
  <2>2. Live => RunInOrder(pc, Files)
    BY <1>1, <1>5, RunKnown
  <2> QED
    BY <1>1, <2>1, <2>2, SameRow, AdvanceHolds
<1>7. CASE ~staged.exists
  <2>1. Files = home /\ Files' = new /\ ~Stuck
    BY <1>1, <1>7 DEF Files, Stuck
  <2>2. ASSUME Live
        PROVE  /\ PairInOrder(row', jobs, new) /\ EditInOrder(row', jobs, new)
               /\ GenerationsInOrder(jobs, new) /\ SourceInOrder(jobs, new)
               /\ RunInOrder(pc, new)
    <3>1. /\ PairInOrder(row, jobs, home) /\ EditInOrder(row, jobs, home)
          /\ GenerationsInOrder(jobs, home) /\ SourceInOrder(jobs, home)
          /\ RunInOrder("adjusted", home)
          /\ Job = jobs[Len(jobs)] /\ handler.job = Len(jobs) /\ Target = 0
      BY <1>1, <1>2, <2>1, <2>2, RunKnown DEF PairTypes
    <3>2. Job.type = "normalize" => home.outputs[0].marker = Len(jobs)
      BY <3>1 DEF RunInOrder, Key, KeyOf
    <3>3. PairInOrder(row', jobs, new)
      BY <1>1, <1>3, <3>1, <3>2 DEF PairInOrder, Gathered
    <3>4. RunInOrder("adjusted", new)
      BY <1>2, <1>3, <3>1 DEF RunInOrder, PairTypes
    <3> QED
      BY <1>1, <1>3, <1>5, <2>2, <3>1, <3>3, <3>4 DEF EditInOrder, GenerationsInOrder,
         SourceInOrder, Made
  <2> QED
    BY <1>1, <2>1, <2>2, RunHolds
<1> QED
  BY <1>6, <1>7

\* All steps of the worker and its handlers.
LEMMA WorksHold == ASSUME QInv, Works PROVE FilesHold'
BY ClaimHolds, CompleteJobHolds, HandlerFailsHolds, PublishFlacHolds, PublishMp3Holds,
   WriteMarkerHolds, NormalizeHolds, SetAdjustmentsHolds, RemoveOriginalHolds, TranscribeHolds,
   PrepareEditHolds, MakeGenerationHolds, RenderHolds, CommitEditingHolds, ExportCopyHolds,
   ExportEndsHolds
DEF Works, Commits, Normalizes, Edits, Exports

-----------------------------------------------------------------------------
(* The invariant *)

\* The invariant is inductive.
LEMMA StepKeepsQInv == QInv /\ [Next]_vars => QInv'
<1> SUFFICES ASSUME QInv, [Next]_vars PROVE QInv'
  OBVIOUS
<1>1. IInv' /\ DeletionsOK' /\ GoneOK'
  BY StepKeepsIInv, StepKeepsGone DEF QInv
<1>2. CASE UNCHANGED vars
  <2>1. UNCHANGED <<row, jobs, handler, upload, home, staged>>
    BY <1>2 DEF vars
  <2>2. Files' = Files /\ (Stuck => Stuck')
    BY <2>1 DEF Files, Stuck
  <2>3. FilesHold'
    BY <2>1, <2>2, StillHold DEF QInv
  <2> QED
    BY <1>1, <2>3 DEF QInv
<1>3. CASE Next
  <2>1. FilesHold'
    BY <1>3, StartHolds, UploadsHold, DeletesHold, WorksHold, RequestsHold DEF Next
  <2> QED
    BY <1>1, <2>1 DEF QInv
<1> QED
  BY <1>2, <1>3

\* What an earlier run of the server left is in order (FilesAssumption).
LEMMA InitQInv == Init => QInv
<1> SUFFICES ASSUME Init PROVE QInv
  OBVIOUS
<1>1. IInv
  BY InitIInv
<1>2. PICK u \in Upgrades : row = u.row /\ jobs = u.jobs /\ home = u.home
  BY DEF Init
<1>3. /\ staged = NoDir /\ handler = NoHandler /\ upload = "none" /\ deletion = "none"
      /\ process = "down" /\ ~staged.exists
  BY EmptyFacts DEF Init
<1>4. Files = home
  BY <1>3 DEF Files
<1>5. DeletionsOK /\ GoneOK
  BY <1>2, <1>3, FilesAssumption DEF DeletionsOK, GoneOK, Pairing, NoHandler
<1>6. FilesInOrder
  BY <1>2, <1>3, <1>4, FilesAssumption DEF FilesInOrder, Live, Exists
<1>7. FreshOK /\ RunOK
  BY <1>3 DEF FreshOK, RunOK, NoHandler
<1> QED
  BY <1>1, <1>5, <1>6, <1>7 DEF QInv, FilesHold

\* In every reachable state the files of the sermon are in order, in their place
\* or staged for deletion, and the run of a handler is as far as it says.
THEOREM FilesInvariant == Spec => []QInv
<1>1. QInv /\ [Next]_vars => QInv'
  BY StepKeepsQInv
<1> QED
  BY InitQInv, <1>1, PTL DEF Spec

-----------------------------------------------------------------------------
(* The properties *)

\* While no deletion is under way or was cut short, the files of a live sermon
\* are beside its row.
LEMMA InPlace ==
  ASSUME QInv, Live, deletion = "none", ~cutShort
  PROVE  /\ Files = home /\ Recorded(home) /\ home \in Directories /\ jobs \in Seq(Jobs)
         /\ Len(jobs) <= MaxJobs
         /\ PairInOrder(row, jobs, home) /\ EditInOrder(row, jobs, home)
         /\ GenerationsInOrder(jobs, home) /\ SourceInOrder(jobs, home)
         /\ process = "up" => home.approval = NoApproval
<1>0. IInv /\ DeletionsOK /\ FilesInOrder
  BY DEF QInv, FilesHold
<1>1. ~staged.exists
  BY <1>0 DEF DeletionsOK, Live
<1>2. Files = home /\ staged = NoDir /\ ~Stuck
  BY <1>0, <1>1, WhereTheFilesAre DEF Stuck
<1>3. Recorded(home)
  BY <1>0, <1>2, EmptyFacts, Apart DEF AudioIsNeverLost, Places
<1> QED
  BY <1>0, <1>2, <1>3, Apart DEF FilesInOrder, FilesOK, JobsOK, ProcessOK

\* The pair is known by PhaseOK, an edit or an export by RunInOrder.
LEMMA WholeIsRecognised == QInv => RecognisedIsWhole
<1> SUFFICES ASSUME QInv, handler.pc \in {"committed", "adjusted"}, Exists
             PROVE  RecognisedIsWhole
  BY DEF RecognisedIsWhole
<1>0. IInv
  BY DEF QInv
<1> DEFINE product == CASE Job.type = "export"      -> Job.asked
                        [] Job.type = "render_edit" ->
                             [by |-> Files.outputs[0].flac.by, cut |-> Job.draft]
                        [] OTHER                    -> [by |-> Key, cut |-> 0]
           own == Files.outputs[Target]
<1>1. Live /\ handler.pc # "none"
  BY <1>0, Running DEF Live
<1>2. Files \in Places /\ Files # NoDir
  BY <1>0, <1>1, LiveHasFiles, EmptyFacts DEF Files, Places
<1>3. /\ PairInOrder(row, jobs, Files) /\ RunInOrder(handler.pc, Files)
      /\ handler.job = Len(jobs)
      /\ (Job.type \in {"render_edit", "export"} => Target = Len(jobs))
      /\ (Job.type \notin {"render_edit", "export"} => Target = 0)
  BY <1>1, RunKnown
<1>4. Job.type \in {"render_edit", "export"} =>
        Made(Job, handler.job, Files) /\ handler.pc = "committed"
  BY <1>0, <1>1, <1>3, Apart DEF RunInOrder, HandlerOK, PairTypes
<1>5. product # NoAudio /\ own.mp3 = product /\ (Job.type = "export" \/ own.flac = product)
  <2>1. CASE Job.type = "export"
    BY <1>3, <1>4, <2>1 DEF Made
  <2>2. CASE Job.type = "render_edit"
    <3>1. /\ Files.outputs[0].flac # NoAudio /\ own.flac = product /\ own.mp3 = product
          /\ product = [by |-> Files.outputs[0].flac.by, cut |-> Job.draft]
      BY <1>3, <1>4, <2>2 DEF Made
    <3>2. Files.outputs[0].flac.cut = 0 /\ Files.outputs[0].flac \in Audio
      BY <1>0, <1>3, WhereTheFilesAre, BoundsAssumption DEF PairInOrder, Directories, Outputs
    <3>3. Files.outputs[0].flac.by # 0
      BY <3>1, <3>2 DEF NoAudio, Audio
    <3> QED
      BY <3>1, <3>3 DEF NoAudio
  <2>3. CASE Job.type \notin {"render_edit", "export"}
    <3>1. Job.type \in PairTypes
      BY <1>0, <1>1, <2>3, Apart, Running DEF HandlerOK, Pairing, JobTypes, PairTypes
    <3>2. PhaseOK(Files)
      BY <1>0, <1>1, <1>2, <3>1, Apart DEF HandlerOK
    <3>3. product = OwnAudio /\ Target = 0
      BY <1>3, <2>3 DEF OwnAudio
    <3> QED
      BY <1>0, <1>1, <3>2, <3>3, OwnAudioIsAudio DEF PhaseOK, OwnAudio
  <2> QED
    BY <2>1, <2>2, <2>3
<1> QED
  BY <1>2, <1>5 DEF RecognisedIsWhole

\* Of the directory in its place, the input by the type of the job.
LEMMA InputsAreThere == QInv => InputsOfJobExist
<1> SUFFICES ASSUME QInv, process = "up", Live, deletion = "none", ~cutShort, Current > 0,
                    jobs[Current].state # "done"
             PROVE  InputsOfJobExist
  BY DEF InputsOfJobExist
<1> DEFINE job == jobs[Current] pair == home.outputs[0]
<1>1. /\ Recorded(home) /\ home \in Directories /\ home.approval = NoApproval
      /\ PairInOrder(row, jobs, home) /\ SourceInOrder(jobs, home)
  BY InPlace
<1>2. job.type \in JobTypes
  <2>1. job \in Jobs
    BY InPlace DEF Current
  <2> QED
    BY <2>1 DEF Jobs
<1>3. Gathered(home) = [flac |-> pair.flac, mp3 |-> pair.mp3]
  BY <1>1 DEF Gathered, NoApproval
<1>4. home.original = "whole" \/ pair.mp3 # NoAudio
  BY <1>1 DEF Recorded, NoApproval
<1>5. job.type = "normalize" => home.original = "whole" \/ pair.marker = Current
  BY <1>1 DEF PairInOrder, Current, NoApproval
<1>6. job.type \in {"prepare_edit", "render_edit"} => pair.flac # NoAudio
  BY <1>1, <1>3 DEF PairInOrder, Current
<1>7. job.type = "export" => home.outputs[job.source].mp3 # NoAudio
  BY <1>1 DEF SourceInOrder, Current
<1> QED
  BY <1>2, <1>4, <1>5, <1>6, <1>7 DEF InputsOfJobExist, JobTypes

\* An active edit by EditInOrder, the recording by PairInOrder.
LEMMA AppliedIsPlayed == QInv => PlaysWhatIsApplied
<1> SUFFICES ASSUME QInv, Live, deletion = "none", ~cutShort PROVE PlaysWhatIsApplied
  BY DEF PlaysWhatIsApplied
<1>1. CASE row.active
  BY <1>1, InPlace DEF PlaysWhatIsApplied, EditInOrder
<1>2. CASE ~row.active
  <2>1. Playing(home) = home.outputs[0].mp3
    BY <1>2 DEF Playing, CommittedPlayback
  <2>2. home.outputs[0].mp3.cut = 0
    BY InPlace DEF PairInOrder
  <2>3. home.outputs[0].mp3 # NoAudio \/ process # "up" \/ home.original = "whole"
    BY InPlace DEF Recorded, NoApproval
  <2> QED
    BY <1>2, <2>1, <2>2, <2>3 DEF PlaysWhatIsApplied
<1> QED
  BY <1>1, <1>2

\* A row that is not live yet has no jobs.
LEMMA ExportsAreKept == QInv => ExportIsWhatWasPlaying
<1> SUFFICES ASSUME QInv, NEW j \in DOMAIN jobs, jobs[j].type = "export", jobs[j].state = "done",
                    Exists, deletion = "none", ~cutShort
             PROVE  jobs[j].asked # NoAudio /\ home.outputs[j].mp3 = jobs[j].asked
  BY DEF ExportIsWhatWasPlaying
<1>1. Live
  BY DEF QInv, IInv, UploadOK, Live, Exists
<1>2. j \in 1..Len(jobs) /\ GenerationsInOrder(jobs, home)
  BY <1>1, InPlace
<1> QED
  BY <1>2 DEF GenerationsInOrder, Made

\* The directory of a deleted sermon is missing or empty.
LEMMA NothingComesBack == QInv => DeletedLeavesNoAudio
<1> SUFFICES ASSUME QInv, row.stage = "deleted", upload = "none", process = "up", ~cutShort
             PROVE  ~HasAudio(home)
  BY DEF DeletedLeavesNoAudio
<1>1. home \in {NoDir, EmptyDir}
  BY DEF QInv, GoneOK
<1> QED
  BY <1>1, EmptyFacts DEF HasAudio

\* A run that goes on as committed (CommitArtifacts, HasCommittedArtifacts) has
\* published all its files, whatever crashes and earlier runs left behind.
THEOREM RecognisedRunsAreWhole == Spec => []RecognisedIsWhole
BY FilesInvariant, WholeIsRecognised, PTL

\* A retry of the current job finds its input or its own output: the handlers
\* remove nothing that a later run asks for.
THEOREM InputsExist == Spec => []InputsOfJobExist
BY FilesInvariant, InputsAreThere, PTL

\* What EditingPlayback serves is the whole generation of the applied draft, or
\* without an edit the whole recording.
THEOREM AppliedDraftPlays == Spec => []PlaysWhatIsApplied
BY FilesInvariant, AppliedIsPlayed, PTL

\* What a finished export offers (ExportSnapshot) is what was playing when it was
\* requested.
THEOREM ExportsAreWhatWasPlaying == Spec => []ExportIsWhatWasPlaying
BY FilesInvariant, ExportsAreKept, PTL

\* Of a sermon that handleDeleteSermon, abandonUpload or the start-up clean-up
\* removed no audio stays in, or comes back to, its directory.
THEOREM DeletedSermonsLeaveNoAudio == Spec => []DeletedLeavesNoAudio
BY FilesInvariant, NothingComesBack, PTL

=============================================================================
