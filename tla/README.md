# Sermon-Scribe: a verification project in TLA+

Sermon-Scribe takes recordings of sermons from upload to publication: a Go server
stores them in SQLite, a pool of two workers normalizes, transcribes and describes
them, users edit and export them in a web client written in Elm. This directory
holds TLA+ models of that code, configurations that model-check them with TLC, and
proofs that TLAPS checks. Paths below are relative to the repository (`src/`).

## Inventory

| component | state | operations | what is hard |
|---|---|---|---|
| job queue of the store (`internal/store/jobs.go`) | table `jobs` (state, attempts, return state), `job_errors` | enqueue, claim, requeue, fail, complete with follow-up, retry, rerun, recovery | two workers, reports for deleted or restarted jobs, chains of failed reruns |
| sermon rows (`internal/store/store.go`) | table `sermons`: stage, status, transcript, review; rows that cascade | create, review, delete | every other component moves the same two columns |
| worker pool (`internal/processing/queue.go`) | two goroutines, wake channel (capacity 1), poll ticker | claim, run, report, stop | cancellation, panics, store errors after a claim, dropped wake-ups |
| process (`cmd/sermon-scribe/main.go`) | the process itself | open and recover, serve, stop on a signal, crash | what a stop leaves running, order of recovery and serving |
| HTTP handlers (`internal/server/server.go`, `export.go`, `editing.go`) | requests in flight | upload, retry, rerun, review, scriptures, delete, export, save/apply/regenerate a draft | reads before the transaction that uses them, files beside rows |
| event hub and stream (`internal/server/events.go`) | subscribers with a buffer of 64 | publish, subscribe with snapshot, stream | full subscribers, order of publication, events of deleted sermons |
| artifacts (`internal/processing/marker.go`) | temporary and final files, completion marker | commit, recognise a commit | a crash between any two renames |
| handlers (`normalize.go`, `transcription.go`, `editing.go`, `export.go` of `internal/processing`) | files of a sermon, transcript, draft, playback | one `Run` each | being run again after any partial run |
| drafts (`internal/store/editing.go`) | draft with revision, snapshot in the job | prepare, save, apply, commit | two editor windows, saves against busy sermons |
| exports (`internal/store/export.go`) | snapshot in the job | enqueue with the pinned source | the source changes before the worker runs |
| scriptures (`internal/processing/scriptures.go`) | readings, selection | normalize references, select | lost update of the selection handler |
| sermon list of the client (`web/src/Main.elm`) | list, tombstones, requests in flight | snapshot, update, answers | answers and events in any order |
| editor of the client (`web/src/Editing.elm`) | draft, saved draft, timers, flags | change, autosave, apply, regenerate | answers that arrive after newer edits |
| cost records, migrations, views, waveform drawing | - | append and sum; run once; draw | little: see "Not modelled" |

How they interact: handlers of HTTP requests and the workers share the two tables and
nothing else; the store has one connection (`SetMaxOpenConns(1)`, store.go:89), so
transactions are serial. A request or a worker publishes the row it wrote to the hub
after its transaction, and calls `Notify`, which puts one token into the wake channel.
Workers and requests share the directory of a sermon without a lock. The client keeps
one event stream and issues requests; their answers and the events are unordered.

What makes each correct:

- *tables*: a busy sermon has one active job, of its stage; attempts equal recorded
  errors; a retry finds the failure that is shown; a return state leads back to the
  pipeline; a saved draft is never overwritten by preparation; busy sermons settle.
- *artifacts and directories*: what a marker commits is complete; nothing is lost that
  a later run needs; a row without a directory (or the reverse) is repaired or reported.
- *drafts and editor*: no acknowledged edit is lost; what is applied is what was shown.
- *events and list*: a connected client converges to the rows; a deleted sermon stays away.
- *pure functions*: scripture ranges, kept ranges, mapped transcripts and drafts agree
  with a declarative definition on all small inputs.

The hazards behind these properties are listed with their lines in `PROJECT.json`.

## Modules

| module | models | role |
|---|---|---|
| `Pipeline` | `jobs.go`, `queue.go`, `main.go`, the transactions of `store.go`, `editing.go`, `export.go` and the HTTP handlers that issue them | the core |
| `Workflow` | what the pipeline promises of a sermon | abstract specification |
| `PipelineRefinement` | the mapping from the tables to `Workflow` | refinement |
| `EditDraft` | the editing row (`store/editing.go`, `server/editing.go`) and the windows that edit it (`Editing.elm`) | drafts |
| `EventStream` | publication, hub and streams (`events.go`), the list of a window (`Main.elm`) | events |
| `Artifacts` | the files of a sermon: `marker.go`, `normalize.go`, `export.go` and `editing.go` of `processing`, and what upload, deletion and start-up do to the directory (`server.go`, `main.go`) | files |
| `Timeline` | `SpeakerDraft`, `Validate`, `keptRanges`, `MapTranscript`, the changes of a draft in `Editing.elm` | timelines |
| `Scriptures` | `normalizeScriptures` and the validation of references, as operators | pure functions |
| `Selection` | extraction and selection of references: `MetadataHandler`, `handleSaveScriptures`, `Main.elm` | selections |
| `MCPipeline` | first databases, symmetry and view | model checking |
| `MCEditDraft`, `MCEventStream` | symmetry | model checking |
| `MCArtifacts` | what earlier versions may have left in a directory | model checking |
| `MCTimeline` | transcriptions and a draft of the first version | model checking |
| `MCSelection` | answers of the language model, and lists of references beside them | model checking |
| `Ordered` | finite sets put in order, as the sorts of the program do, and elements picked from a list | helpers |
| `PipelineProofs`, `PipelineHistoryProofs` | `Pipeline`: tables, workers and attempts in the first; what the past tells a retry, and the refinement of `Workflow`, in the second, which extends it | theorems and proofs |
| `EditDraftProofs`, `EventStreamProofs` | `EditDraft`, `EventStream` | theorems and proofs |
| `ArtifactsProofs` | `Artifacts`: that the recording survives, and everything else about the files | theorems and proofs |
| `OrderedProofs`, `TimelineProofs` | induction, sets in order and folds; `Timeline` | lemmas; theorems and proofs |
| `SelectionProofs` | `Scriptures` and `Selection` | theorems and proofs |

### Pipeline: state and actions

`sermon` is the row with what hangs on it: stage, status, whether a source transcription
is stored, the editing row (none, generated or saved by a user) and the review flag.
`jobs` is the table in order of creation; deletion marks the rows. `worker` is the
control state of each goroutine of `Queue.worker`: idle, inside `Handler.Run`, or about
to report success or failure. `exportCall` is the one request whose decision and whose
transaction are apart (`handleExport`). `process` is down, opened (recovery done), up or
stopping. `stranded` records the jobs whose worker gave up on a store error, and `errors`
of a job the `job_errors` rows of its attempt cycle. `requests`, `crashes` and `faults`
only count towards the bounds `MaxRequests`, `MaxCrashes` and `MaxFaults`.

| action | code |
|---|---|
| `RecoverRunningJobs`, `DiscardInterruptedUploads` | `store.Open` and the start of `main` |
| `Crash`, `Shutdown`, `Exit` | end of the process, the signal context, `Queue.Stop` |
| `ClaimNextJob`, `PollNoJob` | `ClaimNextJob`, the select of `Queue.worker` |
| `HandlerSucceeds`, `HandlerFails` | `runHandler`: result, error, panic or cancelled context |
| `CompleteJob`, `RecordJobFailure`, `StoreError` | the three ways out of `runOne` |
| `CreateSermon`, `StartUpload`, `CompleteUpload` | `handleUploadSermon` |
| `DeleteSermon` | `handleDeleteSermon`, `abandonUpload` |
| `MarkNormalizationReviewed`, `EnqueueNormalizationRerun`, `EnqueueProcessingRerun`, `RetryFailedJob` | the handlers and transactions of these names |
| `SaveDraft`, `ApplyDraft` | the two branches of `MutateEditing` |
| `ExportDecide`, `ExportCommit`, `ExportRefused` | `handleExport` with `EnqueueExport` or `RetryFailedJob` |

Abstractions, and why they are safe for the properties:

- *A transaction is one step*: one connection, and every transaction of these files is
  rolled back by a deferred `Rollback` unless it commits.
- *Any queued job may be claimed*: the code picks by `available_at, created_at, id`. The
  model allows every order, so nothing checked depends on back-off or on the clock.
- *The position of a job is its order of creation.* The code orders by the text of
  `created_at`; two jobs of one sermon within a second can compare differently when one
  timestamp has no fraction. See the hazards.
- *Handlers* are one step with their stored output; a failing handler may or may not
  have stored it. Progress reports change no column a guard reads.
- *Refusals* without effect (validation, revision conflicts, unknown ids) are the actions'
  disabledness; only `ExportRefused` is kept, because the request holds state.
- *Ids* are never used again. A deleted sermon keeps a tombstone in the model only.
- *Databases* of a first start: empty, or left by earlier versions (normalization awaiting
  review, jobs of the retired editor, published sermons without a draft).

### Properties of Pipeline

- `TypeOK`: types of all variables.
- `OneJobPerBusySermon`: rows and jobs agree (the conjuncts of `Coherent`).
- `RunningJobHasOneWorker`: a running job has exactly one worker while the process is up,
  none only after a store error.
- `RetryFindsTheFailure`: the newest job of a failed sermon's stage is the failed one.
- `AttemptsCountErrors`: attempts equal recorded errors plus the execution under way, across
  crashes.
- `ReturnIsToThePipeline`: return states are normalization, editing or metadata.
- `SavedDraftIsKept`: no prepare_edit job is active for a saved draft.
- `BusySermonSettles`: liveness under `Fairness`.
- `ImplementsWorkflow`, `ImplementsFairWorkflow`: refinement of `Workflow`.
- `RerunRestoresTheState`: the statement of a comment, refuted (see Findings).

### EditDraft: state and actions

`row` is the editing row (revision and content), `phase` whether the sermon is being
prepared, at rest or busy, `job` and `applied` the snapshot of the render under way and of
the last one, `editor` the Elm model of each window, `calls` the requests on their way.
`versions` is history: what every revision says and what its author had before him.
A request is first `Unanswered`; a handler rewrites it with its answer, `Lose` with an
error (before or after it was handled), and the window takes it. Answers come in any order.

| action | code |
|---|---|
| `PrepareEditing`, `Prepared` | `PrepareEditing` of the store, completion of its job |
| `OtherProcessing`, `ProcessingEnds` | what makes the sermon busy and brings it to rest |
| `HandleLoad`, `HandleSave`, `HandleApply`, `HandleConflict` | the handlers with `MutateEditing` |
| `HandleRegenerateRead`, `HandleRegenerate` | the two halves of `handleRegenerateEditing` |
| `Open`, `Reload`, `OpenAnother`, `Change`, `Undo`, `RetrySave`, `ApplyRecording`, `ConfirmRegenerate` | messages of these names, under the conditions of their buttons |
| `SaveLater` | the timer of a change |
| `Loaded`, `Saved`, `Regenerated`, `Applied`, `Outdated` | answers of the current and of an earlier generation |

A draft's breakpoints and sections are one of `Contents`; those in `TooLong` keep 90 minutes
or more. Drafts that keep nothing are refused on both sides and left out. `skip` is never
sent as true by this client. The code keeps 50 steps of undo; the bound on user actions
stays below. The button *Apply* is shown beside a loaded draft only, so the branch of
`ApplyRecording` that opens the draft first cannot be reached from this interface. A `busy`
sermon may also be one whose processing failed: such a sermon is put at rest by a retry.

Properties:

- `EveryRevisionBuildsOnTheLast`: who stores a revision had the previous one before him.
- `WindowKnowsARevision`: a window's saved draft is what the server holds, or held, under
  that revision, and its own draft claims no other.
- `AppliedAsShown`: what is rendered was on the window when its user applied it, and is
  never too long -- although the server does not check lengths and the window may have
  loaded, saved or undone in between.
- `NothingToLoseWhileTheServerWorks`: answers that replace the draft find no unsaved change.
- `EditIsSavedOrReported`, `ApplyEnds`: liveness under fair timers, handlers and answers.

### EventStream: state and actions

A row is abstracted to a version that grows with every commit (0: none, 1: being uploaded and
never published). Versions are history and no part of a row: the client compares records, and a
record may come back (a job that failed, was retried and fails alike), so `Look` gives what the row
of each sermon says at each version, and `Unchanged` compares that. `committed` holds what is
committed and not yet published: nothing orders publications. `stream` is a subscription with its
snapshot and bounded channel, or a refused one, `answers` the answers on their way, `window` the
list, its tombstones and flags. `published`, `removed` and `byAnswer` are history.

| action | code |
|---|---|
| `Update` | commits of workers and of requests whose answer the list ignores |
| `CreateSermon`, `CompleteUpload`, `AbandonUpload`, `SaveScriptures`, `RetryProcessing`, `DeleteSermon` | the handlers of these names |
| `Publish` (with `Offer`) | `EventHub.publish`, the answer of the request after it |
| `Subscribe`, `SubscribeFails` | `subscribeWithSnapshot`, and the answer 500 of `handleEvents` |
| `StreamEnds`, `Break` | the end of `handleEvents`, a broken connection of the stream |
| `LoseAnswer` | a broken connection of a request: its window gives up, its handler goes on and publishes |
| `Crash` | the process ends between commit and publication; uploads under way are discarded |
| `GotSermons`, `FetchFails`, `ReceiveSnapshot`, `ReceiveEvent`, `ReceiveAnswer` | the messages of `Main.elm` |

Properties:

- `NothingMissed`: a window that has read its stream shows every sermon at least as new as
  it was last published, unless an answer of its own set the card back (`byAnswer`) and no event
  or snapshot has renewed it. Answers of uploads and selections are inserted unconditionally; the
  answer of a retry sets a card back only when the newer card equals the one of the button.
- `DeletedStaysAway`: what a window knows to be deleted stays off its list, with the same
  exception.
- `PublishedIsShown`: liveness across dropped subscribers, breaks, crashes and lost answers, unless
  the subscription is refused, with the same exception. The retries are in this property's run.
- `DelayedEventCannotRecreate`: the statement of a comment, refuted (see Findings).

What was *published* last need not be what was *committed* last: two writers may publish in
the opposite order, and a window then shows the older row until the next event or snapshot.
The model has this behaviour; no text of the repository promises the contrary. Nor does one of two
more, which the exceptions name:

- A failed sermon is retried, and its job fails again with the same error and without a cost: the
  record is as before (store.go:121-145 selects nothing that grows), so the late answer of the retry
  replaces the newer "failed" card by its pending row (Main.elm:522), until the next event or snapshot.
- When the table cannot be read the stream is answered 500 (events.go:110-113). An `EventSource` does
  not ask again after that, and the page makes only one (index.html:44): the window stays as it is
  until it is loaded again.

### Artifacts: state and actions

Nothing locks the directory of a sermon. `home` is that directory and `staged` the one a deletion
renamed it to; each holds the original (none, partial, whole), the staging directory of the retired
approval flow, and `outputs`: number 0 is the normalized pair, number j the generation that job j
writes for an edit or export. An output has temporary and final files and the job its marker names.
Audio is abstracted to the run that normalized it and the draft it is cut by, which is what
the properties tell apart. `row` and `jobs` are what the handlers read and write of the tables:
settings, draft, playback, the pinned source of an export. `handler` is the point its run has
reached, `upload` and `deletion` those of the two requests, `process` that of start-up.
`cutShort` records that a deletion or clean-up was interrupted or failed, and `asked` of an
export what was playing when it was requested.

A transaction is one step, each file operation another, and a crash may come between any two.
The delete request holds the only connection while its transaction is open (`DbFree`). A handler
fails at any step, and its job goes back to the queue or fails for good: any number of partial
runs is covered without counting attempts. Sermons share no file, and a sermon has one active job
(`OneJobPerBusySermon`, proved of `Pipeline`), so one sermon and one handler suffice.

| action | code |
|---|---|
| `RecoverRunningJobs`, `DiscardInterruptedUploads`, `RemoveInterruptedUpload`, `RestoreOne`, `Serve` | `store.Open`, the start of `main`, `reconcileApprovalStaging` entry by entry |
| `UploadMkdir`, `UploadCreate`, `UploadOpen`, `UploadBody`, `CompleteUpload`, `AbandonRow`, `AbandonFiles` | `handleUploadSermon`, `abandonUpload` |
| `DeleteBegin`, `DeleteStage`, `DeleteCommit`, `DeleteRestore`, `DeleteFiles` | `handleDeleteSermon` inside and around the transaction of `DeleteSermon` |
| `ClaimNextJob`, `CompleteJob`, `HandlerFails` | the worker around `Handler.Run` |
| `PublishFlac`, `PublishMp3`, `WriteMarker` | `CommitArtifacts` |
| `Normalize`, `SetNormalizationAdjustments`, `RemoveOriginal`, `Transcribe` | `NormalizeHandler.Run`, also as the fallback in `TranscriptionHandler.Run` |
| `PrepareEdit`, `MakeGeneration`, `Render`, `CommitEditing` | `EditingHandler.Run` |
| `MakeGeneration`, `ExportCopy`, `ExportEnds` | `ExportHandler.Run` |
| `RerunNormalization`, `RerunTranscription`, `RetryFailedJob`, `SaveDraft`, `ApplyDraft`, `EnqueueExport` | the requests of these names |
| `Crash` | the end of the process at any point |

Properties:

- `RecognisedIsWhole`: a run that goes on as committed has published all its files, each of its
  own encoding, whatever was left in their place.
- `AudioIsNeverLost`: a live sermon has its recording, uploaded or normalized in both forms by
  one run, at every moment.
- `InputsOfJobExist`: whatever ran before, a run of the current job finds the input it needs
  or its own committed output.
- `PlaysWhatIsApplied`: the edit that plays is the whole generation of the applied draft.
- `ExportIsWhatWasPlaying`: an export is what was playing when it was requested.
- `DeletedLeavesNoAudio`: of a deleted sermon no audio stays, although handlers go on.
- `TypeOK` includes the limits of the adjustments, which are stepped from what was read.
- `LiveRowKeepsItsFiles`: the statement of a comment, refuted (see Findings).

Where a property excepts `cutShort` or a deletion under way, the code leaves the directory to
"manual cleanup" (server.go:652-653) or logs the failure. Behaviours of the model that no property
refuses, because no text of the repository promises the contrary:

- `MkdirAll` of a render or export makes the directory of a deleted sermon anew and leaves an
  empty generation behind; when the deletion is refused instead, that directory can keep the
  staged files from being moved back.
- A repeated normalization that fails for good between publishing its pair and storing the
  adjustments leaves the new sound beside the old settings, until it is retried.

### Timeline: state and actions

`source` is the stored transcription and `draft` the draft of the editor, as breakpoints (time,
kind, edited, generated time) and decisions. Times are whole numbers; the code compares and
subtracts seconds and takes middles, which are compared doubled here. `MinGap`, `LongPause` and
`PhraseGap` stand for 0.05, 3 and 2 seconds. Identifiers, texts and rounding are left out; a
passage tells its speaker and whether anything was said. The functions of the code are operators
with folds: `SpeakerDraft` (with `Pauses`, `Candidates`, `Recalled`, `Fits`, `Marks`,
`Inherited`), `KeptRanges` and `MapTranscript`.

| action | code |
|---|---|
| `SaveSourceTranscription` | the transcription job, first or repeated |
| `Prepare`, `Regenerate` | `EditingHandler.Run` (prepare_edit), `handleRegenerateEditing` |
| `Keep`, `Nudge`, `AddBoundary`, `RemoveBoundary`, `DeleteBefore`, `DeleteAfter` | messages of `Editing.elm`, each saved |

Properties, checked in every draft that these actions reach and against any transcription:

- `DraftsAreAccepted`: `Validate` accepts every draft the program makes itself.
- `DecisionsSurvive`: a regeneration that preserves edits moves no edited breakpoint and
  deletes no kept audio other than silence.
- `RegeneratingSettles`: doing it twice is doing it once.
- `GeneratedDraftKeepsSpeech`: a generated draft deletes no transcribed word.
- `TranscriptFollowsTheAudio`: the transcript of an edit has each word of the kept audio once, in
  order, and at the time at which the rendered audio plays it. The audio is defined by itself, as
  the list of the source's units that the ranges play.
- `PhrasesDoNotCrossCuts`: no phrase joins words over a deleted range.

`GeneratedDraftKeepsSpeech` is stated for transcriptions whose segments name a speaker and do not
overlap. Otherwise the code can take speech for a pause: it looks at the next segment only (a short
segment inside a longer one hides the end of the longer), and not at segments without a speaker.
When every section is kept the code shows the source's transcript itself, not the mapped one.

### Scriptures and Selection: state and actions

A reference is a passage with ranges of verses as `parseScripture` returns them, or a text that it
does not understand. `Scriptures` models `normalizeScriptures` (its counter is the number of
a mention, its sorts list sets without ties, its merge is a fold) and states beside it what the
result should be, without following its steps: `IsMostSpecific` (the maximal runs of the verses
mentioned) and `IsInOrder` (first mention; a chapter's own mention lends its place).

`Selection` has `row` (readings, selection, options), `request` (the save that the window awaits),
`lost` (handlers of saves whose connection broke), `window` (copy of the sermon, draft of the
selection, flags), and the history `wanted` (what the user chose since the offer changed last) and
`undone` (a lost handler was the last to store a selection). A window awaits one save at a time, but
the server may be at several: `handleSaveScriptures` does not look at its connection.

| action | code |
|---|---|
| `Extract` | `MetadataHandler.Run` with an answer of the language model |
| `ReadSermon`, `SaveScriptureSelection`, `Reload` | the steps of `handleSaveScriptures` |
| `StoreFails` | an error of the store at any of them |
| `ConnectionBreaks` | the window sees an error at once; the handler becomes a lost one |
| `LostReads`, `LostSaves` | the steps of a handler whose connection broke, at any later time |
| `ToggleScripture`, `RetryScriptureSave` | clicks |
| `ScriptureSaveFinished`, `ScriptureSaveFailed`, `Refresh` | answers and events |

Properties:

- `NormalizedIsExact`: `normalizeScriptures` agrees with its definition.
- `SelectionIsAvailable`: a selection stays one of its options, although an extraction may commit
  between the two steps of a save, and lost handlers write after later saves.
- `OfferedIsAccepted`: the server takes whatever the window offers.
- `ToggleIsNotLost`: with no error and no save under way, what the user chose is stored,
  unless a lost handler wrote last.
- `SavingEnds`: liveness of a save.

Behaviours that the properties leave out, because the code promises nothing else: a save that
overlaps an extraction writes the older readings and options back; an answer that brings other
options filters the draft and saves the rest; a toggle made on options that an extraction has
replaced can be dropped; a save whose connection broke may be stored after the next one
(server.go:374), which leaves the older selection without an error and without a save under way,
until an event shows it. Of a reading with several passages the first counts. Two readings of
one chapter are merged into one option, and the offered readings themselves are then refused.

## Runs

| run | instance | shows |
|---|---|---|
| `one` | 1 sermon, 2 workers, 2 attempts, 3 requests, 1 crash, 1 store error, every first database | all safety properties along long request sequences (about 415 000 states) |
| `shared` | 2 sermons in use, or 1 from every first database where the other was deleted; 2 workers, 2 attempts, 1 request, 1 crash | interference of sermons, the refinement, and both liveness properties (about 59 000 states) |
| `rerun` | 1 sermon, 1 worker, 1 request | the violation of the comment |
| `draft_windows` | 2 windows, 2 contents, 5 user actions, 1 loss, 2 other jobs | safety of drafts (about 1 300 000 states) |
| `draft_live` | 1 window, one ordinary and one long content, 4 user actions, 1 loss | liveness of the editor (about 96 000 states) |
| `stream` | 1 sermon, 2 windows, channels of 1 event, 3 versions, 1 break, crash or lost answer | safety of lists (about 1 640 000 states) |
| `stream_live` | 1 window with selections and retries, channel of 1 event, 5 versions of which the fourth says what the second said, 2 breaks | a retry's late answer over a recurring row, liveness of lists (about 526 000 states) |
| `delayed` | 2 windows, 3 versions, 1 break | the violation of the comment |
| `artifacts` | 5 installations, 5 jobs, 2 drafts, adjustments -1..1, 1 crash | safety of files (about 1 350 000 states) |
| `deletion` | a new installation, 2 jobs, 1 draft, 1 crash | the violation of the comment |
| `timeline` | 5 transcriptions of 10 units, 2 changes by hand, a draft of the first version | drafts, renders and transcripts (about 38 000 states) |
| `selection` | 4 answers, 3 options, 2 toggles with any retries, 1 extraction, 1 failure; lists of up to 3 of 16 references | selections and references (about 110 000 states) |

Bounds. Sermons meet only through the workers: two sermons and two workers show every
pairwise interference, one sermon the depth of its own history. The limit of attempts is
3 in the code; 2 shows the first, the repeated and the last attempt, and runs with 3 were
tried as well. Three requests reach a rerun after a failed rerun after a failed export,
which is the longest chain `ReturnOf` distinguishes. One crash or stop reaches every control
point of workers and requests; one store error likewise. `Symmetry` permutes sermons and
workers in the safety runs only; the view `LiveCounters` hides counters of jobs that are
over, which nothing reads.

Fairness. `RecoverRunningJobs`, `DiscardInterruptedUploads` and `Exit` are weakly fair because
the supervisor restarts the server (`deploy/*.service`) and `main` runs straight through.
`Claim(w)` is weakly fair because the ticker of `Queue.worker` polls every second even when
a wake-up was dropped. Handlers return because they run under a context, their HTTP and ffmpeg
calls end, and panics are recovered. Reports follow handlers. Nothing is assumed of users,
crashes, store errors, or of a handler's success. Store errors are excluded from `shared`: a
stranded job waits for the next restart, which nobody promises.

Of the draft: five actions reach open, change, save, apply in one window and a change or
application in the other; one loss reaches a stored save whose answer is an error; two jobs reach a
repeated preparation and a busy sermon. Of the stream: sermons do not meet in it, so one is
enough; a channel of one event overflows at the second, as one of 64 at the 65th; three
versions are an upload, one update and one more, the fourth is needed for a retry that is
overtaken by a row that says again what it said (`Recurring`), the fifth for what renews the card.
Runs with channels of two events were tried as well.

Of the files: from an edited sermon three more jobs can follow (an export, another edit, and a
transcription or another export), from a new one the whole way to a prepared edit. One crash is
enough, because a handler that fails leaves any partial run behind as often as wanted, and a
crash adds only what start-up does with requests and directories; the adjustments start at their
limit in one installation. Two changes reach a moved breakpoint beside an inserted or removed one under any new
transcription; ten units have room for two long pauses; three references are enough for a merge of
merges and for a chapter's mention on either side of its verses; three options are fewer than
the candidates of an answer; two toggles are one and another during its save or after its failure,
where a retry may come as well; one failure (`MaxFailures`) is an error of the store or a handler
that goes on while the window saves again. The
lists of `selection` share no state with its selections: one moves while the other stays at its
first state, so the states of the run are the sum of theirs and not the product.

Deadlock is checked in the runs of `Pipeline`. `CHECK_DEADLOCK FALSE` stands in
the other configurations, whose bounds on user actions, versions, jobs and changes
let everything come to a real end: every request answered, every event read, every job done.

In `EditDraft` the timers, the handlers and the delivery of answers are weakly fair (the Elm
runtime, the server and the connection, which answers with an error at the latest); users,
losses and processing are not. In `EventStream` publication is weakly fair for whoever has
committed, and each window reads and asks again (`EventSource` does so by itself, `retry: 3000`)
until it is refused: what is fair is `Subscribe(w) \/ SubscribeFails(w)`, and a refused stream stays so.
Breaks, crashes and users are not fair. In `Selection` the steps of the handler and the answers are
weakly fair; clicks, errors and extractions are not, nor are lost handlers, whose request may never
have reached the server. `Artifacts` and `Timeline` state no fairness.

Each property has a mutant of the code in the modules (operators marked `mutant`) that TLC
must refute it with: a retry that leaves the sermon failed, a claim of running jobs, a
recovery that keeps the attempt, a rerun that forgets the first return state, a transcription
that always prepares an edit, a deletion without cascade, a hidden failure, and others.

## Proofs

Every invariant that a run checks of `Pipeline`, `EditDraft`, `EventStream`, `Artifacts`,
`Timeline` and `Selection` is proved for every value of the constants, and so is the safety
refinement of `Workflow`. What is listed here is in `PROJECT.json` with its theorem.

| module | theorem | states |
|---|---|---|
| `PipelineProofs` | `TypeCorrect`, `TablesCoherent`, `AttemptsAreCounted`, `OneWorkerPerRunningJob` | `TypeOK`, `OneJobPerBusySermon`, `AttemptsCountErrors`, `RunningJobHasOneWorker` |
| `PipelineHistoryProofs` | `FailuresAreFound`, `ReturnsAreToThePipeline`, `SavedDraftsAreKept`, `PipelineImplementsWorkflow` | `RetryFindsTheFailure`, `ReturnIsToThePipeline`, `SavedDraftIsKept`, `ImplementsWorkflow` |
| `EditDraftProofs` | `TypeCorrect`, `NothingOverwrittenUnseen`, `WindowsAreNotMistaken`, `RenderedWasShown`, `NothingIsLost` | `TypeOK`, `EveryRevisionBuildsOnTheLast`, `WindowKnowsARevision`, `AppliedAsShown`, `NothingToLoseWhileTheServerWorks` |
| `EventStreamProofs` | `StreamTypes`, `NothingIsMissed`, `DeletedStaysOffTheList` | `TypeOK`, `NothingMissed`, `DeletedStaysAway` |
| `ArtifactsProofs` | `TypeCorrect`, `RecordingIsNeverLost`, `RecognisedRunsAreWhole`, `InputsExist`, `AppliedDraftPlays`, `ExportsAreWhatWasPlaying`, `DeletedSermonsLeaveNoAudio` | `TypeOK`, `AudioIsNeverLost`, `RecognisedIsWhole`, `InputsOfJobExist`, `PlaysWhatIsApplied`, `ExportIsWhatWasPlaying`, `DeletedLeavesNoAudio` |
| `SelectionProofs` | `Normalized`, `StoredSelection`, `AcceptedOffers`, `StoredToggles` | what `NormalizedIsExact` says, of every list; `SelectionIsAvailable`, `OfferedIsAccepted`, `ToggleIsNotLost` |
| `TimelineProofs` | `TimelineTypes`, `AcceptedDrafts`, `SurvivingDecisions`, `SettledRegeneration`, `GeneratedSpeech`, `FollowedAudio`, `UncutPhrases` | `TypeOK`, `DraftsAreAccepted`, `DecisionsSurvive`, `RegeneratingSettles`, `GeneratedDraftKeepsSpeech`, `TranscriptFollowsTheAudio`, `PhrasesDoNotCrossCuts` |

### Pipeline

For any sermons, workers, attempt limit, bounds and first databases, from the named assumptions
of `Pipeline`: a positive attempt limit, natural bounds, rerun parts among the four,
`DatabasesAssumption` (the database of the first start is typed and coherent) and
`HistoryAssumption` (attempts and errors of its jobs agree, and its jobs remember what retries and
reruns rely on). Both speak of the databases in which the server may be started for the
first time in the model. An empty one satisfies them trivially; those of earlier versions were
written by the same transactions on rows and jobs, and those that this version leaves satisfy them
again, because what is assumed is what is proved to be kept.

*Tables.* The inductive invariant is `IInv == TypeOK /\ OneJobPerBusySermon`: coherence has to be
strengthened by the types only, because `Coherent` says both directions (an active job matches
its sermon, and a busy sermon has an active job). That a claim leaves one active job needs the
first, that a rerun may add one needs the second. Coherence is a conjunction over sermons
(`SermonBySermon`): those not touched keep it, and the one that is touched is examined. One
lemma per shape of write (append a job, rewrite one, set a row) keeps the cases short.

*Workers.* `HInv` adds what goroutines and rows say of each other: a worker that is busy holds a
job that is running or was deleted under it, and knows its attempt number; no two hold one
job; a running job is held unless a store error stranded it; none is running when the workers start
(`RecoveredFirst`). That two workers never share a job is not a lock in the code but the
consequence of claims that take queued jobs only, and of nobody else ending an execution.

*History.* `RInv` adds `RemembersFor` of each sermon. The failure of a failed sermon is the latest
job of its stage; a job that may still run, or that is the failure which a retry starts from,
returns to a stage of the pipeline, and if that stage had failed, its failed job is still the latest
there. The three properties need each other: a rerun of a failed rerun hands on its return state,
and only because jobs with a return state belong to none of the stages returned to can the old
failure still be found. `NextsAreSafe` carries the draft: a transcription that asks for an edit to
be prepared found no draft, and none can be saved until it is over.

*Refinement.* `StepImplements` maps every step to a step of `Workflow` or a stutter, one lemma per
group of actions: a sermon's phase is read off its row, its work off its active job, and coherence
makes one present exactly when the other says so. It takes `RInv` and not `IInv`, since a job that
returned its sermon to `upload` would look like a new one. Two definitions turned out to be
ambiguous under proof and were made exact: `Restart` of `Workflow` and `InputsOfJobExist` of
`Artifacts` had a `CASE` with overlapping guards, of which TLC takes the first and TLA+ any.

### EditDraft

For any windows, contents and bounds, from `ContentsAssumption` (what is too long is a content,
and "none" is not one) and `ActsAssumption` (natural bounds). The argument is about knowledge. A
draft *is known* (`Knows`) when it is what the history says of its revision; knowledge is never
lost, because histories only grow (`KnowsLonger`). The inductive invariant says that the row is
the last revision (`RowOK`), that each window's saved draft is known and its own draft claims the
same revision (`ModelOK`), and that each request carries the revision of the known draft it is
based on, a regeneration has read that revision or a later one, and an application asks for exactly
what is saved (`CallOK`). When the server finds a request's revision to be its last, its author
therefore had the last draft (`CurrentIsSeen`): the revision check is enough, without a lock,
sessions or clocks, and whatever answers are lost or late. `CallOK` also ties a request to its
generation: an answer that the window still takes finds the draft loaded.

`NothingIsLost` needs a second invariant, `WInv`: at most one save and one load of a generation are
under way, and a window whose save or load is under way says so. An answer that unlocks a
window is then one it waits for, and a window that regenerates or applies has nothing unsaved.

### EventStream

For any sermons, windows, channel capacity, versions, broken connections, refused subscriptions and
crashes, from a positive capacity, bounds that leave room for a row that was published, and
`LookAssumption`, which only says that `Look` is a table: whatever rows say, all alike included.
`NothingMissed` speaks
of windows that have read their stream. `EInv` says what makes it true of the others: the last
event of a sermon in an open channel is the one published last; without one, the snapshot
under way is not older; and without that, the card is not (`Current`). A snapshot is not older
because nothing is ahead of the row of a sermon that exists (`NotAhead`). A card moves back by an answer
only, and then stands in `byAnswer` until an event or a snapshot renews it: an upload's answer fills an
empty place, and a retry's answer that is not older than the card moves it forward. Deleted
rows stay deleted and tombstones name only those (`DeletedForGood`).

### Artifacts

For any limits that include 0, any bounds and any coherent installations: `CoherentUpgrades` (a
sermon at rest has its recording, and a marker of the last job stands beside a complete pair) and
`FilesAssumption` (its files are in the order in which the handlers leave them, and a deleted
sermon has none). A new installation satisfies both trivially, one of a version before edits and
exports needs only what it says of the pair, and one that this version leaves satisfies them again,
because they say what is proved to be kept.

The recording survives because of an order: files, marker, settings, and only then the removal of
the original. The inductive invariant `IInv` follows that order through every interruption:
`PhaseOK` says which files are there at each point of a run, `MarkerOK` when a marker vouches for
the pair (a repeated run skips the steps before it), `DeletionOK` in which of two places the
directory is, `UploadOK` and `ProcessOK` what uploads and start-up have made so far. That a handler
removes an original only beside a whole pair needs `PhaseOK` and, for a repeated run, `MarkerOK`;
both must hold wherever a deletion has moved the files.

`QInv` adds the edits, the exports and the deletions. The files of a live
sermon are in one place, `Files`: beside the row, or where a deletion renamed them to, while the
other place is missing or empty. So a handler that finds a file has found the right one
(`FoundAtHome`), and a handler that finds none can only fail. Of that place four predicates hold
between any two steps:

- `PairInOrder`: the FLAC is published first, drafts and edits come after the MP3, and a
  normalization that is not over has its original or its marker;
- `EditInOrder`: the edit that plays is the whole generation of the applied draft;
- `GenerationsInOrder`: the marker of the current job's generation vouches for what the job asks
  for, no marker names a job to come, and a finished export holds what was asked for;
- `SourceInOrder`: the file the current export copies is still what was playing, because the pair is
  never written while an export is the current job, and a job writes only its own generation.

`RunOK` says how far the run of an edit or export has come, with the marker absent until its files
are published: a repeated run never writes into a generation that counts as committed. `GoneOK` says
that the directory of a deleted sermon is missing or empty: a handler that was publishing when the
directory went fails at its next rename, and an upload that goes on writes to a file without a
name. An installation where a deletion or clean-up was cut short is excepted where the properties
except it. It covers any number of jobs, drafts, failures, crashes and deletions. There is one lemma
per action; `PairWritten` and `GenerationWritten` say once what writing an output may do.

### Timeline

For any duration, transcriptions, stored drafts and changes, from: a gap of at least one unit
between breakpoints, no longer than the recording (the code refuses to prepare shorter ones) nor
than a long pause (0.05 s and 3 s in the code); drafts of earlier versions that passed `Validate`,
as every version validated what it stored; and transcriptions that list words in the order of
their middles, which is what the service returns.

The inductive invariant is short, `IInv == TypeOK /\ (draft # NoDraft => Validate(draft))`; the
work is in what one step computes. `SpeakerDraft`, `keptRanges` and `MapTranscript` are loops that
append to lists, here folds over sequences and sets put in order. The library's induction takes an
operator as a parameter and cannot be used, but that a set of naturals which is not empty has a
least element can be stated without one (`LeastNumber`, from well-foundedness), and from it
`Induction`: a set that holds 0 and the successors of its members holds every natural. So each
fold is first described by its steps (`Tried`, `Collected`, `Summed`, `Composed`), and what holds
after n steps is a set of numbers n. `OrderedProofs` also shows, by induction on the cardinality,
that a finite set without ties is listed by `InOrder` completely, once each and in ascending order.

- *Marks.* The breakpoints a regeneration starts from are apart and within the recording
  (`Good`), a candidate is added only where it keeps them so, hence the sorted list passes
  `Validate` and every edited one is in it. That a kept unit is in a section which inherits its
  decision needs the section to overlap the old one, which `Inherited` asks for exactly.
- *Settling.* The second regeneration tries the same candidates over what the first preserved: a
  breakpoint that was added is found again and blocks nothing new, one that was refused is refused
  by the same breakpoint; with the same marks each section meets the section it came from.
- *Speech.* A section of a generated draft that begins in silence ends at the next start at the
  latest, because the pause is longer than `MinGap` and so the start is not refused for being too
  close: no word has its middle in it.
- *Audio.* The kept ranges ascend with gaps between them (`Ascends`), hold the moments the kept
  sections hold (`Holds`), and their lengths add up to the offsets at which they play (`Plays`). The
  rendered audio is therefore a bijection with the kept units, which gives the duration, and a
  passage clipped to its range is heard where that range plays (`HeardPart`). That no passage comes
  twice is that ranges are disjoint; the order is that of ranges, then of the list.
- *Phrases.* The first words of phrases cut the list of words into intervals, each within one range
  because a change of range is a break (`PhraseInOneRange`); the span of a phrase is one piece of the
  source because a range is.

### Scriptures and Selection

For any passages, lists of references, answers of the language model, bounds, and any limit of
options that has room for two (6 in the code). `AnswersAssumption` says only that an answer
consists of references.

`Normalized` is about a pure function: for every list of references the result names, of each
passage, the maximal runs of the verses mentioned, or the chapter when no verse was, keeps what
could not be parsed, and is in the order of the first mentions. The specification in
`Scriptures` (`IsMostSpecific`, `IsInOrder`) speaks of sets of verses and of places in the list
and follows no step of the code. The proof goes through the stages of the code, each described by a
predicate: mentions are numbered in the order of their places (`AreAt`); those of a passage are
sorted by verse (`AreSorted`); the fold leaves runs that are apart from each other, cover what was
mentioned and carry the number of their first mention (`MergedTo` after each step, `AreMerged` in
the end), where a run that begins after a gap can meet none before the last because starts ascend;
one run moves to where its passage was first mentioned (`IsPlacedFrom`); the outputs have numbers
of their own, so that the sort leaves no ties (`OutputsDiffer`, `AreInOrder`). That Go walks the map
of chapters in random order is therefore without effect. Last, the number of an output is shown
to be the place that `IsInOrder` asks for (`RankIs`): a run's verses are first mentioned at its
number (`OwnPlaceOfRun`), and the first run of a passage is the one whose place was moved.

Of the selection, `SelectionInvariant` has two parts. `RowsAreConsistent`: what is selected is
available and no reference twice, and readings of different passages are options; it holds of
what any handler has read as well, lost ones included, which is what a save writes back whatever was
committed since. An
extraction establishes it because the result of `normalizeScriptures` has no reference twice,
two readings of one range make two references at most (`FewReferences`), which the limit leaves in
the options, and a reading whose passage is mentioned nowhere else comes back as it is
(`KeptAsItIs`). `DraftIsKept` and `ChoiceIsKept`: a window has a draft exactly while a save is under
way or has failed, and since the offer changed last that draft is what the user chose, what the
save has read offers what the row does, and what it has stored is the selection of the row unless a
lost handler wrote since (`undone`). An answer that equals what the
draft still says is therefore the user's choice, and another save is sent when it does not.

### Only model-checked

- Everything under fairness: `BusySermonSettles`, `ImplementsFairWorkflow`, `EditIsSavedOrReported`,
  `ApplyEnds`, `PublishedIsShown`, `SavingEnds`. The prover does not reason about `ENABLED`.
- `NormalizedIsExact` as a property of the run: the theorem `Normalized` says the same of every list
  of references, the run of the lists it enumerates.

## Findings

`rerun`: the comment on `EnqueueProcessingRerun` (jobs.go:128-129) says that the original
state is restored on success. After a repeated transcription it is not: the follow-up job
carries no return state and `CompleteJob` uses that of a job without follow-up only. A sermon
waiting at editing/done moves on to metadata/done.

`delayed`: the comment on `PublishDeleted` (events.go:39-41) says that a tombstone keeps a
delayed worker event from recreating the card. A window that was disconnected when the deletion
was published has no tombstone, because a snapshot only replaces the list; an event of an earlier
commit that is published after the reconnection puts the card back until the next snapshot.

`deletion`: the comments on the deletion (server.go:628-629, 652-653, store.go:422-423) say that
the directory can be restored and the row stays for a retry when the transaction fails. When the
process ends between the rename and the commit, the database rolls back and the rename stays: the
sermon is listed without files, start-up does not look for `.deleting` directories, and every
later deletion fails, because its rename finds no directory.

## Plan

1. `Pipeline` with its abstract specification, runs and first theorems (done).
2. `Artifacts`: files, markers, directories and deletion, with its theorems (done).
3. `EditDraft`: revisions of the server with two clients' autosave machines (done).
4. `EventStream`: hub, bounded subscribers, streams and the client's list (done).
5. `Timeline`, `Scriptures`, `Selection`: drafts from speakers, kept ranges, mapped transcripts,
   verse ranges and selections (done).
6. Proofs: every safety property of the modules, and the safety refinement of `Workflow` (done).

## Not modelled

AI calls and the parsing of their answers, audio processing by ffmpeg, drawing of views and
waveforms (pure I/O or data), the waveform cache (read by the display only); cost records (append
and sum); the SQL of migrations (sequential, before everything else); search, navigation,
playback and the polling of exports in the client. The wake channel of the worker pool is not
modelled by itself: a worker polls every second whether or not a wake-up was dropped, which is the
fairness of `Claim`. The order of claims by the text of timestamps is not modelled: every order is
allowed. Only crashes of the process are considered, not loss of unsynced writes by the machine.
