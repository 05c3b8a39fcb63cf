----------------------------- MODULE EventStream -----------------------------
(***************************************************************************)
(* How changes reach the windows of the web client: writers commit a row   *)
(* and publish it afterwards, the hub copies the event into the bounded    *)
(* channel of each subscriber (internal/server/events.go), an EventSource  *)
(* reads it and reconnects when it ends (web/index.html), and Main.elm     *)
(* merges snapshots, events and the answers of its requests into one list. *)
(*                                                                         *)
(* A row is abstracted to a version that grows with every commit: 0 is no  *)
(* row (and no card in a list), 1 a row whose upload is under way, which   *)
(* nobody publishes, and more a row that was published on every change.    *)
(* An update publishes the row read in its transaction or right after; a   *)
(* later read gives the row of another commit, which is published itself.  *)
(* Versions are the history of the commits and no part of a row: a window  *)
(* that compares two rows compares what they say (Look), and a row may say *)
(* again what it said before: failed, retried, and failed alike.           *)
(***************************************************************************)
EXTENDS Naturals, Sequences

CONSTANTS
  Sermons, Windows,
  BufferSize,    \* capacity of a subscriber's channel (64 in the code)
  Asking,        \* which requests windows make, of "upload", "scriptures", "retry"
  MaxVersion,    \* bound: versions of a row
  MaxBreaks,     \* bound: broken connections and crashes of the server
  Look           \* what the row of each sermon says at each version

ASSUME BufferSizeAssumption == BufferSize \in Nat \ {0}
ASSUME AskingAssumption == Asking \subseteq {"upload", "scriptures", "retry"}
\* The bound leaves room for a row that was published.
ASSUME StreamBoundsAssumption == MaxVersion \in Nat \ {0, 1} /\ MaxBreaks \in Nat
ASSUME LookAssumption ==
  DOMAIN Look = Sermons /\ \A s \in Sermons : DOMAIN Look[s] = 1..MaxVersion

VARIABLES
  row,           \* the sermons table
  gone,          \* sermons that were deleted
  committed,     \* what is committed and not yet published
  stream,        \* each window's subscription with what is on its way
  answers,       \* answers of requests on their way
  window,        \* the list, tombstones and snapshot flag of each window
  published,     \* history: the version published last of each sermon
  removed,       \* history: sermons whose deletion was published
  byAnswer,      \* history: cards that an answer set back and nothing has renewed
  breaks

vars == <<row, gone, committed, stream, answers, window, published, removed,
          byAnswer, breaks>>

Table   == [Sermons -> 0..MaxVersion]
Nobody  == "nobody"
NoTable == [s \in {} |-> 0]

Deletion   == MaxVersion + 1      \* stands for a deletion where a version does
Events     == [sermon : Sermons, version : 2..Deletion]
Requests   == {"none", "upload", "scriptures", "retry", "delete"}
\* shown is the card whose retry button was used.
Commits    == [event : Events, request : Requests, from : Windows \cup {Nobody},
               shown : 0..MaxVersion]
Answers    == [window : Windows, request : Requests \ {"none"}, event : Events,
               shown : 0..MaxVersion]

Subscriptions == [status : {"closed", "open", "dropped", "refused"},
                  snapshot : Table \cup {NoTable}, buffer : Seq(Events)]
Closed  == [status |-> "closed", snapshot |-> NoTable, buffer |-> << >>]
Refused == [Closed EXCEPT !.status = "refused"]

Lists == [card : Table, deleted : SUBSET Sermons, hasSnapshot : BOOLEAN,
          fetch : Table \cup {NoTable}]

Init ==
  /\ row \in [Sermons -> {0, 2}]
  /\ gone = {} /\ committed = {} /\ answers = {}
  /\ stream = [w \in Windows |-> Closed]
  \* The page has asked for the list; the answer may be as old as its start.
  /\ window = [w \in Windows |-> [card |-> [s \in Sermons |-> 0], deleted |-> {},
                                  hasSnapshot |-> FALSE, fetch |-> row]]
  /\ published = [s \in Sermons |-> 0]
  /\ removed = {} /\ byAnswer = [w \in Windows |-> {}]
  /\ breaks = 0

-----------------------------------------------------------------------------
(* Writers: they commit, and publish later *)

Commit(s, version, request, w) ==
  /\ row' = [row EXCEPT ![s] = IF version = Deletion THEN 0 ELSE version]
  /\ committed' = committed \cup
       {[event |-> [sermon |-> s, version |-> version], request |-> request, from |-> w,
         shown |-> IF request = "retry" THEN window[w].card[s] ELSE 0]}
  /\ UNCHANGED <<stream, answers, window, published, removed, byAnswer, breaks>>

\* A worker's progress or result, or a request whose answer the list ignores.
Update(s) ==
  /\ row[s] \in 2..(MaxVersion - 1)
  /\ Commit(s, row[s] + 1, "none", Nobody)
  /\ UNCHANGED gone

CreateSermon(s) ==
  /\ "upload" \in Asking
  /\ row[s] = 0 /\ s \notin gone
  /\ row' = [row EXCEPT ![s] = 1]
  /\ UNCHANGED <<gone, committed, stream, answers, window, published, removed,
                 byAnswer, breaks>>

CompleteUpload(w, s) ==
  /\ row[s] = 1
  /\ Commit(s, 2, "upload", w)
  /\ UNCHANGED gone

\* A window awaits one save at a time; the next takes the latest draft.
SaveScriptures(w, s) ==
  /\ "scriptures" \in Asking
  /\ window[w].card[s] # 0
  /\ row[s] \in 2..(MaxVersion - 1)
  /\ ~ \E c \in committed : c.request = "scriptures" /\ c.from = w
  /\ ~ \E a \in answers : a.request = "scriptures" /\ a.window = w
  /\ Commit(s, row[s] + 1, "scriptures", w)
  /\ UNCHANGED gone

\* The button of a card asks for one part at a time; a retry is alike.
RetryProcessing(w, s) ==
  /\ "retry" \in Asking
  /\ window[w].card[s] # 0
  /\ row[s] \in 2..(MaxVersion - 1)
  /\ ~ \E c \in committed : c.request = "retry" /\ c.from = w
  /\ ~ \E a \in answers : a.request = "retry" /\ a.window = w
  /\ Commit(s, row[s] + 1, "retry", w)
  /\ UNCHANGED gone

DeleteSermon(w, s) ==
  /\ row[s] # 0
  /\ window[w].card[s] # 0
  /\ Commit(s, Deletion, "delete", w)
  /\ gone' = gone \cup {s}

AbandonUpload(s) ==
  /\ row[s] = 1
  /\ Commit(s, Deletion, "none", Nobody)
  /\ gone' = gone \cup {s}

-----------------------------------------------------------------------------
(* The hub and the streams: events.go *)

NeverFull(sub, event) ==                                         \* mutant
  IF sub.status # "open" THEN sub
  ELSE [sub EXCEPT !.buffer = Append(@, event)]
DropsTheEvent(sub, event) ==                                     \* mutant
  IF sub.status # "open" \/ Len(sub.buffer) = BufferSize THEN sub
  ELSE [sub EXCEPT !.buffer = Append(@, event)]
\* The send does not wait: a subscriber whose channel is full is dropped, and
\* its channel closed behind what it still holds.
Offer(sub, event) ==
  IF sub.status # "open" THEN sub
  ELSE IF Len(sub.buffer) < BufferSize THEN [sub EXCEPT !.buffer = Append(@, event)]
  ELSE [sub EXCEPT !.status = "dropped"]

\* Publish, or PublishDeleted; the request is answered after it.
Publish(c) ==
  LET event == c.event
  IN  /\ committed' = committed \ {c}
      /\ stream' = [w \in Windows |-> Offer(stream[w], event)]
      /\ IF event.version = Deletion
         THEN removed' = removed \cup {event.sermon} /\ UNCHANGED published
         ELSE published' = [published EXCEPT ![event.sermon] = event.version]
              /\ UNCHANGED removed
      /\ answers' = IF c.request = "none" THEN answers
                    ELSE answers \cup {[window |-> c.from, request |-> c.request,
                                        event |-> event, shown |-> c.shown]}
      /\ UNCHANGED <<row, gone, window, byAnswer, breaks>>

\* The table is read and the channel registered under the lock of the hub.
Subscribe(w) ==
  /\ stream[w].status = "closed"
  /\ stream' = [stream EXCEPT ![w] = [status |-> "open", snapshot |-> row,
                                      buffer |-> << >>]]
  /\ UNCHANGED <<row, gone, committed, answers, window, published, removed,
                 byAnswer, breaks>>

\* The table cannot be read: an EventSource that is answered 500 does not ask
\* again, and the page makes only one.
SubscribeFails(w) ==
  /\ stream[w].status = "closed"
  /\ stream' = [stream EXCEPT ![w] = Refused]
  /\ UNCHANGED <<row, gone, committed, answers, window, published, removed,
                 byAnswer, breaks>>

\* handleEvents returns when it has sent what a closed channel held.
StreamEnds(w) ==
  /\ stream[w].status = "dropped"
  /\ stream[w].snapshot = NoTable /\ stream[w].buffer = << >>
  /\ stream' = [stream EXCEPT ![w] = Closed]
  /\ UNCHANGED <<row, gone, committed, answers, window, published, removed,
                 byAnswer, breaks>>

\* A connection breaks, and what was on its way is lost.
Break(w) ==
  /\ breaks < MaxBreaks
  /\ breaks' = breaks + 1
  /\ stream[w].status \in {"open", "dropped"}
  /\ stream' = [stream EXCEPT ![w] = Closed]
  /\ UNCHANGED <<row, gone, committed, answers, window, published, removed, byAnswer>>

\* The server stops between commits and publications and starts again; the
\* uploads under way are discarded before it serves.
Crash ==
  LET interrupted == {s \in Sermons : row[s] = 1}
  IN  /\ breaks < MaxBreaks
      /\ breaks' = breaks + 1
      /\ committed' = {}
      /\ stream' = [w \in Windows |-> IF stream[w].status = "refused" THEN Refused
                                      ELSE Closed]
      /\ row' = [s \in Sermons |-> IF s \in interrupted THEN 0 ELSE row[s]]
      /\ gone' = gone \cup interrupted
      /\ UNCHANGED <<answers, window, published, removed, byAnswer>>

\* The connection of a request breaks: the window gives it up and may ask again,
\* while the handler, which does not look at its connection, goes on.
LoseAnswer ==
  /\ breaks < MaxBreaks
  /\ breaks' = breaks + 1
  /\ \/ \E c \in committed :
          /\ c.request # "none"
          /\ committed' = (committed \ {c}) \cup
               {[event |-> c.event, request |-> "none", from |-> Nobody, shown |-> 0]}
          /\ UNCHANGED answers
     \/ \E a \in answers : answers' = answers \ {a} /\ UNCHANGED committed
  /\ UNCHANGED <<row, gone, stream, window, published, removed, byAnswer>>

-----------------------------------------------------------------------------
(* The window: Main.elm *)

IgnoresTombstones(m, s, version) == [m EXCEPT !.card[s] = version]     \* mutant
ShowUpdate(m, s, version) ==
  IF s \in m.deleted THEN m ELSE [m EXCEPT !.card[s] = version]

ShowDeleted(m, s) == [m EXCEPT !.deleted = @ \cup {s}, !.card[s] = 0]

\* A fetch that fails empties a list that no snapshot has filled.
FetchFails(w) ==
  LET m == window[w]
  IN  /\ m.fetch # NoTable
      /\ window' = [window EXCEPT ![w] =
           [m EXCEPT !.fetch = NoTable,
                     !.card = IF m.hasSnapshot THEN @ ELSE [s \in Sermons |-> 0]]]
      /\ UNCHANGED <<row, gone, committed, stream, answers, published, removed,
                     byAnswer, breaks>>

\* The first fetch counts until a snapshot came, and never over an event.
GotSermons(w) ==
  LET m == window[w]
  IN  /\ m.fetch # NoTable
      /\ window' = [window EXCEPT ![w] =
           [m EXCEPT !.fetch = NoTable,
                     !.card = IF m.hasSnapshot THEN @
                              ELSE [s \in Sermons |->
                                     IF m.card[s] # 0 THEN m.card[s]
                                     ELSE IF s \in m.deleted THEN 0
                                     ELSE m.fetch[s]]]]
      /\ UNCHANGED <<row, gone, committed, stream, answers, published, removed,
                     byAnswer, breaks>>

ReceiveSnapshot(w) ==
  /\ stream[w].snapshot # NoTable
  /\ stream' = [stream EXCEPT ![w].snapshot = NoTable]
  /\ window' = [window EXCEPT
       ![w].hasSnapshot = TRUE,
       ![w].card = [s \in Sermons |-> IF s \in window[w].deleted THEN 0
                                      ELSE stream[w].snapshot[s]]]
  /\ byAnswer' = [byAnswer EXCEPT ![w] = {}]
  /\ UNCHANGED <<row, gone, committed, answers, published, removed, breaks>>

ReceiveEvent(w) ==
  LET event == Head(stream[w].buffer)
  IN  /\ stream[w].snapshot = NoTable
      /\ stream[w].buffer # << >>
      /\ stream' = [stream EXCEPT ![w].buffer = Tail(@)]
      /\ window' = [window EXCEPT ![w] =
           IF event.version = Deletion
           THEN ShowDeleted(@, event.sermon)
           ELSE ShowUpdate(@, event.sermon, event.version)]
      /\ byAnswer' = [byAnswer EXCEPT ![w] =
           IF event.version # Deletion /\ event.sermon \in window[w].deleted
           THEN @ ELSE @ \ {event.sermon}]
      /\ UNCHANGED <<row, gone, committed, answers, published, removed, breaks>>

ReplacesAnyway(m, a) == a.event.sermon \notin m.deleted           \* mutant
\* replaceSermonIfUnchanged: the card says what it said when the button was used.
Unchanged(m, a) ==
  LET s == a.event.sermon
  IN  /\ s \notin m.deleted
      /\ a.shown # 0 /\ m.card[s] # 0
      /\ Look[s][m.card[s]] = Look[s][a.shown]

\* UploadFinished inserts a missing card, ScriptureSaveFinished replaces the
\* card: neither looks at the tombstones.  DeleteFinished leaves one.
Overwrites(m, a) ==
  \/ a.request = "upload" /\ m.card[a.event.sermon] = 0
  \/ a.request = "scriptures"

\* History: the answer puts a card over a tombstone or an older one over a newer:
\* a retry does when the newer says again what the card of the button said.
SetsBack(m, a) ==
  LET s == a.event.sermon
  IN  \/ Overwrites(m, a) /\ (s \in m.deleted \/ a.event.version < m.card[s])
      \/ /\ a.request = "retry" /\ a.event.version < m.card[s]
         /\ a.shown # 0 /\ Look[s][m.card[s]] = Look[s][a.shown]

ReceiveAnswer(w) == \E a \in answers :
  LET m == window[w]
      s == a.event.sermon
  IN  /\ a.window = w
      /\ answers' = answers \ {a}
      /\ window' = [window EXCEPT ![w] =
           IF a.request = "delete" THEN ShowDeleted(m, s)
           ELSE IF Overwrites(m, a) \/ (a.request = "retry" /\ Unchanged(m, a))
           THEN [m EXCEPT !.card[s] = a.event.version] ELSE m]
      /\ byAnswer' = [byAnswer EXCEPT ![w] =
           IF a.request = "delete" THEN @ \ {s}
           ELSE IF SetsBack(m, a) THEN @ \cup {s} ELSE @]
      /\ UNCHANGED <<row, gone, committed, stream, published, removed, breaks>>

-----------------------------------------------------------------------------

Writer ==
  \/ \E s \in Sermons : Update(s) \/ CreateSermon(s) \/ AbandonUpload(s)
  \/ \E w \in Windows, s \in Sermons :
       \/ CompleteUpload(w, s) \/ SaveScriptures(w, s)
       \/ RetryProcessing(w, s) \/ DeleteSermon(w, s)

PublishAny == \E c \in committed : Publish(c)

Receive(w) == ReceiveSnapshot(w) \/ ReceiveEvent(w)

Next ==
  \/ Writer
  \/ PublishAny
  \/ Crash \/ LoseAnswer
  \/ \E w \in Windows : \/ Subscribe(w) \/ SubscribeFails(w) \/ StreamEnds(w) \/ Break(w)
                        \/ GotSermons(w) \/ FetchFails(w) \/ Receive(w) \/ ReceiveAnswer(w)

Spec == Init /\ [][Next]_vars

\* Who committed publishes; an EventSource reads and, until it is refused, asks again.
Fairness ==
  /\ WF_vars(PublishAny)
  /\ \A w \in Windows : /\ WF_vars(Subscribe(w) \/ SubscribeFails(w))
                        /\ WF_vars(StreamEnds(w))
                        /\ WF_vars(Receive(w))

LiveSpec == Spec /\ Fairness

-----------------------------------------------------------------------------
(* Properties *)

\* The variables hold what the channels and the Elm model can hold; a channel
\* never holds more than its capacity.
TypeOK ==
  /\ row \in Table /\ gone \subseteq Sermons
  /\ committed \subseteq Commits /\ answers \subseteq Answers
  /\ stream \in [Windows -> Subscriptions]
  /\ \A w \in Windows : Len(stream[w].buffer) <= BufferSize
  /\ window \in [Windows -> Lists]
  /\ published \in Table /\ removed \subseteq Sermons
  /\ byAnswer \in [Windows -> SUBSET Sermons]
  /\ breaks \in 0..MaxBreaks

\* A window that has read all of its stream.
CaughtUp(w) ==
  stream[w].status = "open" /\ stream[w].snapshot = NoTable /\ stream[w].buffer = << >>

\* No published change is missed: a window that has caught up shows every sermon
\* that exists at least as new as it was last published -- although channels
\* overflow, connections break, the server crashes between commit and publication
\* and the first fetch comes late (events.go subscribeWithSnapshot and publish).
\* Only an answer of the window's own requests may have set the card back: a late
\* one of a selection, or one of a retry over a newer card that says again what the
\* card of the button said (Main.elm replaceSermonIfUnchanged compares records).
NothingMissed ==
  \A w \in Windows, s \in Sermons :
    CaughtUp(w) /\ s \notin gone /\ s \notin byAnswer[w]
      => window[w].card[s] >= published[s]

\* What a window knows to be deleted stays off its list, whatever snapshot, fetch
\* or event was under way; only the answer of the window's own upload or
\* selection can bring it back (Main.elm deletedSermons).
DeletedStaysAway ==
  \A w \in Windows, s \in Sermons :
    s \in window[w].deleted /\ s \notin byAnswer[w] => window[w].card[s] = 0

\* A card that is older than what was published, and was not set back by an answer.
Behind(w, s) ==
  s \notin gone /\ s \notin byAnswer[w] /\ window[w].card[s] < published[s]

\* Every published change comes to be shown in every window, or the sermon is
\* deleted: "A client that cannot keep up is disconnected and will recover from a
\* fresh snapshot when EventSource reconnects" (events.go:15-17).  It recovers
\* unless its snapshot could not be loaded (events.go:110-113), which ends the
\* stream of the window for good, or an answer sets the card back, which stays until
\* the next event of the sermon or the next snapshot.
PublishedIsShown ==
  \A w \in Windows, s \in Sermons :
    Behind(w, s) ~> ~Behind(w, s) \/ stream[w].status = "refused"

\* What the comment at events.go:39-41 says of a published deletion: "The id
\* remains a frontend tombstone so a delayed worker event cannot recreate the
\* card."  The code does not keep this for a window that was disconnected when
\* the deletion was published: a snapshot leaves no tombstones.  Nothing that is
\* still under way would remove such a card.
DelayedEventCannotRecreate ==
  \A w \in Windows, s \in removed :
    CaughtUp(w) /\ committed = {} /\ answers = {} /\ s \notin byAnswer[w]
      => window[w].card[s] = 0

=============================================================================
