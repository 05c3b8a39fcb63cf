-------------------------- MODULE EventStreamProofs --------------------------
(***************************************************************************)
(* What the windows of the web client know, for any sermons, windows,      *)
(* capacity of the channels, requests, commits, broken connections and     *)
(* crashes: the variables stay in their types, a window that has read its  *)
(* stream missed nothing, and what it knows to be deleted stays away.      *)
(*                                                                         *)
(* NothingMissed speaks of windows that have caught up.  What makes it     *)
(* true of them is what it must say of the others (Current): that the last *)
(* event of a sermon in an open channel is the one published last, that    *)
(* without one the snapshot on its way is not older, and without that the  *)
(* card is not.  A snapshot is not older because nothing anywhere is ahead *)
(* of the row of a sermon that exists (NotAhead).  What rows say (Look) is *)
(* any function of their versions: an answer that does not set a card back *)
(* moves it forward.                                                       *)
(***************************************************************************)
EXTENDS EventStream, TLAPS

\* The requests and the events they publish.
AskedFor(request, event) ==
  /\ request \in {"upload", "scriptures", "retry"} => event.version # Deletion
  /\ request = "delete" => event.version = Deletion

Asked ==
  /\ \A c \in committed : /\ AskedFor(c.request, c.event)
                          /\ c.request # "none" => c.from \in Windows
  /\ \A a \in answers : AskedFor(a.request, a.event)

\* Deleted sermons have no row, and tombstones are theirs.
DeletedForGood ==
  /\ \A s \in gone : row[s] = 0
  /\ \A w \in Windows : window[w].deleted \subseteq gone

\* What a window holds or is sent is not newer than the row of s.
NoNewer(sub, m, s) ==
  /\ m.card[s] <= row[s]
  /\ m.fetch # NoTable => m.fetch[s] <= row[s]
  /\ sub.snapshot # NoTable => sub.snapshot[s] <= row[s]
  /\ \A i \in DOMAIN sub.buffer :
       sub.buffer[i].sermon = s => sub.buffer[i].version <= row[s]

\* Nothing is newer than the row of a sermon that exists.
NotAhead ==
  \A s \in Sermons \ gone :
    /\ published[s] <= row[s]
    /\ \A c \in committed : c.event.sermon = s => c.event.version <= row[s]
    /\ \A a \in answers : a.event.sermon = s => a.event.version <= row[s]
    /\ \A w \in Windows : NoNewer(stream[w], window[w], s)

Mentions(buffer, s) == \E i \in DOMAIN buffer : buffer[i].sermon = s

\* The last event of s in the buffer has at least this version.
EndsAt(buffer, s, version) ==
  \A i \in DOMAIN buffer :
    buffer[i].sermon = s /\ (\A k \in DOMAIN buffer : buffer[k].sermon = s => k <= i)
      => buffer[i].version >= version

\* A window whose channel is open has what was published last, or will read it.
UpToDate(sub, m, by, s) ==
  sub.status = "open" =>
    /\ EndsAt(sub.buffer, s, published[s])
    /\ Mentions(sub.buffer, s)
       \/ IF sub.snapshot # NoTable THEN sub.snapshot[s] >= published[s]
          ELSE s \in by \/ m.card[s] >= published[s]

Current ==
  \A w \in Windows, s \in Sermons \ gone :
    UpToDate(stream[w], window[w], byAnswer[w], s)

\* A stream begins with its snapshot.
Begun(sub, m) ==
  sub.status \in {"open", "dropped"} /\ sub.snapshot = NoTable /\ Sermons # {}
    => m.hasSnapshot
SnapshotFirst == \A w \in Windows : Begun(stream[w], window[w])

EInv == TypeOK /\ Asked /\ DeletedForGood /\ NotAhead /\ Current /\ SnapshotFirst

-----------------------------------------------------------------------------
(* Lists, streams and buffers *)

\* The parts of the types that the steps are about.
LEMMA Parts ==
  ASSUME TypeOK, NEW w \in Windows
  PROVE  /\ row \in Table
         /\ window[w] \in Lists /\ window[w].card \in Table /\ window[w].deleted \subseteq Sermons
         /\ window[w].hasSnapshot \in BOOLEAN /\ window[w].fetch \in Table \cup {NoTable}
         /\ stream[w] \in Subscriptions /\ stream[w].status \in {"closed", "open", "dropped", "refused"}
         /\ stream[w].snapshot \in Table \cup {NoTable} /\ stream[w].buffer \in Seq(Events)
         /\ Len(stream[w].buffer) <= BufferSize
         /\ byAnswer[w] \subseteq Sermons
<1>1. window[w] \in Lists /\ stream[w] \in Subscriptions /\ row \in Table
      /\ Len(stream[w].buffer) <= BufferSize /\ byAnswer[w] \subseteq Sermons
  BY DEF TypeOK
<1> QED
  BY <1>1 DEF Lists, Subscriptions

\* Changing one card of a list.
LEMMA CardSet ==
  ASSUME NEW m \in Lists, NEW s \in Sermons, NEW version \in 0..MaxVersion
  PROVE  /\ [m EXCEPT !.card[s] = version] \in Lists
         /\ [m EXCEPT !.card[s] = version].card = [m.card EXCEPT ![s] = version]
         /\ [m EXCEPT !.card[s] = version].deleted = m.deleted
         /\ [m EXCEPT !.card[s] = version].hasSnapshot = m.hasSnapshot
         /\ [m EXCEPT !.card[s] = version].fetch = m.fetch
<1>1. [m EXCEPT !.card[s] = version]
        = [m EXCEPT !.card = [m.card EXCEPT ![s] = version]]
  BY DEF Lists
<1>2. [m.card EXCEPT ![s] = version] \in Table
  BY DEF Lists, Table
<1> QED
  BY <1>1, <1>2 DEF Lists

\* ... and leaving a tombstone.
LEMMA Tombstone ==
  ASSUME NEW m \in Lists, NEW s \in Sermons
  PROVE  /\ ShowDeleted(m, s) \in Lists
         /\ ShowDeleted(m, s).card = [m.card EXCEPT ![s] = 0]
         /\ ShowDeleted(m, s).deleted = m.deleted \cup {s}
         /\ ShowDeleted(m, s).hasSnapshot = m.hasSnapshot
         /\ ShowDeleted(m, s).fetch = m.fetch
<1>1. ShowDeleted(m, s) = [m EXCEPT !.deleted = m.deleted \cup {s},
                                    !.card = [m.card EXCEPT ![s] = 0]]
  BY DEF ShowDeleted, Lists
<1>2. [m.card EXCEPT ![s] = 0] \in Table
  BY StreamBoundsAssumption DEF Lists, Table
<1> QED
  BY <1>1, <1>2 DEF Lists

\* What the hub makes of a subscription.
LEMMA Offered ==
  ASSUME NEW sub \in Subscriptions, Len(sub.buffer) <= BufferSize, NEW event \in Events
  PROVE  /\ Offer(sub, event) \in Subscriptions
         /\ Len(Offer(sub, event).buffer) <= BufferSize
         /\ Offer(sub, event).snapshot = sub.snapshot
         /\ Offer(sub, event).status = "open" =>
              /\ sub.status = "open"
              /\ Offer(sub, event).buffer = Append(sub.buffer, event)
         /\ Offer(sub, event).status # "open" => Offer(sub, event).buffer = sub.buffer
         /\ Offer(sub, event).status \in {"open", "dropped"} =>
              sub.status \in {"open", "dropped"}
<1>1. /\ sub.buffer \in Seq(Events) /\ sub.status \in {"closed", "open", "dropped", "refused"}
      /\ BufferSize \in Nat /\ Len(sub.buffer) \in Nat
  BY BufferSizeAssumption DEF Subscriptions
<1>2. CASE sub.status # "open"
  BY <1>2 DEF Offer
<1>3. CASE sub.status = "open" /\ Len(sub.buffer) < BufferSize
  <2>1. Offer(sub, event) = [sub EXCEPT !.buffer = Append(sub.buffer, event)]
    BY <1>3 DEF Offer
  <2>2. /\ Append(sub.buffer, event) \in Seq(Events)
        /\ Len(Append(sub.buffer, event)) <= BufferSize
    BY <1>1, <1>3
  <2> QED
    BY <1>3, <2>1, <2>2 DEF Subscriptions
<1>4. CASE sub.status = "open" /\ ~(Len(sub.buffer) < BufferSize)
  <2>1. Offer(sub, event) = [sub EXCEPT !.status = "dropped"]
    BY <1>4 DEF Offer
  <2> QED
    BY <1>4, <2>1 DEF Subscriptions
<1> QED
  BY <1>2, <1>3, <1>4

\* An event that joins a buffer is its last.
LEMMA Joined ==
  ASSUME NEW buffer \in Seq(Events), NEW event \in Events
  PROVE  /\ \A s : /\ Mentions(Append(buffer, event), s)
                        <=> Mentions(buffer, s) \/ event.sermon = s
                   /\ \A version : EndsAt(buffer, s, version) /\ event.sermon # s
                        => EndsAt(Append(buffer, event), s, version)
         /\ \A version : event.version >= version
              => EndsAt(Append(buffer, event), event.sermon, version)
<1> DEFINE longer == Append(buffer, event)
           n      == Len(buffer) + 1
<1>1. /\ DOMAIN longer = DOMAIN buffer \cup {n} /\ n \notin DOMAIN buffer
      /\ longer[n] = event /\ \A i \in DOMAIN buffer : longer[i] = buffer[i]
      /\ \A i \in DOMAIN longer : i <= n
      /\ \A i \in DOMAIN buffer : ~(n <= i)
  OBVIOUS
<1> HIDE DEF longer, n
<1>2. \A s : Mentions(longer, s) <=> Mentions(buffer, s) \/ event.sermon = s
  BY <1>1 DEF Mentions
<1>3. \A s, version : EndsAt(buffer, s, version) /\ event.sermon # s
        => EndsAt(longer, s, version)
  BY <1>1 DEF EndsAt
<1>4. \A version : event.version >= version => EndsAt(longer, event.sermon, version)
  BY <1>1 DEF EndsAt
<1> QED
  BY <1>2, <1>3, <1>4 DEF longer

\* An event that is read leaves the others in their order.
LEMMA Read ==
  ASSUME NEW buffer \in Seq(Events), buffer # << >>
  PROVE  /\ Head(buffer) \in Events /\ Tail(buffer) \in Seq(Events)
         /\ Len(Tail(buffer)) <= Len(buffer)
         /\ \A i \in DOMAIN Tail(buffer) :
              i + 1 \in DOMAIN buffer /\ Tail(buffer)[i] = buffer[i + 1]
         /\ 1 \in DOMAIN buffer /\ buffer[1] = Head(buffer)
         /\ \A s, version : EndsAt(buffer, s, version) =>
              /\ EndsAt(Tail(buffer), s, version)
              /\ Mentions(buffer, s) /\ ~Mentions(Tail(buffer), s) =>
                   Head(buffer).sermon = s /\ Head(buffer).version >= version
         /\ \A s : Mentions(buffer, s) /\ ~Mentions(Tail(buffer), s) => Head(buffer).sermon = s
<1> DEFINE rest == Tail(buffer)
<1>1. /\ Head(buffer) \in Events /\ rest \in Seq(Events) /\ Len(rest) <= Len(buffer)
      /\ 1 \in DOMAIN buffer /\ buffer[1] = Head(buffer)
  OBVIOUS
<1>2. /\ \A i \in DOMAIN rest : i + 1 \in DOMAIN buffer /\ rest[i] = buffer[i + 1]
      /\ \A i \in DOMAIN buffer : i = 1 \/ (i - 1 \in DOMAIN rest /\ rest[i - 1] = buffer[i])
      /\ DOMAIN rest \subseteq Nat /\ DOMAIN buffer \subseteq Nat
  OBVIOUS
<1> HIDE DEF rest
<1>3. \A s : Mentions(buffer, s) /\ ~Mentions(rest, s)
        => /\ Head(buffer).sermon = s
           /\ \A i \in DOMAIN buffer : buffer[i].sermon = s => i = 1
  BY <1>1, <1>2 DEF Mentions
<1>4. \A s, version : EndsAt(buffer, s, version) => EndsAt(rest, s, version)
  <2> SUFFICES ASSUME NEW s, NEW version, EndsAt(buffer, s, version),
                      NEW i \in DOMAIN rest, rest[i].sermon = s,
                      \A k \in DOMAIN rest : rest[k].sermon = s => k <= i
               PROVE  rest[i].version >= version
    BY DEF EndsAt
  <2>1. /\ i + 1 \in DOMAIN buffer /\ buffer[i + 1].sermon = s /\ i \in Nat
        /\ rest[i].version = buffer[i + 1].version
    BY <1>2
  <2>2. \A k \in DOMAIN buffer : buffer[k].sermon = s => k <= i + 1
    <3> SUFFICES ASSUME NEW k \in DOMAIN buffer, buffer[k].sermon = s, k # 1
                 PROVE  k <= i + 1
      BY <2>1
    <3>1. k - 1 <= i /\ k \in Nat
      BY <1>2
    <3> QED
      BY <2>1, <3>1
  <2> QED
    BY <2>1, <2>2 DEF EndsAt
<1>5. \A s, version : EndsAt(buffer, s, version) /\ Mentions(buffer, s) /\ ~Mentions(rest, s)
        => Head(buffer).version >= version
  BY <1>1, <1>3 DEF EndsAt
<1> QED
  BY <1>1, <1>2, <1>3, <1>4, <1>5 DEF rest

-----------------------------------------------------------------------------
(* The inductive invariant *)

\* A table with rows is not the empty one.
LEMMA TableIsThere == ASSUME Sermons # {}, NEW t \in Table PROVE t # NoTable
BY DEF Table, NoTable

\* Nothing is asked, sent or deleted at first.
LEMMA InitEInv == Init => EInv
<1> SUFFICES ASSUME Init PROVE EInv
  OBVIOUS
<1> USE StreamBoundsAssumption, BufferSizeAssumption
<1>1. row \in Table /\ [s \in Sermons |-> 0] \in Table
  BY DEF Init, Table
<1>2. Closed \in Subscriptions /\ Len(Closed.buffer) <= BufferSize
      /\ DOMAIN Closed.buffer = {} /\ Closed.status = "closed" /\ Closed.snapshot = NoTable
  BY DEF Closed, Subscriptions
<1>3. \A w \in Windows : stream[w] = Closed /\ window[w].fetch = row
        /\ window[w].card = [s \in Sermons |-> 0] /\ window[w].deleted = {}
  BY DEF Init
<1>4. window \in [Windows -> Lists]
  BY <1>1 DEF Init, Lists
<1>5. TypeOK
  <2>1. stream \in [Windows -> Subscriptions] /\ byAnswer \in [Windows -> SUBSET Sermons]
    BY <1>2 DEF Init
  <2>2. \A w \in Windows : Len(stream[w].buffer) <= BufferSize
    BY <1>2, <1>3
  <2>3. row \in Table /\ published \in Table /\ removed \subseteq Sermons
        /\ gone \subseteq Sermons /\ committed \subseteq Commits /\ answers \subseteq Answers
        /\ breaks \in 0..MaxBreaks
    BY <1>1 DEF Init
  <2> QED
    BY <1>4, <2>1, <2>2, <2>3 DEF TypeOK
<1>6. Asked /\ DeletedForGood
  BY <1>3 DEF Init, Asked, DeletedForGood
<1>7. NotAhead
  <2>1. \A s \in Sermons : row[s] \in Nat /\ published[s] <= row[s]
    <3>1. row \in [Sermons -> {0, 2}] /\ published = [s \in Sermons |-> 0]
      BY DEF Init
    <3> SUFFICES ASSUME NEW s \in Sermons PROVE row[s] \in Nat /\ published[s] <= row[s]
      OBVIOUS
    <3>2. (row[s] = 0 \/ row[s] = 2) /\ published[s] = 0
      BY <3>1
    <3> QED
      BY <3>2
  <2>2. \A s \in Sermons, w \in Windows : NoNewer(stream[w], window[w], s)
    BY <1>2, <1>3, <2>1 DEF NoNewer
  <2>3. committed = {} /\ answers = {}
    BY DEF Init
  <2> QED
    BY <2>1, <2>2, <2>3 DEF NotAhead
<1>8. Current /\ SnapshotFirst
  BY <1>2, <1>3 DEF Current, UpToDate, SnapshotFirst, Begun
<1> QED
  BY <1>5, <1>6, <1>7, <1>8 DEF EInv

\* Rows that grow, or go for good, leave everything behind them.
LEMMA RowsGrow ==
  ASSUME EInv, row' \in Table, gone \subseteq gone', gone' \subseteq Sermons,
         \A s \in Sermons \ gone' : row'[s] >= row[s], \A s \in gone' : row'[s] = 0,
         committed' \subseteq Commits,
         \A c \in committed' : c \in committed \/
           /\ AskedFor(c.request, c.event) /\ (c.request # "none" => c.from \in Windows)
           /\ c.event.sermon \in gone' \/ c.event.version <= row'[c.event.sermon],
         answers' \subseteq answers, breaks' \in 0..MaxBreaks,
         UNCHANGED <<stream, window, published, removed, byAnswer>>
  PROVE  EInv'
<1> USE StreamBoundsAssumption
<1>1. TypeOK /\ Asked /\ DeletedForGood /\ NotAhead /\ Current /\ SnapshotFirst
  BY DEF EInv
<1>2. TypeOK'
  BY <1>1 DEF TypeOK
<1>3. Asked' /\ DeletedForGood'
  BY <1>1 DEF Asked, DeletedForGood
<1>4. \A s \in Sermons \ gone' : s \notin gone /\ row[s] \in Nat /\ row'[s] \in Nat
                                 /\ row[s] <= row'[s]
  BY <1>1 DEF TypeOK, Table
<1>5. NotAhead'
  <2> SUFFICES ASSUME NEW s \in Sermons \ gone'
               PROVE  /\ published[s] <= row'[s]
                      /\ \A c \in committed' : c.event.sermon = s => c.event.version <= row'[s]
                      /\ \A a \in answers' : a.event.sermon = s => a.event.version <= row'[s]
                      /\ \A w \in Windows : NoNewer(stream[w], window[w], s)'
    BY DEF NotAhead
  <2>1. /\ published[s] <= row[s] /\ published[s] \in Nat
        /\ \A c \in committed : c.event.sermon = s => c.event.version <= row[s]
        /\ \A a \in answers : a.event.sermon = s => a.event.version <= row[s]
        /\ \A w \in Windows : NoNewer(stream[w], window[w], s)
    BY <1>1, <1>4 DEF NotAhead, TypeOK, Table
  <2>2. \A e \in Events : e.version \in Nat
    BY DEF Events, Deletion
  <2>3. /\ \A a \in answers : a.event \in Events
        /\ \A c \in committed : c.event \in Events
    BY <1>1 DEF TypeOK, Answers, Commits
  <2>4. ASSUME NEW w \in Windows PROVE NoNewer(stream[w], window[w], s)'
    <3>1. /\ window[w].card[s] \in Nat
          /\ window[w].fetch # NoTable => window[w].fetch[s] \in Nat
          /\ stream[w].snapshot # NoTable => stream[w].snapshot[s] \in Nat
          /\ \A i \in DOMAIN stream[w].buffer : stream[w].buffer[i].version \in Nat
      BY <1>1, <2>2, Parts DEF Table
    <3> QED
      BY <1>4, <2>1, <3>1 DEF NoNewer
  <2>5. /\ \A c \in committed' : c.event.sermon = s => c.event.version <= row'[s]
        /\ \A a \in answers' : a.event.sermon = s => a.event.version <= row'[s]
        /\ published[s] <= row'[s]
    BY <1>4, <2>1, <2>2, <2>3
  <2> QED
    BY <2>4, <2>5
<1>6. Current' /\ SnapshotFirst'
  BY <1>1, <1>4 DEF Current, UpToDate, SnapshotFirst, Begun
<1> QED
  BY <1>2, <1>3, <1>5, <1>6 DEF EInv

\* A commit of a sermon that exists, and of one that is deleted.
LEMMA Committed ==
  ASSUME EInv, NEW s \in Sermons, NEW request \in Requests,
         NEW w \in Windows \cup {Nobody}, request # "none" => w \in Windows,
         row[s] # 0, NEW version \in 2..Deletion, Commit(s, version, request, w),
         version = Deletion => gone' = gone \cup {s},
         version # Deletion => gone' = gone /\ version >= row[s],
         request \in {"upload", "scriptures", "retry"} => version # Deletion,
         request = "delete" => version = Deletion
  PROVE  EInv'
<1> USE StreamBoundsAssumption
<1>1. TypeOK /\ DeletedForGood /\ s \notin gone
  BY DEF EInv, DeletedForGood
<1> DEFINE shown == IF request = "retry" THEN window[w].card[s] ELSE 0
           c     == [event |-> [sermon |-> s, version |-> version], request |-> request,
                     from |-> w, shown |-> shown]
<1>2. /\ row' = [row EXCEPT ![s] = IF version = Deletion THEN 0 ELSE version]
      /\ committed' = committed \cup {c} /\ answers' \subseteq answers
      /\ breaks' \in 0..MaxBreaks
      /\ UNCHANGED <<stream, window, published, removed, byAnswer>>
  BY <1>1 DEF Commit, TypeOK
<1>3. row \in Table /\ row' \in Table
  <2>1. (IF version = Deletion THEN 0 ELSE version) \in 0..MaxVersion
    BY DEF Deletion
  <2> QED
    BY <1>1, <1>2, <2>1 DEF TypeOK, Table
<1>4. gone \subseteq gone' /\ gone' \subseteq Sermons
  BY <1>1 DEF TypeOK
<1>5. \A z \in Sermons \ gone' : row'[z] >= row[z]
  BY <1>2, <1>3 DEF Table
<1>6. \A z \in gone' : row'[z] = 0
  BY <1>1, <1>2, <1>3, <1>4 DEF DeletedForGood, Table
<1>7. shown \in 0..MaxVersion
  BY <1>1, Parts DEF Table
<1>8. c.event \in Events /\ c \in Commits
  BY <1>7 DEF Events, Commits
<1>9. /\ AskedFor(c.request, c.event) /\ (c.request # "none" => c.from \in Windows)
      /\ c.event.sermon \in gone' \/ c.event.version <= row'[c.event.sermon]
  BY <1>2, <1>3 DEF AskedFor, Table
<1> HIDE DEF c
<1>10. committed' \subseteq Commits
  BY <1>1, <1>2, <1>8 DEF TypeOK
<1> QED
  BY <1>2, <1>3, <1>4, <1>5, <1>6, <1>9, <1>10, RowsGrow

\* What writers do keeps the invariant.
LEMMA WritersKeepEInv == EInv /\ Writer => EInv'
<1> SUFFICES ASSUME EInv, Writer PROVE EInv'
  OBVIOUS
<1> USE StreamBoundsAssumption
<1>1. TypeOK /\ DeletedForGood /\ NotAhead
  BY DEF EInv
<1>2. ASSUME NEW s \in Sermons, Update(s) PROVE EInv'
  <2>1. row[s] + 1 \in 2..Deletion /\ row[s] + 1 # Deletion /\ row[s] # 0
        /\ row[s] + 1 >= row[s]
    BY <1>2 DEF Update, Deletion
  <2>2. Commit(s, row[s] + 1, "none", Nobody) /\ gone' = gone
    BY <1>2 DEF Update
  <2> QED
    BY <2>1, <2>2, Committed DEF Requests
<1>3. ASSUME NEW s \in Sermons, CreateSermon(s) PROVE EInv'
  <2>1. /\ row[s] = 0 /\ s \notin gone /\ row' = [row EXCEPT ![s] = 1]
        /\ answers' \subseteq answers /\ breaks' \in 0..MaxBreaks
        /\ UNCHANGED <<gone, committed, stream, window, published, removed, byAnswer>>
    BY <1>1, <1>3 DEF CreateSermon, TypeOK
  <2>2. row \in Table /\ row' \in Table /\ gone \subseteq Sermons /\ committed \subseteq Commits
    BY <1>1, <2>1 DEF TypeOK, Table
  <2>3. \A z \in Sermons : row'[z] >= row[z]
    BY <2>1, <2>2 DEF Table
  <2>4. \A z \in gone : row'[z] = 0
    BY <1>1, <2>1, <2>2 DEF DeletedForGood, Table
  <2> QED
    BY <2>1, <2>2, <2>3, <2>4, RowsGrow
<1>4. ASSUME NEW s \in Sermons, AbandonUpload(s) PROVE EInv'
  <2>1. row[s] # 0 /\ Commit(s, Deletion, "none", Nobody) /\ gone' = gone \cup {s}
    BY <1>4 DEF AbandonUpload
  <2> QED
    BY <2>1, Committed DEF Requests, Deletion
<1>5. ASSUME NEW w \in Windows, NEW s \in Sermons, CompleteUpload(w, s) PROVE EInv'
  <2>1. row[s] = 1 /\ Commit(s, 2, "upload", w) /\ gone' = gone
    BY <1>5 DEF CompleteUpload
  <2> QED
    BY <2>1, Committed DEF Requests, Deletion
<1>6. ASSUME NEW w \in Windows, NEW s \in Sermons, SaveScriptures(w, s) PROVE EInv'
  <2>1. row[s] + 1 \in 2..Deletion /\ row[s] + 1 # Deletion /\ row[s] # 0
        /\ row[s] + 1 >= row[s]
    BY <1>6 DEF SaveScriptures, Deletion
  <2>2. Commit(s, row[s] + 1, "scriptures", w) /\ gone' = gone
    BY <1>6 DEF SaveScriptures
  <2> QED
    BY <2>1, <2>2, Committed DEF Requests
<1>7. ASSUME NEW w \in Windows, NEW s \in Sermons, RetryProcessing(w, s) PROVE EInv'
  <2>1. row[s] + 1 \in 2..Deletion /\ row[s] + 1 # Deletion /\ row[s] # 0
        /\ row[s] + 1 >= row[s]
    BY <1>7 DEF RetryProcessing, Deletion
  <2>2. Commit(s, row[s] + 1, "retry", w) /\ gone' = gone
    BY <1>7 DEF RetryProcessing
  <2> QED
    BY <2>1, <2>2, Committed DEF Requests
<1>8. ASSUME NEW w \in Windows, NEW s \in Sermons, DeleteSermon(w, s) PROVE EInv'
  <2>1. row[s] # 0 /\ Commit(s, Deletion, "delete", w) /\ gone' = gone \cup {s}
    BY <1>8 DEF DeleteSermon
  <2> QED
    BY <2>1, Committed DEF Requests, Deletion
<1> QED
  BY <1>2, <1>3, <1>4, <1>5, <1>6, <1>7, <1>8 DEF Writer

\* A request whose connection breaks is answered to nobody.
LEMMA LoseAnswerKeepsEInv == EInv /\ LoseAnswer => EInv'
<1> SUFFICES ASSUME EInv, LoseAnswer PROVE EInv'
  OBVIOUS
<1>1. TypeOK /\ DeletedForGood /\ NotAhead
  BY DEF EInv
<1>2. /\ breaks' \in 0..MaxBreaks
      /\ UNCHANGED <<row, gone, stream, window, published, removed, byAnswer>>
  <2>1. /\ breaks < MaxBreaks /\ breaks' = breaks + 1
        /\ UNCHANGED <<row, gone, stream, window, published, removed, byAnswer>>
    BY DEF LoseAnswer
  <2>2. breaks \in 0..MaxBreaks
    BY <1>1 DEF TypeOK
  <2> QED
    BY <2>1, <2>2, StreamBoundsAssumption
<1>3. row \in Table /\ gone \subseteq Sermons /\ committed \subseteq Commits
      /\ \A s \in Sermons : row[s] >= row[s]
  BY <1>1 DEF TypeOK, Table
<1>4. \A s \in gone : row[s] = 0
  BY <1>1 DEF DeletedForGood
<1>5. CASE committed' = committed /\ answers' \subseteq answers
  BY <1>2, <1>3, <1>4, <1>5, RowsGrow
<1>6. ASSUME NEW c \in committed, answers' = answers,
             committed' = (committed \ {c}) \cup
               {[event |-> c.event, request |-> "none", from |-> Nobody, shown |-> 0]}
      PROVE  EInv'
  <2> DEFINE d == [event |-> c.event, request |-> "none", from |-> Nobody, shown |-> 0]
  <2>1. c \in Commits /\ c.event \in Events /\ c.event.sermon \in Sermons
    BY <1>3 DEF Commits, Events
  <2>2. d \in Commits /\ d.request = "none" /\ d.event = c.event
    BY <2>1, StreamBoundsAssumption DEF Commits, Requests
  <2>3. c.event.sermon \in gone \/ c.event.version <= row[c.event.sermon]
    BY <1>1, <2>1 DEF NotAhead
  <2>4. committed' = (committed \ {c}) \cup {d}
    BY <1>6
  <2> HIDE DEF d
  <2>5. /\ committed' \subseteq Commits
        /\ \A x \in committed' : x \in committed \/
             /\ AskedFor(x.request, x.event) /\ (x.request # "none" => x.from \in Windows)
             /\ x.event.sermon \in gone' \/ x.event.version <= row'[x.event.sermon]
    BY <1>2, <1>3, <2>2, <2>3, <2>4 DEF AskedFor
  <2> QED
    BY <1>2, <1>3, <1>4, <1>6, <2>5, RowsGrow
<1> QED
  BY <1>5, <1>6 DEF LoseAnswer

\* What one window receives keeps the invariant, when it does for this window.
LEMMA WindowMoves ==
  ASSUME EInv, NEW w \in Windows,
         UNCHANGED <<row, gone, committed, published, removed>>,
         answers' \subseteq answers, breaks' \in 0..MaxBreaks,
         NEW sub \in Subscriptions, Len(sub.buffer) <= BufferSize,
         NEW m \in Lists, NEW by \in SUBSET Sermons,
         stream' = [stream EXCEPT ![w] = sub], window' = [window EXCEPT ![w] = m],
         byAnswer' = [byAnswer EXCEPT ![w] = by], m.deleted \subseteq gone,
         \A s \in Sermons \ gone : NoNewer(sub, m, s) /\ UpToDate(sub, m, by, s),
         Begun(sub, m)
  PROVE  EInv'
<1>1. TypeOK /\ Asked /\ DeletedForGood /\ NotAhead /\ Current /\ SnapshotFirst
  BY DEF EInv
<1>2. /\ stream'[w] = sub /\ window'[w] = m /\ byAnswer'[w] = by
      /\ \A v \in Windows \ {w} : /\ stream'[v] = stream[v] /\ window'[v] = window[v]
                                 /\ byAnswer'[v] = byAnswer[v]
  BY <1>1 DEF TypeOK
<1>3. TypeOK'
  <2>1. stream' \in [Windows -> Subscriptions] /\ window' \in [Windows -> Lists]
        /\ byAnswer' \in [Windows -> SUBSET Sermons]
    BY <1>1 DEF TypeOK
  <2>2. \A v \in Windows : Len(stream'[v].buffer) <= BufferSize
    BY <1>1, <1>2 DEF TypeOK
  <2> QED
    BY <1>1, <2>1, <2>2 DEF TypeOK
<1>4. Asked'
  BY <1>1 DEF Asked
<1>5. DeletedForGood'
  BY <1>1, <1>2 DEF DeletedForGood
<1>6. \A s \in Sermons \ gone, v \in Windows : NoNewer(stream'[v], window'[v], s)
  BY <1>1, <1>2 DEF NotAhead
<1>7. NotAhead'
  BY <1>1, <1>6 DEF NotAhead, NoNewer
<1>8. \A s \in Sermons \ gone, v \in Windows :
        UpToDate(stream'[v], window'[v], byAnswer'[v], s)
  BY <1>1, <1>2 DEF Current
<1>9. Current'
  BY <1>8 DEF Current, UpToDate
<1>10. SnapshotFirst'
  BY <1>1, <1>2 DEF SnapshotFirst, Begun
<1> QED
  BY <1>3, <1>4, <1>5, <1>7, <1>9, <1>10 DEF EInv

\* What the hub does: it publishes, and takes subscribers.
LEMMA PublishKeepsEInv ==
  ASSUME EInv, NEW c \in committed, Publish(c) PROVE EInv'
<1> USE StreamBoundsAssumption
<1>1. TypeOK /\ Asked /\ DeletedForGood /\ NotAhead /\ Current /\ SnapshotFirst
  BY DEF EInv
<1> DEFINE e == c.event
<1>2. /\ c \in Commits /\ e \in Events /\ e.sermon \in Sermons /\ e.version \in 2..Deletion
      /\ committed \subseteq Commits /\ answers \subseteq Answers
  BY <1>1 DEF TypeOK, Commits, Events
<1>3. /\ committed' = committed \ {c}
      /\ stream' = [w \in Windows |-> Offer(stream[w], e)]
      /\ e.version = Deletion => removed' = removed \cup {e.sermon} /\ published' = published
      /\ e.version # Deletion => /\ published' = [published EXCEPT ![e.sermon] = e.version]
                                /\ removed' = removed
      /\ UNCHANGED <<row, gone, window, byAnswer, breaks>>
  BY DEF Publish
<1>4. \A a \in answers' : a \in answers \/
        /\ a \in Answers /\ a.event = e /\ AskedFor(a.request, a.event)
  <2>1. CASE c.request = "none"
    BY <2>1 DEF Publish
  <2>2. CASE c.request # "none"
    <3> DEFINE a == [window |-> c.from, request |-> c.request, event |-> e, shown |-> c.shown]
    <3>1. answers' = answers \cup {a}
      BY <2>2 DEF Publish
    <3>2. a \in Answers /\ AskedFor(a.request, a.event)
      BY <1>1, <1>2, <2>2 DEF Asked, Answers, Commits
    <3> QED
      BY <3>1, <3>2
  <2> QED
    BY <2>1, <2>2
<1>5. \A s \in Sermons \ gone : e.sermon = s =>
        e.version <= row[s] /\ row[s] \in 0..MaxVersion /\ e.version # Deletion
  BY <1>1, <1>2 DEF NotAhead, TypeOK, Table, Deletion
<1> HIDE DEF e
<1>6. \A w \in Windows :
        /\ stream[w] \in Subscriptions /\ stream'[w] \in Subscriptions
        /\ stream[w].buffer \in Seq(Events)
        /\ Len(stream'[w].buffer) <= BufferSize /\ stream'[w].snapshot = stream[w].snapshot
        /\ stream'[w].status = "open" => /\ stream[w].status = "open"
                                        /\ stream'[w].buffer = Append(stream[w].buffer, e)
        /\ stream'[w].status # "open" => stream'[w].buffer = stream[w].buffer
        /\ stream'[w].status \in {"open", "dropped"} =>
             stream[w].status \in {"open", "dropped"}
  <2> SUFFICES ASSUME NEW w \in Windows
               PROVE  /\ stream[w] \in Subscriptions /\ Offer(stream[w], e) \in Subscriptions
                      /\ stream[w].buffer \in Seq(Events)
                      /\ Len(Offer(stream[w], e).buffer) <= BufferSize
                      /\ Offer(stream[w], e).snapshot = stream[w].snapshot
                      /\ Offer(stream[w], e).status = "open" =>
                           /\ stream[w].status = "open"
                           /\ Offer(stream[w], e).buffer = Append(stream[w].buffer, e)
                      /\ Offer(stream[w], e).status # "open" =>
                           Offer(stream[w], e).buffer = stream[w].buffer
                      /\ Offer(stream[w], e).status \in {"open", "dropped"} =>
                           stream[w].status \in {"open", "dropped"}
    BY <1>3
  <2>1. stream[w] \in Subscriptions /\ Len(stream[w].buffer) <= BufferSize
        /\ stream[w].buffer \in Seq(Events)
    BY <1>1, Parts
  <2> QED
    BY <1>2, <2>1, Offered
<1>7. published \in Table /\ published' \in Table
  <2>1. e.version # Deletion => e.version \in 0..MaxVersion
    BY <1>2 DEF Deletion
  <2> QED
    BY <1>1, <1>2, <1>3, <2>1 DEF TypeOK, Table
<1>8. TypeOK'
  <2>1. answers' \subseteq Answers /\ committed' \subseteq Commits /\ removed' \subseteq Sermons
    BY <1>1, <1>2, <1>3, <1>4 DEF TypeOK
  <2>2. stream' \in [Windows -> Subscriptions]
    BY <1>3, <1>6
  <2> QED
    BY <1>1, <1>3, <1>6, <1>7, <2>1, <2>2 DEF TypeOK
<1>9. Asked' /\ DeletedForGood'
  BY <1>1, <1>3, <1>4 DEF Asked, DeletedForGood
<1>10. \A s \in Sermons \ gone : published'[s] <= row[s]
  BY <1>1, <1>2, <1>3, <1>5, <1>7 DEF NotAhead, Table
<1>11. \A s \in Sermons \ gone, w \in Windows : NoNewer(stream'[w], window[w], s)
  <2> SUFFICES ASSUME NEW s \in Sermons \ gone, NEW w \in Windows
               PROVE  NoNewer(stream'[w], window[w], s)
    OBVIOUS
  <2>1. NoNewer(stream[w], window[w], s)
    BY <1>1 DEF NotAhead
  <2>2. ASSUME NEW i \in DOMAIN stream'[w].buffer, stream'[w].buffer[i].sermon = s
        PROVE  stream'[w].buffer[i].version <= row[s]
    <3>1. CASE i \in DOMAIN stream[w].buffer /\ stream'[w].buffer[i] = stream[w].buffer[i]
      BY <2>1, <2>2, <3>1 DEF NoNewer
    <3>2. CASE stream'[w].buffer[i] = e
      BY <1>5, <2>2, <3>2
    <3>3. /\ stream[w].buffer \in Seq(Events)
          /\ \/ stream'[w].buffer = Append(stream[w].buffer, e)
             \/ stream'[w].buffer = stream[w].buffer
      BY <1>6
    <3>4. \A b \in Seq(Events) : \A k \in DOMAIN Append(b, e) :
            \/ k \in DOMAIN b /\ Append(b, e)[k] = b[k]
            \/ Append(b, e)[k] = e
      BY <1>2
    <3> QED
      BY <3>1, <3>2, <3>3, <3>4
  <2> QED
    BY <1>6, <2>1, <2>2 DEF NoNewer
<1>12. NotAhead'
  <2>1. \A s \in Sermons \ gone :
          /\ \A d \in committed' : d.event.sermon = s => d.event.version <= row[s]
          /\ \A a \in answers' : a.event.sermon = s => a.event.version <= row[s]
    BY <1>1, <1>3, <1>4, <1>5 DEF NotAhead
  <2> QED
    BY <1>3, <1>10, <1>11, <2>1 DEF NotAhead, NoNewer
<1>13. Current'
  <2> SUFFICES ASSUME NEW w \in Windows, NEW s \in Sermons \ gone, stream'[w].status = "open"
               PROVE  /\ EndsAt(stream'[w].buffer, s, published'[s])
                      /\ \/ Mentions(stream'[w].buffer, s)
                         \/ IF stream'[w].snapshot # NoTable
                            THEN stream'[w].snapshot[s] >= published'[s]
                            ELSE s \in byAnswer[w] \/ window[w].card[s] >= published'[s]
    BY <1>3 DEF Current, UpToDate
  <2>1. /\ UpToDate(stream[w], window[w], byAnswer[w], s) /\ stream[w].status = "open"
        /\ stream'[w].buffer = Append(stream[w].buffer, e)
        /\ stream'[w].snapshot = stream[w].snapshot
        /\ stream[w].buffer \in Seq(Events)
    BY <1>1, <1>6 DEF Current
  <2>2. CASE e.sermon = s
    <3>1. published'[s] = e.version /\ e.version >= e.version
      BY <1>2, <1>3, <1>5, <1>7, <2>2 DEF Table
    <3> QED
      BY <1>2, <2>1, <2>2, <3>1, Joined
  <2>3. CASE e.sermon # s
    <3>1. published'[s] = published[s]
      BY <1>3, <1>7, <2>3 DEF Table
    <3> QED
      BY <1>2, <2>1, <2>3, <3>1, Joined DEF UpToDate
  <2> QED
    BY <2>2, <2>3
<1>14. SnapshotFirst'
  BY <1>1, <1>3, <1>6 DEF SnapshotFirst, Begun
<1> QED
  BY <1>8, <1>9, <1>12, <1>13, <1>14 DEF EInv

\* A stream that is closed or refused promises nothing.
LEMMA ClosedStream ==
  ASSUME NEW sub \in {Closed, Refused}
  PROVE  /\ sub \in Subscriptions /\ Len(sub.buffer) <= BufferSize
         /\ sub.status \in {"closed", "refused"} /\ sub.snapshot = NoTable
         /\ DOMAIN sub.buffer = {}
<1>1. Refused = [status |-> "refused", snapshot |-> NoTable, buffer |-> << >>]
  BY DEF Refused, Closed
<1>2. CASE sub = Closed
  BY <1>2, BufferSizeAssumption DEF Closed, Subscriptions
<1>3. CASE sub = Refused
  BY <1>1, <1>3, BufferSizeAssumption DEF Subscriptions
<1> QED
  BY <1>2, <1>3

\* The start and the end of a stream keep the invariant.
LEMMA StreamsKeepEInv ==
  ASSUME EInv, NEW w \in Windows,
         Subscribe(w) \/ SubscribeFails(w) \/ StreamEnds(w) \/ Break(w)
  PROVE  EInv'
<1> USE StreamBoundsAssumption
<1>1. TypeOK /\ DeletedForGood /\ NotAhead
  BY DEF EInv
<1> DEFINE m  == window[w]
           by == byAnswer[w]
<1>2. m \in Lists /\ by \in SUBSET Sermons /\ window' = [window EXCEPT ![w] = m]
      /\ byAnswer' = [byAnswer EXCEPT ![w] = by] /\ m.deleted \subseteq gone
      /\ \A s \in Sermons \ gone : NoNewer(stream[w], m, s)
  <2>1. UNCHANGED <<window, byAnswer>>
    BY DEF Subscribe, SubscribeFails, StreamEnds, Break
  <2>2. window \in [Windows -> Lists] /\ byAnswer \in [Windows -> SUBSET Sermons]
    BY <1>1 DEF TypeOK
  <2> QED
    BY <1>1, <2>1, <2>2 DEF DeletedForGood, NotAhead
<1>3. /\ UNCHANGED <<row, gone, committed, published, removed, answers>>
      /\ breaks' \in 0..MaxBreaks
  BY <1>1 DEF Subscribe, SubscribeFails, StreamEnds, Break, TypeOK
<1> HIDE DEF m, by
<1>4. CASE Subscribe(w)
  <2> DEFINE sub == [status |-> "open", snapshot |-> row, buffer |-> << >>]
  <2>1. /\ sub \in Subscriptions /\ Len(sub.buffer) <= BufferSize
        /\ DOMAIN sub.buffer = {} /\ sub.snapshot = row
    BY <1>1, BufferSizeAssumption DEF Subscriptions, TypeOK
  <2>2. stream' = [stream EXCEPT ![w] = sub]
    BY <1>4 DEF Subscribe
  <2> HIDE DEF sub
  <2>3. \A s \in Sermons : row # NoTable
    BY <1>1, TableIsThere DEF TypeOK
  <2>4. \A s \in Sermons \ gone : NoNewer(sub, m, s)
    <3>1. \A s \in Sermons : row[s] <= row[s]
      BY <1>1 DEF TypeOK, Table
    <3> QED
      BY <1>2, <2>1, <3>1 DEF NoNewer
  <2>5. \A s \in Sermons \ gone : UpToDate(sub, m, by, s)
    <3>1. \A s \in Sermons \ gone : row[s] >= published[s]
      BY <1>1 DEF NotAhead, TypeOK, Table
    <3> QED
      BY <2>1, <2>3, <3>1 DEF UpToDate, EndsAt
  <2>6. Begun(sub, m)
    BY <2>1, <2>3 DEF Begun
  <2> QED
    BY <1>2, <1>3, <2>1, <2>2, <2>4, <2>5, <2>6, WindowMoves
<1>5. CASE SubscribeFails(w) \/ StreamEnds(w) \/ Break(w)
  <2>1. PICK sub \in {Closed, Refused} : stream' = [stream EXCEPT ![w] = sub]
    BY <1>5 DEF SubscribeFails, StreamEnds, Break
  <2>2. \A s \in Sermons \ gone : NoNewer(sub, m, s) /\ UpToDate(sub, m, by, s)
    BY <1>2, ClosedStream DEF NoNewer, UpToDate
  <2>3. Begun(sub, m)
    BY ClosedStream DEF Begun
  <2>4. sub \in Subscriptions /\ Len(sub.buffer) <= BufferSize
    BY ClosedStream
  <2> QED
    BY <1>2, <1>3, <2>1, <2>2, <2>3, <2>4, WindowMoves
<1> QED
  BY <1>4, <1>5

\* A crash takes what is under way, and the invariant holds of the rest.
LEMMA CrashKeepsEInv == EInv /\ Crash => EInv'
<1> SUFFICES ASSUME EInv, Crash PROVE EInv'
  OBVIOUS
<1> USE StreamBoundsAssumption
<1>1. TypeOK /\ Asked /\ DeletedForGood /\ NotAhead
  BY DEF EInv
<1>2. /\ row' = [s \in Sermons |-> IF row[s] = 1 THEN 0 ELSE row[s]]
      /\ gone' = gone \cup {s \in Sermons : row[s] = 1}
      /\ committed' = {}
      /\ stream' = [w \in Windows |-> IF stream[w].status = "refused" THEN Refused
                                      ELSE Closed]
      /\ breaks' \in 0..MaxBreaks
      /\ UNCHANGED <<answers, window, published, removed, byAnswer>>
  BY <1>1 DEF Crash, TypeOK
<1>3. row' \in Table
  BY <1>1, <1>2 DEF TypeOK, Table
<1>4. \A w \in Windows : stream'[w] \in {Closed, Refused}
  BY <1>2
<1>5. TypeOK'
  <2>1. stream' \in [Windows -> Subscriptions]
        /\ \A w \in Windows : Len(stream'[w].buffer) <= BufferSize
    BY <1>2, <1>4, ClosedStream
  <2> QED
    BY <1>1, <1>2, <1>3, <2>1 DEF TypeOK
<1>6. Asked' /\ DeletedForGood'
  BY <1>1, <1>2 DEF Asked, DeletedForGood, TypeOK
<1>7. \A s \in Sermons \ gone' : s \notin gone /\ row'[s] = row[s]
  BY <1>2
<1>8. \A s \in Sermons \ gone', w \in Windows : NoNewer(stream'[w], window'[w], s)
  BY <1>1, <1>2, <1>4, <1>7, ClosedStream DEF NotAhead, NoNewer
<1>9. NotAhead'
  BY <1>1, <1>2, <1>7, <1>8 DEF NotAhead, NoNewer
<1>10. Current' /\ SnapshotFirst'
  BY <1>4, ClosedStream DEF Current, UpToDate, SnapshotFirst, Begun
<1> QED
  BY <1>5, <1>6, <1>9, <1>10 DEF EInv

\* The first fetch, which counts only before the snapshot, keeps the invariant.
LEMMA FetchKeepsEInv ==
  ASSUME EInv, NEW w \in Windows, GotSermons(w) \/ FetchFails(w) PROVE EInv'
<1> USE StreamBoundsAssumption
<1>1. TypeOK /\ DeletedForGood /\ NotAhead /\ Current /\ SnapshotFirst
  BY DEF EInv
<1> DEFINE m     == window[w]
           cards == IF m.hasSnapshot THEN m.card
                    ELSE IF FetchFails(w) THEN [s \in Sermons |-> 0]
                    ELSE [s \in Sermons |-> IF m.card[s] # 0 THEN m.card[s]
                                            ELSE IF s \in m.deleted THEN 0 ELSE m.fetch[s]]
           new   == [m EXCEPT !.fetch = NoTable, !.card = cards]
<1>2. /\ m \in Lists /\ m.card \in Table /\ m.fetch \in Table /\ m.fetch # NoTable
      /\ byAnswer[w] \in SUBSET Sermons /\ m.deleted \subseteq gone
      /\ stream[w] \in Subscriptions /\ Len(stream[w].buffer) <= BufferSize
  BY <1>1, Parts DEF DeletedForGood, GotSermons, FetchFails
<1>3. cards \in Table
  BY <1>2 DEF Table
<1>4. window' = [window EXCEPT ![w] = new]
  <2>1. m.hasSnapshot \in BOOLEAN
    BY <1>1, Parts
  <2>2. CASE FetchFails(w)
    BY <2>1, <2>2 DEF FetchFails
  <2>3. CASE GotSermons(w) /\ ~FetchFails(w)
    BY <2>1, <2>3 DEF GotSermons
  <2> QED
    BY <2>2, <2>3
<1>5. \A s \in Sermons \ gone : m.card[s] <= row[s] /\ m.fetch[s] <= row[s] /\ 0 <= row[s]
  <2>1. \A s \in Sermons : row[s] \in Nat
    BY <1>1 DEF TypeOK, Table
  <2>2. \A s \in Sermons \ gone : NoNewer(stream[w], m, s)
    BY <1>1 DEF NotAhead
  <2> HIDE DEF m, cards
  <2> SUFFICES ASSUME NEW s \in Sermons \ gone
               PROVE  m.card[s] <= row[s] /\ m.fetch[s] <= row[s] /\ 0 <= row[s]
    OBVIOUS
  <2>3. NoNewer(stream[w], m, s) /\ row[s] \in Nat
    BY <2>1, <2>2
  <2> QED
    BY <1>2, <2>3 DEF NoNewer
<1>6. \A s \in Sermons \ gone : cards[s] <= row[s]
  BY <1>5
<1>7. m.hasSnapshot => cards = m.card
  OBVIOUS
<1> HIDE DEF cards
<1>8. /\ new \in Lists /\ new.card = cards /\ new.fetch = NoTable
      /\ new.deleted = m.deleted /\ new.hasSnapshot = m.hasSnapshot
  BY <1>2, <1>3 DEF Lists
<1>9. /\ UNCHANGED <<row, gone, committed, published, removed, answers, breaks>>
      /\ stream' = [stream EXCEPT ![w] = stream[w]]
      /\ byAnswer' = [byAnswer EXCEPT ![w] = byAnswer[w]]
      /\ breaks' \in 0..MaxBreaks
  BY <1>1 DEF GotSermons, FetchFails, TypeOK
<1>10. \A s \in Sermons \ gone : NoNewer(stream[w], m, s)
  BY <1>1 DEF NotAhead
<1>11. \A s \in Sermons \ gone : UpToDate(stream[w], m, byAnswer[w], s)
  BY <1>1 DEF Current
<1>12. Begun(stream[w], m)
  BY <1>1 DEF SnapshotFirst
<1> HIDE DEF m, new
<1>13. \A s \in Sermons \ gone : NoNewer(stream[w], new, s)
  BY <1>6, <1>8, <1>10 DEF NoNewer
<1>14. \A s \in Sermons \ gone : UpToDate(stream[w], new, byAnswer[w], s)
  BY <1>7, <1>8, <1>11, <1>12 DEF UpToDate, Begun
<1>15. Begun(stream[w], new)
  BY <1>8, <1>12 DEF Begun
<1> QED
  BY <1>2, <1>4, <1>8, <1>9, <1>13, <1>14, <1>15, WindowMoves

\* A snapshot keeps it, and is not older than what was published.
LEMMA SnapshotKeepsEInv ==
  ASSUME EInv, NEW w \in Windows, ReceiveSnapshot(w) PROVE EInv'
<1> USE StreamBoundsAssumption
<1>1. TypeOK /\ DeletedForGood /\ NotAhead /\ Current /\ SnapshotFirst
  BY DEF EInv
<1> DEFINE m     == window[w]
           sub   == stream[w]
           cards == [s \in Sermons |-> IF s \in m.deleted THEN 0 ELSE sub.snapshot[s]]
           new   == [m EXCEPT !.hasSnapshot = TRUE, !.card = cards]
           rest  == [sub EXCEPT !.snapshot = NoTable]
<1>2. /\ m \in Lists /\ sub \in Subscriptions /\ sub.snapshot \in Table /\ sub.snapshot # NoTable
      /\ m.deleted \subseteq gone /\ Len(sub.buffer) <= BufferSize
  BY <1>1, Parts DEF DeletedForGood, ReceiveSnapshot
<1>3. /\ UNCHANGED <<row, gone, committed, published, removed, answers, breaks>>
      /\ breaks' \in 0..MaxBreaks /\ byAnswer' = [byAnswer EXCEPT ![w] = {}]
      /\ stream' = [stream EXCEPT ![w] = rest] /\ window' = [window EXCEPT ![w] = new]
  <2>1. /\ stream' = [stream EXCEPT ![w].snapshot = NoTable]
        /\ window' = [window EXCEPT ![w].hasSnapshot = TRUE, ![w].card = cards]
        /\ byAnswer' = [byAnswer EXCEPT ![w] = {}]
        /\ UNCHANGED <<row, gone, committed, published, removed, answers, breaks>>
    BY DEF ReceiveSnapshot
  <2>2. stream \in [Windows -> Subscriptions] /\ window \in [Windows -> Lists]
        /\ breaks \in 0..MaxBreaks
    BY <1>1 DEF TypeOK
  <2> HIDE DEF cards
  <2> QED
    BY <2>1, <2>2
<1>4. cards \in Table
  BY <1>2 DEF Table
<1>5. \A s \in Sermons \ gone : cards[s] = sub.snapshot[s]
  BY <1>2
<1> HIDE DEF cards
<1>6. /\ new \in Lists /\ new.card = cards /\ new.fetch = m.fetch
      /\ new.deleted = m.deleted /\ new.hasSnapshot
  BY <1>2, <1>4 DEF Lists
<1>7. /\ rest \in Subscriptions /\ rest.buffer = sub.buffer /\ rest.status = sub.status
      /\ rest.snapshot = NoTable
  BY <1>2 DEF Subscriptions
<1>8. \A s \in Sermons \ gone : NoNewer(sub, m, s) /\ UpToDate(sub, m, byAnswer[w], s)
  BY <1>1 DEF NotAhead, Current
<1> HIDE DEF m, new, sub, rest
<1>9. \A s \in Sermons \ gone : NoNewer(rest, new, s)
  BY <1>2, <1>5, <1>6, <1>7, <1>8 DEF NoNewer
<1>10. \A s \in Sermons \ gone : UpToDate(rest, new, {}, s)
  BY <1>2, <1>5, <1>6, <1>7, <1>8 DEF UpToDate
<1>11. Begun(rest, new)
  BY <1>6 DEF Begun
<1> QED
  BY <1>2, <1>3, <1>6, <1>7, <1>9, <1>10, <1>11, WindowMoves

\* An event keeps it: the last one of a sermon brings its card up to date.
LEMMA EventKeepsEInv ==
  ASSUME EInv, NEW w \in Windows, ReceiveEvent(w) PROVE EInv'
<1> USE StreamBoundsAssumption
<1>1. TypeOK /\ DeletedForGood /\ NotAhead /\ Current /\ SnapshotFirst
  BY DEF EInv
<1> DEFINE m    == window[w]
           sub  == stream[w]
           e    == Head(sub.buffer)
           new  == IF e.version = Deletion THEN ShowDeleted(m, e.sermon)
                   ELSE ShowUpdate(m, e.sermon, e.version)
           rest == [sub EXCEPT !.buffer = Tail(sub.buffer)]
           by   == IF e.version # Deletion /\ e.sermon \in m.deleted
                   THEN byAnswer[w] ELSE byAnswer[w] \ {e.sermon}
<1>2. /\ m \in Lists /\ sub \in Subscriptions /\ sub.snapshot = NoTable /\ m.card \in Table
      /\ sub.buffer \in Seq(Events) /\ sub.buffer # << >> /\ Len(sub.buffer) <= BufferSize
      /\ m.deleted \subseteq gone /\ byAnswer[w] \subseteq Sermons
  BY <1>1, Parts DEF DeletedForGood, ReceiveEvent
<1>3. /\ UNCHANGED <<row, gone, committed, published, removed, answers, breaks>>
      /\ breaks' \in 0..MaxBreaks /\ byAnswer' = [byAnswer EXCEPT ![w] = by]
      /\ stream' = [stream EXCEPT ![w] = rest] /\ window' = [window EXCEPT ![w] = new]
  <2>1. /\ stream' = [stream EXCEPT ![w].buffer = Tail(@)]
        /\ window' = [window EXCEPT ![w] = IF e.version = Deletion THEN ShowDeleted(@, e.sermon)
                                           ELSE ShowUpdate(@, e.sermon, e.version)]
        /\ byAnswer' = [byAnswer EXCEPT ![w] =
             IF e.version # Deletion /\ e.sermon \in m.deleted THEN @ ELSE @ \ {e.sermon}]
        /\ UNCHANGED <<row, gone, committed, published, removed, answers, breaks>>
    BY DEF ReceiveEvent
  <2>2. stream \in [Windows -> Subscriptions] /\ window \in [Windows -> Lists]
        /\ byAnswer \in [Windows -> SUBSET Sermons] /\ breaks \in 0..MaxBreaks
    BY <1>1 DEF TypeOK
  <2> HIDE DEF e
  <2> QED
    BY <2>1, <2>2
<1>4. e \in Events /\ e.sermon \in Sermons /\ e.version \in 2..Deletion
  <2>1. e \in Events
    BY <1>2, Read
  <2> QED
    BY <2>1 DEF Events
<1>5. /\ rest \in Subscriptions /\ rest.buffer = Tail(sub.buffer) /\ rest.status = sub.status
      /\ rest.snapshot = NoTable /\ Len(rest.buffer) <= BufferSize
  <2>1. Tail(sub.buffer) \in Seq(Events) /\ Len(Tail(sub.buffer)) <= Len(sub.buffer)
        /\ Len(Tail(sub.buffer)) \in Nat /\ Len(sub.buffer) \in Nat /\ BufferSize \in Nat
    BY <1>2, Read, BufferSizeAssumption
  <2> HIDE DEF sub
  <2> QED
    BY <1>2, <2>1 DEF Subscriptions
<1>6. \A s \in Sermons \ gone : NoNewer(sub, m, s) /\ UpToDate(sub, m, byAnswer[w], s)
  BY <1>1 DEF NotAhead, Current
<1>7. \A s \in Sermons \ gone : e.sermon = s => e.version <= row[s] /\ row[s] \in 0..MaxVersion
  <2>1. 1 \in DOMAIN sub.buffer /\ sub.buffer[1] = e
    BY <1>2, Read
  <2> QED
    BY <1>1, <1>6, <2>1 DEF NoNewer, TypeOK, Table
<1>8. e.version = Deletion => e.sermon \in gone
  BY <1>4, <1>7 DEF Deletion
<1>9. /\ new \in Lists /\ new.fetch = m.fetch /\ new.hasSnapshot = m.hasSnapshot
      /\ new.deleted \subseteq gone
      /\ \A s \in Sermons \ gone :
           new.card[s] = IF s = e.sermon THEN e.version ELSE m.card[s]
  <2> HIDE DEF e
  <2>1. CASE e.version = Deletion
    <3>1. new = ShowDeleted(m, e.sermon) /\ e.sermon \in gone
      BY <1>8, <2>1
    <3> HIDE DEF new, m
    <3>2. /\ new \in Lists /\ new.fetch = m.fetch /\ new.hasSnapshot = m.hasSnapshot
          /\ new.deleted = m.deleted \cup {e.sermon}
          /\ new.card = [m.card EXCEPT ![e.sermon] = 0]
      BY <1>2, <1>4, <3>1, Tombstone
    <3>3. \A s \in Sermons \ gone :
            new.card[s] = IF s = e.sermon THEN e.version ELSE m.card[s]
      BY <1>2, <3>1, <3>2 DEF Table
    <3> QED
      BY <1>2, <3>1, <3>2, <3>3
  <2>2. CASE e.version # Deletion /\ e.sermon \in m.deleted
    BY <1>2, <2>2 DEF ShowUpdate
  <2>3. CASE e.version # Deletion /\ e.sermon \notin m.deleted
    <3>1. e.version \in 0..MaxVersion
      BY <1>4, <2>3 DEF Deletion
    <3>2. new = [m EXCEPT !.card[e.sermon] = e.version]
      BY <2>3 DEF ShowUpdate
    <3> HIDE DEF new, m
    <3> QED
      BY <1>2, <1>4, <3>1, <3>2, CardSet DEF Table
  <2> QED
    BY <2>1, <2>2, <2>3
<1>10. by \in SUBSET Sermons /\ \A s : s \in byAnswer[w] /\ s # e.sermon => s \in by
  BY <1>2
<1> HIDE DEF m, new, rest, by, e
<1>11. \A s \in Sermons \ gone : NoNewer(rest, new, s)
  <2> SUFFICES ASSUME NEW s \in Sermons \ gone PROVE NoNewer(rest, new, s)
    OBVIOUS
  <2>1. new.card[s] <= row[s]
    BY <1>6, <1>7, <1>9 DEF NoNewer
  <2>2. \A i \in DOMAIN rest.buffer :
          i + 1 \in DOMAIN sub.buffer /\ rest.buffer[i] = sub.buffer[i + 1]
    BY <1>2, <1>5, Read
  <2> QED
    BY <1>5, <1>6, <1>9, <2>1, <2>2 DEF NoNewer
<1>12. \A s \in Sermons \ gone : UpToDate(rest, new, by, s)
  <2> SUFFICES ASSUME NEW s \in Sermons \ gone, sub.status = "open"
               PROVE  /\ EndsAt(rest.buffer, s, published[s])
                      /\ Mentions(rest.buffer, s) \/ s \in by \/ new.card[s] >= published[s]
    BY <1>5 DEF UpToDate
  <2>1. /\ EndsAt(sub.buffer, s, published[s])
        /\ Mentions(sub.buffer, s) \/ s \in byAnswer[w] \/ m.card[s] >= published[s]
    BY <1>2, <1>6 DEF UpToDate
  <2>2. /\ EndsAt(rest.buffer, s, published[s])
        /\ Mentions(sub.buffer, s) /\ ~Mentions(rest.buffer, s) =>
             e.sermon = s /\ e.version >= published[s]
    BY <1>2, <1>5, <2>1, Read DEF e
  <2>3. CASE Mentions(rest.buffer, s)
    BY <2>2, <2>3
  <2>4. CASE ~Mentions(rest.buffer, s) /\ Mentions(sub.buffer, s)
    BY <1>9, <2>2, <2>4
  <2>5. CASE ~Mentions(sub.buffer, s)
    <3>1. e.sermon # s
      <4>1. 1 \in DOMAIN sub.buffer /\ sub.buffer[1] = e
        BY <1>2, Read DEF e
      <4> QED
        BY <2>5, <4>1 DEF Mentions
    <3> QED
      BY <1>9, <1>10, <2>1, <2>2, <2>5, <3>1
  <2> QED
    BY <2>3, <2>4, <2>5
<1>13. Begun(rest, new)
  BY <1>1, <1>2, <1>5, <1>9 DEF SnapshotFirst, Begun, m
<1> QED
  BY <1>2, <1>3, <1>5, <1>9, <1>10, <1>11, <1>12, <1>13, WindowMoves

\* The answer of a request keeps it: it leaves a mark in byAnswer or does not set
\* the card back.
LEMMA AnswerKeepsEInv ==
  ASSUME EInv, NEW w \in Windows, ReceiveAnswer(w) PROVE EInv'
<1> USE StreamBoundsAssumption
<1>1. TypeOK /\ Asked /\ DeletedForGood /\ NotAhead /\ Current /\ SnapshotFirst
  BY DEF EInv
<1> DEFINE m == window[w]
<1>2. PICK a \in answers :
        /\ a.window = w /\ answers' = answers \ {a}
        /\ window' = [window EXCEPT ![w] =
             IF a.request = "delete" THEN ShowDeleted(m, a.event.sermon)
             ELSE IF Overwrites(m, a) \/ (a.request = "retry" /\ Unchanged(m, a))
             THEN [m EXCEPT !.card[a.event.sermon] = a.event.version] ELSE m]
        /\ byAnswer' = [byAnswer EXCEPT ![w] =
             IF a.request = "delete" THEN @ \ {a.event.sermon}
             ELSE IF SetsBack(m, a) THEN @ \cup {a.event.sermon} ELSE @]
        /\ UNCHANGED <<row, gone, committed, stream, published, removed, breaks>>
  BY DEF ReceiveAnswer
<1> DEFINE z   == a.event.sermon
           v   == a.event.version
           new == IF a.request = "delete" THEN ShowDeleted(m, z)
                  ELSE IF Overwrites(m, a) \/ (a.request = "retry" /\ Unchanged(m, a))
                  THEN [m EXCEPT !.card[z] = v] ELSE m
           by  == IF a.request = "delete" THEN byAnswer[w] \ {z}
                  ELSE IF SetsBack(m, a) THEN byAnswer[w] \cup {z} ELSE byAnswer[w]
<1>3. /\ m \in Lists /\ m.card \in Table /\ m.deleted \subseteq gone
      /\ byAnswer[w] \subseteq Sermons
      /\ stream[w] \in Subscriptions /\ Len(stream[w].buffer) <= BufferSize
  BY <1>1, Parts DEF DeletedForGood
<1>4. z \in Sermons /\ v \in 2..Deletion /\ AskedFor(a.request, a.event)
      /\ a.request \in Requests \ {"none"} /\ a.shown \in Nat
  BY <1>1 DEF TypeOK, Asked, Answers, Events
<1>5. \A s \in Sermons \ gone : z = s => v <= row[s] /\ row[s] \in 0..MaxVersion
  BY <1>1 DEF NotAhead, TypeOK, Table
<1>6. a.request = "delete" => z \in gone
  BY <1>4, <1>5 DEF AskedFor, Deletion
<1>7. /\ UNCHANGED <<row, gone, committed, published, removed, breaks>>
      /\ answers' \subseteq answers /\ breaks' \in 0..MaxBreaks
      /\ byAnswer' = [byAnswer EXCEPT ![w] = by]
      /\ window' = [window EXCEPT ![w] = new] /\ stream' = [stream EXCEPT ![w] = stream[w]]
  <2>1. byAnswer \in [Windows -> SUBSET Sermons] /\ stream \in [Windows -> Subscriptions]
        /\ breaks \in 0..MaxBreaks
    BY <1>1 DEF TypeOK
  <2> QED
    BY <1>2, <2>1
<1>8. by \in SUBSET Sermons
  BY <1>3, <1>4
<1> DEFINE Kept     == new = m /\ byAnswer[w] \subseteq by
           Deleted  == a.request = "delete" /\ new = ShowDeleted(m, z) /\ by = byAnswer[w] \ {z}
           Replaced == /\ a.request # "delete" /\ v # Deletion
                       /\ new = [m EXCEPT !.card[z] = v]
                       /\ \/ by = byAnswer[w] \cup {z}
                          \/ by = byAnswer[w] /\ m.card[z] <= v
<1>9. Kept \/ Deleted \/ Replaced
  <2>1. /\ Overwrites(m, a) /\ ~SetsBack(m, a) => m.card[z] <= v
        /\ a.request = "retry" /\ Unchanged(m, a) /\ ~SetsBack(m, a) => m.card[z] <= v
    <3>1. m.card[z] \in Nat /\ v \in Nat
      BY <1>3, <1>4 DEF Table, Deletion
    <3> HIDE DEF m
    <3> QED
      BY <3>1 DEF Unchanged, SetsBack
  <2>2. a.request # "delete" => v # Deletion
    BY <1>4 DEF AskedFor, Requests
  <2> HIDE DEF m
  <2> QED
    BY <2>1, <2>2
<1>10. /\ new \in Lists /\ new.fetch = m.fetch /\ new.hasSnapshot = m.hasSnapshot
       /\ new.deleted \subseteq gone
       /\ \A s \in Sermons \ gone :
            /\ s \in byAnswer[w] => s \in by
            /\ \/ new.card[s] = m.card[s]
               \/ s = z /\ new.card[s] = v /\ (s \in by \/ m.card[s] <= v)
  <2> HIDE DEF m, new, by
  <2>1. CASE Kept
    BY <1>3, <2>1
  <2>2. CASE Deleted
    <3>1. /\ new \in Lists /\ new.fetch = m.fetch /\ new.hasSnapshot = m.hasSnapshot
          /\ new.deleted = m.deleted \cup {z} /\ new.card = [m.card EXCEPT ![z] = 0]
      BY <1>3, <1>4, <2>2, Tombstone
    <3>2. z \in gone /\ by = byAnswer[w] \ {z}
      BY <1>6, <2>2
    <3> HIDE DEF z, v
    <3> QED
      BY <1>3, <3>1, <3>2 DEF Table
  <2>3. CASE Replaced
    <3>1. v \in 0..MaxVersion
      BY <1>4, <2>3 DEF Deletion
    <3> QED
      BY <1>3, <1>4, <2>3, <3>1, CardSet DEF Table
  <2> QED
    BY <1>9, <2>1, <2>2, <2>3
<1>11. \A s \in Sermons \ gone :
         NoNewer(stream[w], m, s) /\ UpToDate(stream[w], m, byAnswer[w], s)
  BY <1>1 DEF NotAhead, Current
<1>12. \A s \in Sermons : m.card[s] \in Nat /\ published[s] \in Nat
  BY <1>1, <1>3 DEF TypeOK, Table
<1>13. Begun(stream[w], m)
  BY <1>1 DEF SnapshotFirst
<1> HIDE DEF m, new, by, v, z
<1>14. \A s \in Sermons \ gone : NoNewer(stream[w], new, s)
  BY <1>5, <1>10, <1>11 DEF NoNewer
<1>15. \A s \in Sermons \ gone : UpToDate(stream[w], new, by, s)
  <2> SUFFICES ASSUME NEW s \in Sermons \ gone PROVE UpToDate(stream[w], new, by, s)
    OBVIOUS
  <2>1. v \in Nat
    BY <1>4 DEF Deletion
  <2>2. s \in byAnswer[w] \/ m.card[s] >= published[s] =>
          s \in by \/ new.card[s] >= published[s]
    <3>1. CASE new.card[s] = m.card[s]
      BY <1>10, <3>1
    <3>2. CASE new.card[s] = v /\ (s \in by \/ m.card[s] <= v)
      <4>1. m.card[s] \in Nat /\ published[s] \in Nat
        BY <1>12
      <4>2. m.card[s] <= v /\ m.card[s] >= published[s] => v >= published[s]
        BY <2>1, <4>1
      <4> QED
        BY <1>10, <3>2, <4>2
    <3> QED
      BY <1>10, <3>1, <3>2
  <2> QED
    BY <1>11, <2>2 DEF UpToDate
<1>16. Begun(stream[w], new)
  BY <1>10, <1>13 DEF Begun
<1> QED
  BY <1>3, <1>7, <1>8, <1>10, <1>14, <1>15, <1>16, WindowMoves

\* Every step keeps the invariant.
LEMMA StepKeepsEInv == EInv /\ [Next]_vars => EInv'
<1> SUFFICES ASSUME EInv, [Next]_vars PROVE EInv'
  OBVIOUS
<1>1. CASE Writer
  BY <1>1, WritersKeepEInv
<1>2. CASE PublishAny
  BY <1>2, PublishKeepsEInv DEF PublishAny
<1>3. CASE Crash \/ LoseAnswer
  BY <1>3, CrashKeepsEInv, LoseAnswerKeepsEInv
<1>4. ASSUME NEW w \in Windows,
             Subscribe(w) \/ SubscribeFails(w) \/ StreamEnds(w) \/ Break(w)
      PROVE  EInv'
  BY <1>4, StreamsKeepEInv
<1>5. ASSUME NEW w \in Windows, GotSermons(w) \/ FetchFails(w) PROVE EInv'
  BY <1>5, FetchKeepsEInv
<1>6. ASSUME NEW w \in Windows, Receive(w) PROVE EInv'
  BY <1>6, SnapshotKeepsEInv, EventKeepsEInv DEF Receive
<1>7. ASSUME NEW w \in Windows, ReceiveAnswer(w) PROVE EInv'
  BY <1>7, AnswerKeepsEInv
<1>8. CASE UNCHANGED vars
  <2> USE <1>8 DEF vars
  <2>1. TypeOK' /\ Asked' /\ DeletedForGood'
    BY DEF EInv, TypeOK, Asked, DeletedForGood
  <2>2. NotAhead' /\ Current' /\ SnapshotFirst'
    BY DEF EInv, NotAhead, NoNewer, Current, UpToDate, SnapshotFirst, Begun
  <2> QED
    BY <2>1, <2>2 DEF EInv
<1> QED
  BY <1>1, <1>2, <1>3, <1>4, <1>5, <1>6, <1>7, <1>8 DEF Next

-----------------------------------------------------------------------------
(* What the windows show *)

\* The invariant holds in every state of every behaviour.
THEOREM EventStreamInvariant == Spec => []EInv
<1>1. Init => EInv
  BY InitEInv
<1>2. EInv /\ [Next]_vars => EInv'
  BY StepKeepsEInv
<1> QED
  BY <1>1, <1>2, PTL DEF Spec

\* The rows, channels, lists and histories keep their types, and no channel holds
\* more than its capacity (events.go: the buffered channel of a subscriber).
THEOREM StreamTypes == Spec => []TypeOK
<1>1. EInv => TypeOK
  BY DEF EInv
<1> QED
  BY <1>1, EventStreamInvariant, PTL

\* A window that has read all of its stream shows every sermon that exists at
\* least as new as it was last published, unless an answer of its own set the card
\* back in between, whatever the rows say at their versions (events.go:
\* subscribeWithSnapshot and publish; Main.elm: replaceSermonIfUnchanged).
THEOREM NothingIsMissed == Spec => []NothingMissed
<1>1. EInv => NothingMissed
  <2> SUFFICES ASSUME EInv, NEW w \in Windows, NEW s \in Sermons,
                      CaughtUp(w), s \notin gone, s \notin byAnswer[w]
               PROVE  window[w].card[s] >= published[s]
    BY DEF NothingMissed
  <2>1. UpToDate(stream[w], window[w], byAnswer[w], s)
    BY DEF EInv, Current
  <2>2. ~Mentions(stream[w].buffer, s)
    BY DEF CaughtUp, Mentions
  <2> QED
    BY <2>1, <2>2 DEF UpToDate, CaughtUp
<1> QED
  BY <1>1, EventStreamInvariant, PTL

\* The tombstones of one list hold.
StaysAway(m, by) == \A s \in Sermons : s \in m.deleted /\ s \notin by => m.card[s] = 0

\* A list that changes keeps all tombstones when it keeps its own.
LEMMA TombstonesHold ==
  ASSUME TypeOK, DeletedStaysAway, NEW w \in Windows, NEW m, NEW by,
         window' = [window EXCEPT ![w] = m], byAnswer' = [byAnswer EXCEPT ![w] = by],
         StaysAway(m, by)
  PROVE  DeletedStaysAway'
<1>1. window \in [Windows -> Lists] /\ byAnswer \in [Windows -> SUBSET Sermons]
  BY DEF TypeOK
<1> QED
  BY <1>1 DEF DeletedStaysAway, StaysAway

\* What a window receives keeps its tombstones.
LEMMA WindowKeepsTombstones ==
  ASSUME TypeOK, DeletedStaysAway, NEW w \in Windows,
         GotSermons(w) \/ FetchFails(w) \/ Receive(w) \/ ReceiveAnswer(w)
  PROVE  DeletedStaysAway'
<1> USE StreamBoundsAssumption
<1> DEFINE m == window[w]
<1>1. m \in Lists /\ m.card \in Table /\ m.hasSnapshot \in BOOLEAN /\ StaysAway(m, byAnswer[w])
  BY Parts DEF DeletedStaysAway, StaysAway
<1>2. window \in [Windows -> Lists] /\ byAnswer \in [Windows -> SUBSET Sermons]
      /\ stream \in [Windows -> Subscriptions] /\ answers \subseteq Answers
  BY DEF TypeOK
<1>3. ASSUME NEW cards \in Table, NEW new,
             \/ new = [m EXCEPT !.fetch = NoTable, !.card = cards]
             \/ new = [m EXCEPT !.hasSnapshot = TRUE, !.card = cards]
      PROVE  new.card = cards /\ new.deleted = m.deleted
  BY <1>1, <1>3 DEF Lists
<1>4. CASE FetchFails(w)
  <2> DEFINE cards == IF m.hasSnapshot THEN m.card ELSE [s \in Sermons |-> 0]
             new   == [m EXCEPT !.fetch = NoTable, !.card = cards]
  <2>1. window' = [window EXCEPT ![w] = new] /\ byAnswer' = [byAnswer EXCEPT ![w] = byAnswer[w]]
    BY <1>1, <1>2, <1>4 DEF FetchFails
  <2>2. cards \in Table /\ \A s \in Sermons : m.card[s] = 0 => cards[s] = 0
    BY <1>1 DEF Table
  <2> HIDE DEF cards
  <2>3. new.card = cards /\ new.deleted = m.deleted
    BY <1>1, <1>3, <2>2
  <2> HIDE DEF new, m
  <2>4. StaysAway(new, byAnswer[w])
    BY <1>1, <2>2, <2>3 DEF StaysAway
  <2> QED
    BY <2>1, <2>4, TombstonesHold
<1>5. CASE GotSermons(w)
  <2> DEFINE cards == IF m.hasSnapshot THEN m.card
                      ELSE [s \in Sermons |-> IF m.card[s] # 0 THEN m.card[s]
                                              ELSE IF s \in m.deleted THEN 0 ELSE m.fetch[s]]
             new   == [m EXCEPT !.fetch = NoTable, !.card = cards]
  <2>1. window' = [window EXCEPT ![w] = new] /\ byAnswer' = [byAnswer EXCEPT ![w] = byAnswer[w]]
    BY <1>1, <1>2, <1>5 DEF GotSermons
  <2>2. /\ cards \in Table
        /\ \A s \in Sermons : s \in m.deleted /\ m.card[s] = 0 => cards[s] = 0
    <3>1. m.fetch \in Table
      BY <1>5, Parts DEF GotSermons
    <3> QED
      BY <1>1, <3>1 DEF Table
  <2> HIDE DEF cards
  <2>3. new.card = cards /\ new.deleted = m.deleted
    BY <1>1, <1>3, <2>2
  <2> HIDE DEF new, m
  <2>4. StaysAway(new, byAnswer[w])
    BY <1>1, <2>2, <2>3 DEF StaysAway
  <2> QED
    BY <2>1, <2>4, TombstonesHold
<1>6. CASE ReceiveSnapshot(w)
  <2> DEFINE cards == [s \in Sermons |-> IF s \in m.deleted THEN 0 ELSE stream[w].snapshot[s]]
             new   == [m EXCEPT !.hasSnapshot = TRUE, !.card = cards]
  <2>1. window' = [window EXCEPT ![w] = new] /\ byAnswer' = [byAnswer EXCEPT ![w] = {}]
    <3>1. window' = [window EXCEPT ![w].hasSnapshot = TRUE, ![w].card = cards]
      BY <1>6 DEF ReceiveSnapshot
    <3>2. byAnswer' = [byAnswer EXCEPT ![w] = {}]
      BY <1>6 DEF ReceiveSnapshot
    <3> HIDE DEF cards
    <3> QED
      BY <1>2, <3>1, <3>2
  <2>2. cards \in Table /\ \A s \in Sermons : s \in m.deleted => cards[s] = 0
    <3>1. stream[w].snapshot \in Table
      BY <1>6, Parts DEF ReceiveSnapshot
    <3> QED
      BY <3>1 DEF Table
  <2> HIDE DEF cards
  <2>3. new.card = cards /\ new.deleted = m.deleted
    BY <1>1, <1>3, <2>2
  <2> HIDE DEF new, m
  <2>4. StaysAway(new, {})
    BY <2>2, <2>3 DEF StaysAway
  <2> QED
    BY <2>1, <2>4, TombstonesHold
<1>7. CASE ReceiveEvent(w)
  <2> DEFINE e   == Head(stream[w].buffer)
             new == IF e.version = Deletion THEN ShowDeleted(m, e.sermon)
                    ELSE ShowUpdate(m, e.sermon, e.version)
             by  == IF e.version # Deletion /\ e.sermon \in m.deleted
                    THEN byAnswer[w] ELSE byAnswer[w] \ {e.sermon}
  <2>1. window' = [window EXCEPT ![w] = new] /\ byAnswer' = [byAnswer EXCEPT ![w] = by]
    BY <1>2, <1>7 DEF ReceiveEvent
  <2>2. e.sermon \in Sermons /\ e.version \in 2..Deletion
    <3>1. e \in Events
      BY <1>7, Parts, Read DEF ReceiveEvent
    <3> QED
      BY <3>1 DEF Events
  <2> HIDE DEF e
  <2>3. StaysAway(new, by)
    <3>1. CASE e.version = Deletion
      <4>1. new = ShowDeleted(m, e.sermon) /\ by = byAnswer[w] \ {e.sermon}
        BY <3>1
      <4> HIDE DEF new, by, m
      <4>2. new.card = [m.card EXCEPT ![e.sermon] = 0] /\ new.deleted = m.deleted \cup {e.sermon}
        BY <1>1, <2>2, <4>1, Tombstone
      <4> QED
        BY <1>1, <4>1, <4>2 DEF StaysAway, Table
    <3>2. CASE e.version # Deletion /\ e.sermon \in m.deleted
      BY <1>1, <3>2 DEF ShowUpdate
    <3>3. CASE e.version # Deletion /\ e.sermon \notin m.deleted
      <4>1. new = [m EXCEPT !.card[e.sermon] = e.version] /\ by = byAnswer[w] \ {e.sermon}
        BY <3>3 DEF ShowUpdate
      <4>2. e.version \in 0..MaxVersion
        BY <2>2, <3>3 DEF Deletion
      <4> HIDE DEF new, by, m
      <4>3. new.card = [m.card EXCEPT ![e.sermon] = e.version] /\ new.deleted = m.deleted
        BY <1>1, <2>2, <4>1, <4>2, CardSet
      <4> QED
        BY <1>1, <3>3, <4>1, <4>3 DEF StaysAway, Table
    <3> QED
      BY <3>1, <3>2, <3>3
  <2> HIDE DEF new, by
  <2> QED
    BY <2>1, <2>3, TombstonesHold
<1>8. CASE ReceiveAnswer(w)
  <2>1. PICK a \in answers :
        /\ window' = [window EXCEPT ![w] =
             IF a.request = "delete" THEN ShowDeleted(m, a.event.sermon)
             ELSE IF Overwrites(m, a) \/ (a.request = "retry" /\ Unchanged(m, a))
             THEN [m EXCEPT !.card[a.event.sermon] = a.event.version] ELSE m]
        /\ byAnswer' = [byAnswer EXCEPT ![w] =
             IF a.request = "delete" THEN @ \ {a.event.sermon}
             ELSE IF SetsBack(m, a) THEN @ \cup {a.event.sermon} ELSE @]
    BY <1>8 DEF ReceiveAnswer
  <2> DEFINE z   == a.event.sermon
             new == IF a.request = "delete" THEN ShowDeleted(m, z)
                    ELSE IF Overwrites(m, a) \/ (a.request = "retry" /\ Unchanged(m, a))
                    THEN [m EXCEPT !.card[z] = a.event.version] ELSE m
             by  == IF a.request = "delete" THEN byAnswer[w] \ {z}
                    ELSE IF SetsBack(m, a) THEN byAnswer[w] \cup {z} ELSE byAnswer[w]
  <2>2. window' = [window EXCEPT ![w] = new] /\ byAnswer' = [byAnswer EXCEPT ![w] = by]
    BY <1>2, <2>1
  <2>3. z \in Sermons
    BY <1>2 DEF Answers, Events
  <2>4. StaysAway(new, by)
    <3>1. CASE a.request = "delete"
      <4>1. new = ShowDeleted(m, z) /\ by = byAnswer[w] \ {z}
        BY <3>1
      <4> HIDE DEF new, by, m, z
      <4>2. new.card = [m.card EXCEPT ![z] = 0] /\ new.deleted = m.deleted \cup {z}
        BY <1>1, <2>3, <4>1, Tombstone
      <4> QED
        BY <1>1, <4>1, <4>2 DEF StaysAway, Table
    <3>2. CASE new = m /\ byAnswer[w] \subseteq by
      <4> HIDE DEF new, by, m
      <4> QED
        BY <1>1, <3>2 DEF StaysAway
    <3>3. CASE /\ new = [m EXCEPT !.card[z] = a.event.version]
               /\ by = byAnswer[w] \cup {z} \/ (by = byAnswer[w] /\ z \notin m.deleted)
      <4>1. new.deleted = m.deleted /\ \A s \in Sermons : s # z => new.card[s] = m.card[s]
        BY <1>1, <2>3, <3>3 DEF Lists, Table
      <4> HIDE DEF new, by, m, z
      <4> QED
        BY <1>1, <3>3, <4>1 DEF StaysAway
    <3>4. /\ a.request = "retry" /\ Unchanged(m, a) => z \notin m.deleted
          /\ Overwrites(m, a) /\ ~SetsBack(m, a) => z \notin m.deleted
      BY DEF Unchanged, SetsBack
    <3> HIDE DEF m
    <3> QED
      BY <3>1, <3>2, <3>3, <3>4
  <2> HIDE DEF new, by
  <2> QED
    BY <2>2, <2>4, TombstonesHold
<1> QED
  BY <1>4, <1>5, <1>6, <1>7, <1>8 DEF Receive

\* What a window knows to be deleted stays off its list, whatever snapshot, fetch
\* or event was under way, unless the answer of its own upload or selection brings
\* it back (Main.elm: deletedSermons).
THEOREM DeletedStaysOffTheList == Spec => []DeletedStaysAway
<1>1. Init => DeletedStaysAway
  BY DEF Init, DeletedStaysAway
<1>2. TypeOK /\ DeletedStaysAway /\ [Next]_vars => DeletedStaysAway'
  <2> SUFFICES ASSUME TypeOK, DeletedStaysAway, [Next]_vars PROVE DeletedStaysAway'
    OBVIOUS
  <2>1. CASE UNCHANGED <<window, byAnswer>>
    BY <2>1 DEF DeletedStaysAway
  <2>2. CASE Writer
    BY <2>1, <2>2 DEF Writer, Update, CreateSermon, CompleteUpload, SaveScriptures,
                      RetryProcessing, DeleteSermon, AbandonUpload, Commit
  <2>3. CASE PublishAny \/ Crash \/ LoseAnswer
    BY <2>1, <2>3 DEF PublishAny, Publish, Crash, LoseAnswer
  <2>4. ASSUME NEW w \in Windows,
               Subscribe(w) \/ SubscribeFails(w) \/ StreamEnds(w) \/ Break(w)
        PROVE  DeletedStaysAway'
    BY <2>1, <2>4 DEF Subscribe, SubscribeFails, StreamEnds, Break
  <2>5. ASSUME NEW w \in Windows, GotSermons(w) \/ FetchFails(w) \/ Receive(w) \/ ReceiveAnswer(w)
        PROVE  DeletedStaysAway'
    BY <2>5, WindowKeepsTombstones
  <2> QED
    BY <2>1, <2>2, <2>3, <2>4, <2>5 DEF Next, vars
<1> QED
  BY <1>1, <1>2, StreamTypes, PTL DEF Spec

=============================================================================
