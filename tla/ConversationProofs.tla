--------------------------- MODULE ConversationProofs ---------------------------
(***************************************************************************)
(* What the page shows and keeps: the displayed conversation, the list of   *)
(* conversations, a whiteboard, decrypted files, links and the keys of the  *)
(* account, for any value of their constants.                               *)
(***************************************************************************)
EXTENDS ConversationPage, ConversationList, Whiteboard, FileCache, FileShares, Unlock,
        SequenceTheorems, FiniteSetTheorems, WellFoundedInduction, TLAPS

\* Messages of a room.
InRoom(rows, r) == rows \subseteq Stored /\ \A m \in rows : posted[m] = r
Copies == [found : BOOLEAN, rows : SUBSET Stored]
EventTypes == {"new_message", "message_deleted", "conversation_updated"}
Events == [type : EventTypes, m : Stored]

\* What is told to be gone is gone from the server.
ServerFits ==
  /\ posted \in Seq(Rooms) /\ stored \subseteq Stored /\ socket \in Seq(Events)
  /\ known = [came |-> known.came, went |-> known.went]
  /\ known.came \subseteq Stored /\ known.went \subseteq Stored \ stored
  /\ \A i \in DOMAIN socket : socket[i].type # "new_message" => socket[i].m \notin stored

\* Rows that miss no message the page was told of, and hold none it was told is gone.
Current(r, rows) == Of(r, known.came \cap stored) \subseteq rows /\ rows \cap known.went = {}

\* A copy is of its room, and an answer that is still valid is current.
CopiesFit ==
  /\ prepared \in [Rooms -> Copies]
  /\ \A r \in Rooms : InRoom(prepared[r].rows, r) /\ (prepared[r].found => Current(r, prepared[r].rows))
  /\ preloads \subseteq [room : Rooms, answered : BOOLEAN, rows : SUBSET Stored, valid : BOOLEAN]
  /\ \A p \in preloads : InRoom(p.rows, p.room) /\ (p.answered /\ p.valid => Current(p.room, p.rows))

Places == {"cache", "paint", "join", "joined", "fetch", "answer", "decrypt", "members", "repair",
           "announced", "reload", "row"}
Jobs == [at : Places, room : Rooms, m : Stored \cup {0}, chosen : BOOLEAN, lifts : BOOLEAN,
         useCache : BOOLEAN, wait : BOOLEAN, displayed : BOOLEAN, fallback : Copies,
         rows : SUBSET Stored, loading : BOOLEAN]

\* What a task carries is of its room.
Sound(j) ==
  /\ j \in Jobs
  /\ InRoom(j.rows, j.room) /\ InRoom(j.fallback.rows, j.room)
  /\ j.at \in {"announced", "row"} => j.m \in Stored /\ posted[j.m] = j.room
\* The task of the last selection is about the conversation on screen.
Selects(j) ==
  /\ j.at \in {"members", "repair"} /\ j.chosen => current = j.room
  /\ j.at = "repair" => j.room \in trusted
JobsFit == \A j \in work : Sound(j) /\ Selects(j)

ScreenFits ==
  /\ current \in Rooms \cup {Nowhere}
  /\ shown = [room |-> shown.room, rows |-> shown.rows]
  /\ shown.room \in Rooms \cup {Nowhere} /\ InRoom(shown.rows, current)
  /\ verified \subseteq trusted /\ trusted \subseteq Rooms /\ cached \subseteq Stored
  /\ ComposerIsVerified

ConversationInv == ServerFits /\ CopiesFit /\ JobsFit /\ ScreenFits

LEMMA ConversationInitInv == ASSUME PageAssumption, ConversationInit PROVE ConversationInv
<1> USE DEF ConversationInit, PageAssumption
<1>1. Stored = {} /\ posted \in Seq(Rooms)
  BY DEF Stored
<1>2. ServerFits
  BY <1>1 DEF ServerFits
<1>3. CopiesFit
  BY <1>1 DEF CopiesFit, Copies, Absent, InRoom
<1>4. JobsFit
  BY DEF JobsFit
<1>5. ScreenFits
  BY <1>1 DEF ScreenFits, InRoom, ComposerIsVerified
<1> QED BY <1>2, <1>3, <1>4, <1>5 DEF ConversationInv

-----------------------------------------------------------------------------
(* Tasks                                                                   *)

\* What a flag, or another point of the handler, changes in a task.
LEMMA FlagsKeep ==
  ASSUME NEW j, Sound(j), NEW b \in BOOLEAN
  PROVE  /\ Sound([j EXCEPT !.lifts = b]) /\ Sound([j EXCEPT !.chosen = b])
         /\ [j EXCEPT !.lifts = b].at = j.at /\ [j EXCEPT !.lifts = b].room = j.room
         /\ [j EXCEPT !.lifts = b].chosen = j.chosen
         /\ [j EXCEPT !.chosen = b].at = j.at /\ [j EXCEPT !.chosen = b].room = j.room
         /\ [j EXCEPT !.chosen = b].chosen = b
BY DEF Sound, Jobs

Loading == {"cache", "paint", "join", "joined", "fetch", "answer", "decrypt", "reload"}

\* A task that selects nothing.
LEMMA Loads == ASSUME NEW j, j.at \in Loading PROVE Selects(j) /\ Selects(j)'
BY DEF Loading, Selects

LEMMA JobIs ==
  ASSUME NEW at \in Places, NEW r \in Rooms, at \notin {"announced", "row"}
  PROVE  Sound(Job(at, r)) /\ Job(at, r).at = at /\ Job(at, r).room = r /\ Job(at, r).rows = {}
         /\ Job(at, r).chosen
<1>1. Job(at, r) \in Jobs
  BY DEF Job, Jobs, Copies, Absent, Places
<1> QED BY <1>1 DEF Sound, Job, InRoom, Absent

LEMMA NetworkFits == ASSUME NEW j, Sound(j) PROVE Sound(Network(j)) /\ Network(j).at \in Loading
<1>1. PICK at \in {"join", "fetch"} : Network(j) = [j EXCEPT !.at = at]
  BY DEF Network
<1> QED BY <1>1 DEF Sound, Jobs, Places, Loading

\* An invalidated flag, for all.
LEMMA SupersededFit ==
  ASSUME NEW S, \A j \in S : Sound(j) /\ Selects(j), NEW k \in Superseded(S) PROVE Sound(k) /\ Selects(k)
<1>1. PICK j \in S : k = [j EXCEPT !.lifts = FALSE]
  BY DEF Superseded
<1>2. Sound(j) /\ Selects(j) /\ FALSE \in BOOLEAN
  OBVIOUS
<1>3. Sound(k) /\ k.at = j.at /\ k.room = j.room /\ k.chosen = j.chosen
  BY <1>1, <1>2, FlagsKeep
<1> QED BY <1>2, <1>3 DEF Selects

\* The tasks of earlier selections, whatever is selected next.
LEMMA UnchosenFit ==
  ASSUME NEW S, \A j \in S : Sound(j) /\ Selects(j), NEW k \in Unchosen(S)
  PROVE  /\ Sound(k) /\ Selects(k) /\ (k.at \in {"members", "repair"} => ~k.chosen)
         /\ k.at = "repair" => k.room \in trusted
<1>1. PICK j \in S : k = [j EXCEPT !.chosen = @ /\ j.at \notin {"members", "repair"}]
  BY DEF Unchosen
<1>2. j.chosen \in BOOLEAN
  BY DEF Sound, Jobs
<1>3. PICK b \in BOOLEAN : b = (j.chosen /\ j.at \notin {"members", "repair"})
  BY <1>2
<1>4. k = [j EXCEPT !.chosen = b]
  BY <1>1, <1>3
<1>5. Sound(k) /\ k.at = j.at /\ k.room = j.room /\ k.chosen = b
  <2>1. Sound(j)
    OBVIOUS
  <2> QED BY <1>4, <2>1 DEF Sound, Jobs
<1>6. k.at \in {"members", "repair"} => ~k.chosen
  BY <1>3, <1>5
<1>7. k.at = "repair" => k.room \in trusted
  BY <1>5 DEF Selects
<1> QED BY <1>5, <1>6, <1>7 DEF Selects

\* What loadMessages has done by its first await.
LEMMA BegunFit ==
  ASSUME CopiesFit, NEW r \in Rooms, NEW c \in BOOLEAN, NEW w \in BOOLEAN, NEW list,
         NEW b \in Begun(r, c, w, list)
  PROVE  /\ Sound(b.job) /\ b.job.at \in Loading
         /\ b.list = list \/ b.list = [room |-> r, rows |-> prepared[r].rows]
<1> DEFINE load == [Job("cache", r) EXCEPT !.useCache = c, !.wait = w]
           copy == prepared[r]
           painted == [load EXCEPT !.at = "paint", !.displayed = TRUE, !.fallback = copy, !.lifts = w]
<1>1. Job("cache", r) \in Jobs /\ Absent \in Copies /\ Absent.rows = {} /\ copy \in Copies
  BY DEF Job, Jobs, Copies, Absent, Places, CopiesFit
<1>2. /\ load \in Jobs /\ load.at = "cache" /\ load.room = r /\ load.rows = {} /\ load.fallback = Absent
      /\ load.wait = w /\ load.useCache = c /\ load.displayed = FALSE /\ load.lifts = FALSE
  BY <1>1 DEF Job, Jobs, Absent
<1>3. Sound(load) /\ InRoom(copy.rows, r)
  BY <1>1, <1>2 DEF Sound, InRoom, CopiesFit
<1> HIDE DEF load, copy
<1>4. \A j : Sound(j) => Sound(Network(j)) /\ Network(j).at \in Loading
  BY NetworkFits
<1>5. Sound([load EXCEPT !.fallback = copy])
  BY <1>1, <1>2, <1>3 DEF Sound, Jobs
<1>6. ASSUME NEW f \in BOOLEAN
      PROVE  Sound([painted EXCEPT !.useCache = f]) /\ [painted EXCEPT !.useCache = f].at \in Loading
  BY <1>1, <1>2, <1>3 DEF Sound, Jobs, Loading, Places
<1>7. \/ b = [list |-> list, job |-> Network(load)]
      \/ b = [list |-> list, job |-> load]
      \/ \E f \in BOOLEAN :
           b = [list |-> [room |-> r, rows |-> copy.rows], job |-> [painted EXCEPT !.useCache = f]]
      \/ b = [list |-> list, job |-> Network([load EXCEPT !.fallback = copy])]
  BY DEF Begun, load, copy
<1>8. CASE b = [list |-> list, job |-> Network(load)]
  BY <1>3, <1>4, <1>8
<1>9. CASE b = [list |-> list, job |-> load]
  <2>1. load.at \in Loading
    BY <1>2 DEF Loading
  <2> QED BY <1>3, <1>9, <2>1
<1>10. CASE \E f \in BOOLEAN :
             b = [list |-> [room |-> r, rows |-> copy.rows], job |-> [painted EXCEPT !.useCache = f]]
  <2>1. PICK f \in BOOLEAN :
          b = [list |-> [room |-> r, rows |-> copy.rows], job |-> [painted EXCEPT !.useCache = f]]
    BY <1>10
  <2>2. Sound([painted EXCEPT !.useCache = f]) /\ [painted EXCEPT !.useCache = f].at \in Loading
    BY <1>6
  <2> HIDE DEF painted
  <2> QED BY <2>1, <2>2 DEF copy
<1>11. CASE b = [list |-> list, job |-> Network([load EXCEPT !.fallback = copy])]
  BY <1>4, <1>5, <1>11
<1> QED BY <1>7, <1>8, <1>9, <1>10, <1>11

-----------------------------------------------------------------------------
(* The steps of loadMessages                                               *)

\* A step that leaves the server, the copies and the selection alone.
LEMMA LoadStep ==
  ASSUME ConversationInv, UNCHANGED pageOnly, cached' \subseteq Stored,
         \A k \in work' : Sound(k) /\ Selects(k),
         shown' = [room |-> shown'.room, rows |-> shown'.rows], shown'.room \in Rooms \cup {Nowhere},
         InRoom(shown'.rows, current)
  PROVE  ConversationInv'
<1> USE DEF ConversationInv, pageOnly, serverVars
<1>1. Stored' = Stored
  BY DEF Stored
<1>2. ServerFits'
  BY <1>1 DEF ServerFits, Events
<1>3. CopiesFit'
  BY <1>1 DEF CopiesFit, Copies, InRoom, Current, Of
<1>4. JobsFit'
  BY <1>1 DEF JobsFit, Sound, Selects, Jobs, Copies, InRoom
<1>5. ScreenFits'
  BY <1>1 DEF ScreenFits, InRoom, ComposerIsVerified
<1> QED BY <1>2, <1>3, <1>4, <1>5

\* Most of them replace one task, or end it, and leave the list alone.
LEMMA OneTask ==
  ASSUME ConversationInv, NEW j \in work, UNCHANGED <<pageOnly, shown>>, cached' \subseteq Stored,
         NEW rest, rest = work \ {j} \/ rest = Superseded(work \ {j}),
         \A k \in work' : k \in rest \/ (Sound(k) /\ k.at \in Loading)
  PROVE  ConversationInv'
<1>1. \A k \in work \ {j} : Sound(k) /\ Selects(k)
  BY DEF ConversationInv, JobsFit
<1>2. \A k \in rest : Sound(k) /\ Selects(k)
  BY <1>1, SupersededFit
<1>3. \A k \in work' : Sound(k) /\ Selects(k)
  BY <1>2, Loads
<1>4. shown' = shown /\ shown = [room |-> shown.room, rows |-> shown.rows]
      /\ shown.room \in Rooms \cup {Nowhere} /\ InRoom(shown.rows, current)
  BY DEF ConversationInv, ScreenFits
<1> QED BY <1>3, <1>4, LoadStep

LEMMA CachedFit ==
  ASSUME ConversationInv, NEW r
  PROVE  InRoom(Of(r, cached), r) /\ InRoom(Of(r, stored), r) /\ cached \subseteq Stored
BY DEF ConversationInv, ServerFits, ScreenFits, InRoom, Of

LEMMA WorkFits == ASSUME ConversationInv, NEW j \in work PROVE Sound(j) /\ Selects(j)
BY DEF ConversationInv, JobsFit

LEMMA CacheReadInv == ASSUME ConversationInv, NEW j \in work, CacheRead(j) PROVE ConversationInv'
<1> DEFINE rows == Of(j.room, cached)
           known1 == [j EXCEPT !.fallback = Found(rows)]
           next == [known1 EXCEPT !.at = "decrypt", !.rows = rows, !.displayed = TRUE]
<1>1. Sound(j) /\ InRoom(rows, j.room) /\ cached \subseteq Stored
  BY WorkFits, CachedFit
<1>2. Sound(known1) /\ Sound(next) /\ next.at = "decrypt"
  <2> HIDE DEF rows
  <2>1. Found(rows) \in Copies /\ Found(rows).rows = rows
    BY <1>1 DEF Found, Copies, InRoom
  <2> HIDE DEF Copies
  <2> QED BY <1>1, <2>1 DEF Sound, Jobs, Places, InRoom
<1>3. /\ Sound(Network(j)) /\ Network(j).at \in Loading
      /\ Sound(Network(known1)) /\ Network(known1).at \in Loading
  BY <1>1, <1>2, NetworkFits
<1>4. UNCHANGED <<pageOnly, listVars, cached>>
  BY DEF CacheRead
<1>5. \A k \in work' : k \in work \ {j} \/ k \in {Network(j), Network(known1), next}
  BY DEF CacheRead, Become
<1> HIDE DEF rows, known1, next
<1>6. \A k \in work' : k \in work \ {j} \/ (Sound(k) /\ k.at \in Loading)
  BY <1>2, <1>3, <1>5 DEF Loading
<1>7. UNCHANGED <<pageOnly, shown>> /\ cached' \subseteq Stored
  BY <1>1, <1>4 DEF listVars
<1> QED BY <1>6, <1>7, OneTask

\* A load that a list is shown for.
LEMMA Displays ==
  ASSUME ConversationInv, NEW j \in work, UNCHANGED pageOnly, cached' = cached, current = j.room,
         NEW rows, InRoom(rows, j.room), shown' = [room |-> j.room, rows |-> rows],
         NEW rest, rest = work \ {j} \/ rest = Superseded(work \ {j}),
         \A k \in work' : k \in rest \/ (Sound(k) /\ k.at \in Loading)
  PROVE  ConversationInv'
<1>1. \A k \in work \ {j} : Sound(k) /\ Selects(k)
  BY DEF ConversationInv, JobsFit
<1>2. \A k \in rest : Sound(k) /\ Selects(k)
  BY <1>1, SupersededFit
<1>3. \A k \in work' : Sound(k) /\ Selects(k)
  BY <1>2, Loads
<1>4. shown' = [room |-> shown'.room, rows |-> shown'.rows] /\ shown'.room \in Rooms \cup {Nowhere}
      /\ InRoom(shown'.rows, current)
  <2>1. j.room \in Rooms
    BY WorkFits DEF Sound, Jobs
  <2> QED BY <2>1
<1>5. cached' \subseteq Stored
  BY CachedFit
<1> QED BY <1>3, <1>4, <1>5, LoadStep

LEMMA JoinedInv == ASSUME ConversationInv, NEW j \in work, Joined(j) PROVE ConversationInv'
<1> DEFINE next == [j EXCEPT !.at = "paint", !.lifts = j.wait, !.rows = {}]
<1>1. Sound(j) /\ InRoom(j.rows, j.room) /\ cached \subseteq Stored
  BY WorkFits, CachedFit DEF Sound
<1>2. Sound(next) /\ next.at \in Loading
  BY <1>1 DEF Sound, Jobs, Places, InRoom, Loading
<1>3. UNCHANGED <<pageOnly, cached>>
  BY DEF Joined
<1> HIDE DEF next
<1>4. CASE current # j.room /\ Leave(j) /\ UNCHANGED listVars
  <2>1. UNCHANGED shown /\ \A k \in work' : k \in work \ {j}
    BY <1>4 DEF Leave, listVars
  <2> QED BY <1>1, <1>3, <2>1, OneTask
<1>5. CASE /\ current = j.room /\ Display(j.room, j.rows)
           /\ work' = (IF j.wait THEN Superseded(work \ {j}) ELSE work \ {j}) \cup {next}
  <2>1. PICK rest : /\ rest = work \ {j} \/ rest = Superseded(work \ {j})
                    /\ work' = rest \cup {next}
    BY <1>5
  <2>2. shown' = [room |-> j.room, rows |-> j.rows]
    BY <1>5 DEF Display
  <2>3. \A k \in work' : k \in rest \/ (Sound(k) /\ k.at \in Loading)
    BY <1>2, <2>1
  <2> QED BY <1>1, <1>3, <1>5, <2>1, <2>2, <2>3, Displays
<1> QED BY <1>4, <1>5 DEF Joined, next

LEMMA AnswerInv == ASSUME ConversationInv, NEW j \in work, Answer(j) PROVE ConversationInv'
<1> DEFINE rows == Of(j.room, stored)  next == [j EXCEPT !.at = "answer", !.rows = rows]
<1>1. Sound(j) /\ InRoom(rows, j.room) /\ cached \subseteq Stored
  BY WorkFits, CachedFit
<1>2. UNCHANGED <<pageOnly, shown, cached>> /\ work' = (work \ {j}) \cup {next}
  BY DEF Answer, Become, listVars
<1> HIDE DEF rows
<1>3. Sound(next) /\ next.at \in Loading
  BY <1>1 DEF Sound, Jobs, Places, InRoom, Loading
<1> HIDE DEF next
<1>4. \A k \in work' : k \in work \ {j} \/ (Sound(k) /\ k.at \in Loading)
  BY <1>2, <1>3
<1> QED BY <1>1, <1>2, <1>4, OneTask

\* renderMessages begins.
LEMMA Rendering ==
  ASSUME ConversationInv, NEW j \in work, NEW rows, InRoom(rows, j.room), Render(j, rows, FALSE),
         UNCHANGED <<pageOnly, shown>>, cached' \subseteq Stored
  PROVE  ConversationInv'
<1> DEFINE next == [j EXCEPT !.at = "decrypt", !.rows = rows, !.displayed = FALSE, !.lifts = j.wait]
<1>1. Sound(j)
  BY WorkFits
<1>2. Sound(next) /\ next.at \in Loading
  BY <1>1 DEF Sound, Jobs, Places, InRoom, Loading
<1> HIDE DEF next
<1>3. PICK rest : /\ rest = work \ {j} \/ rest = Superseded(work \ {j})
                  /\ work' = rest \cup {next}
  BY DEF Render, next
<1>4. \A k \in work' : k \in rest \/ (Sound(k) /\ k.at \in Loading)
  BY <1>2, <1>3
<1> QED BY <1>3, <1>4, OneTask

LEMMA ArriveInv == ASSUME ConversationInv, NEW j \in work, Arrive(j) PROVE ConversationInv'
<1>1. Sound(j) /\ InRoom(j.rows, j.room) /\ cached \subseteq Stored
  BY WorkFits, CachedFit DEF Sound
<1>2. cached' \subseteq Stored
  BY <1>1 DEF Arrive, InRoom
<1>3. UNCHANGED <<pageOnly, shown>>
  BY DEF Arrive, listVars
<1>4. CASE Leave(j)
  <2>1. \A k \in work' : k \in work \ {j}
    BY <1>4 DEF Leave
  <2> QED BY <1>2, <1>3, <2>1, OneTask
<1>5. CASE Render(j, j.rows, FALSE)
  BY <1>1, <1>2, <1>3, <1>5, Rendering
<1> QED BY <1>4, <1>5 DEF Arrive

LEMMA CommitInv == ASSUME ConversationInv, NEW j \in work, Commit(j) PROVE ConversationInv'
<1> DEFINE next == [j EXCEPT !.at = "paint", !.useCache = TRUE, !.rows = {}]
<1>1. Sound(j) /\ InRoom(j.rows, j.room) /\ cached \subseteq Stored
  BY WorkFits, CachedFit DEF Sound
<1>2. Sound(next) /\ next.at \in Loading /\ Sound(Network(j)) /\ Network(j).at \in Loading
  BY <1>1, NetworkFits DEF Sound, Jobs, Places, InRoom, Loading
<1>3. UNCHANGED <<pageOnly, cached>>
  BY DEF Commit
<1>4. CASE ~StillCurrent(j)
  <2>1. UNCHANGED shown /\ \A k \in work' : k \in work \ {j}
    BY <1>4 DEF Commit, Leave
  <2> QED BY <1>1, <1>3, <2>1, OneTask
<1>5. CASE StillCurrent(j)
  <2>1. /\ current = j.room /\ shown' = [room |-> j.room, rows |-> j.rows]
        /\ \A k \in work' : k \in work \ {j} \/ k \in {Network(j), next}
    BY <1>5 DEF Commit, StillCurrent, Display, Become, Leave
  <2> HIDE DEF next
  <2>2. \A k \in work' : k \in work \ {j} \/ (Sound(k) /\ k.at \in Loading)
    BY <1>2, <2>1
  <2> QED BY <1>1, <1>3, <2>1, <2>2, Displays
<1> QED BY <1>4, <1>5

LEMMA PaintInv == ASSUME ConversationInv, NEW j \in work, Paint(j) PROVE ConversationInv'
<1> DEFINE next == [j EXCEPT !.lifts = FALSE, !.useCache = TRUE]
<1>1. Sound(j) /\ cached \subseteq Stored
  BY WorkFits, CachedFit
<1>2. Sound(Network(next)) /\ Network(next).at \in Loading
  <2>1. Sound(next)
    BY <1>1 DEF Sound, Jobs
  <2> QED BY <2>1, NetworkFits
<1>3. UNCHANGED <<pageOnly, shown, cached>> /\ \A k \in work' : k \in work \ {j} \/ k = Network(next)
  BY DEF Paint, Leave, Become
<1> HIDE DEF next
<1>4. \A k \in work' : k \in work \ {j} \/ (Sound(k) /\ k.at \in Loading)
  BY <1>2, <1>3
<1> QED BY <1>1, <1>3, <1>4, OneTask

LEMMA RequestFailsInv == ASSUME ConversationInv, NEW j \in work, RequestFails(j) PROVE ConversationInv'
<1>1. Sound(j) /\ InRoom(j.fallback.rows, j.room) /\ cached \subseteq Stored
  BY WorkFits, CachedFit DEF Sound
<1>2. UNCHANGED <<pageOnly, shown, cached>>
  BY DEF RequestFails
<1>3. CASE Render(j, j.fallback.rows, FALSE)
  BY <1>1, <1>2, <1>3, Rendering
<1>4. CASE work' = Superseded(work \ {j})
  BY <1>1, <1>2, <1>4, OneTask
<1>5. CASE Leave(j)
  <2>1. work' = work \ {j}
    BY <1>5 DEF Leave
  <2> QED BY <1>1, <1>2, <2>1, OneTask
<1> QED BY <1>3, <1>4, <1>5 DEF RequestFails

LEMMA RowInv == ASSUME ConversationInv, NEW j \in work, Row(j) PROVE ConversationInv'
<1>1. Sound(j) /\ j.at = "row" /\ cached \subseteq Stored
  BY WorkFits, CachedFit DEF Row
<1>2. j.m \in Stored /\ posted[j.m] = j.room
  BY <1>1 DEF Sound
<1>3. UNCHANGED <<pageOnly, cached>> /\ work' = work \ {j}
  BY DEF Row, Leave
<1>4. \A k \in work' : Sound(k) /\ Selects(k)
  BY <1>3, WorkFits
<1>5. /\ shown = [room |-> shown.room, rows |-> shown.rows] /\ shown.room \in Rooms \cup {Nowhere}
      /\ InRoom(shown.rows, current)
  BY DEF ConversationInv, ScreenFits
<1>6. /\ shown' = [room |-> shown.room, rows |-> shown'.rows]
      /\ InRoom(shown'.rows, current)
  <2>1. CASE StillCurrent(j)
    <3>1. shown' = [room |-> shown.room, rows |-> shown.rows \cup {j.m}] /\ current = j.room
      BY <1>5, <2>1 DEF Row, StillCurrent
    <3> QED BY <1>2, <1>5, <3>1 DEF InRoom
  <2>2. CASE ~StillCurrent(j)
    BY <1>5, <2>2 DEF Row
  <2> QED BY <2>1, <2>2
<1>7. shown'.room = shown.room /\ shown' = [room |-> shown'.room, rows |-> shown'.rows]
  BY <1>6
<1> QED BY <1>1, <1>3, <1>4, <1>5, <1>6, <1>7, LoadStep

LEMMA ReloadInv == ASSUME ConversationInv, NEW j \in work, Reload(j) PROVE ConversationInv'
<1>1. Sound(j) /\ cached \subseteq Stored
  BY WorkFits, CachedFit
<1>2. UNCHANGED <<pageOnly, cached>>
  BY DEF Reload
<1>3. CASE current = Nowhere /\ Leave(j) /\ UNCHANGED shown
  <2>1. work' = work \ {j} /\ UNCHANGED shown
    BY <1>3 DEF Leave
  <2> QED BY <1>1, <1>2, <2>1, OneTask
<1>4. CASE current # Nowhere /\ Begin(current, FALSE, FALSE, shown, work \ {j})
  <2>1. PICK b \in Begun(current, FALSE, FALSE, shown) :
          /\ shown' = b.list
          /\ work' = (IF b.job.lifts THEN Superseded(work \ {j}) ELSE work \ {j}) \cup {b.job}
    BY <1>4 DEF Begin
  <2>2. CopiesFit /\ current \in Rooms
    BY <1>4 DEF ConversationInv, ScreenFits
  <2>3. /\ Sound(b.job) /\ b.job.at \in Loading
        /\ b.list = shown \/ b.list = [room |-> current, rows |-> prepared[current].rows]
    BY <2>2, BegunFit
  <2>4. b.list = shown
    BY DEF Begun
  <2>5. PICK rest : /\ rest = work \ {j} \/ rest = Superseded(work \ {j})
                    /\ work' = rest \cup {b.job}
    BY <2>1
  <2>6. \A k \in work' : k \in rest \/ (Sound(k) /\ k.at \in Loading)
    BY <2>3, <2>5
  <2>7. UNCHANGED <<pageOnly, shown>> /\ cached' \subseteq Stored
    BY <1>1, <1>2, <2>1, <2>4
  <2> QED BY <2>5, <2>6, <2>7, OneTask
<1> QED BY <1>3, <1>4 DEF Reload

-----------------------------------------------------------------------------
(* Selecting and closing                                                   *)

\* With the server and the copies as they are, what remains is the tasks and the screen.
LEMMA ScreenStep ==
  ASSUME ConversationInv, UNCHANGED <<serverVars, known, prepared, preloads>>,
         \A k \in work' : Sound(k) /\ Selects(k)', ScreenFits'
  PROVE  ConversationInv'
<1> USE DEF ConversationInv, serverVars
<1>1. Stored' = Stored
  BY DEF Stored
<1>2. ServerFits'
  BY <1>1 DEF ServerFits, Events
<1>3. CopiesFit'
  BY <1>1 DEF CopiesFit, Copies, InRoom, Current, Of
<1>4. \A k : Sound(k) => Sound(k)'
  BY <1>1 DEF Sound, Jobs, Copies, InRoom
<1>5. JobsFit'
  BY <1>4 DEF JobsFit
<1> QED BY <1>2, <1>3, <1>5

\* The selection is about the same tasks once flags of readiness are cleared.
LEMMA SupersededFitNext ==
  ASSUME NEW S, \A j \in S : Sound(j) /\ Selects(j)', NEW k \in Superseded(S)
  PROVE  Sound(k) /\ Selects(k)'
<1>1. PICK j \in S : k = [j EXCEPT !.lifts = FALSE]
  BY DEF Superseded
<1>2. Sound(j) /\ FALSE \in BOOLEAN
  OBVIOUS
<1>3. Sound(k) /\ k.at = j.at /\ k.room = j.room /\ k.chosen = j.chosen
  BY <1>1, <1>2, FlagsKeep
<1>4. Selects(j)'
  OBVIOUS
<1>5. Selects(k)'
  BY <1>3, <1>4 DEF Selects
<1> QED BY <1>3, <1>5

LEMMA BeginFits ==
  ASSUME CopiesFit, NEW r \in Rooms, NEW w \in BOOLEAN, NEW list, NEW rest,
         Begin(r, TRUE, w, list, rest), \A j \in rest : Sound(j) /\ Selects(j)'
  PROVE  /\ \A k \in work' : Sound(k) /\ Selects(k)'
         /\ shown' \in {list, [room |-> r, rows |-> prepared[r].rows]}
<1>1. PICK b \in Begun(r, TRUE, w, list) :
        /\ shown' = b.list
        /\ work' = (IF b.job.lifts THEN Superseded(rest) ELSE rest) \cup {b.job}
  BY DEF Begin
<1>2. /\ Sound(b.job) /\ b.job.at \in Loading
      /\ b.list = list \/ b.list = [room |-> r, rows |-> prepared[r].rows]
  <2>1. TRUE \in BOOLEAN /\ w \in BOOLEAN /\ r \in Rooms /\ CopiesFit /\ b \in Begun(r, TRUE, w, list)
    BY <1>1
  <2>2. PICK c \in BOOLEAN : c = TRUE
    OBVIOUS
  <2>3. b \in Begun(r, c, w, list)
    BY <2>1, <2>2
  <2> HIDE <2>1, <2>2
  <2> QED BY <2>3, BegunFit
<1>3. Selects(b.job)'
  BY <1>2, Loads
<1>4. \A k \in Superseded(rest) : Sound(k) /\ Selects(k)'
  BY SupersededFitNext
<1>5. \A k \in work' : Sound(k) /\ Selects(k)'
  BY <1>1, <1>2, <1>3, <1>4
<1> QED BY <1>1, <1>2, <1>5

\* The tasks that were there, after a step that knows more rooms to be trusted.
LEMMA OthersSelect ==
  ASSUME ConversationInv, current' = current, trusted \subseteq trusted', NEW k \in work
  PROVE  Sound(k) /\ Selects(k)'
BY WorkFits DEF Selects

LEMMA SelectInv ==
  ASSUME PageAssumption, ConversationInv, NEW r \in Rooms, Select(r) PROVE ConversationInv'
<1> DEFINE changed == r # current
           empty == IF changed THEN [shown EXCEPT !.rows = {}] ELSE shown
           older == IF changed THEN Superseded(Unchosen(work)) ELSE Unchosen(work)
           asked == [Job("members", r) EXCEPT !.wait = changed, !.loading = r \in verified]
           rest == older \cup {asked}
<1>1. /\ current' = r /\ UNCHANGED <<serverVars, known, verified, trusted, prepared, preloads, cached>>
      /\ enabled' = (r \in verified /\ r \notin Suspended)
      /\ \/ Begin(r, TRUE, changed, empty, rest)
         \/ shown' = empty /\ work' = rest
  BY DEF Select
<1>2. \A k \in work : Sound(k) /\ Selects(k)
  BY WorkFits
<1>3. \A k \in Unchosen(work) : Sound(k) /\ Selects(k)'
  <2> SUFFICES ASSUME NEW k \in Unchosen(work) PROVE Sound(k) /\ Selects(k)'
    OBVIOUS
  <2>1. /\ Sound(k) /\ (k.at \in {"members", "repair"} => ~k.chosen)
        /\ k.at = "repair" => k.room \in trusted
    BY <1>2, UnchosenFit
  <2> QED BY <1>1, <2>1 DEF Selects
<1>4. \A k \in older : Sound(k) /\ Selects(k)'
  BY <1>3, SupersededFitNext
<1>5. \A k \in {asked} : Sound(k) /\ Selects(k)'
  <2>1. Sound(Job("members", r)) /\ Job("members", r).at = "members" /\ Job("members", r).room = r
    BY JobIs DEF Places
  <2>2. changed \in BOOLEAN /\ (r \in verified) \in BOOLEAN
    OBVIOUS
  <2>3. PICK a \in BOOLEAN, b \in BOOLEAN : a = changed /\ b = (r \in verified)
    BY <2>2
  <2>4. asked = [Job("members", r) EXCEPT !.wait = a, !.loading = b]
    BY <2>3
  <2>5. Sound(asked) /\ asked.at = "members" /\ asked.room = r
    <3> DEFINE j == Job("members", r)
    <3>1. Sound(j) /\ j.at = "members" /\ j.room = r /\ asked = [j EXCEPT !.wait = a, !.loading = b]
      BY <2>1, <2>4
    <3> HIDE DEF j, asked
    <3>2. j \in Jobs
      BY <3>1 DEF Sound
    <3>3. /\ asked \in Jobs /\ asked.at = "members" /\ asked.room = r
          /\ asked.rows = j.rows /\ asked.fallback = j.fallback
      BY <3>1, <3>2 DEF Jobs
    <3> QED BY <3>1, <3>3 DEF Sound
  <2>6. PICK q : q = asked
    OBVIOUS
  <2>7. Selects(q)'
    BY <1>1, <2>5, <2>6 DEF Selects
  <2> HIDE DEF asked
  <2> QED BY <2>5, <2>6, <2>7
<1>6. \A k \in rest : Sound(k) /\ Selects(k)'
  BY <1>4, <1>5
<1> HIDE DEF rest
<1>7. /\ shown = [room |-> shown.room, rows |-> shown.rows] /\ shown.room \in Rooms \cup {Nowhere}
      /\ InRoom(shown.rows, current)
      /\ verified \subseteq trusted /\ trusted \subseteq Rooms /\ cached \subseteq Stored
  BY DEF ConversationInv, ScreenFits
<1>8. /\ empty = [room |-> shown.room, rows |-> empty.rows] /\ InRoom(empty.rows, r)
  <2>1. CASE changed
    <3>1. empty = [room |-> shown.room, rows |-> {}]
      BY <1>7, <2>1
    <3> QED BY <3>1 DEF InRoom
  <2>2. CASE ~changed
    BY <1>7, <2>2
  <2> QED BY <2>1, <2>2
<1>9. changed \in BOOLEAN
  OBVIOUS
<1> HIDE DEF changed, empty
<1>10. CopiesFit
  BY DEF ConversationInv
<1>11. /\ \A k \in work' : Sound(k) /\ Selects(k)'
       /\ shown' \in {empty, [room |-> r, rows |-> prepared[r].rows]}
  <2>1. CASE Begin(r, TRUE, changed, empty, rest)
    BY <1>6, <1>9, <1>10, <2>1, BeginFits
  <2>2. CASE shown' = empty /\ work' = rest
    BY <1>6, <2>2
  <2> QED BY <1>1, <2>1, <2>2
<1>12. InRoom(prepared[r].rows, r)
  BY <1>10 DEF CopiesFit
<1>13. PICK x, rows : /\ x \in Rooms \cup {Nowhere}
                     /\ shown' = [room |-> x, rows |-> rows]
                     /\ InRoom(rows, r)
  BY <1>7, <1>8, <1>11, <1>12
<1>14. ScreenFits'
  <2>1. Stored' = Stored /\ posted' = posted
    BY <1>1 DEF serverVars, Stored
  <2>2. ComposerIsVerified'
    BY <1>1, <1>7 DEF ComposerIsVerified
  <2>3. InRoom(shown.rows, current)'
    BY <1>1, <1>13, <2>1 DEF InRoom
  <2>4. (shown = [room |-> shown.room, rows |-> shown.rows] /\ shown.room \in Rooms \cup {Nowhere})'
    BY <1>13
  <2> QED BY <1>1, <1>7, <2>1, <2>2, <2>3, <2>4 DEF ScreenFits
<1> QED BY <1>1, <1>11, <1>14, ScreenStep

\* Nothing remains on the page of what was closed.
LEMMA CloseInv ==
  ASSUME ConversationInv, NEW jobs, jobs \subseteq work, Close(jobs),
         UNCHANGED <<serverVars, known, verified, trusted, prepared, preloads, cached>>
  PROVE  ConversationInv'
<1>1. \A k \in jobs : Sound(k) /\ Selects(k)
  BY WorkFits
<1>2. \A k \in Unchosen(jobs) : Sound(k) /\ Selects(k)'
  <2> SUFFICES ASSUME NEW k \in Unchosen(jobs) PROVE Sound(k) /\ Selects(k)'
    OBVIOUS
  <2>1. /\ Sound(k) /\ (k.at \in {"members", "repair"} => ~k.chosen)
        /\ k.at = "repair" => k.room \in trusted
    BY <1>1, UnchosenFit
  <2> QED BY <2>1 DEF Selects
<1>3. \A k \in work' : Sound(k) /\ Selects(k)'
  BY <1>2, SupersededFitNext DEF Close
<1>4. shown' = [room |-> shown.room, rows |-> {}] /\ shown.room \in Rooms \cup {Nowhere}
  BY DEF ConversationInv, ScreenFits, Close
<1>5. ScreenFits'
  <2>1. Stored' = Stored
    BY DEF serverVars, Stored
  <2>2. InRoom(shown.rows, current)' /\ (shown = [room |-> shown.room, rows |-> shown.rows])'
        /\ shown'.room \in Rooms \cup {Nowhere}
    BY <1>4 DEF InRoom
  <2> QED BY <2>1, <2>2 DEF ConversationInv, ScreenFits, ComposerIsVerified, Close
<1> QED BY <1>3, <1>5, ScreenStep

\* The composer is released for members that were checked.
LEMMA ReleasedInv ==
  ASSUME ConversationInv, NEW j \in work, current = j.room, Released(j, work \ {j}),
         UNCHANGED <<serverVars, known, prepared, preloads, cached>>,
         verified' \subseteq trusted', trusted \subseteq trusted', trusted' \subseteq Rooms,
         j.room \in trusted'
  PROVE  ConversationInv'
<1>1. CopiesFit /\ j.room \in Rooms /\ j.wait \in BOOLEAN
  BY WorkFits DEF ConversationInv, Sound, Jobs
<1>2. current' = current /\ enabled' = (j.room \notin Suspended \ Owned)
      /\ \/ work' = work \ {j} /\ UNCHANGED shown
         \/ Begin(j.room, TRUE, j.wait, shown, work \ {j})
  BY DEF Released
<1>3. \A k \in work \ {j} : Sound(k) /\ Selects(k)'
  BY <1>2, OthersSelect
<1>4. /\ \A k \in work' : Sound(k) /\ Selects(k)'
      /\ shown' \in {shown, [room |-> j.room, rows |-> prepared[j.room].rows]}
  <2>1. CASE Begin(j.room, TRUE, j.wait, shown, work \ {j})
    BY <1>1, <1>3, <2>1, BeginFits
  <2>2. CASE work' = work \ {j} /\ UNCHANGED shown
    BY <1>3, <2>2
  <2> QED BY <1>2, <2>1, <2>2
<1>5. /\ shown = [room |-> shown.room, rows |-> shown.rows] /\ shown.room \in Rooms \cup {Nowhere}
      /\ InRoom(shown.rows, current) /\ cached \subseteq Stored
  BY DEF ConversationInv, ScreenFits
<1>6. InRoom(prepared[j.room].rows, j.room)
  BY <1>1 DEF CopiesFit
<1>7. PICK x, rows : /\ x \in Rooms \cup {Nowhere}
                     /\ shown' = [room |-> x, rows |-> rows]
                     /\ InRoom(rows, current)
  BY <1>1, <1>4, <1>5, <1>6
<1>8. ScreenFits'
  <2>1. Stored' = Stored /\ posted' = posted
    BY DEF serverVars, Stored
  <2>2. InRoom(shown.rows, current)'
    BY <1>2, <1>7, <2>1 DEF InRoom
  <2>3. (shown = [room |-> shown.room, rows |-> shown.rows] /\ shown.room \in Rooms \cup {Nowhere})'
    BY <1>7
  <2>4. ComposerIsVerified'
    BY <1>2 DEF ComposerIsVerified
  <2> QED BY <1>1, <1>2, <1>5, <2>1, <2>2, <2>3, <2>4 DEF ScreenFits
<1> QED BY <1>4, <1>8, ScreenStep

\* The list and the selection stay, whatever becomes of one task.
LEMMA StayInv ==
  ASSUME ConversationInv, NEW j \in work, UNCHANGED <<current, enabled, shown, cached>>,
         UNCHANGED <<serverVars, known, prepared, preloads>>,
         verified' \subseteq trusted', trusted \subseteq trusted', trusted' \subseteq Rooms,
         \A k \in work' : k \in work \ {j} \/ (Sound(k) /\ Selects(k)')
  PROVE  ConversationInv'
<1>1. \A k \in work' : Sound(k) /\ Selects(k)'
  BY OthersSelect
<1>2. Stored' = Stored /\ posted' = posted
  BY DEF serverVars, Stored
<1>3. ScreenFits'
  BY <1>2 DEF ConversationInv, ScreenFits, InRoom, ComposerIsVerified
<1> QED BY <1>1, <1>3, ScreenStep

LEMMA MembersAnswerInv == ASSUME ConversationInv, NEW j \in work, MembersAnswer(j) PROVE ConversationInv'
<1>1. Sound(j) /\ Selects(j) /\ j.at = "members" /\ j.room \in Rooms
  BY WorkFits DEF MembersAnswer, Sound, Jobs
<1>2. /\ verified' \subseteq trusted' /\ trusted \subseteq trusted' /\ trusted' \subseteq Rooms
      /\ j.room \in trusted'
  BY <1>1 DEF MembersAnswer, ConversationInv, ScreenFits
<1>3. UNCHANGED <<serverVars, known, prepared, preloads, cached>>
  BY DEF MembersAnswer
<1>4. CASE Leave(j) /\ UNCHANGED <<current, enabled, listVars>>
  <2>1. work' = work \ {j} /\ UNCHANGED <<current, enabled, shown>>
    BY <1>4 DEF Leave, listVars
  <2> QED BY <1>2, <1>3, <2>1, StayInv
<1>5. CASE LastSelection(j) /\ Become(j, [j EXCEPT !.at = "repair"]) /\ UNCHANGED <<current, enabled, listVars>>
  <2> DEFINE next == [j EXCEPT !.at = "repair"]
  <2>1. Sound(next) /\ next.at = "repair" /\ next.room = j.room
    BY <1>1 DEF Sound, Jobs, Places
  <2>2. work' = (work \ {j}) \cup {next} /\ UNCHANGED <<current, enabled, shown>>
    BY <1>5 DEF Become, listVars
  <2>3. current = j.room
    BY <1>1, <1>5 DEF LastSelection, Selects
  <2> HIDE DEF next
  <2>4. Selects(next)'
    BY <1>2, <2>1, <2>2, <2>3 DEF Selects
  <2>5. \A k \in work' : k \in work \ {j} \/ (Sound(k) /\ Selects(k)')
    BY <2>1, <2>2, <2>4
  <2> QED BY <1>2, <1>3, <2>2, <2>5, StayInv
<1>6. CASE LastSelection(j) /\ Released(j, work \ {j})
  <2>1. current = j.room
    BY <1>1, <1>6 DEF LastSelection, Selects
  <2> QED BY <1>2, <1>3, <1>6, <2>1, ReleasedInv
<1> QED BY <1>4, <1>5, <1>6 DEF MembersAnswer

LEMMA RepairedInv == ASSUME ConversationInv, NEW j \in work, Repaired(j) PROVE ConversationInv'
<1>1. Sound(j) /\ Selects(j) /\ j.at = "repair"
  BY WorkFits DEF Repaired
<1>2. UNCHANGED <<serverVars, known, verified, trusted, prepared, preloads, cached>>
  BY DEF Repaired
<1>3. /\ verified' \subseteq trusted' /\ trusted \subseteq trusted' /\ trusted' \subseteq Rooms
      /\ j.room \in trusted'
  BY <1>1, <1>2 DEF Selects, ConversationInv, ScreenFits
<1>4. CASE LastSelection(j) /\ Released(j, work \ {j})
  <2>1. current = j.room
    BY <1>1, <1>4 DEF LastSelection, Selects
  <2> QED BY <1>2, <1>3, <1>4, <2>1, ReleasedInv
<1>5. CASE Leave(j) /\ UNCHANGED <<current, enabled, listVars>>
  <2>1. work' = work \ {j} /\ UNCHANGED <<current, enabled, shown>>
    BY <1>5 DEF Leave, listVars
  <2> QED BY <1>2, <1>3, <2>1, StayInv
<1> QED BY <1>4, <1>5 DEF Repaired

LEMMA VerificationFailsInv ==
  ASSUME ConversationInv, NEW j \in work, VerificationFails(j) PROVE ConversationInv'
<1>1. UNCHANGED <<serverVars, known, verified, trusted, prepared, preloads, cached>>
  BY DEF VerificationFails
<1>2. CASE Close(work \ {j})
  <2>1. work \ {j} \subseteq work
    OBVIOUS
  <2> QED BY <1>1, <1>2, <2>1, CloseInv
<1>3. CASE Leave(j) /\ UNCHANGED <<current, enabled, listVars>>
  <2>1. work' = work \ {j} /\ UNCHANGED <<current, enabled, shown>>
    BY <1>3 DEF Leave, listVars
  <2>2. verified' \subseteq trusted' /\ trusted \subseteq trusted' /\ trusted' \subseteq Rooms
    BY <1>1 DEF ConversationInv, ScreenFits
  <2> QED BY <1>1, <2>1, <2>2, StayInv
<1> QED BY <1>2, <1>3 DEF VerificationFails

-----------------------------------------------------------------------------
(* The server, the copies and the socket                                   *)

\* With the same messages, what a task carries stays of its room.
LEMMA SameMessages ==
  ASSUME UNCHANGED posted
  PROVE  /\ Stored' = Stored /\ Jobs' = Jobs /\ Copies' = Copies /\ Events' = Events
         /\ \A rows, r : InRoom(rows, r)' <=> InRoom(rows, r)
         /\ \A k : Sound(k)' <=> Sound(k)
<1>1. Stored' = Stored
  BY DEF Stored
<1>2. Copies' = Copies /\ Events' = Events
  BY <1>1 DEF Copies, Events
<1>3. Jobs' = Jobs
  BY <1>1, <1>2 DEF Jobs
<1>4. \A rows, r : InRoom(rows, r)' <=> InRoom(rows, r)
  BY <1>1 DEF InRoom
<1>5. \A k : Sound(k)' <=> Sound(k)
  BY <1>1, <1>3, <1>4 DEF Sound
<1> QED BY <1>1, <1>2, <1>3, <1>4, <1>5

\* A step of the server or of the preloading.
LEMMA SameScreen ==
  ASSUME ConversationInv, UNCHANGED <<posted, current, enabled, verified, trusted, shown>>,
         cached' \subseteq Stored
  PROVE  ScreenFits'
BY SameMessages DEF ConversationInv, ScreenFits, ComposerIsVerified, InRoom

LEMMA SameJobs ==
  ASSUME ConversationInv, UNCHANGED <<posted, current, work>>, trusted \subseteq trusted' PROVE JobsFit'
<1>1. \A k \in work : Sound(k) /\ Selects(k)
  BY WorkFits
<1>2. \A k \in work : Sound(k)'
  BY <1>1, SameMessages
<1>3. \A k \in work : Selects(k)'
  BY <1>1 DEF Selects
<1> QED BY <1>2, <1>3 DEF JobsFit

LEMMA PostInv == ASSUME ConversationInv, NEW r \in Rooms, Post(r) PROVE ConversationInv'
<1> DEFINE n == Len(posted) + 1
<1>1. posted \in Seq(Rooms) /\ posted' = Append(posted, r) /\ Stored = 1 .. Len(posted)
  BY DEF Post, ConversationInv, ServerFits, Stored
<1>2. /\ Stored' = Stored \cup {n} /\ n \notin Stored /\ posted' \in Seq(Rooms)
      /\ \A m \in Stored : posted'[m] = posted[m]
  BY <1>1 DEF Stored
<1> HIDE DEF n
<1>3. /\ stored' = stored \cup {n} /\ socket' = Append(socket, [type |-> "new_message", m |-> n])
      /\ UNCHANGED <<known, current, enabled, verified, trusted, shown, prepared, preloads, cached, work>>
  BY DEF Post, n, listVars
<1>4. ServerFits'
  <2>1. /\ stored \subseteq Stored /\ socket \in Seq(Events) /\ known = [came |-> known.came, went |-> known.went]
        /\ known.came \subseteq Stored /\ known.went \subseteq Stored \ stored
        /\ \A i \in DOMAIN socket : socket[i].type # "new_message" => socket[i].m \notin stored
    BY DEF ConversationInv, ServerFits
  <2>2. Events \subseteq Events'
    BY <1>2 DEF Events
  <2>3. [type |-> "new_message", m |-> n] \in Events'
    BY <1>2 DEF Events, EventTypes
  <2>4. \A i \in DOMAIN socket : socket[i] \in Events /\ socket[i].m \in Stored
    <3>1. \A i \in DOMAIN socket : socket[i] \in Events
      BY <2>1
    <3> QED BY <3>1 DEF Events
  <2>5. socket \in Seq(Events') /\ Len(socket) \in Nat /\ DOMAIN socket = 1 .. Len(socket)
    BY <2>1, <2>2
  <2>6. /\ socket' \in Seq(Events') /\ DOMAIN socket' = 1 .. Len(socket) + 1
        /\ \A i \in 1 .. Len(socket) : socket'[i] = socket[i]
        /\ socket'[Len(socket) + 1] = [type |-> "new_message", m |-> n]
    BY <1>3, <2>3, <2>5
  <2>7. \A i \in DOMAIN socket' : socket'[i].type # "new_message" => socket'[i].m \notin stored'
    <3> SUFFICES ASSUME NEW i \in DOMAIN socket', socket'[i].type # "new_message"
                 PROVE  socket'[i].m \notin stored'
      OBVIOUS
    <3>1. i # Len(socket) + 1
      <4>1. PICK e : e = [type |-> "new_message", m |-> n] /\ socket'[Len(socket) + 1] = e
        BY <2>6
      <4>2. e.type = "new_message"
        BY <4>1
      <4> QED BY <4>1, <4>2
    <3>2. i \in DOMAIN socket /\ socket'[i] = socket[i]
      BY <2>5, <2>6, <3>1
    <3> QED BY <1>2, <1>3, <2>1, <2>4, <3>2
  <2>8. stored' \subseteq Stored' /\ known'.went \subseteq Stored' \ stored' /\ known'.came \subseteq Stored'
    BY <1>2, <1>3, <2>1
  <2> QED BY <1>2, <1>3, <2>1, <2>6, <2>7, <2>8 DEF ServerFits
<1>5. Copies \subseteq Copies'
  BY <1>2 DEF Copies
<1>6. \A rows, x : InRoom(rows, x) => InRoom(rows, x)'
  BY <1>2 DEF InRoom
<1>7. \A rows, x : Current(x, rows) => Current(x, rows)'
  <2>1. known.came \subseteq Stored
    BY DEF ConversationInv, ServerFits
  <2>2. \A x : Of(x, known.came \cap stored)' = Of(x, known.came \cap stored)
    BY <1>2, <1>3, <2>1 DEF Of
  <2> QED BY <1>3, <2>2 DEF Current
<1>8. CopiesFit'
  <2>1. prepared' \in [Rooms -> Copies']
    BY <1>3, <1>5 DEF ConversationInv, CopiesFit
  <2>2. preloads' \subseteq [room : Rooms, answered : BOOLEAN, rows : SUBSET Stored', valid : BOOLEAN]
    BY <1>2, <1>3 DEF ConversationInv, CopiesFit
  <2>3. /\ \A x \in Rooms : /\ InRoom(prepared[x].rows, x)'
                            /\ prepared[x].found => Current(x, prepared[x].rows)'
        /\ \A p \in preloads : /\ InRoom(p.rows, p.room)'
                               /\ p.answered /\ p.valid => Current(p.room, p.rows)'
    BY <1>3, <1>6, <1>7 DEF ConversationInv, CopiesFit
  <2> QED BY <1>3, <2>1, <2>2, <2>3 DEF CopiesFit
<1>9. JobsFit'
  <2>1. Jobs \subseteq Jobs'
    BY <1>2, <1>5 DEF Jobs
  <2>2. ASSUME NEW k \in work PROVE Sound(k)' /\ Selects(k)'
    <3>1. Sound(k) /\ Selects(k)
      BY WorkFits
    <3>2. Sound(k)'
      BY <1>2, <1>6, <2>1, <3>1 DEF Sound
    <3>3. Selects(k)'
      BY <1>3, <3>1 DEF Selects
    <3> QED BY <3>2, <3>3
  <2> QED BY <1>3, <2>2 DEF JobsFit
<1>10. ScreenFits'
  <2>1. InRoom(shown.rows, current)'
    BY <1>3, <1>6 DEF ConversationInv, ScreenFits
  <2> QED BY <1>2, <1>3, <2>1 DEF ConversationInv, ScreenFits, ComposerIsVerified
<1> QED BY <1>4, <1>8, <1>9, <1>10 DEF ConversationInv

\* The copies, when neither what was told nor what exists becomes more for their rooms.
LEMMA SameCopies ==
  ASSUME ConversationInv, UNCHANGED <<posted, known, prepared, preloads>>, stored' \subseteq stored
  PROVE  CopiesFit'
<1>1. /\ Stored' = Stored /\ Copies' = Copies /\ \A rows, r : InRoom(rows, r)' <=> InRoom(rows, r)
  BY SameMessages
<1>2. \A rows, x : Current(x, rows) => Current(x, rows)'
  BY DEF Current, Of
<1>3. /\ prepared \in [Rooms -> Copies]
      /\ \A r \in Rooms : InRoom(prepared[r].rows, r) /\ (prepared[r].found => Current(r, prepared[r].rows))
      /\ preloads \subseteq [room : Rooms, answered : BOOLEAN, rows : SUBSET Stored, valid : BOOLEAN]
      /\ \A p \in preloads : InRoom(p.rows, p.room) /\ (p.answered /\ p.valid => Current(p.room, p.rows))
  BY DEF ConversationInv, CopiesFit
<1>4. \A r \in Rooms : InRoom(prepared[r].rows, r)' /\ (prepared[r].found => Current(r, prepared[r].rows)')
  BY <1>1, <1>2, <1>3
<1>5. \A p \in preloads : InRoom(p.rows, p.room)' /\ (p.answered /\ p.valid => Current(p.room, p.rows)')
  BY <1>1, <1>2, <1>3
<1> QED BY <1>1, <1>3, <1>4, <1>5 DEF CopiesFit

LEMMA WithdrawInv == ASSUME ConversationInv, NEW m \in stored, Withdraw(m) PROVE ConversationInv'
<1>1. PICK type \in {"message_deleted", "conversation_updated"} :
        socket' = Append(socket, [type |-> type, m |-> m])
  BY DEF Withdraw
<1>2. /\ stored' = stored \ {m}
      /\ UNCHANGED <<posted, known, current, enabled, verified, trusted, shown, prepared, preloads, cached, work>>
  BY DEF Withdraw, listVars
<1>3. /\ stored \subseteq Stored /\ socket \in Seq(Events) /\ known = [came |-> known.came, went |-> known.went]
      /\ known.came \subseteq Stored /\ known.went \subseteq Stored \ stored /\ posted \in Seq(Rooms)
      /\ \A i \in DOMAIN socket : socket[i].type # "new_message" => socket[i].m \notin stored
  BY DEF ConversationInv, ServerFits
<1>4. Stored' = Stored /\ Events' = Events
  BY <1>2, SameMessages
<1>5. ServerFits'
  <2>1. [type |-> type, m |-> m] \in Events
    BY <1>3 DEF Events, EventTypes
  <2>2. /\ socket' \in Seq(Events) /\ DOMAIN socket' = 1 .. Len(socket) + 1
        /\ \A i \in 1 .. Len(socket) : socket'[i] = socket[i]
        /\ socket'[Len(socket) + 1] = [type |-> type, m |-> m]
        /\ Len(socket) \in Nat /\ DOMAIN socket = 1 .. Len(socket)
    BY <1>1, <1>3, <2>1
  <2>3. ASSUME NEW i \in DOMAIN socket', socket'[i].type # "new_message" PROVE socket'[i].m \notin stored'
    <3>1. CASE i = Len(socket) + 1
      <4>1. PICK e : e = [type |-> type, m |-> m] /\ socket'[Len(socket) + 1] = e
        BY <2>2
      <4>2. e.m = m
        BY <4>1
      <4> QED BY <1>2, <3>1, <4>1, <4>2
    <3>2. CASE i # Len(socket) + 1
      <4>1. i \in DOMAIN socket /\ socket'[i] = socket[i]
        BY <2>2, <3>2
      <4> QED BY <1>2, <1>3, <2>3, <4>1
    <3> QED BY <3>1, <3>2
  <2> QED BY <1>2, <1>3, <1>4, <2>2, <2>3 DEF ServerFits
<1>6. CopiesFit'
  <2>1. stored' \subseteq stored
    BY <1>2
  <2> QED BY <1>2, <2>1, SameCopies
<1>7. JobsFit'
  BY <1>2, SameJobs
<1>8. ScreenFits'
  BY <1>2, CachedFit, SameScreen
<1> QED BY <1>5, <1>6, <1>7, <1>8 DEF ConversationInv

\* The server and what was told of it.
LEMMA SameServer == ASSUME ConversationInv, UNCHANGED <<serverVars, known>> PROVE ServerFits'
<1>1. Stored' = Stored /\ Events' = Events
  BY SameMessages DEF serverVars
<1> QED BY <1>1 DEF ConversationInv, ServerFits, serverVars

LEMMA PreloadInv ==
  ASSUME PageAssumption, ConversationInv, NEW r \in Lively, Preload(r) PROVE ConversationInv'
<1> DEFINE p == [room |-> r, answered |-> FALSE, rows |-> {}, valid |-> TRUE]
<1>1. preloads' = preloads \cup {p} /\ r \in Rooms
  BY DEF Preload, PageAssumption
<1>2. UNCHANGED <<serverVars, known, current, enabled, verified, trusted, shown, prepared, cached, work>>
  BY DEF Preload, listVars
<1>3. CopiesFit'
  <2>1. /\ p \in [room : Rooms, answered : BOOLEAN, rows : SUBSET Stored, valid : BOOLEAN]
        /\ InRoom(p.rows, p.room) /\ ~p.answered
    BY <1>1 DEF InRoom
  <2> HIDE DEF p
  <2> QED BY <1>1, <1>2, <2>1, SameMessages DEF ConversationInv, CopiesFit, Current, Of, serverVars
<1>4. ServerFits'
  BY <1>2, SameServer
<1>5. JobsFit'
  BY <1>2, SameJobs DEF serverVars
<1>6. ScreenFits'
  BY <1>2, CachedFit, SameScreen DEF serverVars
<1> QED BY <1>3, <1>4, <1>5, <1>6 DEF ConversationInv

Preloads == [room : Rooms, answered : BOOLEAN, rows : SUBSET Stored, valid : BOOLEAN]

\* What the server answers misses nothing the page was told of.
LEMMA AnswerIsCurrent == ASSUME ConversationInv, NEW r PROVE Current(r, Of(r, stored))
BY DEF ConversationInv, ServerFits, Current, Of

LEMMA PreloadAnswerInv ==
  ASSUME ConversationInv, NEW p \in preloads, PreloadAnswer(p) PROVE ConversationInv'
<1> DEFINE rows == Of(p.room, stored)
           q == [p EXCEPT !.answered = TRUE, !.rows = rows]
<1>1. /\ UNCHANGED <<serverVars, known, current, enabled, verified, trusted, shown, prepared, work>>
      /\ preloads' = (preloads \ {p}) \cup {q} /\ cached' = cached \cup rows
  BY DEF PreloadAnswer, listVars
<1>2. InRoom(rows, p.room) /\ cached \subseteq Stored /\ Current(p.room, rows)
  BY CachedFit, AnswerIsCurrent
<1>3. p \in Preloads /\ preloads \subseteq Preloads
  BY DEF ConversationInv, CopiesFit, Preloads
<1> HIDE DEF rows
<1>4. q \in Preloads /\ q.room = p.room /\ q.rows = rows
  BY <1>2, <1>3 DEF Preloads, InRoom
<1> HIDE DEF q
<1>5. CopiesFit'
  <2>1. ASSUME NEW z \in preloads' PROVE InRoom(z.rows, z.room) /\ (z.answered /\ z.valid => Current(z.room, z.rows))
    <3>1. CASE z = q
      BY <1>2, <1>4, <3>1
    <3>2. CASE z \in preloads
      BY <3>2 DEF ConversationInv, CopiesFit
    <3> QED BY <1>1, <3>1, <3>2
  <2>2. preloads' \subseteq Preloads
    BY <1>1, <1>3, <1>4
  <2>3. /\ prepared \in [Rooms -> Copies]
        /\ \A r \in Rooms : InRoom(prepared[r].rows, r) /\ (prepared[r].found => Current(r, prepared[r].rows))
    BY DEF ConversationInv, CopiesFit
  <2>4. Stored' = Stored /\ Copies' = Copies /\ posted' = posted
    BY <1>1, SameMessages DEF serverVars
  <2>5. \A a, b : (InRoom(a, b)' <=> InRoom(a, b)) /\ (Current(a, b)' <=> Current(a, b))
    BY <1>1, <2>4 DEF InRoom, Current, Of, serverVars
  <2> QED BY <1>1, <2>1, <2>2, <2>3, <2>4, <2>5 DEF CopiesFit, Preloads
<1>6. ServerFits'
  BY <1>1, SameServer
<1>7. JobsFit'
  BY <1>1, SameJobs DEF serverVars
<1>8. ScreenFits'
  <2>1. cached' \subseteq Stored
    BY <1>1, <1>2 DEF InRoom
  <2> QED BY <1>1, <2>1, SameScreen DEF serverVars
<1> QED BY <1>5, <1>6, <1>7, <1>8 DEF ConversationInv

LEMMA PreloadSettlesInv ==
  ASSUME ConversationInv, NEW p \in preloads, PreloadSettles(p) PROVE ConversationInv'
<1>1. /\ UNCHANGED <<serverVars, known, current, enabled, verified, trusted, shown, cached>>
      /\ preloads' = preloads \ {p}
  BY DEF PreloadSettles, listVars
<1>2. /\ prepared \in [Rooms -> Copies]
      /\ \A r \in Rooms : InRoom(prepared[r].rows, r) /\ (prepared[r].found => Current(r, prepared[r].rows))
      /\ preloads \subseteq Preloads
      /\ \A z \in preloads : InRoom(z.rows, z.room) /\ (z.answered /\ z.valid => Current(z.room, z.rows))
  BY DEF ConversationInv, CopiesFit, Preloads
<1>3. p \in Preloads /\ InRoom(p.rows, p.room) /\ p.room \in Rooms
  BY <1>2 DEF Preloads
<1>4. \/ prepared' = prepared
      \/ p.answered /\ p.valid /\ prepared' = [prepared EXCEPT ![p.room] = Found(p.rows)]
  BY DEF PreloadSettles, SameVersion
<1>5. /\ prepared' \in [Rooms -> Copies]
      /\ \A r \in Rooms : InRoom(prepared'[r].rows, r) /\ (prepared'[r].found => Current(r, prepared'[r].rows))
  <2>1. Found(p.rows) \in Copies /\ Found(p.rows).rows = p.rows
    BY <1>3 DEF Found, Copies, InRoom
  <2>2. CASE p.answered /\ p.valid /\ prepared' = [prepared EXCEPT ![p.room] = Found(p.rows)]
    <3>1. Current(p.room, p.rows)
      BY <1>2, <2>2
    <3>2. prepared' \in [Rooms -> Copies]
      BY <1>2, <1>3, <2>1, <2>2
    <3>3. \A r \in Rooms : prepared'[r] = IF r = p.room THEN Found(p.rows) ELSE prepared[r]
      BY <1>2, <2>2
    <3> QED BY <1>2, <1>3, <2>1, <3>1, <3>2, <3>3
  <2>3. CASE prepared' = prepared
    BY <1>2, <2>3
  <2> QED BY <1>4, <2>2, <2>3
<1>6. CopiesFit'
  <2>1. Stored' = Stored /\ Copies' = Copies /\ posted' = posted
    BY <1>1, SameMessages DEF serverVars
  <2>2. \A a, b : (InRoom(a, b)' <=> InRoom(a, b)) /\ (Current(a, b)' <=> Current(a, b))
    BY <1>1, <2>1 DEF InRoom, Current, Of, serverVars
  <2>3. \A r \in Rooms : InRoom(prepared[r].rows, r)' /\ (prepared[r].found => Current(r, prepared[r].rows))'
    BY <1>1, <1>5, <2>1 DEF InRoom, Current, Of, serverVars
  <2>4. \A z \in preloads' : InRoom(z.rows, z.room)' /\ (z.answered /\ z.valid => Current(z.room, z.rows)')
    BY <1>1, <1>2, <2>2
  <2> QED BY <1>1, <1>2, <1>5, <2>1, <2>3, <2>4 DEF CopiesFit, Preloads
<1>7. \A k \in work' : Sound(k) /\ Selects(k)
  <2> SUFFICES ASSUME NEW k \in work' PROVE Sound(k) /\ Selects(k)
    OBVIOUS
  <2>1. PICK j \in work : \/ k = j
                          \/ j.room = p.room /\ k = [j EXCEPT !.at = "joined", !.rows = p.rows]
                          \/ k = [j EXCEPT !.at = "fetch"]
    <3> DEFINE met(j) == j.at = "join" /\ j.room = p.room
    <3>1. \/ work' = {IF met(j) THEN [j EXCEPT !.at = "joined", !.rows = p.rows] ELSE j : j \in work}
          \/ work' = {IF met(j) THEN [j EXCEPT !.at = "fetch"] ELSE j : j \in work}
      BY DEF PreloadSettles
    <3>2. CASE work' = {IF met(j) THEN [j EXCEPT !.at = "joined", !.rows = p.rows] ELSE j : j \in work}
      <4>1. PICK j \in work : k = IF met(j) THEN [j EXCEPT !.at = "joined", !.rows = p.rows] ELSE j
        BY <3>2
      <4> QED BY <4>1
    <3>3. CASE work' = {IF met(j) THEN [j EXCEPT !.at = "fetch"] ELSE j : j \in work}
      <4>1. PICK j \in work : k = IF met(j) THEN [j EXCEPT !.at = "fetch"] ELSE j
        BY <3>3
      <4> QED BY <4>1
    <3> QED BY <3>1, <3>2, <3>3
  <2>2. Sound(j) /\ Selects(j)
    BY WorkFits
  <2>3. CASE j.room = p.room /\ k = [j EXCEPT !.at = "joined", !.rows = p.rows]
    <3>1. Sound(k) /\ k.at \in Loading
      BY <1>3, <2>2, <2>3 DEF Sound, Jobs, Places, InRoom, Loading
    <3> QED BY <3>1, Loads
  <2>4. CASE k = [j EXCEPT !.at = "fetch"]
    <3>1. Sound(k) /\ k.at \in Loading
      BY <2>2, <2>4 DEF Sound, Jobs, Places, Loading
    <3> QED BY <3>1, Loads
  <2> QED BY <2>1, <2>2, <2>3, <2>4
<1>8. JobsFit'
  <2>1. \A k \in work' : Sound(k)'
    BY <1>1, <1>7, SameMessages DEF serverVars
  <2>2. \A k \in work' : Selects(k)'
    BY <1>1, <1>7 DEF Selects
  <2> QED BY <2>1, <2>2 DEF JobsFit
<1>9. ServerFits'
  BY <1>1, SameServer
<1>10. ScreenFits'
  BY <1>1, CachedFit, SameScreen DEF serverVars
<1> QED BY <1>6, <1>8, <1>9, <1>10 DEF ConversationInv

\* The copies of the other rooms, when a message of one room is heard of.
LEMMA InvalidateFits ==
  ASSUME ConversationInv, NEW r \in Rooms, Invalidate(r), UNCHANGED <<posted, stored>>,
         known'.came \subseteq Stored, known'.went \subseteq Stored,
         \A m \in (known'.came \ known.came) \cup (known'.went \ known.went) : posted[m] = r
  PROVE  CopiesFit'
<1>1. /\ prepared \in [Rooms -> Copies]
      /\ \A x \in Rooms : InRoom(prepared[x].rows, x) /\ (prepared[x].found => Current(x, prepared[x].rows))
      /\ preloads \subseteq Preloads
      /\ \A z \in preloads : InRoom(z.rows, z.room) /\ (z.answered /\ z.valid => Current(z.room, z.rows))
  BY DEF ConversationInv, CopiesFit, Preloads
<1>2. /\ Stored' = Stored /\ Copies' = Copies /\ \A rows, x : InRoom(rows, x)' <=> InRoom(rows, x)
  BY SameMessages
<1>3. ASSUME NEW x, x # r, NEW rows, InRoom(rows, x), Current(x, rows) PROVE Current(x, rows)'
  BY <1>3 DEF Current, Of, InRoom
<1>4. prepared' = [prepared EXCEPT ![r] = Absent] /\ Absent \in Copies /\ Absent.rows = {} /\ ~Absent.found
  BY DEF Invalidate, Absent, Copies
<1> HIDE DEF Absent
<1>5. prepared' \in [Rooms -> Copies] /\ \A x \in Rooms : prepared'[x] = IF x = r THEN Absent ELSE prepared[x]
  BY <1>1, <1>4
<1>6. ASSUME NEW x \in Rooms
      PROVE  InRoom(prepared[x].rows, x)' /\ (prepared[x].found => Current(x, prepared[x].rows))'
  <2>1. CASE x = r
    <3>1. prepared'[x] = Absent
      BY <1>5, <2>1
    <3>2. ~prepared'[x].found /\ prepared'[x].rows = {}
      BY <1>4, <3>1
    <3> QED BY <3>2 DEF InRoom
  <2>2. CASE x # r
    <3>1. PICK c : c = prepared[x] /\ prepared'[x] = c
      BY <1>5, <2>2
    <3>2. InRoom(c.rows, x)' /\ (c.found => Current(x, c.rows)')
      BY <1>1, <1>2, <1>3, <2>2, <3>1
    <3> QED BY <3>1, <3>2 DEF InRoom, Current
  <2> QED BY <2>1, <2>2
<1>7. ASSUME NEW z \in preloads'
      PROVE  z \in Preloads /\ InRoom(z.rows, z.room)' /\ (z.answered /\ z.valid => Current(z.room, z.rows)')
  <2>1. PICK q \in preloads : z = IF q.room = r THEN [q EXCEPT !.valid = FALSE] ELSE q
    BY DEF Invalidate
  <2>2. q \in Preloads /\ InRoom(q.rows, q.room)
    BY <1>1
  <2>3. CASE q.room = r
    <3>1. z \in Preloads /\ z.rows = q.rows /\ z.room = q.room /\ ~z.valid
      BY <2>1, <2>2, <2>3 DEF Preloads
    <3> QED BY <1>2, <2>2, <3>1
  <2>4. CASE q.room # r
    <3>1. z = q /\ z.room # r
      BY <2>1, <2>4
    <3> QED BY <1>1, <1>2, <1>3, <2>2, <3>1
  <2> QED BY <2>3, <2>4
<1>8. prepared' \in [Rooms -> Copies']
  BY <1>2, <1>5
<1>9. preloads' \subseteq Preloads'
  BY <1>2, <1>7 DEF Preloads
<1> QED BY <1>6, <1>7, <1>8, <1>9 DEF CopiesFit, Preloads

\* What a task begins with, once a message is heard of.
LEMMA AnnouncedIs ==
  ASSUME NEW m \in Stored, posted[m] \in Rooms
  PROVE  LET j == [Job("announced", posted[m]) EXCEPT !.m = m] IN Sound(j) /\ j.at = "announced"
<1> DEFINE j == [Job("announced", posted[m]) EXCEPT !.m = m]
<1>1. j \in Jobs /\ j.at = "announced" /\ j.room = posted[m] /\ j.m = m /\ j.rows = {} /\ j.fallback.rows = {}
  BY DEF Job, Jobs, Copies, Absent, Places
<1> HIDE DEF j
<1>2. Sound(j) /\ j.at = "announced"
  BY <1>1 DEF Sound, InRoom
<1> QED BY <1>2 DEF j

LEMMA HearEventInv == ASSUME ConversationInv, HearEvent PROVE ConversationInv'
<1> DEFINE e == Head(socket)
<1>1. /\ socket # <<>> /\ socket' = Tail(socket)
      /\ UNCHANGED <<posted, stored, current, enabled, trusted, veiled>>
      /\ \/ e.type = "new_message" /\ HearNew(e.m)
         \/ e.type = "message_deleted" /\ HearDeleted(e.m)
         \/ e.type = "conversation_updated" /\ HearUpdated(e.m)
  BY DEF HearEvent
<1>2. /\ stored \subseteq Stored /\ socket \in Seq(Events) /\ known = [came |-> known.came, went |-> known.went]
      /\ known.came \subseteq Stored /\ known.went \subseteq Stored \ stored /\ posted \in Seq(Rooms)
      /\ \A i \in DOMAIN socket : socket[i].type # "new_message" => socket[i].m \notin stored
  BY DEF ConversationInv, ServerFits
<1>3. e = socket[1] /\ e \in Events /\ 1 \in DOMAIN socket
  BY <1>1, <1>2
<1> HIDE DEF e
<1>4. e.m \in Stored /\ (e.type # "new_message" => e.m \notin stored)
  BY <1>2, <1>3 DEF Events
<1>5. posted[e.m] \in Rooms
  BY <1>2, <1>4 DEF Stored
<1>6. PICK m : m = e.m
  OBVIOUS
<1>7. m \in Stored /\ posted[m] \in Rooms
  BY <1>4, <1>5, <1>6
<1>8. /\ Stored' = Stored /\ Events' = Events /\ posted' = posted
      /\ \A k : Sound(k)' <=> Sound(k)
      /\ \A rows, r : InRoom(rows, r)' <=> InRoom(rows, r)
  BY <1>1, SameMessages
<1>9. \/ known' = [came |-> known.came \cup {m}, went |-> known.went]
      \/ m \notin stored /\ known' = [came |-> known.came, went |-> known.went \cup {m}]
  <2>1. CASE e.type = "new_message" /\ HearNew(e.m)
    BY <1>2, <1>6, <2>1 DEF HearNew
  <2>2. CASE e.type = "message_deleted" /\ HearDeleted(e.m)
    BY <1>2, <1>4, <1>6, <2>2 DEF HearDeleted
  <2>3. CASE e.type = "conversation_updated" /\ HearUpdated(e.m)
    BY <1>2, <1>4, <1>6, <2>3 DEF HearUpdated
  <2> QED BY <1>1, <2>1, <2>2, <2>3
<1>10. ServerFits'
  <2>1. socket' \in Seq(Events) /\ DOMAIN socket' = 1 .. Len(socket) - 1
    BY <1>1, <1>2
  <2>2. Len(socket) \in Nat \ {0} /\ DOMAIN socket = 1 .. Len(socket)
    BY <1>1, <1>2
  <2>3. \A i \in 1 .. Len(socket) - 1 : socket'[i] = socket[i + 1] /\ i + 1 \in DOMAIN socket
    BY <1>1, <1>2, <2>2
  <2>4. \A i \in DOMAIN socket' : socket'[i].type # "new_message" => socket'[i].m \notin stored'
    BY <1>1, <1>2, <2>1, <2>3
  <2>5. /\ known' = [came |-> known'.came, went |-> known'.went]
        /\ known'.came \subseteq Stored /\ known'.went \subseteq Stored \ stored
    BY <1>2, <1>7, <1>9
  <2> QED BY <1>1, <1>2, <1>8, <2>1, <2>4, <2>5 DEF ServerFits
<1>11. CopiesFit'
  <2>1. Invalidate(posted[m])
    BY <1>1, <1>6 DEF HearNew, HearDeleted, HearUpdated
  <2>2. /\ known'.came \subseteq Stored /\ known'.went \subseteq Stored
        /\ \A x \in (known'.came \ known.came) \cup (known'.went \ known.went) : posted[x] = posted[m]
    BY <1>2, <1>7, <1>9
  <2> QED BY <1>1, <1>7, <2>1, <2>2, InvalidateFits
<1>12. JobsFit'
  <2>1. \A k \in work' : Sound(k) /\ Selects(k)
    <3>1. \A k \in work : Sound(k) /\ Selects(k)
      BY WorkFits
    <3>2. CASE HearNew(m)
      <4> DEFINE j == [Job("announced", posted[m]) EXCEPT !.m = m]
      <4>1. Sound(j) /\ j.at = "announced" /\ work' = work \cup {j}
        BY <1>7, <3>2, AnnouncedIs DEF HearNew
      <4> HIDE DEF j
      <4>2. Selects(j)
        BY <4>1 DEF Selects
      <4> QED BY <3>1, <4>1, <4>2
    <3>3. CASE HearDeleted(m)
      BY <3>1, <3>3 DEF HearDeleted
    <3>4. CASE HearUpdated(m)
      <4>1. CASE current = posted[m]
        <5> DEFINE j == Job("reload", current)
        <5>1. work' = work \cup {j}
          BY <3>4, <4>1 DEF HearUpdated
        <5>2. current \in Rooms
          BY <1>7, <4>1
        <5>3. Sound(j) /\ j.at = "reload"
          BY <5>2, JobIs DEF Places
        <5> HIDE DEF j
        <5>4. Selects(j)
          BY <5>3 DEF Selects
        <5> QED BY <3>1, <5>1, <5>3, <5>4
      <4>2. CASE current # posted[m]
        BY <3>1, <3>4, <4>2 DEF HearUpdated
      <4> QED BY <4>1, <4>2
    <3> QED BY <1>1, <1>6, <3>2, <3>3, <3>4
  <2>2. \A k \in work' : Selects(k)'
    BY <1>1, <2>1 DEF Selects
  <2> QED BY <1>8, <2>1, <2>2 DEF JobsFit
<1>13. ScreenFits'
  <2>1. /\ current \in Rooms \cup {Nowhere} /\ shown = [room |-> shown.room, rows |-> shown.rows]
        /\ shown.room \in Rooms \cup {Nowhere} /\ InRoom(shown.rows, current)
        /\ verified \subseteq trusted /\ trusted \subseteq Rooms /\ cached \subseteq Stored /\ ComposerIsVerified
    BY DEF ConversationInv, ScreenFits
  <2>2. /\ \/ shown' = shown
           \/ shown' = [room |-> shown.room, rows |-> shown.rows \ {m}]
        /\ verified' \subseteq verified
        /\ cached' \subseteq Stored
    <3>1. CASE HearNew(m)
      BY <1>7, <2>1, <3>1 DEF HearNew
    <3>2. CASE HearDeleted(m)
      BY <2>1, <3>2 DEF HearDeleted
    <3>3. CASE HearUpdated(m)
      BY <2>1, <3>3 DEF HearUpdated
    <3> QED BY <1>1, <1>6, <3>1, <3>2, <3>3
  <2>3. /\ shown' = [room |-> shown'.room, rows |-> shown'.rows] /\ shown'.room = shown.room
        /\ shown'.rows \subseteq shown.rows
    BY <2>1, <2>2
  <2>4. InRoom(shown.rows, current)'
    BY <1>1, <1>8, <2>1, <2>3 DEF InRoom
  <2>5. ComposerIsVerified'
    BY <1>1, <2>1 DEF ComposerIsVerified
  <2> QED BY <1>1, <1>8, <2>1, <2>2, <2>3, <2>4, <2>5 DEF ScreenFits
<1> QED BY <1>10, <1>11, <1>12, <1>13 DEF ConversationInv

LEMMA AnnouncedInv == ASSUME ConversationInv, NEW j \in work, Announced(j) PROVE ConversationInv'
<1>1. Sound(j) /\ j.at = "announced" /\ j.m \in Stored /\ j.room \in Rooms /\ posted[j.m] = j.room
  BY WorkFits DEF Announced, Sound, Jobs
<1>2. UNCHANGED <<serverVars, known, current, enabled, shown>>
  BY DEF Announced, listVars
<1>3. verified \subseteq trusted /\ trusted \subseteq Rooms /\ cached \subseteq Stored
  BY DEF ConversationInv, ScreenFits
<1>4. verified' \subseteq trusted' /\ trusted \subseteq trusted' /\ trusted' \subseteq Rooms
  BY <1>3 DEF Announced
<1>5. CASE Leave(j) /\ UNCHANGED <<prepared, preloads, cached>>
  <2>1. work' = work \ {j}
    BY <1>5 DEF Leave
  <2> QED BY <1>2, <1>4, <1>5, <2>1, StayInv
<1>6. CASE /\ Invalidate(j.room) /\ cached' = cached \cup {j.m}
           /\ Leave(j) \/ Become(j, [j EXCEPT !.at = "row"])
  <2> DEFINE next == [j EXCEPT !.at = "row"]
  <2>1. Sound(next) /\ next.at = "row"
    BY <1>1 DEF Sound, Jobs, Places
  <2>2. \A k \in work' : k \in work \/ k = next
    BY <1>6 DEF Leave, Become
  <2> HIDE DEF next
  <2>3. Selects(next)'
    BY <2>1 DEF Selects
  <2>4. \A k \in work' : Sound(k) /\ Selects(k)'
    BY <1>2, <1>4, <2>1, <2>2, <2>3, OthersSelect
  <2>5. JobsFit'
    BY <1>2, <2>4, SameMessages DEF JobsFit, serverVars
  <2>6. CopiesFit'
    <3>1. known.came \subseteq Stored /\ known.went \subseteq Stored /\ UNCHANGED <<posted, stored, known>>
      BY <1>2 DEF ConversationInv, ServerFits, serverVars
    <3> QED BY <1>1, <1>6, <3>1, InvalidateFits
  <2>7. ServerFits'
    BY <1>2, SameServer
  <2>8. ScreenFits'
    <3>1. cached' \subseteq Stored
      BY <1>1, <1>3, <1>6
    <3>2. Stored' = Stored /\ posted' = posted
      BY <1>2, SameMessages DEF serverVars
    <3> QED BY <1>2, <1>4, <3>1, <3>2 DEF ConversationInv, ScreenFits, InRoom, ComposerIsVerified
  <2> QED BY <2>5, <2>6, <2>7, <2>8 DEF ConversationInv
<1> QED BY <1>5, <1>6 DEF Announced

-----------------------------------------------------------------------------

\* No step of the page disturbs it.
LEMMA ConversationNextInv ==
  ASSUME PageAssumption, ConversationInv, [ConversationNext]_conversationVars PROVE ConversationInv'
<1>1. CASE UNCHANGED conversationVars
  <2>1. ServerFits'
    BY <1>1, SameServer DEF conversationVars
  <2>2. CopiesFit'
    <3>1. stored' \subseteq stored /\ UNCHANGED <<posted, known, prepared, preloads>>
      BY <1>1 DEF conversationVars, serverVars
    <3> QED BY <3>1, SameCopies
  <2>3. JobsFit'
    BY <1>1, SameJobs DEF conversationVars, serverVars
  <2>4. ScreenFits'
    BY <1>1, CachedFit, SameScreen DEF conversationVars, serverVars, listVars
  <2> QED BY <2>1, <2>2, <2>3, <2>4 DEF ConversationInv
<1>2. ASSUME NEW r \in Lively, Post(r) \/ Preload(r) PROVE ConversationInv'
  <2>1. r \in Rooms
    BY DEF PageAssumption
  <2> QED BY <1>2, <2>1, PostInv, PreloadInv
<1>3. ASSUME NEW r \in Rooms, Select(r) PROVE ConversationInv'
  BY <1>3, SelectInv
<1>4. ASSUME NEW m \in stored, Withdraw(m) PROVE ConversationInv'
  BY <1>4, WithdrawInv
<1>5. ASSUME NEW p \in preloads, PreloadAnswer(p) \/ PreloadSettles(p) PROVE ConversationInv'
  BY <1>5, PreloadAnswerInv, PreloadSettlesInv
<1>6. ASSUME NEW j \in work, Resumes(j) PROVE ConversationInv'
  BY <1>6, CacheReadInv, JoinedInv, AnswerInv, ArriveInv, CommitInv, PaintInv, RequestFailsInv,
     MembersAnswerInv, RepairedInv, VerificationFailsInv, ReloadInv, AnnouncedInv, RowInv DEF Resumes
<1>7. CASE UserCloses
  <2>1. /\ Close(work) /\ work \subseteq work
        /\ UNCHANGED <<serverVars, known, verified, trusted, prepared, preloads, cached>>
    BY <1>7 DEF UserCloses
  <2> QED BY <2>1, CloseInv
<1>8. CASE HearEvent
  BY <1>8, HearEventInv
<1> QED BY <1>1, <1>2, <1>3, <1>4, <1>5, <1>6, <1>7, <1>8 DEF ConversationNext

\* What the page promises of it.
LEMMA ConversationFollows ==
  ASSUME ConversationInv
  PROVE  ConversationTypeOK /\ RowsAreOfTheSelection /\ CopiesAreCurrent /\ ComposerIsVerified
<1>1. ConversationTypeOK
  BY WorkFits DEF ConversationInv, ServerFits, ScreenFits, ConversationTypeOK, Sound, Jobs, InRoom
<1>2. RowsAreOfTheSelection /\ ComposerIsVerified
  BY DEF ConversationInv, ScreenFits, RowsAreOfTheSelection, InRoom
<1>3. CopiesAreCurrent
  BY DEF ConversationInv, CopiesFit, CopiesAreCurrent, Current
<1> QED BY <1>1, <1>2, <1>3

LEMMA ConversationInvariant == ASSUME PageAssumption PROVE ConversationSpec => []ConversationInv
<1>1. ConversationInit => ConversationInv
  BY ConversationInitInv
<1>2. ConversationInv /\ [ConversationNext]_conversationVars => ConversationInv'
  BY ConversationNextInv
<1> QED BY <1>1, <1>2, PTL DEF ConversationSpec

-----------------------------------------------------------------------------
(* The decrypted files of a page                                           *)

FetchesOf == [file : Entries, began : Nat, id : 1..MaxFetches]

CacheFits ==
  /\ generation \in Nat /\ created \in Nat
  /\ entry \in [Entries -> Nat] /\ shared \in [Entries -> Nat]
  /\ fetches \subseteq FetchesOf /\ IsFiniteSet(fetches)
  /\ \A l \in fetches : l.began <= generation

FetchesAreNumbered == \A l \in fetches, m \in fetches : l.id = m.id => l = m

\* What a load of this conversation brings replaces no URL, and later requests join it until
\* its file is deleted here.
CurrentFetches ==
  \A l \in fetches : SameGeneration(l) =>
    /\ entry[l.file] = NoURL
    /\ l.file \in removed \/ shared[l.file] = l.id
    /\ \A m \in fetches : SameGeneration(m) /\ m.file = l.file => m = l

\* A thumbnail that is cropped is one the cache holds, or is marked.
CropsAreHeld == \A u \in crops : u # NoURL /\ (u \in revoked \/ \E f \in Thumbs : entry[f] = u)

CacheInv == CacheFits /\ FetchesAreNumbered /\ CurrentFetches /\ CropsAreHeld /\ NoFileIsLeftBehind

\* URLs are named by the number of those created before, each is of one file, and what is drawn
\* of a thumbnail is under its own URL or under one that is of no file.
UrlsAreMade ==
  /\ entry \in [Entries -> 0..created] /\ alive \subseteq 1..created
  /\ crops \subseteq 1..created /\ revoked \subseteq 1..created
  /\ \A q \in display : q[1] \in 1..created /\ q[2] \in 1..created
UrlsAreOfOne ==
  /\ \A f \in Entries, g \in Entries : entry[f] = entry[g] /\ entry[f] # NoURL => f = g
  /\ \A q \in display : q[2] = q[1] \/ q[2] \notin Held
HeldAreAlive == UrlsAreMade /\ UrlsAreOfOne /\ Held \subseteq alive

\* The page starts with nothing.
LEMMA CacheInitInv == ASSUME CacheBounds PROVE CacheInit => CacheInv
  BY FS_EmptySet DEF CacheInit, CacheInv, CacheFits, FetchesAreNumbered, CurrentFetches, CropsAreHeld,
                     NoFileIsLeftBehind, NoURL

\* There is a number left while there are fewer loads than numbers.
LEMMA NumbersAreLeft ==
  ASSUME CacheBounds, CacheFits, Cardinality(fetches) + created < MaxFetches
  PROVE  \E i \in 1..MaxFetches : \A l \in fetches : l.id # i
<1> DEFINE ids == {l.id : l \in fetches}
<1>1. IsFiniteSet(ids) /\ Cardinality(ids) <= Cardinality(fetches)
  <2> DEFINE f == [l \in fetches |-> l.id]
  <2>1. IsFiniteSet(fetches)
    BY DEF CacheFits
  <2>2. f \in Surjection(fetches, ids)
    BY DEF Surjection
  <2> HIDE DEF f, ids
  <2>3. QED BY <2>1, <2>2, FS_Surjection
<1>2. IsFiniteSet(1..MaxFetches) /\ Cardinality(1..MaxFetches) = MaxFetches /\ MaxFetches \in Nat
  BY FS_Interval DEF CacheBounds
<1>3. Cardinality(fetches) \in Nat /\ Cardinality(ids) \in Nat /\ created \in Nat
  BY <1>1, FS_CardinalityType DEF CacheFits
<1>4. ~(1..MaxFetches \subseteq ids)
  <2>1. ASSUME 1..MaxFetches \subseteq ids PROVE Cardinality(1..MaxFetches) <= Cardinality(ids)
    BY <1>1, <2>1, FS_Subset
  <2>2. QED BY <1>1, <1>2, <1>3, <2>1
<1>5. QED BY <1>4

\* A request for a file starts the only load of it.
LEMMA AskFileInv ==
  ASSUME CacheBounds, CacheInv, NEW f \in Entries, AskFile(f) PROVE CacheInv'
<1> USE DEF CacheInv, CacheFits
<1> DEFINE id == CHOOSE i \in 1..MaxFetches : \A l \in fetches : l.id # i
           a == [file |-> f, began |-> generation, id |-> id]
<1>1. id \in 1..MaxFetches /\ \A l \in fetches : l.id # id
  BY NumbersAreLeft DEF AskFile
<1>2. /\ f \notin removed /\ entry[f] = NoURL /\ shared[f] = 0
      /\ fetches' = fetches \cup {a} /\ shared' = [shared EXCEPT ![f] = id]
      /\ UNCHANGED <<generation, entry, display, crops, revoked, alive, created, removed>>
  BY DEF AskFile
<1> HIDE DEF id
<1>3. a \in FetchesOf /\ a.id = id /\ a.file = f /\ a.began <= generation
  BY <1>1 DEF FetchesOf
<1> HIDE DEF a
<1>4. CacheFits'
  <2>1. IsFiniteSet(fetches')
    BY <1>2, FS_AddElement
  <2>2. shared' \in [Entries -> Nat]
    BY <1>1, <1>2
  <2>3. \A l \in fetches' : l.began <= generation'
    BY <1>2, <1>3
  <2>4. QED BY <1>2, <1>3, <2>1, <2>2, <2>3
<1>5. FetchesAreNumbered'
  BY <1>1, <1>2, <1>3 DEF FetchesAreNumbered
<1>6. \A l \in fetches : SameGeneration(l) => l.file # f
  <2>1. \A l \in fetches : l.id # 0
    BY DEF FetchesOf
  <2>2. QED BY <1>2, <2>1 DEF CurrentFetches
<1>7. CurrentFetches'
  <2>1. \A l \in fetches : SameGeneration(l)' <=> SameGeneration(l)
    BY <1>2 DEF SameGeneration
  <2>2. ASSUME NEW l \in fetches, SameGeneration(l)'
        PROVE  /\ entry'[l.file] = NoURL
               /\ l.file \in removed' \/ shared'[l.file] = l.id
               /\ \A m \in fetches' : SameGeneration(m)' /\ m.file = l.file => m = l
    <3>1. l.file # f /\ l.file \in Entries
      BY <1>6, <2>1, <2>2 DEF FetchesOf
    <3>2. shared'[l.file] = shared[l.file]
      BY <1>2, <3>1
    <3>3. QED BY <1>2, <1>3, <2>1, <2>2, <3>1, <3>2 DEF CurrentFetches
  <2>3. /\ entry'[a.file] = NoURL /\ shared'[a.file] = a.id
        /\ \A m \in fetches' : SameGeneration(m)' /\ m.file = a.file => m = a
    BY <1>2, <1>3, <1>6, <2>1
  <2>4. QED BY <1>2, <2>2, <2>3 DEF CurrentFetches
<1>8. CropsAreHeld' /\ NoFileIsLeftBehind'
  BY <1>2 DEF CropsAreHeld, NoFileIsLeftBehind, Held, DisplayFile
<1>9. QED BY <1>4, <1>5, <1>7, <1>8

\* A load that ends leaves the others as they were.
LEMMA EndedInv ==
  ASSUME CacheFits, FetchesAreNumbered, CurrentFetches, NEW l \in fetches, Ended(l),
         generation' = generation, removed' = removed,
         entry' \in [Entries -> Nat], \A f \in Entries : f # l.file => entry'[f] = entry[f],
         SameGeneration(l) \/ entry' = entry
  PROVE  /\ shared' \in [Entries -> Nat] /\ fetches' \subseteq FetchesOf /\ IsFiniteSet(fetches')
         /\ FetchesAreNumbered' /\ CurrentFetches'
<1> USE DEF CacheFits
<1>1. fetches' = fetches \ {l} /\ l.file \in Entries /\ l.id \in 1..MaxFetches
  BY DEF Ended, FetchesOf
<1>2. shared' \in [Entries -> Nat] /\ IsFiniteSet(fetches')
  BY <1>1, FS_RemoveElement DEF Ended
<1>3. FetchesAreNumbered'
  BY <1>1 DEF FetchesAreNumbered
<1>4. ASSUME NEW m \in fetches', SameGeneration(m)
      PROVE  /\ entry'[m.file] = NoURL
             /\ m.file \in removed' \/ shared'[m.file] = m.id
             /\ \A n \in fetches' : SameGeneration(n) /\ n.file = m.file => n = m
  <2>1. m \in fetches /\ m # l /\ m.file \in Entries
    BY <1>1 DEF FetchesOf
  <2>2. /\ entry[m.file] = NoURL /\ (m.file \in removed \/ shared[m.file] = m.id)
        /\ \A n \in fetches : SameGeneration(n) /\ n.file = m.file => n = m
    BY <1>4, <2>1 DEF CurrentFetches
  <2>3. m.id # l.id
    BY <2>1 DEF FetchesAreNumbered
  <2>4. shared[m.file] = m.id => shared'[m.file] = m.id
    BY <1>1, <2>1, <2>3 DEF Ended
  <2>5. entry'[m.file] = NoURL
    BY <1>1, <2>1, <2>2
  <2>6. QED BY <1>1, <2>2, <2>4, <2>5
<1>5. \A m \in fetches : SameGeneration(m)' <=> SameGeneration(m)
  BY DEF SameGeneration
<1>6. CurrentFetches'
  BY <1>1, <1>4, <1>5 DEF CurrentFetches
<1>7. QED BY <1>1, <1>2, <1>3, <1>6

\* What the cache holds after one of its URLs is another one.
LEMMA HeldAfter ==
  ASSUME NEW f \in Entries, NEW u \in Nat, entry \in [Entries -> Nat], entry' = [entry EXCEPT ![f] = u]
  PROVE  Held' \subseteq Held \cup {u} /\ Held \subseteq Held' \cup {entry[f]} /\ (u # NoURL => u \in Held')
<1>1. entry' \in [Entries -> Nat] /\ entry'[f] = u /\ \A g \in Entries : g # f => entry'[g] = entry[g]
  OBVIOUS
<1>2. QED BY <1>1 DEF Held

\* A file that is loaded is kept by the conversation it was loaded for.
LEMMA LoadedInv ==
  ASSUME CacheBounds, CacheInv, NEW l \in fetches, FileLoaded(l) \/ FetchFails(l) PROVE CacheInv'
<1> USE DEF CacheInv, CacheFits
<1>1. /\ Ended(l) /\ generation' = generation /\ removed' = removed /\ created' \in Nat
      /\ UNCHANGED <<display, crops, revoked>> /\ \A k \in fetches' : k.began <= generation'
  BY DEF FileLoaded, FetchFails, Ended
<1>2. CASE entry' = entry /\ alive' = alive
  <2>1. /\ shared' \in [Entries -> Nat] /\ fetches' \subseteq FetchesOf /\ IsFiniteSet(fetches')
        /\ FetchesAreNumbered' /\ CurrentFetches'
    BY <1>1, <1>2, EndedInv
  <2>2. CropsAreHeld' /\ NoFileIsLeftBehind'
    BY <1>1, <1>2 DEF CropsAreHeld, NoFileIsLeftBehind, Held, DisplayFile
  <2>3. QED BY <1>1, <1>2, <2>1, <2>2
<1>3. CASE /\ SameGeneration(l) /\ entry' = [entry EXCEPT ![l.file] = created + 1]
           /\ alive' = alive \cup {created + 1}
  <2>1. l.file \in Entries /\ entry[l.file] = NoURL /\ created + 1 \in Nat /\ created + 1 # NoURL
    BY <1>3 DEF CurrentFetches, FetchesOf, NoURL
  <2>2. entry' \in [Entries -> Nat] /\ \A f \in Entries : f # l.file => entry'[f] = entry[f]
    BY <1>3, <2>1
  <2>3. /\ shared' \in [Entries -> Nat] /\ fetches' \subseteq FetchesOf /\ IsFiniteSet(fetches')
        /\ FetchesAreNumbered' /\ CurrentFetches'
    BY <1>1, <1>3, <2>2, EndedInv
  <2>4. Held \subseteq Held' /\ created + 1 \in Held'
    <3>1. Held \subseteq Held' \cup {NoURL} /\ created + 1 \in Held' /\ NoURL \notin Held
      BY <1>3, <2>1, HeldAfter DEF Held
    <3>2. QED BY <3>1
  <2>5. NoFileIsLeftBehind'
    <3>1. \A u \in Held : DisplayFile(u)' = DisplayFile(u)
      BY <1>1 DEF DisplayFile
    <3>2. QED BY <1>3, <2>4, <3>1 DEF NoFileIsLeftBehind
  <2>6. CropsAreHeld'
    <3>1. ASSUME NEW f \in Thumbs, entry[f] # NoURL PROVE entry'[f] = entry[f]
      BY <2>1, <2>2, <3>1 DEF Entries
    <3>2. QED BY <1>1, <3>1 DEF CropsAreHeld
  <2>7. QED BY <1>1, <2>2, <2>3, <2>5, <2>6
<1>4. QED BY <1>2, <1>3 DEF FileLoaded, FetchFails

\* An image that is cropped is kept with the thumbnail it is of.
LEMMA CropInv ==
  ASSUME CacheBounds, CacheInv,
         \/ \E f \in Entries : Crop(f)
         \/ \E u \in crops : CropFails(u) \/ \E differs \in BOOLEAN : Cropped(u, differs)
  PROVE  CacheInv'
<1> USE DEF CacheInv, CacheFits
<1>1. UNCHANGED <<generation, entry, shared, fetches, revoked, removed>>
  BY DEF Crop, CropFails, Cropped
<1>2. created' \in Nat
  BY DEF Crop, CropFails, Cropped
<1>3. CacheFits' /\ FetchesAreNumbered' /\ CurrentFetches'
  BY <1>1, <1>2 DEF FetchesAreNumbered, CurrentFetches, SameGeneration
<1>4. CropsAreHeld'
  <2>1. \A u \in crops' : u \in crops \/ \E f \in Thumbs : u = entry[f] /\ u # NoURL
    BY DEF Crop, CropFails, Cropped
  <2>2. QED BY <1>1, <2>1 DEF CropsAreHeld
<1>5. NoFileIsLeftBehind'
  <2>1. CASE alive' = alive /\ display' = display
    BY <1>1, <2>1 DEF NoFileIsLeftBehind, Held, DisplayFile
  <2>2. ASSUME NEW u \in crops, NEW differs \in BOOLEAN, Cropped(u, differs), StillWanted(u) PROVE NoFileIsLeftBehind'
    <3>1. u \in Held
      BY <2>2 DEF StillWanted, CropsAreHeld, Held, Entries
    <3>2. /\ Held' = Held /\ display \subseteq display' /\ alive' \subseteq alive \cup {created'}
          /\ (differs => <<u, created'>> \in display') /\ (~differs => alive' = alive)
      BY <1>1, <2>2 DEF Cropped, Held
    <3>3. \A v \in Held : DisplayFile(v) \subseteq DisplayFile(v)'
      BY <3>2 DEF DisplayFile
    <3>4. differs => created' \in DisplayFile(u)'
      BY <3>2 DEF DisplayFile
    <3>5. QED BY <3>1, <3>2, <3>3, <3>4 DEF NoFileIsLeftBehind
  <2>3. QED BY <2>1, <2>2 DEF Crop, CropFails, Cropped
<1>6. QED BY <1>3, <1>4, <1>5

\* Leaving the conversation gives every URL back, deleting a file gives its own.
LEMMA RevokedInv ==
  ASSUME CacheBounds, CacheInv, Clear \/ \E f \in Entries : DeleteFile(f) PROVE CacheInv'
<1> USE DEF CacheInv, CacheFits
<1>1. CASE Clear
  <2>1. /\ generation' = generation + 1 /\ entry' = [f \in Entries |-> NoURL] /\ shared' = [f \in Entries |-> 0]
        /\ alive' = UrlRevoked(Held) /\ revoked' = (revoked \cup {entry[f] : f \in Thumbs}) \ {NoURL}
        /\ UNCHANGED <<fetches, display, crops, created, removed>>
    BY <1>1 DEF Clear
  <2>2. CacheFits'
    <3>1. entry' \in [Entries -> Nat] /\ shared' \in [Entries -> Nat] /\ generation' \in Nat
      BY <2>1 DEF NoURL
    <3>2. \A l \in fetches : l.began <= generation + 1
      BY DEF FetchesOf
    <3>3. QED BY <2>1, <3>1, <3>2
  <2>3. FetchesAreNumbered'
    BY <2>1 DEF FetchesAreNumbered
  <2>4. CropsAreHeld'
    BY <2>1 DEF CropsAreHeld
  <2>5. alive' = {}
    BY <2>1 DEF UrlRevoked, NoFileIsLeftBehind
  <2>6. CurrentFetches'
    <3>1. \A l \in fetches' : ~SameGeneration(l)'
      BY <2>1 DEF SameGeneration, FetchesOf
    <3>2. QED BY <3>1 DEF CurrentFetches
  <2>7. NoFileIsLeftBehind'
    BY <2>5 DEF NoFileIsLeftBehind
  <2>8. QED BY <2>2, <2>3, <2>4, <2>6, <2>7
<1>2. ASSUME NEW f \in Entries, DeleteFile(f) PROVE CacheInv'
  <2>1. /\ removed' = removed \cup {f} /\ alive' = UrlRevoked({entry[f]})
        /\ revoked' = (IF f \in Thumbs THEN (revoked \cup {entry[f]}) \ {NoURL} ELSE revoked)
        /\ entry' = [entry EXCEPT ![f] = NoURL] /\ shared' = [shared EXCEPT ![f] = 0]
        /\ UNCHANGED <<generation, fetches, display, crops, created>>
    BY <1>2 DEF DeleteFile
  <2>2. CacheFits'
    BY <2>1 DEF NoURL
  <2>3. FetchesAreNumbered'
    BY <2>1 DEF FetchesAreNumbered
  <2>4. CurrentFetches'
    <3>1. \A l \in fetches : SameGeneration(l)' <=> SameGeneration(l)
      BY <2>1 DEF SameGeneration
    <3>2. ASSUME NEW l \in fetches, SameGeneration(l)
          PROVE  entry'[l.file] = NoURL /\ (l.file \in removed' \/ shared'[l.file] = l.id)
      <4>1. l.file \in Entries
        BY DEF FetchesOf
      <4>2. entry[l.file] = NoURL /\ (l.file \in removed \/ shared[l.file] = l.id)
        BY <3>2 DEF CurrentFetches
      <4>3. CASE l.file = f
        BY <2>1, <4>1, <4>3
      <4>4. CASE l.file # f
        BY <2>1, <4>1, <4>2, <4>4
      <4>5. QED BY <4>3, <4>4
    <3>3. QED BY <2>1, <3>1, <3>2 DEF CurrentFetches
  <2>5. CropsAreHeld'
    <3>1. ASSUME NEW u \in crops, u \notin revoked' PROVE \E g \in Thumbs : entry'[g] = u
      <4>1. u # NoURL /\ u \notin revoked
        BY <2>1, <3>1 DEF CropsAreHeld
      <4>2. PICK g \in Thumbs : entry[g] = u
        BY <4>1 DEF CropsAreHeld
      <4>3. g # f /\ g \in Entries
        BY <2>1, <3>1, <4>1, <4>2 DEF Entries
      <4>4. entry'[g] = u
        BY <2>1, <4>2, <4>3
      <4>5. QED BY <4>4
    <3>2. QED BY <2>1, <3>1 DEF CropsAreHeld
  <2>6. NoFileIsLeftBehind'
    <3>1. Held \subseteq Held' \cup {entry[f]}
      BY <2>1, HeldAfter DEF NoURL
    <3>2. \A u \in Held : DisplayFile(u)' = DisplayFile(u)
      BY <2>1 DEF DisplayFile
    <3>3. alive' = alive \ ({entry[f]} \cup DisplayFile(entry[f]))
      BY <2>1 DEF UrlRevoked
    <3>4. ASSUME NEW x \in alive' PROVE x \in Held' \/ \E u \in Held' : x \in DisplayFile(u)'
      <4>1. x \in alive /\ x # entry[f] /\ x \notin DisplayFile(entry[f])
        BY <3>3, <3>4
      <4>2. CASE x \in Held
        BY <3>1, <4>1, <4>2
      <4>3. ASSUME NEW u \in Held, x \in DisplayFile(u) PROVE \E v \in Held' : x \in DisplayFile(v)'
        BY <3>1, <3>2, <4>1, <4>3
      <4>4. QED BY <4>1, <4>2, <4>3 DEF NoFileIsLeftBehind
    <3>5. QED BY <3>4 DEF NoFileIsLeftBehind
  <2>7. QED BY <2>2, <2>3, <2>4, <2>5, <2>6
<1>3. QED BY <1>1, <1>2

\* Every step keeps the invariant.
LEMMA CacheNextInv == ASSUME CacheBounds, CacheInv, [CacheNext]_cacheVars PROVE CacheInv'
<1>1. CASE UNCHANGED cacheVars
  BY <1>1 DEF cacheVars, CacheInv, CacheFits, FetchesAreNumbered, CurrentFetches, SameGeneration, CropsAreHeld,
              NoFileIsLeftBehind, Held, DisplayFile
<1>2. CASE CacheNext
  BY <1>2, AskFileInv, LoadedInv, CropInv, RevokedInv DEF CacheNext
<1>3. QED BY <1>1, <1>2

\* No URL is there when the page starts.
LEMMA HeldInit == ASSUME CacheInit PROVE HeldAreAlive
  BY DEF CacheInit, HeldAreAlive, UrlsAreMade, UrlsAreOfOne, Held, NoURL

\* A URL is made for one file or one image, and given back with its file only.
LEMMA HeldNext == ASSUME CacheBounds, CacheInv, HeldAreAlive, [CacheNext]_cacheVars PROVE HeldAreAlive'
<1> USE DEF HeldAreAlive
<1>1. created \in Nat /\ created' \in {created, created + 1}
  BY DEF CacheInv, CacheFits, CacheNext, cacheVars, AskFile, Crop, DeleteFile, FileLoaded, FetchFails, CropFails,
         Cropped, Clear
<1>2. 1..created \subseteq 1..created' /\ 0..created \subseteq 0..created' /\ created + 1 \notin 0..created
  BY <1>1
<1>3. ASSUME UNCHANGED <<entry, alive, display>>, crops' \subseteq 1..created, revoked' = revoked
      PROVE  HeldAreAlive'
  BY <1>2, <1>3 DEF UrlsAreMade, UrlsAreOfOne, Held
<1>4. ASSUME NEW l \in fetches, FileLoaded(l) PROVE HeldAreAlive'
  <2>1. created' = created + 1 /\ UNCHANGED <<display, crops, revoked>>
    BY <1>4 DEF FileLoaded
  <2>2. CASE UNCHANGED <<entry, alive>>
    BY <1>2, <2>1, <2>2 DEF UrlsAreMade, UrlsAreOfOne, Held
  <2>3. CASE entry' = [entry EXCEPT ![l.file] = created + 1] /\ alive' = alive \cup {created + 1}
    <3>1. l.file \in Entries
      BY DEF CacheInv, CacheFits, FetchesOf
    <3>2. created + 1 \in 1..created'
      BY <1>1, <2>1
    <3>3. UrlsAreMade'
      <4>1. entry \in [Entries -> 0..created'] /\ created + 1 \in 0..created'
        BY <1>1, <1>2, <2>1 DEF UrlsAreMade
      <4>3. entry' \in [Entries -> 0..created']
        BY <2>3, <3>1, <4>1
      <4>4. alive' \subseteq 1..created'
        BY <1>2, <2>3, <3>2 DEF UrlsAreMade
      <4>2. QED BY <1>2, <2>1, <4>3, <4>4 DEF UrlsAreMade
    <3>4. /\ entry'[l.file] = created + 1 /\ \A f \in Entries : f # l.file => entry'[f] = entry[f]
          /\ \A f \in Entries : entry[f] # created + 1
      BY <1>2, <2>3, <3>1 DEF UrlsAreMade
    <3>5. Held' \subseteq Held \cup {created + 1}
      BY <3>4 DEF Held
    <3>6. UrlsAreOfOne'
      BY <1>2, <2>1, <3>4, <3>5 DEF UrlsAreOfOne, UrlsAreMade
    <3>7. QED BY <2>3, <3>3, <3>5, <3>6
  <2>4. QED BY <1>4, <2>2, <2>3 DEF FileLoaded
<1>5. ASSUME NEW u \in crops, NEW differs \in BOOLEAN, Cropped(u, differs) PROVE HeldAreAlive'
  <2>1. entry' = entry /\ crops' \subseteq crops /\ revoked' = revoked /\ Held' = Held
    BY <1>5 DEF Cropped, Held
  <2>2. CASE UNCHANGED <<display, alive, created>>
    BY <2>1, <2>2 DEF UrlsAreMade, UrlsAreOfOne
  <2>3. CASE display' = display \cup {<<u, u>>} /\ alive' = alive /\ created' = created
    BY <2>1, <2>3 DEF UrlsAreMade, UrlsAreOfOne
  <2>4. CASE /\ created' = created + 1 /\ display' = display \cup {<<u, created + 1>>}
             /\ alive' = alive \cup {created + 1}
    <3>1. created + 1 \in 1..created' /\ u \in 1..created'
      BY <1>1, <1>2, <2>4 DEF UrlsAreMade
    <3>2. UrlsAreMade'
      <4>1. entry' \in [Entries -> 0..created'] /\ alive' \subseteq 1..created'
        BY <1>2, <2>1, <2>4, <3>1 DEF UrlsAreMade
      <4>2. \A q \in display' : q[1] \in 1..created' /\ q[2] \in 1..created'
        <5>1. \A q \in display' : q \in display \/ (q[1] = u /\ q[2] = created + 1)
          BY <2>4
        <5>2. QED BY <1>2, <3>1, <5>1 DEF UrlsAreMade
      <4>3. QED BY <1>2, <2>1, <4>1, <4>2 DEF UrlsAreMade
    <3>3. created + 1 \notin Held
      BY <1>2 DEF UrlsAreMade, Held
    <3>4. QED BY <2>1, <2>4, <3>2, <3>3 DEF UrlsAreOfOne
  <2>5. QED BY <1>5, <2>2, <2>3, <2>4 DEF Cropped
<1>6. CASE Clear
  <2>1. /\ entry' = [f \in Entries |-> NoURL] /\ alive' \subseteq alive /\ UNCHANGED <<display, crops, created>>
        /\ revoked' = (revoked \cup {entry[f] : f \in Thumbs}) \ {NoURL}
    BY <1>6 DEF Clear, UrlRevoked
  <2>2. \A f \in Thumbs : entry[f] \in 0..created
    BY DEF UrlsAreMade, Entries
  <2>3. revoked' \subseteq 1..created
    <3>1. \A n \in 0..created : n # 0 => n \in 1..created
      BY <1>1
    <3>2. QED BY <2>1, <2>2, <3>1 DEF UrlsAreMade, NoURL
  <2>4. Held' = {}
    BY <2>1 DEF Held
  <2>5. 0 \in 0..created
    BY <1>1
  <2>6. QED BY <2>1, <2>3, <2>4, <2>5 DEF UrlsAreMade, UrlsAreOfOne, NoURL
<1>7. ASSUME NEW f \in Entries, DeleteFile(f) PROVE HeldAreAlive'
  <2>1. /\ entry' = [entry EXCEPT ![f] = NoURL] /\ alive' = alive \ ({entry[f]} \cup DisplayFile(entry[f]))
        /\ UNCHANGED <<display, crops, created>>
        /\ revoked' = (IF f \in Thumbs THEN (revoked \cup {entry[f]}) \ {NoURL} ELSE revoked)
    BY <1>7 DEF DeleteFile, UrlRevoked
  <2>2. 0 \in 0..created /\ entry[f] \in 0..created /\ (entry[f] # NoURL => entry[f] \in 1..created)
    BY <1>1 DEF UrlsAreMade, NoURL
  <2>3. revoked' \subseteq 1..created
    BY <2>1, <2>2 DEF UrlsAreMade
  <2>4. UrlsAreMade'
    BY <2>1, <2>2, <2>3 DEF UrlsAreMade, NoURL
  <2>5. /\ entry'[f] = NoURL /\ \A g \in Entries : g # f => entry'[g] = entry[g]
    BY <2>1 DEF UrlsAreMade
  <2>6. Held' = Held \ {entry[f]}
    <3>1. ASSUME NEW x \in Held' PROVE x \in Held /\ x # entry[f]
      <4>1. PICK g \in Entries : x = entry'[g] /\ x # NoURL
        BY DEF Held
      <4>2. g # f /\ x = entry[g]
        BY <2>5, <4>1
      <4>3. QED BY <4>1, <4>2 DEF Held, UrlsAreOfOne
    <3>2. ASSUME NEW x \in Held, x # entry[f] PROVE x \in Held'
      <4>1. PICK g \in Entries : x = entry[g] /\ x # NoURL
        BY DEF Held
      <4>2. entry'[g] = x
        BY <2>5, <3>2, <4>1
      <4>3. QED BY <4>1, <4>2 DEF Held
    <3>3. QED BY <3>1, <3>2
  <2>7. UrlsAreOfOne'
    BY <2>1, <2>5, <2>6 DEF UrlsAreOfOne
  <2>8. DisplayFile(entry[f]) \cap Held' = {}
    <3>1. ASSUME NEW x \in DisplayFile(entry[f]) PROVE x = entry[f] \/ x \notin Held
      BY DEF DisplayFile, UrlsAreOfOne
    <3>2. QED BY <2>6, <3>1
  <2>9. Held' \subseteq alive'
    BY <2>1, <2>6, <2>8
  <2>10. QED BY <2>4, <2>7, <2>9
<1>8. ASSUME NEW f \in Entries, Crop(f) PROVE HeldAreAlive'
  <2>1. entry[f] \in 1..created
    BY <1>1, <1>8 DEF Crop, UrlsAreMade, NoURL
  <2>2. QED BY <1>3, <1>8, <2>1 DEF Crop, UrlsAreMade
<1>9. CASE \/ UNCHANGED cacheVars
           \/ \E f \in Entries : AskFile(f)
           \/ \E l \in fetches : FetchFails(l)
           \/ \E u \in crops : CropFails(u)
  BY <1>3, <1>9 DEF cacheVars, AskFile, FetchFails, CropFails, UrlsAreMade
<1>10. QED BY <1>4, <1>5, <1>6, <1>7, <1>8, <1>9 DEF CacheNext

\* The types follow.
LEMMA CacheFollows == ASSUME CacheInv, HeldAreAlive PROVE CacheTypeOK
  BY DEF CacheInv, CacheFits, FetchesOf, HeldAreAlive, UrlsAreMade, CacheTypeOK

\* Whatever loads, crops, deletions and conversations cross, a URL that is alive is one the
\* page still holds: no decrypted file is left behind.
THEOREM FilesAreGivenBack == ASSUME CacheBounds PROVE CacheSpec => []NoFileIsLeftBehind
<1>1. CacheInit => CacheInv
  BY CacheInitInv
<1>2. CacheInv /\ [CacheNext]_cacheVars => CacheInv'
  BY CacheNextInv
<1>3. CacheInv => NoFileIsLeftBehind
  BY DEF CacheInv
<1>4. QED BY <1>1, <1>2, <1>3, PTL DEF CacheSpec

-----------------------------------------------------------------------------
(* The keys of an account in its windows: a window past the registration of a signing key has *)
(* the one the account registered, whoever registered it, and the browsers remember no other. *)

SealedUpTo(m) == [seal : 0..m, key : 0..m]
AttemptsUpTo(m) ==
  [step : StepNames, me : 0..m, key : 0..m, device : 0..m, held : SealedUpTo(m),
   remember : BOOLEAN, typed : BOOLEAN]
VaultsUpTo(m) == [device : 0..m, identity : SealedUpTo(m)]
StoredKeys == [phrase : BOOLEAN, remember : BOOLEAN, forced : BOOLEAN]

\* The types, with their bound as a parameter.
LEMMA UnlockTypes ==
  UnlockTypeOK <=> /\ made \in Nat /\ account \in 0..made
                   /\ vault \in [Browsers -> VaultsUpTo(made)]
                   /\ unlocking \in [Windows -> AttemptsUpTo(made)]
                   /\ store \in [Windows -> StoredKeys]
                   /\ spent \in [denials : Nat, returns : Nat]
BY DEF UnlockTypeOK, VaultsUpTo, AttemptsUpTo, SealedUpTo, StoredKeys, KeptIdentities

\* A key that is generated takes nothing away.
LEMMA MoreKeys ==
  ASSUME NEW m \in Nat
  PROVE  /\ 0..m \subseteq 0..(m + 1) /\ SealedUpTo(m) \subseteq SealedUpTo(m + 1)
         /\ AttemptsUpTo(m) \subseteq AttemptsUpTo(m + 1)
         /\ VaultsUpTo(m) \subseteq VaultsUpTo(m + 1)
<1>1. 0..m \subseteq 0..(m + 1)
  OBVIOUS
<1>2. SealedUpTo(m) \subseteq SealedUpTo(m + 1)
  BY <1>1 DEF SealedUpTo
<1>3. AttemptsUpTo(m) \subseteq AttemptsUpTo(m + 1)
  BY <1>1, <1>2 DEF AttemptsUpTo
<1>4. VaultsUpTo(m) \subseteq VaultsUpTo(m + 1)
  BY <1>1, <1>2 DEF VaultsUpTo
<1> QED
  BY <1>1, <1>2, <1>3, <1>4

\* The invariant.
UnlockInv == UnlockTypeOK /\ OneSigningIdentity /\ SignsAsTheAccount

\* Windows start locked, browsers with an empty vault.
LEMMA UnlockInitInv == ASSUME UnlockBounds PROVE UnlockInit => UnlockInv
<1> SUFFICES ASSUME UnlockInit PROVE UnlockInv
  OBVIOUS
<1> USE DEF UnlockInit
<1>1. NotKept \in SealedUpTo(made) /\ made \in Nat /\ account \in 0..made
  BY DEF NotKept, SealedUpTo, Unsigned
<1>2. Locked \in AttemptsUpTo(made)
  BY <1>1 DEF Locked, AttemptsUpTo, StepNames, Unsigned
<1>3. spent \in [denials : Nat, returns : Nat]
  OBVIOUS
<1>4. vault \in [Browsers -> VaultsUpTo(made)]
  BY <1>1 DEF VaultsUpTo, Unsigned
<1>5. UnlockTypeOK
  BY <1>1, <1>2, <1>3, <1>4, UnlockTypes DEF StoredKeys
<1>6. OneSigningIdentity
  BY DEF OneSigningIdentity, AtStep, Locked, NotKept
<1>7. SignsAsTheAccount
  BY DEF SignsAsTheAccount, AtStep, Locked, Unsigned
<1> QED
  BY <1>5, <1>6, <1>7 DEF UnlockInv

\* The types are kept.
LEMMA UnlockKeepsTypes ==
  ASSUME UnlockBounds, UnlockTypeOK, UnlockNext
  PROVE  UnlockTypeOK'
<1>1. PICK w \in Windows :
        \/ Boot(w) \/ Look(w) \/ ReadDeviceKey(w) \/ MakeDeviceKey(w) \/ WriteDeviceKey(w)
        \/ Unseal(w) \/ BrokenSeal(w) \/ AttemptSaved(w) \/ WrongPhrase(w) \/ RegisterKey(w)
        \/ ReadAgain(w) \/ NothingRead(w) \/ ReadAgainFails(w) \/ ObserveItself(w)
        \/ KeepPhrase(w) \/ RememberIdentity(w) \/ Seal(w) \/ ResetCounter(w) \/ VaultFails(w)
        \/ RefreshPage(w) \/ ForgetIdentity(w)
        \/ \E b \in BOOLEAN : AttemptTyped(w, b) \/ RegisterKeyFails(w, b) \/ SignInAgain(w, b)
  BY DEF UnlockNext
<1> DEFINE at == unlocking[w]
<1>a. /\ made \in Nat /\ account \in 0..made /\ vault \in [Browsers -> VaultsUpTo(made)]
      /\ unlocking \in [Windows -> AttemptsUpTo(made)] /\ store \in [Windows -> StoredKeys]
      /\ spent \in [denials : Nat, returns : Nat]
  BY UnlockTypes
<1>b. /\ at \in AttemptsUpTo(made) /\ store[w] \in StoredKeys
      /\ BrowserOf[w] \in Browsers /\ Vault(w) \in VaultsUpTo(made)
  BY <1>a DEF Browsers, Vault
<1>c. /\ at.me \in 0..made /\ at.key \in 0..made /\ at.device \in 0..made
      /\ at.held \in SealedUpTo(made) /\ at.step \in StepNames
      /\ Vault(w).device \in 0..made /\ Vault(w).identity \in SealedUpTo(made)
      /\ NotKept \in SealedUpTo(made)
  BY <1>a, <1>b DEF AttemptsUpTo, VaultsUpTo, NotKept, SealedUpTo, Unsigned
<1>d. at.held.key \in 0..made /\ Locked \in AttemptsUpTo(made) /\ 0 \in 0..made
  <2>1. at.held.key \in 0..made /\ 0 \in 0..made
    BY <1>a, <1>c DEF SealedUpTo
  <2>2. Locked \in AttemptsUpTo(made)
    BY <2>1, <1>c DEF Locked, AttemptsUpTo, StepNames, Unsigned
  <2> QED
    BY <2>1, <2>2
<1>e. /\ AfterVault(w) \in StepNames /\ Unlocked(w) \in StepNames
      /\ {"look", "unseal", "open", "keep", "trust", "reload", "dialog", "seal", "saved",
          "write and seal", "write and unseal", "register"} \subseteq StepNames
  BY DEF AfterVault, Unlocked, StepNames
\* What the steps change.
<1>f. ASSUME NEW r \in AttemptsUpTo(made), Becomes(w, r)
      PROVE  unlocking' \in [Windows -> AttemptsUpTo(made)]
  BY <1>a, <1>f DEF Becomes
<1>g. ASSUME NEW s \in StepNames, Steps(w, s)
      PROVE  unlocking' \in [Windows -> AttemptsUpTo(made)]
  <2>1. [at EXCEPT !.step = s] \in AttemptsUpTo(made)
    BY <1>b DEF AttemptsUpTo
  <2> QED
    BY <2>1, <1>f, <1>g DEF Steps
<1>h. ASSUME NEW i \in SealedUpTo(made), Remembers(w, i)
      PROVE  vault' \in [Browsers -> VaultsUpTo(made)]
  <2>1. vault' = [vault EXCEPT ![BrowserOf[w]] = [Vault(w) EXCEPT !.identity = i]]
    BY <1>h DEF Remembers, Vault
  <2>2. [Vault(w) EXCEPT !.identity = i] \in VaultsUpTo(made)
    BY <1>b, <1>h DEF VaultsUpTo
  <2> QED
    BY <2>1, <2>2, <1>a, <1>b
<1>i. ASSUME NEW p \in BOOLEAN, NEW r \in BOOLEAN, Stores(w, p, r)
      PROVE  store' \in [Windows -> StoredKeys]
  <2>1. store' = [store EXCEPT ![w] = [store[w] EXCEPT !.phrase = p, !.remember = r]]
    BY <1>i, <1>a DEF Stores
  <2>2. [store[w] EXCEPT !.phrase = p, !.remember = r] \in StoredKeys
    BY <1>b DEF StoredKeys
  <2> QED
    BY <2>1, <2>2, <1>a
<1>j. ASSUME Denied \/ Returns
      PROVE  spent' \in [denials : Nat, returns : Nat]
  BY <1>a, <1>j DEF Denied, Returns
<1>k. ASSUME Generate
      PROVE  /\ made' \in Nat /\ account \in 0..made' /\ vault \in [Browsers -> VaultsUpTo(made')]
             /\ AttemptsUpTo(made) \subseteq AttemptsUpTo(made') /\ made' \in 0..made'
             /\ unlocking \in [Windows -> AttemptsUpTo(made')] /\ at \in AttemptsUpTo(made')
  <2>1. made' = made + 1
    BY <1>k DEF Generate
  <2> QED
    BY <2>1, <1>a, <1>b, MoreKeys
<1>m. ASSUME /\ made' \in Nat /\ account' \in 0..made'
             /\ vault' \in [Browsers -> VaultsUpTo(made')]
             /\ unlocking' \in [Windows -> AttemptsUpTo(made')]
             /\ store' \in [Windows -> StoredKeys]
             /\ spent' \in [denials : Nat, returns : Nat]
      PROVE  UnlockTypeOK'
  BY <1>m DEF UnlockTypeOK, VaultsUpTo, AttemptsUpTo, SealedUpTo, StoredKeys, KeptIdentities
<1> HIDE DEF at
<1>2. CASE Boot(w)
  <2>1. [Locked EXCEPT !.me = account, !.step = "look"] \in AttemptsUpTo(made)
    BY <1>a, <1>d, <1>e DEF AttemptsUpTo
  <2>2. [Locked EXCEPT !.me = account, !.step = AfterVault(w)] \in AttemptsUpTo(made)
    BY <1>a, <1>d, <1>e DEF AttemptsUpTo
  <2> QED
    BY <2>1, <2>2, <1>2, <1>a, <1>f, <1>m DEF Boot
<1>3. CASE Look(w)
  <2>1. [at EXCEPT !.step = "unseal", !.held = Vault(w).identity] \in AttemptsUpTo(made)
    BY <1>b, <1>c, <1>e DEF AttemptsUpTo
  <2> QED
    BY <2>1, <1>3, <1>a, <1>e, <1>f, <1>g, <1>m DEF Look, at
<1>4. CASE ReadDeviceKey(w)
  <2>1. [at EXCEPT !.device = Vault(w).device] \in AttemptsUpTo(made)
    BY <1>b, <1>c DEF AttemptsUpTo
  <2> QED
    BY <2>1, <1>4, <1>a, <1>f, <1>m DEF ReadDeviceKey, at
<1>5. CASE MakeDeviceKey(w)
  <2> DEFINE s == IF at.step = "seal" THEN "write and seal" ELSE "write and unseal"
  <2>0. Generate /\ s \in StepNames
    BY <1>5, <1>e DEF MakeDeviceKey
  <2> HIDE DEF s
  <2>1. [at EXCEPT !.device = made', !.step = s] \in AttemptsUpTo(made')
    BY <2>0, <1>k DEF AttemptsUpTo
  <2>2. unlocking' = [unlocking EXCEPT ![w] = [at EXCEPT !.device = made', !.step = s]]
    BY <1>5 DEF MakeDeviceKey, Becomes, at, s
  <2>3. unlocking' \in [Windows -> AttemptsUpTo(made')]
    BY <2>0, <2>1, <2>2, <1>k
  <2> QED
    BY <2>0, <2>3, <1>5, <1>a, <1>k, <1>m DEF MakeDeviceKey
<1>6. CASE WriteDeviceKey(w)
  <2>1. vault' = [vault EXCEPT ![BrowserOf[w]] = [Vault(w) EXCEPT !.device = at.device]]
    BY <1>6 DEF WriteDeviceKey, Vault, at
  <2>2. [Vault(w) EXCEPT !.device = at.device] \in VaultsUpTo(made)
    BY <1>b, <1>c DEF VaultsUpTo
  <2>3. vault' \in [Browsers -> VaultsUpTo(made)]
    BY <2>1, <2>2, <1>a, <1>b
  <2> QED
    BY <2>3, <1>6, <1>a, <1>e, <1>g, <1>m DEF WriteDeviceKey
<1>7. CASE Unseal(w)
  <2>1. [at EXCEPT !.step = "open", !.key = at.held.key] \in AttemptsUpTo(made)
    BY <1>b, <1>d, <1>e DEF AttemptsUpTo
  <2> QED
    BY <2>1, <1>7, <1>a, <1>f, <1>i, <1>m DEF Unseal, at
<1>8. CASE BrokenSeal(w)
  <2>1. [at EXCEPT !.step = AfterVault(w), !.device = Unsigned] \in AttemptsUpTo(made)
    BY <1>b, <1>d, <1>e DEF AttemptsUpTo, Unsigned
  <2> QED
    BY <2>1, <1>8, <1>a, <1>c, <1>f, <1>h, <1>m DEF BrokenSeal, at
<1>9. ASSUME NEW tried \in AttemptsUpTo(made), UpgradeIdentityEnvelope(w, tried),
             UNCHANGED <<account, vault, store, spent>>
      PROVE  UnlockTypeOK'
  <2>1. CASE at.me # Unsigned
    <3>1. [tried EXCEPT !.step = "keep", !.key = at.me] \in AttemptsUpTo(made)
      BY <1>c, <1>e DEF AttemptsUpTo
    <3> QED
      BY <3>1, <2>1, <1>9, <1>a, <1>f, <1>m DEF UpgradeIdentityEnvelope, at
  <2>2. CASE at.me = Unsigned
    <3>0. Generate
      BY <2>2, <1>9 DEF UpgradeIdentityEnvelope, at
    <3>1. [tried EXCEPT !.step = "register", !.key = made'] \in AttemptsUpTo(made')
      BY <3>0, <1>e, <1>k DEF AttemptsUpTo
    <3>2. unlocking' \in [Windows -> AttemptsUpTo(made')]
      BY <3>0, <3>1, <2>2, <1>9, <1>k DEF UpgradeIdentityEnvelope, Becomes, at
    <3> QED
      BY <3>0, <3>2, <1>9, <1>a, <1>k, <1>m
  <2> QED
    BY <2>1, <2>2
<1>10. CASE AttemptSaved(w)
  <2>1. [at EXCEPT !.remember = store[w].remember, !.typed = FALSE] \in AttemptsUpTo(made)
    BY <1>b DEF AttemptsUpTo, StoredKeys
  <2> QED
    BY <2>1, <1>9, <1>10 DEF AttemptSaved, at
<1>11. ASSUME NEW b \in BOOLEAN, AttemptTyped(w, b)
       PROVE  UnlockTypeOK'
  <2>1. [at EXCEPT !.remember = b, !.typed = TRUE] \in AttemptsUpTo(made)
    BY <1>b DEF AttemptsUpTo
  <2> QED
    BY <2>1, <1>9, <1>11 DEF AttemptTyped, at
<1>12. ASSUME GivesIn(w)
       PROVE  unlocking' \in [Windows -> AttemptsUpTo(made)] /\ store' \in [Windows -> StoredKeys]
  BY <1>12, <1>a, <1>e, <1>g, <1>i DEF GivesIn
<1>13. CASE WrongPhrase(w)
  BY <1>13, <1>a, <1>e, <1>g, <1>i, <1>m DEF WrongPhrase
<1>14. Registered(w) \in 0..made
  BY <1>a, <1>c DEF Registered, at
<1>15. CASE RegisterKey(w)
  <2>1. account' \in 0..made
    BY <1>14, <1>15 DEF RegisterKey
  <2>2. [at EXCEPT !.step = "trust", !.me = account'] \in AttemptsUpTo(made)
    BY <2>1, <1>b, <1>e DEF AttemptsUpTo
  <2>3. unlocking' \in [Windows -> AttemptsUpTo(made)]
    BY <2>2, <1>15, <1>a, <1>e, <1>g DEF RegisterKey, Becomes, at
  <2> QED
    BY <2>1, <2>3, <1>15, <1>a, <1>m DEF RegisterKey
<1>16. ASSUME NEW b \in BOOLEAN, RegisterKeyFails(w, b)
       PROVE  UnlockTypeOK'
  <2>1. account' \in 0..made
    BY <1>14, <1>16, <1>a DEF RegisterKeyFails
  <2> QED
    BY <2>1, <1>16, <1>a, <1>e, <1>g, <1>j, <1>m DEF RegisterKeyFails
<1>17. CASE ReadAgain(w)
  <2>1. [at EXCEPT !.step = "trust", !.me = account, !.key = account] \in AttemptsUpTo(made)
    BY <1>a, <1>b, <1>e DEF AttemptsUpTo
  <2> QED
    BY <2>1, <1>17, <1>a, <1>f, <1>m DEF ReadAgain, Migrated, at
<1>18. CASE NothingRead(w)
  BY <1>18, <1>12, <1>a, <1>m DEF NothingRead
<1>19. CASE ReadAgainFails(w)
  BY <1>19, <1>12, <1>a, <1>j, <1>m DEF ReadAgainFails
<1>20. CASE ObserveItself(w)
  BY <1>20, <1>a, <1>e, <1>g, <1>m DEF ObserveItself
<1>21. CASE KeepPhrase(w)
  BY <1>21, <1>a, <1>e, <1>g, <1>i, <1>m DEF KeepPhrase
<1>22. CASE RememberIdentity(w)
  <2>1. [at EXCEPT !.step = "seal", !.device = Unsigned] \in AttemptsUpTo(made)
    BY <1>b, <1>d, <1>e DEF AttemptsUpTo, Unsigned
  <2> QED
    BY <2>1, <1>22, <1>a, <1>f, <1>m DEF RememberIdentity, at
<1>23. CASE Seal(w)
  <2>1. [seal |-> at.device, key |-> at.me] \in SealedUpTo(made)
    BY <1>c DEF SealedUpTo
  <2> QED
    BY <2>1, <1>23, <1>a, <1>e, <1>g, <1>h, <1>i, <1>m DEF Seal, at
<1>24. CASE ResetCounter(w)
  <2>1. store' = [store EXCEPT ![w] = [store[w] EXCEPT !.forced = FALSE]]
    BY <1>24 DEF ResetCounter
  <2>2. [store[w] EXCEPT !.forced = FALSE] \in StoredKeys
    BY <1>b DEF StoredKeys
  <2>3. store' \in [Windows -> StoredKeys]
    BY <2>1, <2>2, <1>a
  <2> QED
    BY <2>3, <1>24, <1>a, <1>e, <1>g, <1>m DEF ResetCounter
<1>25. CASE VaultFails(w)
  <2>1. [at EXCEPT !.step = AfterVault(w), !.device = Unsigned] \in AttemptsUpTo(made)
    BY <1>b, <1>d, <1>e DEF AttemptsUpTo, Unsigned
  <2>2. unlocking' \in [Windows -> AttemptsUpTo(made)]
    BY <2>1, <1>25, <1>e, <1>f, <1>g, <1>12 DEF VaultFails, at
  <2>3. store' \in [Windows -> StoredKeys]
    BY <1>25, <1>a, <1>12 DEF VaultFails
  <2>4. vault' \in [Browsers -> VaultsUpTo(made)]
    BY <1>25, <1>a, <1>c, <1>h DEF VaultFails
  <2> QED
    BY <2>2, <2>3, <2>4, <1>25, <1>a, <1>j, <1>m DEF VaultFails
<1>26. CASE RefreshPage(w)
  BY <1>26, <1>a, <1>d, <1>f, <1>j, <1>m DEF RefreshPage
<1>27. CASE ForgetIdentity(w)
  BY <1>27, <1>a, <1>c, <1>h, <1>j, <1>m DEF ForgetIdentity
<1>28. ASSUME NEW b \in BOOLEAN, SignInAgain(w, b)
       PROVE  UnlockTypeOK'
  <2>1. [phrase |-> FALSE, remember |-> FALSE, forced |-> b] \in StoredKeys
    BY DEF StoredKeys
  <2>2. store' \in [Windows -> StoredKeys]
    BY <2>1, <1>28, <1>a DEF SignInAgain
  <2> QED
    BY <2>2, <1>28, <1>a, <1>d, <1>f, <1>j, <1>m DEF SignInAgain
<1> QED
  BY <1>1, <1>2, <1>3, <1>4, <1>5, <1>6, <1>7, <1>8, <1>10, <1>11, <1>13, <1>15, <1>16, <1>17,
     <1>18, <1>19, <1>20, <1>21, <1>22, <1>23, <1>24, <1>25, <1>26, <1>27, <1>28

(* What the invariant says of a window and of a remembered identity. *)
WindowOK(r, copy, key) ==
  /\ r.me \in {Unsigned, key}
  /\ r.step = "register" => r.key # Unsigned
  /\ r.step \in {"unseal", "write and unseal"} => r.held.key = key
  /\ r.step \in {"trust", "keep", "seal", "write and seal", "count", "open"} => r.key = key
  /\ r.step \in {"look", "unseal", "write and unseal", "trust", "keep", "seal", "write and seal",
                 "count", "open"} => key # Unsigned /\ r.me = key
  /\ copy.forced => /\ ~copy.phrase /\ r.step \notin {"look", "saved"}
                    /\ r.step \in {"register", "reload", "trust", "keep"} => r.typed /\ r.remember
IdentityOK(i, key) == i # NotKept => key # Unsigned /\ i.key = key

\* The invariant is one of each window and of each browser.
LEMMA UnlockParts ==
  OneSigningIdentity /\ SignsAsTheAccount <=>
    /\ \A w \in Windows : WindowOK(unlocking[w], store[w], account)
    /\ \A b \in Browsers : IdentityOK(vault[b].identity, account)
BY DEF OneSigningIdentity, SignsAsTheAccount, WindowOK, IdentityOK, AtStep

\* So it is after a step.
LEMMA UnlockPartsAfter ==
  ASSUME \A w \in Windows : WindowOK(unlocking'[w], store'[w], account'),
         \A b \in Browsers : IdentityOK(vault'[b].identity, account')
  PROVE  OneSigningIdentity' /\ SignsAsTheAccount'
BY DEF OneSigningIdentity, SignsAsTheAccount, WindowOK, IdentityOK, AtStep

\* A step of a window keeps its own part, and registers a key at most once for all.
LEMMA UnlockKeepsSigning ==
  ASSUME UnlockInv, UnlockNext, UnlockTypeOK'
  PROVE  OneSigningIdentity' /\ SignsAsTheAccount'
<1>1. PICK w \in Windows :
        \/ Boot(w) \/ Look(w) \/ ReadDeviceKey(w) \/ MakeDeviceKey(w) \/ WriteDeviceKey(w)
        \/ Unseal(w) \/ BrokenSeal(w) \/ AttemptSaved(w) \/ WrongPhrase(w) \/ RegisterKey(w)
        \/ ReadAgain(w) \/ NothingRead(w) \/ ReadAgainFails(w) \/ ObserveItself(w)
        \/ KeepPhrase(w) \/ RememberIdentity(w) \/ Seal(w) \/ ResetCounter(w) \/ VaultFails(w)
        \/ RefreshPage(w) \/ ForgetIdentity(w)
        \/ \E b \in BOOLEAN : AttemptTyped(w, b) \/ RegisterKeyFails(w, b) \/ SignInAgain(w, b)
  BY DEF UnlockNext
<1> DEFINE at == unlocking[w]
<1>a. /\ made \in Nat /\ account \in 0..made /\ vault \in [Browsers -> VaultsUpTo(made)]
      /\ unlocking \in [Windows -> AttemptsUpTo(made)] /\ store \in [Windows -> StoredKeys]
  BY UnlockTypes DEF UnlockInv
<1>b. /\ at \in AttemptsUpTo(made) /\ store[w] \in StoredKeys
      /\ BrowserOf[w] \in Browsers /\ Vault(w) \in VaultsUpTo(made)
  BY <1>a DEF Browsers, Vault
<1>c. WindowOK(at, store[w], account) /\ IdentityOK(Vault(w).identity, account)
  BY <1>b, UnlockParts DEF UnlockInv, Vault
<1>d. WindowOK(Locked, store[w], account) /\ IdentityOK(NotKept, account)
  BY <1>c DEF WindowOK, Locked, IdentityOK
\* The windows, when one has moved, and the identities, when one was written.
<1>f. ASSUME NEW r, Becomes(w, r)
      PROVE  /\ unlocking'[w] = r /\ \A v \in Windows \ {w} : unlocking'[v] = unlocking[v]
  BY <1>a, <1>f DEF Becomes
<1>g. ASSUME NEW s, Steps(w, s)
      PROVE  /\ unlocking'[w] = [at EXCEPT !.step = s]
             /\ \A v \in Windows \ {w} : unlocking'[v] = unlocking[v]
  BY <1>a, <1>g DEF Steps, Becomes
<1>h. ASSUME NEW i, Remembers(w, i), IdentityOK(i, account)
      PROVE  \A b \in Browsers : IdentityOK(vault'[b].identity, account)
  <2>1. vault' = [vault EXCEPT ![BrowserOf[w]] = [Vault(w) EXCEPT !.identity = i]]
    BY <1>h DEF Remembers, Vault
  <2>2. [Vault(w) EXCEPT !.identity = i].identity = i
    BY <1>b DEF VaultsUpTo
  <2>3. \A b \in Browsers : IdentityOK(vault[b].identity, account)
    BY UnlockParts DEF UnlockInv
  <2> QED
    BY <2>1, <2>2, <2>3, <1>a, <1>b, <1>h
<1>i. ASSUME NEW p \in BOOLEAN, NEW r \in BOOLEAN, Stores(w, p, r)
      PROVE  /\ store'[w] = [store[w] EXCEPT !.phrase = p, !.remember = r]
             /\ \A v \in Windows \ {w} : store'[v] = store[v]
  BY <1>a, <1>i DEF Stores
<1>j. ASSUME GivesIn(w), account' = account
      PROVE  /\ WindowOK(unlocking'[w], store'[w], account)
             /\ \A v \in Windows \ {w} : unlocking'[v] = unlocking[v] /\ store'[v] = store[v]
  <2>1. WindowOK([at EXCEPT !.step = "dialog"], store[w], account)
    BY <1>b, <1>c DEF WindowOK, AttemptsUpTo
  <2>2. WindowOK([at EXCEPT !.step = "dialog"],
                 [store[w] EXCEPT !.phrase = FALSE, !.remember = FALSE], account)
    BY <1>b, <1>c DEF WindowOK, AttemptsUpTo, StoredKeys
  <2> QED
    BY <2>1, <2>2, <1>g, <1>i, <1>j DEF GivesIn
\* A step is one window's, and the account is registered once.
<1>m. ASSUME account' = account \/ account = Unsigned,
             WindowOK(unlocking'[w], store'[w], account'),
             \A v \in Windows \ {w} : unlocking'[v] = unlocking[v] /\ store'[v] = store[v],
             \A b \in Browsers : \/ IdentityOK(vault'[b].identity, account')
                                 \/ vault'[b].identity = vault[b].identity
      PROVE  OneSigningIdentity' /\ SignsAsTheAccount'
  <2>1. \A v \in Windows : WindowOK(unlocking'[v], store'[v], account')
    <3> SUFFICES ASSUME NEW v \in Windows \ {w} PROVE WindowOK(unlocking[v], store[v], account')
      BY <1>m
    <3>1. WindowOK(unlocking[v], store[v], account)
      BY UnlockParts DEF UnlockInv
    <3> QED
      BY <3>1, <1>m DEF WindowOK
  <2>2. \A b \in Browsers : IdentityOK(vault'[b].identity, account')
    <3> SUFFICES ASSUME NEW b \in Browsers PROVE IdentityOK(vault'[b].identity, account')
      OBVIOUS
    <3>1. IdentityOK(vault[b].identity, account)
      BY UnlockParts DEF UnlockInv
    <3> QED
      BY <3>1, <1>m DEF IdentityOK
  <2> QED
    BY <2>1, <2>2, UnlockPartsAfter
<1> HIDE DEF at
<1>2. CASE Boot(w)
  <2>1. [Locked EXCEPT !.me = account, !.step = "look"].me = account
    BY DEF Locked
  <2>2. CASE ~store[w].forced /\ account # Unsigned
    <3>1. WindowOK([Locked EXCEPT !.me = account, !.step = "look"], store[w], account)
      BY <2>2 DEF WindowOK, Locked
    <3> QED
      BY <3>1, <2>2, <1>2, <1>f, <1>m DEF Boot
  <2>3. CASE ~(~store[w].forced /\ account # Unsigned)
    <3>1. WindowOK([Locked EXCEPT !.me = account, !.step = AfterVault(w)], store[w], account)
      BY <1>d DEF WindowOK, Locked, AfterVault
    <3> QED
      BY <3>1, <2>3, <1>2, <1>f, <1>m DEF Boot
  <2> QED
    BY <2>2, <2>3
<1>3. WindowOK([at EXCEPT !.step = AfterVault(w)], store[w], account)
  BY <1>b, <1>c DEF WindowOK, AttemptsUpTo, AfterVault
<1>4. WindowOK([at EXCEPT !.step = AfterVault(w), !.device = Unsigned], store[w], account)
  BY <1>b, <1>c DEF WindowOK, AttemptsUpTo, AfterVault
<1>5. CASE Look(w)
  <2>1. CASE Vault(w).identity # NotKept /\ Vault(w).identity.key = at.me
    <3>1. WindowOK([at EXCEPT !.step = "unseal", !.held = Vault(w).identity], store[w], account)
      BY <2>1, <1>5, <1>b, <1>c DEF WindowOK, IdentityOK, AttemptsUpTo, Look, AtStep, at
    <3> QED
      BY <3>1, <2>1, <1>5, <1>f, <1>m DEF Look, at
  <2>2. CASE ~(Vault(w).identity # NotKept /\ Vault(w).identity.key = at.me)
    BY <2>2, <1>3, <1>5, <1>g, <1>m DEF Look, at
  <2> QED
    BY <2>1, <2>2
<1>6. CASE ReadDeviceKey(w)
  <2>1. WindowOK([at EXCEPT !.device = Vault(w).device], store[w], account)
    BY <1>b, <1>c DEF WindowOK, AttemptsUpTo
  <2> QED
    BY <2>1, <1>6, <1>f, <1>m DEF ReadDeviceKey, at
<1>7. CASE MakeDeviceKey(w)
  <2> DEFINE s == IF at.step = "seal" THEN "write and seal" ELSE "write and unseal"
  <2>1. WindowOK([at EXCEPT !.device = made', !.step = s], store[w], account)
    BY <1>7, <1>b, <1>c DEF WindowOK, AttemptsUpTo, MakeDeviceKey, AtStep, at
  <2>2. Becomes(w, [at EXCEPT !.device = made', !.step = s])
    BY <1>7 DEF MakeDeviceKey, at
  <2> HIDE DEF s
  <2> QED
    BY <2>1, <2>2, <1>7, <1>f, <1>m DEF MakeDeviceKey
<1>8. CASE WriteDeviceKey(w)
  <2> DEFINE s == IF AtStep(w, {"write and seal"}) THEN "seal" ELSE "unseal"
  <2>1. WindowOK([at EXCEPT !.step = s], store[w], account)
    BY <1>8, <1>b, <1>c DEF WindowOK, AttemptsUpTo, WriteDeviceKey, AtStep, at
  <2>2. Steps(w, s)
    BY <1>8 DEF WriteDeviceKey
  <2>3. vault' = [vault EXCEPT ![BrowserOf[w]] = [Vault(w) EXCEPT !.device = at.device]]
    BY <1>8 DEF WriteDeviceKey, Vault, at
  <2>4. [Vault(w) EXCEPT !.device = at.device].identity = Vault(w).identity
    BY <1>b DEF VaultsUpTo
  <2>5. \A b \in Browsers : vault'[b].identity = vault[b].identity
    BY <2>3, <2>4, <1>a DEF Vault
  <2> HIDE DEF s
  <2> QED
    BY <2>1, <2>2, <2>5, <1>8, <1>g, <1>m DEF WriteDeviceKey
<1>9. CASE Unseal(w)
  <2>1. WindowOK([at EXCEPT !.step = "open", !.key = at.held.key],
                 [store[w] EXCEPT !.phrase = FALSE, !.remember = FALSE], account)
    BY <1>9, <1>b, <1>c DEF WindowOK, AttemptsUpTo, StoredKeys, Unseal, AtStep, at
  <2>2. /\ Becomes(w, [at EXCEPT !.step = "open", !.key = at.held.key])
        /\ Stores(w, FALSE, FALSE) /\ UNCHANGED <<account, vault>>
    BY <1>9 DEF Unseal, at
  <2> QED
    BY <2>1, <2>2, <1>f, <1>i, <1>m
<1>10. CASE BrokenSeal(w)
  BY <1>4, <1>10, <1>d, <1>f, <1>h, <1>m DEF BrokenSeal, at
<1>11. ASSUME NEW tried \in AttemptsUpTo(made), tried.me = at.me,
              store[w].forced => tried.typed /\ tried.remember,
              UpgradeIdentityEnvelope(w, tried), UNCHANGED <<account, vault, store, spent>>
       PROVE  OneSigningIdentity' /\ SignsAsTheAccount'
  <2>1. CASE at.me # Unsigned
    <3>1. WindowOK([tried EXCEPT !.step = "keep", !.key = at.me], store[w], account)
      BY <2>1, <1>11, <1>b, <1>c DEF WindowOK, AttemptsUpTo
    <3> QED
      BY <3>1, <2>1, <1>11, <1>f, <1>m DEF UpgradeIdentityEnvelope, at
  <2>2. CASE at.me = Unsigned
    <3>0. made' = made + 1
      BY <2>2, <1>11 DEF UpgradeIdentityEnvelope, Generate, at
    <3>r. made' # Unsigned
      BY <3>0, <1>a DEF Unsigned
    <3>1. WindowOK([tried EXCEPT !.step = "register", !.key = made'], store[w], account)
      BY <3>r, <2>2, <1>11, <1>b, <1>c DEF WindowOK, AttemptsUpTo
    <3> QED
      BY <3>1, <2>2, <1>11, <1>f, <1>m DEF UpgradeIdentityEnvelope, at
  <2> QED
    BY <2>1, <2>2
<1>12. CASE AttemptSaved(w)
  <2> DEFINE tried == [at EXCEPT !.remember = store[w].remember, !.typed = FALSE]
  <2>1. tried \in AttemptsUpTo(made) /\ tried.me = at.me
    BY <1>b DEF AttemptsUpTo, StoredKeys
  <2>2. ~store[w].forced
    BY <1>12, <1>c DEF AttemptSaved, AtStep, WindowOK, at
  <2>3. UpgradeIdentityEnvelope(w, tried) /\ UNCHANGED <<account, vault, store, spent>>
    BY <1>12 DEF AttemptSaved, at
  <2> HIDE DEF tried
  <2> QED
    BY <2>1, <2>2, <2>3, <1>11
<1>13. ASSUME NEW b \in BOOLEAN, AttemptTyped(w, b)
       PROVE  OneSigningIdentity' /\ SignsAsTheAccount'
  <2> DEFINE tried == [at EXCEPT !.remember = b, !.typed = TRUE]
  <2>1. tried \in AttemptsUpTo(made) /\ tried.me = at.me
    BY <1>b DEF AttemptsUpTo
  <2>2. tried.typed /\ (store[w].forced => tried.remember)
    BY <1>13, <1>b DEF AttemptTyped, AttemptsUpTo
  <2>3. UpgradeIdentityEnvelope(w, tried) /\ UNCHANGED <<account, vault, store, spent>>
    BY <1>13 DEF AttemptTyped, at
  <2> HIDE DEF tried
  <2> QED
    BY <2>1, <2>2, <2>3, <1>11
<1>14. CASE WrongPhrase(w)
  <2>1. WindowOK([at EXCEPT !.step = "dialog"],
                 [store[w] EXCEPT !.phrase = FALSE, !.remember = FALSE], account)
    BY <1>b, <1>c DEF WindowOK, AttemptsUpTo, StoredKeys
  <2> QED
    BY <2>1, <1>14, <1>g, <1>i, <1>m DEF WrongPhrase
<1>15. ASSUME at.step = "register"
       PROVE  at.key # Unsigned /\ at.me \in {Unsigned, account}
  BY <1>15, <1>c DEF WindowOK
<1>16. CASE RegisterKey(w)
  <2>0. at.step = "register" /\ account' = Registered(w) /\ (account' = account \/ account = Unsigned)
    BY <1>16 DEF RegisterKey, AtStep, Registered, at
  <2>1. CASE account' = at.key
    <3>1. WindowOK([at EXCEPT !.step = "trust", !.me = account'], store[w], account')
      BY <2>0, <2>1, <1>15, <1>b, <1>c DEF WindowOK, AttemptsUpTo
    <3> QED
      BY <3>1, <2>0, <2>1, <1>16, <1>f, <1>m DEF RegisterKey, at
  <2>2. CASE account' # at.key
    <3>1. account' = account
      BY <2>0, <2>2 DEF Registered, at
    <3>2. WindowOK([at EXCEPT !.step = "reload"], store[w], account)
      BY <2>0, <1>b, <1>c DEF WindowOK, AttemptsUpTo
    <3> QED
      BY <3>1, <3>2, <2>2, <1>16, <1>g, <1>m DEF RegisterKey, at
  <2> QED
    BY <2>1, <2>2
<1>17. ASSUME NEW b \in BOOLEAN, RegisterKeyFails(w, b)
       PROVE  OneSigningIdentity' /\ SignsAsTheAccount'
  <2>0. at.step = "register" /\ (account' = account \/ account = Unsigned)
    BY <1>17 DEF RegisterKeyFails, AtStep, Registered, at
  <2>1. WindowOK([at EXCEPT !.step = "reload"], store[w], account')
    BY <2>0, <1>b, <1>c DEF WindowOK, AttemptsUpTo
  <2> QED
    BY <2>0, <2>1, <1>17, <1>g, <1>m DEF RegisterKeyFails
<1>18. CASE ReadAgain(w)
  <2>1. WindowOK([at EXCEPT !.step = "trust", !.me = account, !.key = account], store[w], account)
    BY <1>18, <1>b, <1>c DEF WindowOK, AttemptsUpTo, ReadAgain, AtStep, at
  <2> QED
    BY <2>1, <1>18, <1>f, <1>m DEF ReadAgain, Migrated, at
<1>19. CASE NothingRead(w)
  BY <1>19, <1>j, <1>m DEF NothingRead
<1>20. CASE ReadAgainFails(w)
  BY <1>20, <1>j, <1>m DEF ReadAgainFails
<1>21. CASE ObserveItself(w)
  <2>1. WindowOK([at EXCEPT !.step = "keep"], store[w], account)
    BY <1>21, <1>b, <1>c DEF WindowOK, AttemptsUpTo, ObserveItself, AtStep, at
  <2> QED
    BY <2>1, <1>21, <1>g, <1>m DEF ObserveItself
<1>22. CASE KeepPhrase(w)
  <2>1. ~store[w].forced
    BY <1>22, <1>c DEF KeepPhrase, AtStep, WindowOK, at
  <2>2. WindowOK([at EXCEPT !.step = Unlocked(w)],
                 [store[w] EXCEPT !.phrase = TRUE, !.remember = FALSE], account)
    BY <2>1, <1>22, <1>b, <1>c DEF WindowOK, AttemptsUpTo, StoredKeys, KeepPhrase, AtStep, Unlocked, at
  <2> QED
    BY <2>2, <1>22, <1>g, <1>i, <1>m DEF KeepPhrase
<1>23. CASE RememberIdentity(w)
  <2>1. WindowOK([at EXCEPT !.step = "seal", !.device = Unsigned], store[w], account)
    BY <1>23, <1>b, <1>c DEF WindowOK, AttemptsUpTo, RememberIdentity, AtStep, at
  <2> QED
    BY <2>1, <1>23, <1>f, <1>m DEF RememberIdentity, at
<1>24. CASE Seal(w)
  <2>0. at.step = "seal"
    BY <1>24 DEF Seal, AtStep, at
  <2>1. WindowOK([at EXCEPT !.step = Unlocked(w)],
                 [store[w] EXCEPT !.phrase = FALSE, !.remember = FALSE], account)
    BY <2>0, <1>b, <1>c DEF WindowOK, AttemptsUpTo, StoredKeys, Unlocked, at
  <2>2. IdentityOK([seal |-> at.device, key |-> at.me], account)
    BY <2>0, <1>c DEF WindowOK, IdentityOK
  <2> QED
    BY <2>1, <2>2, <1>24, <1>g, <1>h, <1>i, <1>m DEF Seal, at
<1>25. CASE ResetCounter(w)
  <2>1. WindowOK([at EXCEPT !.step = "open"], [store[w] EXCEPT !.forced = FALSE], account)
    BY <1>25, <1>b, <1>c DEF WindowOK, AttemptsUpTo, StoredKeys, ResetCounter, AtStep, at
  <2>2. store'[w] = [store[w] EXCEPT !.forced = FALSE] /\ \A v \in Windows \ {w} : store'[v] = store[v]
    BY <1>25, <1>a DEF ResetCounter
  <2> QED
    BY <2>1, <2>2, <1>25, <1>g, <1>m DEF ResetCounter
<1>26. CASE VaultFails(w)
  <2>0. account' = account
    BY <1>26 DEF VaultFails
  <2>1. CASE AtStep(w, {"look"}) /\ Steps(w, AfterVault(w)) /\ UNCHANGED <<vault, store>>
    BY <2>0, <2>1, <1>3, <1>g, <1>m
  <2>2. CASE /\ Remembers(w, NotKept) \/ UNCHANGED vault
             /\ Becomes(w, [unlocking[w] EXCEPT !.step = AfterVault(w), !.device = Unsigned])
             /\ UNCHANGED store
    BY <2>0, <2>2, <1>4, <1>d, <1>f, <1>h, <1>m DEF at
  <2>3. CASE GivesIn(w) /\ UNCHANGED vault
    BY <2>0, <2>3, <1>j, <1>m
  <2>4. CASE AtStep(w, {"count"}) /\ Steps(w, "dialog") /\ UNCHANGED <<vault, store>>
    <3>1. WindowOK([at EXCEPT !.step = "dialog"], store[w], account)
      BY <1>b, <1>c DEF WindowOK, AttemptsUpTo
    <3> QED
      BY <3>1, <2>0, <2>4, <1>g, <1>m
  <2> QED
    BY <2>1, <2>2, <2>3, <2>4, <1>26 DEF VaultFails
<1>27. CASE RefreshPage(w)
  BY <1>27, <1>d, <1>f, <1>m DEF RefreshPage
<1>28. CASE ForgetIdentity(w)
  BY <1>28, <1>c, <1>d, <1>h, <1>m DEF ForgetIdentity, at
<1>29. ASSUME NEW b \in BOOLEAN, SignInAgain(w, b)
       PROVE  OneSigningIdentity' /\ SignsAsTheAccount'
  <2> DEFINE fresh == [phrase |-> FALSE, remember |-> FALSE, forced |-> b]
  <2>1. WindowOK(Locked, fresh, account)
    BY DEF WindowOK, Locked
  <2>2. store'[w] = fresh /\ \A v \in Windows \ {w} : store'[v] = store[v]
    BY <1>29, <1>a DEF SignInAgain
  <2> HIDE DEF fresh
  <2> QED
    BY <2>1, <2>2, <1>29, <1>f, <1>m DEF SignInAgain
<1> QED
  BY <1>1, <1>2, <1>5, <1>6, <1>7, <1>8, <1>9, <1>10, <1>12, <1>13, <1>14, <1>16, <1>17,
     <1>18, <1>19, <1>20, <1>21, <1>22, <1>23, <1>24, <1>25, <1>26, <1>27, <1>28, <1>29

\* The steps keep the invariant.
LEMMA UnlockNextInv ==
  ASSUME UnlockBounds, UnlockInv, [UnlockNext]_unlockVars PROVE UnlockInv'
<1>1. CASE UnlockNext
  BY <1>1, UnlockKeepsTypes, UnlockKeepsSigning DEF UnlockInv
<1>2. CASE UNCHANGED unlockVars
  BY <1>2 DEF UnlockInv, UnlockTypeOK, OneSigningIdentity, SignsAsTheAccount, unlockVars,
     KeptIdentities, AtStep
<1> QED
  BY <1>1, <1>2

\* Each window past the registration has the key of the account, and so do the browsers.
THEOREM UnlockInvariant == ASSUME UnlockBounds PROVE UnlockSpec => []UnlockInv
<1>1. UnlockInit => UnlockInv
  BY UnlockInitInv
<1>2. UnlockInv /\ [UnlockNext]_unlockVars => UnlockInv'
  BY UnlockNextInv
<1> QED
  BY <1>1, <1>2, PTL DEF UnlockSpec

\* Windows that migrate the account at once agree on its signing identity, whatever is lost.
THEOREM OneSigner == ASSUME UnlockBounds PROVE UnlockSpec => []OneSigningIdentity
<1>1. UnlockInv => OneSigningIdentity
  BY DEF UnlockInv
<1>2. QED BY <1>1, UnlockInvariant, PTL

\* The types of the windows, the vaults and the server's account.
THEOREM UnlockTyped == ASSUME UnlockBounds PROVE UnlockSpec => []UnlockTypeOK
<1>1. UnlockInv => UnlockTypeOK
  BY DEF UnlockInv
<1>2. QED BY <1>1, UnlockInvariant, PTL

-----------------------------------------------------------------------------
(* The links of a file: those the dialog shows exist, and those it lists are of its file.      *)

Links == [of : SharedFiles, active : BOOLEAN]
Phases == {"none", "asked", "lost", "answered", "failed"}
Creations == [at : Phases, of : SharedFiles \cup {NoFile}, link : Nat]
Listings == [n : Nat, of : SharedFiles, valid : BOOLEAN, at : {"asked", "answered"}, found : SUBSET Nat]
LinksOf(f) == {n \in DOMAIN links : links[n].of = f}

SharesTyped ==
  /\ links \in Seq(Links) /\ dialogs \in Nat
  /\ sharedFile \in SharedFiles \cup {NoFile}
  /\ creation \in Creations /\ (creation.at # "none" => creation.of # NoFile)
  /\ listings \subseteq Listings

\* The links a page holds are registered ones, those of an answer are of the file it is about.
LinksAreKnown ==
  /\ address \in {0} \cup DOMAIN links /\ madeLink \in {0} \cup DOMAIN links
  /\ listedLinks \subseteq DOMAIN links
  /\ creation.link \in {0} \cup DOMAIN links
  /\ creation.at = "answered" => creation.link # 0
  /\ \A l \in listings : l.found \subseteq LinksOf(l.of)

SharesInv == SharesTyped /\ LinksAreKnown /\ ListedLinksAreOfTheFile

\* The count of a file is at most that of all links, and one more once a creation was counted
\* that a list had in it already.
CountsFit ==
  /\ counts \in [SharedFiles -> Nat]
  /\ \A f \in SharedFiles : counts[f] <= Len(links) + (IF creation.link = 0 THEN 1 ELSE 0)
  /\ Len(links) <= MaxLinks
  /\ creation.at = "asked" => creation.link = 0 /\ Len(links) < MaxLinks

\* A link registered before the page opened, and no dialog.
LEMMA SharesInitInv == ASSUME SharesAssumption, SharesInit PROVE SharesInv
<1> USE DEF SharesInit, SharesAssumption
<1>1. (CHOOSE f \in SharedFiles : TRUE) \in SharedFiles
  OBVIOUS
<1>2. SharesTyped
  <2>1. links \in Seq(Links)
    BY <1>1 DEF Links
  <2>2. creation \in Creations /\ creation.at = "none"
    BY DEF Creations, Phases, NotCreating
  <2> QED
    BY <2>1, <2>2 DEF SharesTyped
<1>3. LinksAreKnown
  BY DEF LinksAreKnown, NotCreating
<1>4. ListedLinksAreOfTheFile
  BY DEF ListedLinksAreOfTheFile
<1> QED
  BY <1>2, <1>3, <1>4 DEF SharesInv

\* The steps of the dialog, of a creation, and of a revocation.
LEMMA SharesCases ==
  ASSUME SharesNext
  PROVE  \/ ServerCreates
         \/ \E r \in revoking : ServerRevokes(r)
         \/ UNCHANGED links /\ \/ \E f \in SharedFiles : OpenShares(f)
                               \/ \E l \in listings : ListAnswer(l)
                               \/ \E l \in listings : ListArrives(l)
                               \/ \E l \in listings : ListFails(l)
                               \/ CloseShares \/ CreateLink \/ RequestLost \/ RecoverLink
                               \/ CreateArrives \/ CreateFails \/ Revoke
                               \/ \E n \in listedLinks : RevokeListed(n)
                               \/ \E r \in revoking : RevokeArrives(r)
                               \/ \E r \in revoking : RevokeFails(r)
BY DEF SharesNext, OpenShares, ListAnswer, ListArrives, ListFails, CloseShares, CreateLink,
   RequestLost, RecoverLink, CreateArrives, CreateFails, Revoke, RevokeListed, RevokeArrives, RevokeFails

\* Links are never taken away and keep their file.
LEMMA LinksStay ==
  ASSUME SharesTyped, SharesNext
  PROVE  /\ links' \in Seq(Links) /\ DOMAIN links \subseteq DOMAIN links'
         /\ \A n \in DOMAIN links : links'[n].of = links[n].of
<1> USE DEF SharesTyped
<1>2. CASE ServerCreates
  <2> DEFINE newLink == [of |-> creation.of, active |-> TRUE]
  <2>1. links' = Append(links, newLink) /\ creation.at = "asked"
    BY <1>2 DEF ServerCreates
  <2>2. newLink \in Links
    BY <2>1 DEF Creations, Links
  <2> HIDE DEF newLink
  <2> QED
    BY <2>1, <2>2, AppendProperties
<1>3. ASSUME NEW r \in revoking, ServerRevokes(r)
      PROVE  /\ links' \in Seq(Links) /\ DOMAIN links \subseteq DOMAIN links'
             /\ \A n \in DOMAIN links : links'[n].of = links[n].of
  <2> DEFINE ended == [links[r.link] EXCEPT !.active = FALSE]
  <2>1. r.link \in DOMAIN links /\ links' = [links EXCEPT ![r.link] = ended]
    BY <1>3 DEF ServerRevokes
  <2>2. links[r.link] \in Links
    BY <2>1
  <2>3. ended \in Links /\ ended.of = links[r.link].of
    BY <2>2 DEF Links
  <2> HIDE DEF ended
  <2> QED
    BY <2>1, <2>3
<1>4. CASE UNCHANGED links
  BY <1>4
<1> QED
  BY SharesCases, <1>2, <1>3, <1>4

\* A step keeps the requests and the answers well formed.
LEMMA SharesKeepTypes ==
  ASSUME SharesAssumption, SharesInv, SharesNext PROVE SharesTyped'
<1> USE DEF SharesInv, SharesTyped
<1>0. links' \in Seq(Links) /\ \A n \in DOMAIN links : n \in Nat
  BY LinksStay
<1>a. \A l \in listings : [l EXCEPT !.valid = FALSE] \in Listings
  BY DEF Listings
<1>b. OutdatedListings \subseteq Listings
  BY <1>a DEF OutdatedListings
<1>c. \A p \in Phases : [creation EXCEPT !.at = p] \in Creations /\ [creation EXCEPT !.at = p].of = creation.of
  BY DEF Creations
<1>d. NotCreating \in Creations /\ NotCreating.at = "none"
  BY DEF NotCreating, Creations, Phases
<1>1. CASE ServerCreates
  <2>1. Len(links) + 1 \in Nat
    BY LenProperties
  <2>2. /\ [creation EXCEPT !.at = "answered", !.link = Len(links) + 1] \in Creations
        /\ [creation EXCEPT !.at = "lost", !.link = Len(links) + 1] \in Creations
    BY <2>1 DEF Creations, Phases
  <2>3. creation' \in Creations /\ creation'.of = creation.of /\ creation.at = "asked"
    BY <1>1, <2>2 DEF ServerCreates, Creations
  <2> QED
    BY <1>0, <1>1, <2>3 DEF ServerCreates, shareDialogVars
<1>2. ASSUME NEW r \in revoking, ServerRevokes(r) PROVE SharesTyped'
  BY <1>0, <1>2 DEF ServerRevokes, shareDialogVars
<1>3. ASSUME NEW f \in SharedFiles, OpenShares(f) PROVE SharesTyped'
  <2>1. [n |-> dialogs, of |-> f, valid |-> TRUE, at |-> "asked", found |-> {}] \in Listings
    BY DEF Listings
  <2>2. listings' \subseteq Listings
    BY <1>3, <1>b, <2>1 DEF OpenShares
  <2>3. dialogs' \in Nat
    BY <1>3 DEF OpenShares
  <2> QED
    BY <1>0, <1>3, <2>2, <2>3 DEF OpenShares
<1>4. ASSUME NEW l \in listings, ListAnswer(l) PROVE SharesTyped'
  <2>1. ActiveLinks(l.of) \subseteq Nat
    BY <1>0 DEF ActiveLinks
  <2>2. [l EXCEPT !.at = "answered", !.found = ActiveLinks(l.of)] \in Listings
    BY <2>1 DEF Listings
  <2>3. listings' \subseteq Listings
    BY <1>4, <2>2 DEF ListAnswer
  <2> QED
    BY <1>0, <1>4, <2>3 DEF ListAnswer, shareDialogVars
<1>5. ASSUME NEW l \in listings, ListArrives(l) \/ ListFails(l) PROVE SharesTyped'
  <2>1. listings' \subseteq listings
    BY <1>5 DEF ListArrives, ListFails
  <2>2. sharedFile' \in {NoFile, sharedFile}
    BY <1>5 DEF ListArrives, ListFails
  <2>3. UNCHANGED <<dialogs, creation>>
    BY <1>5 DEF ListArrives, ListFails
  <2> QED
    BY <1>0, <2>1, <2>2, <2>3
<1>6. CASE CloseShares
  BY <1>0, <1>6, <1>b DEF CloseShares
<1>7. CASE CreateLink
  <2>1. [at |-> "asked", of |-> sharedFile, link |-> 0] \in Creations
    BY DEF Creations, Phases
  <2> QED
    BY <1>0, <1>7, <2>1 DEF CreateLink, shareDialogVars
<1>8. ASSUME NEW p \in Phases, creation.at # "none", creation' = [creation EXCEPT !.at = p],
             UNCHANGED <<sharedFile, listings, dialogs>>
      PROVE  SharesTyped'
  BY <1>0, <1>8, <1>c
<1>9. CASE RequestLost
  BY <1>8, <1>9 DEF RequestLost, shareDialogVars, Phases
<1>10. CASE RecoverLink
  <2>1. FoundAgain \in Phases
    BY DEF FoundAgain, Phases
  <2>2. \E p \in Phases : creation' = [creation EXCEPT !.at = p]
    BY <1>10, <2>1 DEF RecoverLink, Phases
  <2> QED
    BY <1>8, <1>10, <2>2 DEF RecoverLink, shareDialogVars
<1>11. CASE CreateArrives \/ CreateFails
  BY <1>0, <1>11, <1>d DEF CreateArrives, CreateFails, shareDialogVars
<1>12. CASE \/ Revoke
            \/ \E n \in listedLinks : RevokeListed(n)
            \/ \E r \in revoking : RevokeArrives(r)
            \/ \E r \in revoking : RevokeFails(r)
  <2>1. UNCHANGED <<sharedFile, creation, listings, dialogs>>
    BY <1>12 DEF Revoke, RevokeListed, RevokeArrives, RevokeFails, shareDialogVars
  <2> QED
    BY <1>0, <2>1
<1> QED
  BY SharesCases, <1>1, <1>2, <1>3, <1>4, <1>5, <1>6, <1>7, <1>9, <1>10, <1>11, <1>12

\* A step gives the page links that exist only, and lists no link of another file.
LEMMA SharesKeepLinks ==
  ASSUME SharesAssumption, SharesInv, SharesNext PROVE LinksAreKnown' /\ ListedLinksAreOfTheFile'
<1> USE DEF SharesInv, LinksAreKnown
<1>0. SharesTyped
  OBVIOUS
<1>1. DOMAIN links \subseteq DOMAIN links' /\ \A n \in DOMAIN links : links'[n].of = links[n].of
  BY LinksStay
<1>2. \A f \in SharedFiles : LinksOf(f) \subseteq LinksOf(f)'
  BY <1>1 DEF LinksOf
<1>3. \A l \in listings : l.of \in SharedFiles /\ l.found \subseteq LinksOf(l.of)'
  BY <1>0, <1>2 DEF SharesTyped, Listings
\* What each step may give.
<1>a. ASSUME address' \in {0, address} \cup DOMAIN links', madeLink' \in {0, madeLink} \cup DOMAIN links',
             listedLinks' \subseteq DOMAIN links', creation'.link \in {0} \cup DOMAIN links',
             creation'.at = "answered" => creation'.link # 0,
             \A l \in listings' : l.found \subseteq LinksOf(l.of)'
      PROVE  LinksAreKnown'
  BY <1>1, <1>a
<1>b. ASSUME UNCHANGED <<sharesOpen, sharedFile>>, listedLinks' \subseteq listedLinks
      PROVE  ListedLinksAreOfTheFile'
  BY <1>1, <1>b DEF ListedLinksAreOfTheFile
<1>c. /\ address \in {0} \cup DOMAIN links' /\ madeLink \in {0} \cup DOMAIN links'
      /\ listedLinks \subseteq DOMAIN links' /\ creation.link \in {0} \cup DOMAIN links'
  BY <1>1
<1>d. \A l \in OutdatedListings : l.found \subseteq LinksOf(l.of)'
  <2> SUFFICES ASSUME NEW l \in listings
               PROVE  [l EXCEPT !.valid = FALSE].found \subseteq LinksOf([l EXCEPT !.valid = FALSE].of)'
    BY DEF OutdatedListings
  <2>1. [l EXCEPT !.valid = FALSE].found = l.found /\ [l EXCEPT !.valid = FALSE].of = l.of
    BY <1>0 DEF SharesTyped, Listings
  <2> QED
    BY <1>3, <2>1
<1>4. CASE ServerCreates
  <2> DEFINE newLink == [of |-> creation.of, active |-> TRUE]
  <2>1. creation'.link = Len(links) + 1
    BY <1>0, <1>4 DEF ServerCreates, SharesTyped, Creations
  <2>2. links' = Append(links, newLink) /\ creation.at = "asked"
    BY <1>4 DEF ServerCreates
  <2>3. newLink \in Links
    BY <1>0, <2>2 DEF SharesTyped, Creations, Links
  <2> HIDE DEF newLink
  <2>4. Len(links) + 1 \in DOMAIN links' /\ Len(links) + 1 # 0
    BY <1>0, <2>2, <2>3, AppendProperties, LenProperties DEF SharesTyped
  <2> QED
    BY <1>3, <1>4, <1>a, <1>b, <1>c, <2>1, <2>4 DEF ServerCreates, shareDialogVars
<1>5. ASSUME NEW r \in revoking, ServerRevokes(r) PROVE LinksAreKnown' /\ ListedLinksAreOfTheFile'
  BY <1>3, <1>5, <1>a, <1>b, <1>c DEF ServerRevokes, shareDialogVars
<1>6. ASSUME NEW f \in SharedFiles, OpenShares(f) PROVE LinksAreKnown' /\ ListedLinksAreOfTheFile'
  <2>1. \A l \in listings' : l.found \subseteq LinksOf(l.of)'
    BY <1>6, <1>d DEF OpenShares
  <2> QED
    BY <1>6, <1>a, <1>c, <2>1 DEF OpenShares, ListedLinksAreOfTheFile
<1>7. ASSUME NEW l \in listings, ListAnswer(l) PROVE LinksAreKnown' /\ ListedLinksAreOfTheFile'
  <2>0. PICK o : o = [l EXCEPT !.at = "answered", !.found = ActiveLinks(l.of)]
    OBVIOUS
  <2>1. o.of = l.of /\ o.found = ActiveLinks(l.of)
    BY <1>0, <2>0 DEF SharesTyped, Listings
  <2>2. links' = links /\ listings' = (listings \ {l}) \cup {o}
    BY <1>7, <2>0 DEF ListAnswer
  <2>3. o.found \subseteq LinksOf(o.of)'
    BY <2>1, <2>2 DEF ActiveLinks, LinksOf
  <2>4. \A k \in listings' : k.found \subseteq LinksOf(k.of)'
    BY <1>3, <2>2, <2>3
  <2> QED
    BY <1>7, <1>a, <1>b, <1>c, <2>4 DEF ListAnswer, shareDialogVars
<1>8. ASSUME NEW l \in listings, ListArrives(l) PROVE LinksAreKnown' /\ ListedLinksAreOfTheFile'
  <2>1. l.found \subseteq LinksOf(l.of)'
    BY <1>3
  <2>2. LinksAreKnown'
    BY <1>3, <1>8, <1>a, <1>c, <2>1 DEF ListArrives, LinksOf
  <2>3. CASE LatestOpening(l)
    <3>1. sharedFile' = l.of /\ listedLinks' = l.found
      BY <1>8, <2>3 DEF ListArrives, LatestOpening
    <3> QED
      BY <2>1, <2>2, <3>1 DEF ListedLinksAreOfTheFile, LinksOf
  <2>4. CASE ~LatestOpening(l)
    BY <1>8, <1>b, <2>2, <2>4 DEF ListArrives
  <2> QED
    BY <2>3, <2>4
<1>9. ASSUME NEW l \in listings, ListFails(l) PROVE LinksAreKnown' /\ ListedLinksAreOfTheFile'
  <2>1. LinksAreKnown'
    BY <1>3, <1>9, <1>a, <1>c DEF ListFails
  <2>2. CASE LatestOpening(l)
    BY <1>9, <2>1, <2>2 DEF ListFails, ListedLinksAreOfTheFile
  <2>3. CASE ~LatestOpening(l)
    BY <1>9, <1>b, <2>1, <2>3 DEF ListFails
  <2> QED
    BY <2>2, <2>3
<1>10. CASE CloseShares
  BY <1>10, <1>a, <1>c, <1>d DEF CloseShares, ListedLinksAreOfTheFile
<1>11. CASE CreateLink
  BY <1>3, <1>11, <1>a, <1>b, <1>c DEF CreateLink, shareDialogVars
<1>12. CASE RequestLost
  <2>1. creation'.link = creation.link /\ creation'.at = "lost"
    BY <1>0, <1>12 DEF RequestLost, SharesTyped, Creations
  <2> QED
    BY <1>3, <1>12, <1>a, <1>b, <1>c, <2>1 DEF RequestLost, shareDialogVars
<1>13. CASE RecoverLink
  <2>1. creation'.link = creation.link /\ (creation'.at = "answered" => creation.link # 0)
    BY <1>0, <1>13 DEF RecoverLink, FoundAgain, SharesTyped, Creations
  <2> QED
    BY <1>3, <1>13, <1>a, <1>b, <1>c, <2>1 DEF RecoverLink, shareDialogVars
<1>14. CASE CreateArrives
  <2>1. creation.link \in DOMAIN links'
    BY <1>1, <1>14 DEF CreateArrives
  <2>2. address' = creation.link /\ madeLink' = creation.link
    BY <1>14 DEF CreateArrives
  <2> QED
    BY <1>3, <1>14, <1>a, <1>b, <2>1, <2>2 DEF CreateArrives, NotCreating
<1>15. CASE CreateFails
  BY <1>3, <1>15, <1>a, <1>b, <1>c DEF CreateFails, NotCreating, shareDialogVars
<1>16. CASE Revoke
  BY <1>3, <1>16, <1>a, <1>b, <1>c DEF Revoke, shareDialogVars
<1>17. ASSUME NEW n \in listedLinks, RevokeListed(n) PROVE LinksAreKnown' /\ ListedLinksAreOfTheFile'
  BY <1>3, <1>17, <1>a, <1>b, <1>c DEF RevokeListed, shareDialogVars
<1>18. ASSUME NEW r \in revoking, RevokeArrives(r) PROVE LinksAreKnown' /\ ListedLinksAreOfTheFile'
  <2>1. /\ listedLinks' \subseteq listedLinks /\ address' \in {0, address} /\ madeLink' \in {0, madeLink}
        /\ UNCHANGED <<links, sharesOpen, sharedFile, listings, creation>>
    BY <1>18 DEF RevokeArrives
  <2> QED
    BY <1>3, <1>a, <1>b, <1>c, <2>1
<1>19. ASSUME NEW r \in revoking, RevokeFails(r) PROVE LinksAreKnown' /\ ListedLinksAreOfTheFile'
  BY <1>3, <1>19, <1>a, <1>b, <1>c DEF RevokeFails, shareDialogVars
<1> QED
  BY SharesCases, <1>4, <1>5, <1>6, <1>7, <1>8, <1>9, <1>10, <1>11, <1>12, <1>13, <1>14, <1>15,
     <1>16, <1>17, <1>18, <1>19

\* The steps keep the invariant.
LEMMA SharesNextInv ==
  ASSUME SharesAssumption, SharesInv, [SharesNext]_sharesVars PROVE SharesInv'
<1>1. CASE SharesNext
  BY <1>1, SharesKeepTypes, SharesKeepLinks DEF SharesInv
<1>2. CASE UNCHANGED sharesVars
  BY <1>2 DEF SharesInv, SharesTyped, LinksAreKnown, ListedLinksAreOfTheFile, LinksOf, sharesVars,
     shareDialogVars
<1> QED
  BY <1>1, <1>2

\* A list of links is no longer than the links there are.
LEMMA LinksCounted ==
  ASSUME SharesTyped, NEW S \in SUBSET DOMAIN links
  PROVE  Cardinality(S) \in Nat /\ Cardinality(S) <= Len(links) /\ Len(links) \in Nat
<1>1. DOMAIN links = 1 .. Len(links) /\ Len(links) \in Nat
  BY DEF SharesTyped
<1>2. IsFiniteSet(1 .. Len(links)) /\ Cardinality(1 .. Len(links)) = Len(links)
  BY <1>1, FS_Interval
<1>3. IsFiniteSet(S) /\ Cardinality(S) <= Cardinality(1 .. Len(links))
  BY <1>1, <1>2, FS_Subset
<1>4. QED BY <1>1, <1>2, <1>3, FS_CardinalityType

\* One link, which the folder counts.
LEMMA CountsInit == ASSUME SharesAssumption, SharesInit PROVE CountsFit
<1>1. SharesTyped
  BY SharesInitInv DEF SharesInv
<1>2. Len(links) = 1 /\ creation.link = 0 /\ creation.at = "none"
  BY DEF SharesInit, NotCreating
<1>3. \A f \in SharedFiles : Cardinality(ActiveLinks(f)) \in Nat /\ Cardinality(ActiveLinks(f)) <= Len(links)
  BY <1>1, LinksCounted DEF ActiveLinks
<1>4. counts = [f \in SharedFiles |-> Cardinality(ActiveLinks(f))]
  BY DEF SharesInit
<1>5. counts \in [SharedFiles -> Nat] /\ \A f \in SharedFiles : counts[f] <= Len(links) + 1
  BY <1>2, <1>3, <1>4
<1>6. QED BY <1>2, <1>5 DEF CountsFit, SharesAssumption

\* A count is set by a list, raised by a creation that arrives or lowered by a revocation.
LEMMA CountsNext ==
  ASSUME SharesAssumption, SharesInv, CountsFit, [SharesNext]_sharesVars PROVE CountsFit'
<1>1. /\ links \in Seq(Links) /\ Len(links) \in Nat /\ creation \in Creations /\ MaxLinks \in Nat
      /\ SharesTyped /\ creation.link \in Nat
  BY DEF SharesInv, SharesTyped, SharesAssumption, Creations
<1>2. ASSUME UNCHANGED <<links, creation, counts>> PROVE CountsFit'
  BY <1>2 DEF CountsFit
<1>13. ASSUME UNCHANGED <<links, creation>>, NEW f, NEW S \in SUBSET DOMAIN links,
              counts' = [counts EXCEPT ![f] = Cardinality(S)]
       PROVE  CountsFit'
  <2>1. Cardinality(S) \in Nat /\ Cardinality(S) <= Len(links)
    BY <1>1, LinksCounted
  <2>2. counts' \in [SharedFiles -> Nat] /\ \A g \in SharedFiles : counts'[g] \in {counts[g], Cardinality(S)}
    BY <1>13, <2>1 DEF CountsFit
  <2>3. \A g \in SharedFiles : counts'[g] <= Len(links) + (IF creation.link = 0 THEN 1 ELSE 0)
    BY <1>1, <2>1, <2>2 DEF CountsFit
  <2>4. QED BY <1>13, <2>2, <2>3 DEF CountsFit
<1>14. ASSUME UNCHANGED <<links, creation>>, NEW f \in SharedFiles,
              counts' = [counts EXCEPT ![f] = IF @ = 0 THEN 0 ELSE @ - 1]
       PROVE  CountsFit'
  <2>1. PICK v : v = IF counts[f] = 0 THEN 0 ELSE counts[f] - 1
    OBVIOUS
  <2>2. v \in Nat /\ v <= counts[f] /\ counts' = [counts EXCEPT ![f] = v]
    BY <1>14, <2>1 DEF CountsFit
  <2>3. counts' \in [SharedFiles -> Nat] /\ \A g \in SharedFiles : counts'[g] <= counts[g]
    BY <2>2 DEF CountsFit
  <2>4. \A g \in SharedFiles : counts'[g] <= Len(links) + (IF creation.link = 0 THEN 1 ELSE 0)
    BY <1>1, <2>3 DEF CountsFit
  <2>5. QED BY <1>14, <2>3, <2>4 DEF CountsFit
<1>3. CASE ServerCreates
  <2> DEFINE newLink == [of |-> creation.of, active |-> TRUE]
  <2>1. creation.at = "asked" /\ links' = Append(links, newLink) /\ counts' = counts
        /\ creation'.link = Len(links) + 1 /\ creation'.at # "asked"
    BY <1>1, <1>3 DEF ServerCreates, Creations
  <2>2. newLink \in Links
    BY <1>1, <2>1 DEF SharesTyped, Creations, Links
  <2> HIDE DEF newLink
  <2>3. Len(links') = Len(links) + 1
    BY <1>1, <2>1, <2>2, AppendProperties
  <2>4. \A g \in SharedFiles : counts[g] <= Len(links) + 1
    BY <2>1 DEF CountsFit
  <2>5. QED BY <1>1, <2>1, <2>3, <2>4 DEF CountsFit
<1>4. ASSUME NEW r \in revoking, ServerRevokes(r) PROVE CountsFit'
  <2>1. links' = [links EXCEPT ![r.link].active = FALSE] /\ r.link \in DOMAIN links /\ UNCHANGED <<counts, creation>>
    BY <1>4 DEF ServerRevokes
  <2>2. DOMAIN links' = DOMAIN links /\ links' \in Seq(Links)
    <3>1. SharesTyped'
      BY <1>4, SharesNextInv DEF SharesNext, SharesInv
    <3>2. QED BY <2>1, <3>1 DEF SharesTyped
  <2>3. Len(links') = Len(links)
    BY <1>1, <2>2
  <2>4. QED BY <2>1, <2>3 DEF CountsFit
<1>5. CASE CreateLink
  <2>1. UNCHANGED <<links, counts>> /\ creation = NotCreating /\ Len(links) < MaxLinks /\ creation'.link = 0
    BY <1>5 DEF CreateLink
  <2>2. creation.link = 0
    BY <2>1 DEF NotCreating
  <2>3. QED BY <2>1, <2>2 DEF CountsFit
<1>6. CASE RequestLost \/ RecoverLink
  <2>1. UNCHANGED <<links, counts>> /\ creation'.link = creation.link /\ creation'.at # "asked"
    BY <1>1, <1>6 DEF RequestLost, RecoverLink, FoundAgain, Creations
  <2>2. QED BY <2>1 DEF CountsFit
<1>7. CASE CreateArrives \/ CreateFails
  <2>1. creation'.link = 0 /\ creation'.at = "none" /\ links' = links
    BY <1>7 DEF CreateArrives, CreateFails, NotCreating
  <2>2. CASE counts' = counts
    BY <1>1, <2>1, <2>2 DEF CountsFit
  <2>3. CASE CreateArrives
    <3>1. counts' = [counts EXCEPT ![creation.of] = @ + 1] /\ creation.link # 0
      BY <2>3 DEF CreateArrives, SharesInv, LinksAreKnown
    <3>2. counts' \in [SharedFiles -> Nat] /\ \A g \in SharedFiles : counts'[g] <= counts[g] + 1
      <4>1. creation.of \in SharedFiles /\ counts[creation.of] + 1 \in Nat
        <5>1. creation.of \in SharedFiles
          BY <1>1, <2>3 DEF CreateArrives, SharesTyped, Creations
        <5>2. QED BY <5>1 DEF CountsFit
      <4>2. PICK v : v = counts[creation.of] + 1
        OBVIOUS
      <4>3. counts' = [counts EXCEPT ![creation.of] = v] /\ v \in Nat
        BY <3>1, <4>1, <4>2
      <4>4. QED BY <4>1, <4>2, <4>3 DEF CountsFit
    <3>3. \A g \in SharedFiles : counts[g] <= Len(links) /\ counts[g] \in Nat
      BY <1>1, <3>1 DEF CountsFit
    <3>4. \A g \in SharedFiles : counts'[g] <= Len(links) + 1
      BY <1>1, <3>2, <3>3
    <3>5. QED BY <2>1, <3>2, <3>4 DEF CountsFit
  <2>4. QED BY <1>7, <2>2, <2>3 DEF CreateFails
<1>8. ASSUME NEW l \in listings, ListArrives(l) PROVE CountsFit'
  <2>1. l.found \in SUBSET DOMAIN links
    BY DEF SharesInv, LinksAreKnown, LinksOf
  <2>2. /\ UNCHANGED <<links, creation>>
        /\ counts' = counts \/ counts' = [counts EXCEPT ![l.of] = Cardinality(l.found)]
    BY <1>8 DEF ListArrives
  <2>3. QED BY <1>2, <1>13, <2>1, <2>2
<1>9. ASSUME NEW r \in revoking, RevokeArrives(r) PROVE CountsFit'
  <2>1. listedLinks \ {r.link} \in SUBSET DOMAIN links
    BY DEF SharesInv, LinksAreKnown
  <2>2. /\ UNCHANGED <<links, creation>>
        /\ \/ counts' = counts
           \/ sharedFile # NoFile /\ counts' = [counts EXCEPT ![sharedFile] = IF @ = 0 THEN 0 ELSE @ - 1]
           \/ counts' = [counts EXCEPT ![r.of] = Cardinality(listedLinks \ {r.link})]
    BY <1>9 DEF RevokeArrives
  <2>3. sharedFile # NoFile => sharedFile \in SharedFiles
    BY <1>1 DEF SharesTyped
  <2>4. QED BY <1>2, <1>13, <1>14, <2>1, <2>2, <2>3
<1>11. \/ ServerCreates \/ CreateLink \/ RequestLost \/ RecoverLink \/ CreateArrives \/ CreateFails
       \/ \E r \in revoking : ServerRevokes(r) \/ RevokeArrives(r)
       \/ \E l \in listings : ListArrives(l)
       \/ UNCHANGED <<links, creation, counts>>
  BY DEF SharesNext, sharesVars, OpenShares, ListAnswer, ListFails, CloseShares, Revoke, RevokeListed, RevokeFails
<1>12. QED BY <1>2, <1>3, <1>4, <1>5, <1>6, <1>7, <1>8, <1>9, <1>11

\* The types follow.
LEMMA SharesFollow == ASSUME SharesAssumption, SharesInv, CountsFit PROVE SharesTypeOK
<1>1. Len(links) \in Nat /\ MaxLinks \in Nat
  BY DEF SharesInv, SharesTyped, SharesAssumption
<1>2. \A f \in SharedFiles : counts[f] \in 0 .. MaxLinks + 1
  BY <1>1 DEF CountsFit
<1>3. ASSUME NEW n \in DOMAIN links PROVE links[n].of \in SharedFiles
  <2>1. links[n] \in Links
    BY DEF SharesInv, SharesTyped
  <2>2. QED BY <2>1 DEF Links
<1>4. creation.at \in Phases
  BY DEF SharesInv, SharesTyped, Creations
<1>5. QED BY <1>2, <1>3, <1>4 DEF SharesInv, SharesTyped, LinksAreKnown, SharesTypeOK, Phases

\* Whatever listings, creations and revocations cross, the page holds links that exist.
THEOREM SharesInvariant == ASSUME SharesAssumption PROVE SharesSpec => []SharesInv
<1>1. SharesInit => SharesInv
  BY SharesInitInv
<1>2. SharesInv /\ [SharesNext]_sharesVars => SharesInv'
  BY SharesNextInv
<1> QED
  BY <1>1, <1>2, PTL DEF SharesSpec

\* A link given to copy is one the server registered, and the links listed are of the file whose
\* dialog is open.
THEOREM LinksAreOfTheFile ==
  ASSUME SharesAssumption PROVE SharesSpec => [](LinksExist /\ ListedLinksAreOfTheFile)
<1>1. SharesInv => LinksExist /\ ListedLinksAreOfTheFile
  BY DEF SharesInv, LinksAreKnown, LinksExist
<1>2. QED BY <1>1, SharesInvariant, PTL

-----------------------------------------------------------------------------
(* The whiteboard: an operation that nobody erased is with whoever drew it, and on its way to    *)
(* those who are connected and do not have it.                                                    *)

\* The least of some numbers.
LEMMA LeastNumber == ASSUME NEW T \in SUBSET Nat, T # {} PROVE \E x \in T : \A y \in T : x <= y
<1>1. PICK x \in T : \A y \in T : ~(<<y, x>> \in OpToRel(<, Nat))
  BY WFMin, NatLessThanWellFounded
<1>2. \A y \in T : ~(y < x)
  BY <1>1 DEF OpToRel
<1>3. \A y \in T : x <= y
  BY <1>2
<1> QED BY <1>3

\* A finite set of numbers that is not empty has a greatest element: the smallest set without one
\* would still have none without one of its elements.
LEMMA GreatestOfFinite ==
  ASSUME NEW T \in SUBSET Nat, IsFiniteSet(T), T # {} PROVE \E x \in T : \A y \in T : y <= x
<1> DEFINE Unbounded(U) == U # {} /\ IsFiniteSet(U) /\ \A x \in U : \E y \in U : ~(y <= x)
           sizes == {n \in Nat : \E U \in SUBSET Nat : Unbounded(U) /\ Cardinality(U) = n}
<1>1. SUFFICES ASSUME Unbounded(T) PROVE FALSE
  OBVIOUS
<1>2. sizes # {} /\ sizes \in SUBSET Nat
  BY <1>1, FS_CardinalityType
<1>3. PICK n \in sizes : \A k \in sizes : n <= k
  <2> HIDE DEF sizes
  <2> QED BY <1>2, LeastNumber
<1>4. PICK U \in SUBSET Nat : Unbounded(U) /\ Cardinality(U) = n
  BY <1>3
<1>5. PICK x \in U : TRUE
  BY <1>4
<1> DEFINE V == U \ {x}
<1>6. IsFiniteSet(V) /\ Cardinality(V) = n - 1 /\ V \in SUBSET Nat /\ n \in Nat /\ Cardinality(V) \in Nat
  BY <1>3, <1>4, FS_RemoveElement, FS_CardinalityType
<1>7. PICK y \in U : ~(y <= x)
  BY <1>4
<1>8. y \in V
  <2>1. x \in Nat /\ x <= x
    BY <1>4
  <2> QED BY <1>7, <2>1
<1>9. ~Unbounded(V)
  <2>1. n - 1 \notin sizes
    BY <1>3, <1>6
  <2> QED BY <1>6, <2>1
<1>10. PICK z \in V : \A w \in V : w <= z
  BY <1>6, <1>8, <1>9
<1>11. y <= z /\ x \in Nat /\ y \in Nat /\ z \in Nat
  BY <1>4, <1>8, <1>10
<1>12. x <= z
  BY <1>7, <1>11
<1>13. \A w \in U : w <= z
  BY <1>10, <1>12
<1> QED BY <1>4, <1>10, <1>13

\* A list of some of the operations: places, which differ.
Lists(D) == {l \in UNION {[S -> Nat \ {0}] : S \in SUBSET D} :
                   \A o, p \in DOMAIN l : l[o] = l[p] => o = p}
Payloads(D) == [action : {"op", "state", "undo", "clear"}, what : Lists(D)]

BoardTyped ==
  /\ author \in Seq(Artists)
  /\ board \in [Artists -> Lists(Drawn)]
  /\ channel \subseteq Ends
  /\ inFlight \in [Ends -> Seq(Payloads(Drawn))]
  /\ erased.operations \subseteq Drawn
  /\ erased = [operations |-> erased.operations, times |-> erased.times]
  /\ draft \in [Artists -> BOOLEAN]

\* What an undo on its way takes back was erased where it was done.
UndoneAreErased ==
  \A e \in Ends : \A i \in DOMAIN inFlight[e] :
    inFlight[e][i].action = "undo" => DOMAIN inFlight[e][i].what \subseteq erased.operations

Brings(m, o) == m.action \in {"op", "state"} /\ o \in DOMAIN m.what
AuthorsKeep == \A o \in Drawn \ erased.operations : o \in DOMAIN board[author[o]]
OthersAreTold ==
  \A o \in Drawn \ erased.operations : \A e \in channel :
    e[1] = author[o] =>
      o \in DOMAIN board[e[2]] \/ \E i \in DOMAIN inFlight[e] : Brings(inFlight[e][i], o)

BoardInv == BoardTyped /\ UndoneAreErased /\ AuthorsKeep /\ OthersAreTold

LEMMA ListIs ==
  ASSUME NEW D, NEW l \in Lists(D)
  PROVE  /\ l \in [DOMAIN l -> Nat \ {0}] /\ DOMAIN l \in SUBSET D
         /\ \A o, p \in DOMAIN l : l[o] = l[p] => o = p
BY DEF Lists

LEMMA ListMade ==
  ASSUME NEW D, NEW S \in SUBSET D, NEW l \in [S -> Nat \ {0}], \A o, p \in S : l[o] = l[p] => o = p
  PROVE  l \in Lists(D)
BY DEF Lists

LEMMA ListsGrow ==
  ASSUME NEW D, NEW E, D \subseteq E PROVE Lists(D) \subseteq Lists(E) /\ Payloads(D) \subseteq Payloads(E)
<1>1. ASSUME NEW l \in Lists(D) PROVE l \in Lists(E)
  <2>1. /\ l \in [DOMAIN l -> Nat \ {0}] /\ DOMAIN l \in SUBSET E
        /\ \A o, p \in DOMAIN l : l[o] = l[p] => o = p
    BY ListIs
  <2> QED BY <2>1, ListMade
<1> QED BY <1>1 DEF Payloads

LEMMA BlankIsList == ASSUME NEW D PROVE <<>> \in Lists(D) /\ DOMAIN <<>> = {}
<1>1. <<>> \in [{} -> Nat \ {0}] /\ DOMAIN <<>> = {} /\ {} \in SUBSET D
  OBVIOUS
<1>2. \A o, p \in {} : <<>>[o] = <<>>[p] => o = p
  OBVIOUS
<1> HIDE DEF Lists
<1> QED BY <1>1, <1>2, ListMade

LEMMA AloneIsList ==
  ASSUME NEW D, NEW o \in D PROVE Alone(o) \in Lists(D) /\ DOMAIN Alone(o) = {o}
<1>1. Alone(o) \in [{o} -> Nat \ {0}] /\ DOMAIN Alone(o) = {o} /\ {o} \in SUBSET D
  BY DEF Alone
<1> QED BY <1>1, ListMade

LEMMA RemovedIsList ==
  ASSUME NEW D, NEW l \in Lists(D), NEW S
  PROVE  Removed(l, S) \in Lists(D) /\ DOMAIN Removed(l, S) = DOMAIN l \ S
<1>0. /\ l \in [DOMAIN l -> Nat \ {0}] /\ DOMAIN l \in SUBSET D
      /\ \A o, p \in DOMAIN l : l[o] = l[p] => o = p
  BY ListIs
<1> DEFINE T == DOMAIN l \ S  r == Removed(l, S)
<1>1. r \in [T -> Nat \ {0}] /\ DOMAIN r = T /\ (\A o \in T : r[o] = l[o]) /\ T \in SUBSET D
  BY <1>0 DEF Removed
<1>2. \A o, p \in T : r[o] = r[p] => o = p
  BY <1>0, <1>1
<1> HIDE DEF r, T
<1>3. r \in Lists(D)
  BY <1>1, <1>2, ListMade
<1> QED BY <1>1, <1>3 DEF r, T

\* The last place of a list, of finitely many operations.
LEMMA BehindIs ==
  ASSUME NEW n \in Nat, NEW l \in Lists(1 .. n)
  PROVE  Behind(l) \in Nat /\ \A o \in DOMAIN l : l[o] <= Behind(l)
<1>0. l \in [DOMAIN l -> Nat \ {0}] /\ DOMAIN l \in SUBSET (1 .. n)
  BY ListIs
<1> DEFINE image == {l[o] : o \in DOMAIN l}  T == {0} \cup image
<1>1. IsFiniteSet(DOMAIN l)
  <2>1. 1 \in Int /\ n \in Int
    OBVIOUS
  <2>2. IsFiniteSet(1 .. n)
    BY <2>1, FS_Interval
  <2> QED BY <1>0, <2>2, FS_Subset
<1>2. IsFiniteSet(image)
  <2>1. l \in Surjection(DOMAIN l, image)
    BY <1>0 DEF Surjection
  <2> QED BY <1>1, <2>1, FS_Surjection
<1>3. image \in SUBSET Nat /\ \A o \in DOMAIN l : l[o] \in image
  BY <1>0
<1> HIDE DEF image
<1>4. IsFiniteSet(T)
  <2>1. IsFiniteSet({0})
    BY FS_Singleton
  <2> QED BY <1>2, <2>1, FS_Union
<1>5. T \in SUBSET Nat /\ T # {} /\ 0 \in T
  BY <1>3
<1>6. Behind(l) = Max(T)
  BY DEF Behind, image
<1> HIDE DEF T
<1>7. \E x \in T : \A y \in T : y <= x
  BY <1>4, <1>5, GreatestOfFinite
<1>8. Max(T) \in T /\ \A y \in T : y <= Max(T)
  BY <1>7 DEF Max
<1>9. \A o \in DOMAIN l : l[o] \in T
  BY <1>3 DEF T
<1> QED BY <1>5, <1>6, <1>8, <1>9

LEMMA AddedIsList ==
  ASSUME NEW n \in Nat, NEW l \in Lists(1 .. n), NEW k \in Lists(1 .. n)
  PROVE  Added(l, k) \in Lists(1 .. n) /\ DOMAIN Added(l, k) = DOMAIN l \cup DOMAIN k
<1>0. /\ l \in [DOMAIN l -> Nat \ {0}] /\ DOMAIN l \in SUBSET (1 .. n)
      /\ \A o, p \in DOMAIN l : l[o] = l[p] => o = p
  BY ListIs
<1>1. /\ k \in [DOMAIN k -> Nat \ {0}] /\ DOMAIN k \in SUBSET (1 .. n)
      /\ \A o, p \in DOMAIN k : k[o] = k[p] => o = p
  BY ListIs
<1> DEFINE T == DOMAIN l \cup DOMAIN k  r == Added(l, k)  top == Behind(l)
<1>2. top \in Nat /\ \A o \in DOMAIN l : l[o] <= top
  BY BehindIs
<1> HIDE DEF top
<1>3. /\ DOMAIN r = T /\ r = [o \in T |-> r[o]]
      /\ \A o \in T : r[o] = IF o \in DOMAIN l THEN l[o] ELSE top + k[o]
  BY DEF Added, top
<1> HIDE DEF r
<1>4. \A o \in DOMAIN l : o \in T /\ r[o] = l[o] /\ r[o] \in Nat \ {0} /\ r[o] <= top
  BY <1>0, <1>2, <1>3
<1>5. \A o \in T \ DOMAIN l : o \in DOMAIN k /\ r[o] = top + k[o] /\ k[o] \in Nat \ {0}
  BY <1>1, <1>3
<1>6. \A o \in T \ DOMAIN l : r[o] \in Nat \ {0} /\ r[o] > top
  BY <1>2, <1>5
<1>7. T \in SUBSET (1 .. n)
  BY <1>0, <1>1
<1>8. r \in [T -> Nat \ {0}]
  BY <1>3, <1>4, <1>6
<1>9. ASSUME NEW o \in T, NEW p \in T, r[o] = r[p] PROVE o = p
  <2>1. CASE o \in DOMAIN l /\ p \in DOMAIN l
    BY <1>0, <1>4, <1>9, <2>1
  <2>2. CASE o \notin DOMAIN l /\ p \notin DOMAIN l
    <3>1. top + k[o] = top + k[p] /\ k[o] \in Nat /\ k[p] \in Nat /\ o \in DOMAIN k /\ p \in DOMAIN k
      BY <1>5, <1>9, <2>2
    <3>2. k[o] = k[p]
      BY <1>2, <3>1
    <3> QED BY <1>1, <3>1, <3>2
  <2>3. CASE o \in DOMAIN l /\ p \notin DOMAIN l
    <3>1. r[o] \in Nat /\ r[p] \in Nat /\ r[o] <= top /\ r[p] > top
      BY <1>4, <1>6, <2>3
    <3> QED BY <1>2, <1>9, <3>1
  <2>4. CASE o \notin DOMAIN l /\ p \in DOMAIN l
    <3>1. r[o] \in Nat /\ r[p] \in Nat /\ r[p] <= top /\ r[o] > top
      BY <1>4, <1>6, <2>4
    <3> QED BY <1>2, <1>9, <3>1
  <2> QED BY <2>1, <2>2, <2>3, <2>4
<1> HIDE DEF T
<1>10. r \in Lists(1 .. n)
  BY <1>7, <1>8, <1>9, ListMade
<1> QED BY <1>3, <1>10 DEF r, T

\* Some operations of a list have one that is the last of them.
LEMMA LastOfThem ==
  ASSUME NEW n \in Nat, NEW l \in Lists(1 .. n), NEW S \in SUBSET DOMAIN l, S # {}
  PROVE  \E o \in S : \A p \in S : l[p] <= l[o]
<1>0. l \in [DOMAIN l -> Nat \ {0}] /\ DOMAIN l \in SUBSET (1 .. n)
  BY ListIs
<1> DEFINE image == {l[o] : o \in S}  f == [o \in S |-> l[o]]
<1>1. IsFiniteSet(S)
  <2>1. 1 \in Int /\ n \in Int
    OBVIOUS
  <2>2. IsFiniteSet(1 .. n)
    BY <2>1, FS_Interval
  <2> QED BY <1>0, <2>2, FS_Subset
<1>2. IsFiniteSet(image)
  <2>1. f \in Surjection(S, image)
    BY <1>0 DEF Surjection
  <2> QED BY <1>1, <2>1, FS_Surjection
<1>3. image \in SUBSET Nat /\ image # {}
  BY <1>0
<1>4. PICK x \in image : \A y \in image : y <= x
  <2> HIDE DEF image
  <2> QED BY <1>2, <1>3, GreatestOfFinite
<1> QED BY <1>4

LEMMA UndoneIsListed ==
  ASSUME BoardTyped, NEW a \in Artists, DOMAIN board[a] # {}
  PROVE  ToUndo(a) \in DOMAIN board[a]
<1> DEFINE own == {o \in DOMAIN board[a] : author[o] = a}
           S == IF own # {} THEN own ELSE DOMAIN board[a]
<1>1. Len(author) \in Nat /\ board[a] \in Lists(1 .. Len(author))
  BY DEF BoardTyped, Drawn
<1>2. S \in SUBSET DOMAIN board[a] /\ S # {}
  OBVIOUS
<1>3. ToUndo(a) = CHOOSE o \in S : \A p \in S : board[a][p] <= board[a][o]
  BY DEF ToUndo
<1> HIDE DEF S
<1>4. \E o \in S : \A p \in S : board[a][p] <= board[a][o]
  BY <1>1, <1>2, LastOfThem
<1> QED BY <1>2, <1>3, <1>4

LEMMA BoardInitInv == ASSUME BoardInit PROVE BoardInv
<1> USE DEF BoardInit
<1>1. author \in Seq(Artists) /\ Drawn = {}
  BY DEF Drawn
<1>2. <<>> \in Lists(Drawn)
  BY BlankIsList
<1>3. BoardTyped
  BY <1>1, <1>2 DEF BoardTyped
<1> QED BY <1>1, <1>3 DEF BoardInv, UndoneAreErased, AuthorsKeep, OthersAreTold

LEMMA OneMore ==
  ASSUME NEW S, NEW s \in Seq(S), NEW T, S \subseteq T, NEW x \in T
  PROVE  /\ s \in Seq(T) /\ Append(s, x) \in Seq(T)
         /\ \A i \in DOMAIN s : i \in DOMAIN Append(s, x) /\ Append(s, x)[i] = s[i]
         /\ \A i \in DOMAIN Append(s, x) : i \in DOMAIN s \/ Append(s, x)[i] = x
         /\ \E i \in DOMAIN Append(s, x) : Append(s, x)[i] = x
<1>1. s \in Seq(T)
  OBVIOUS
<1>2. /\ Append(s, x) \in Seq(T) /\ Len(Append(s, x)) = Len(s) + 1 /\ Len(s) \in Nat
      /\ \A i \in 1 .. Len(s) : Append(s, x)[i] = s[i]
      /\ Append(s, x)[Len(s) + 1] = x
  BY <1>1, AppendProperties
<1>3. DOMAIN s = 1 .. Len(s) /\ DOMAIN Append(s, x) = 1 .. Len(s) + 1
  BY <1>1, <1>2
<1> QED BY <1>1, <1>2, <1>3

\* A message is told to whom the channels are open, behind what is on its way.
ToldAll(a, m, D) ==
  /\ inFlight' \in [Ends -> Seq(Payloads(D))]
  /\ \A e \in Ends :
       /\ \A i \in DOMAIN inFlight[e] : i \in DOMAIN inFlight'[e] /\ inFlight'[e][i] = inFlight[e][i]
       /\ \A i \in DOMAIN inFlight'[e] :
            (i \in DOMAIN inFlight[e] /\ inFlight'[e][i] = inFlight[e][i]) \/ inFlight'[e][i] = m
       /\ e[1] = a /\ e \in channel => \E i \in DOMAIN inFlight'[e] : inFlight'[e][i] = m
LEMMA TellAppends ==
  ASSUME BoardTyped, NEW a, NEW D, Drawn \subseteq D, NEW m \in Payloads(D), Tell(a, m)
  PROVE  ToldAll(a, m, D)
<1>1. Payloads(Drawn) \subseteq Payloads(D)
  BY ListsGrow
<1>2. ASSUME NEW e \in Ends
      PROVE  inFlight[e] \in Seq(Payloads(Drawn)) /\ inFlight[e] \in Seq(Payloads(D))
  BY <1>1 DEF BoardTyped
<1>3. ASSUME NEW e \in Ends, e[1] = a /\ e \in channel
      PROVE  inFlight'[e] = Append(inFlight[e], m)
  BY <1>3 DEF Tell
<1>4. ASSUME NEW e \in Ends, ~(e[1] = a /\ e \in channel)
      PROVE  inFlight'[e] = inFlight[e]
  BY <1>4 DEF Tell
<1>5. inFlight' \in [Ends -> Seq(Payloads(D))]
  <2>1. inFlight' = [e \in Ends |-> inFlight'[e]]
    BY DEF Tell
  <2>2. ASSUME NEW e \in Ends PROVE inFlight'[e] \in Seq(Payloads(D))
    <3>1. CASE e[1] = a /\ e \in channel
      <4>1. inFlight'[e] = Append(inFlight[e], m) /\ inFlight[e] \in Seq(Payloads(D))
        BY <1>2, <1>3, <3>1
      <4>2. Append(inFlight[e], m) \in Seq(Payloads(D))
        BY <4>1, AppendProperties
      <4> QED BY <4>1, <4>2
    <3>2. CASE ~(e[1] = a /\ e \in channel)
      BY <1>2, <1>4, <3>2
    <3> QED BY <3>1, <3>2
  <2> QED BY <2>1, <2>2
<1>6. ASSUME NEW e \in Ends
      PROVE /\ \A i \in DOMAIN inFlight[e] : i \in DOMAIN inFlight'[e] /\ inFlight'[e][i] = inFlight[e][i]
            /\ \A i \in DOMAIN inFlight'[e] :
                 (i \in DOMAIN inFlight[e] /\ inFlight'[e][i] = inFlight[e][i]) \/ inFlight'[e][i] = m
            /\ e[1] = a /\ e \in channel => \E i \in DOMAIN inFlight'[e] : inFlight'[e][i] = m
  <2>1. CASE e[1] = a /\ e \in channel
    <3> DEFINE s == inFlight[e]  t == inFlight'[e]
    <3>1. t = Append(s, m) /\ s \in Seq(Payloads(Drawn))
      BY <1>2, <1>3, <2>1
    <3>2. /\ \A i \in DOMAIN s : i \in DOMAIN t /\ t[i] = s[i]
          /\ \A i \in DOMAIN t : i \in DOMAIN s \/ t[i] = m
          /\ \E i \in DOMAIN t : t[i] = m
      <4> HIDE DEF s, t
      <4> QED BY <1>1, <3>1, OneMore
    <3> QED BY <3>2
  <2>2. CASE ~(e[1] = a /\ e \in channel)
    BY <1>4, <2>2
  <2> QED BY <2>1, <2>2
<1> QED BY <1>5, <1>6 DEF ToldAll

\* What remains of a list of messages when the first has been received.
LEMMA OneLess ==
  ASSUME NEW S, NEW s \in Seq(S), s # <<>>
  PROVE  /\ Head(s) = s[1] /\ 1 \in DOMAIN s /\ Tail(s) \in Seq(S)
         /\ \A i \in DOMAIN Tail(s) : i + 1 \in DOMAIN s /\ Tail(s)[i] = s[i + 1]
         /\ \A i \in DOMAIN s : i # 1 => i - 1 \in DOMAIN Tail(s) /\ Tail(s)[i - 1] = s[i]
<1>1. Len(s) \in Nat /\ Len(s) # 0 /\ DOMAIN s = 1 .. Len(s)
  OBVIOUS
<1>2. /\ Tail(s) \in Seq(S) /\ Len(Tail(s)) = Len(s) - 1 /\ DOMAIN Tail(s) = 1 .. Len(s) - 1
      /\ \A i \in 1 .. Len(s) - 1 : Tail(s)[i] = s[i + 1]
  BY <1>1
<1>3. \A i \in 1 .. Len(s) - 1 : i + 1 \in 1 .. Len(s)
  BY <1>1
<1>4. ASSUME NEW i \in 1 .. Len(s), i # 1 PROVE i - 1 \in 1 .. Len(s) - 1 /\ Tail(s)[i - 1] = s[i]
  <2>1. i - 1 \in 1 .. Len(s) - 1 /\ (i - 1) + 1 = i
    BY <1>1, <1>4
  <2> QED BY <1>2, <2>1
<1> QED BY <1>1, <1>2, <1>3, <1>4

\* The pointer of a participant.
LEMMA PointerKeeps ==
  ASSUME BoardInv, NEW a \in Artists, StartPointer(a) \/ CancelPointer(a) PROVE BoardInv'
<1>1. draft' \in [Artists -> BOOLEAN] /\ UNCHANGED <<board, author, channel, opened, inFlight, erased>>
  BY DEF StartPointer, CancelPointer, BoardInv, BoardTyped
<1>2. Drawn' = Drawn
  BY <1>1 DEF Drawn
<1>3. BoardTyped'
  BY <1>1, <1>2 DEF BoardInv, BoardTyped
<1> QED BY <1>1, <1>2, <1>3 DEF BoardInv, UndoneAreErased, AuthorsKeep, OthersAreTold

LEMMA FinishKeeps == ASSUME BoardInv, NEW a \in Artists, FinishPointer(a) PROVE BoardInv'
<1> USE DEF BoardInv
<1> DEFINE o == Len(author) + 1  m == Payload("op", Alone(o))
<1>1. /\ author \in Seq(Artists) /\ author' = Append(author, a) /\ UNCHANGED <<channel, opened, erased>>
      /\ draft' = [draft EXCEPT ![a] = FALSE] /\ Tell(a, m)
      /\ board' = [board EXCEPT ![a] = Added(@, Alone(o))]
  BY DEF FinishPointer, BoardTyped
<1>2. /\ author' \in Seq(Artists) /\ Drawn' = Drawn \cup {o} /\ o \notin Drawn /\ author'[o] = a
      /\ Drawn = 1 .. Len(author) /\ Drawn' = 1 .. o /\ o \in Nat
      /\ \A p \in Drawn : author'[p] = author[p]
  <2>1. /\ Append(author, a) \in Seq(Artists) /\ Len(Append(author, a)) = o /\ Len(author) \in Nat
        /\ \A p \in 1 .. Len(author) : Append(author, a)[p] = author[p]
        /\ Append(author, a)[o] = a
    BY <1>1, AppendProperties
  <2>2. DOMAIN author = 1 .. Len(author) /\ DOMAIN Append(author, a) = 1 .. o
    BY <1>1, <2>1
  <2>3. 1 .. o = (1 .. Len(author)) \cup {o} /\ o \notin 1 .. Len(author)
    BY <2>1
  <2> QED BY <1>1, <2>1, <2>2, <2>3 DEF Drawn
<1> HIDE DEF o
<1>3. Alone(o) \in Lists(Drawn') /\ DOMAIN Alone(o) = {o}
  BY <1>2, AloneIsList
<1>4. m \in Payloads(Drawn') /\ Brings(m, o) /\ m.action = "op"
  BY <1>3 DEF Payloads, Payload, Brings
<1> HIDE DEF m
<1>5. /\ inFlight' \in [Ends -> Seq(Payloads(Drawn'))]
      /\ \A e \in Ends :
           /\ \A i \in DOMAIN inFlight[e] : i \in DOMAIN inFlight'[e] /\ inFlight'[e][i] = inFlight[e][i]
           /\ \A i \in DOMAIN inFlight'[e] :
                (i \in DOMAIN inFlight[e] /\ inFlight'[e][i] = inFlight[e][i]) \/ inFlight'[e][i] = m
           /\ e[1] = a /\ e \in channel => \E i \in DOMAIN inFlight'[e] : inFlight'[e][i] = m
  <2>1. PICK D : D = Drawn'
    OBVIOUS
  <2>2. BoardTyped /\ Drawn \subseteq D /\ m \in Payloads(D) /\ Tell(a, m)
    BY <1>1, <1>2, <1>4, <2>1
  <2>3. ToldAll(a, m, D)
    <3> HIDE DEF BoardInv
    <3> QED BY <2>2, TellAppends
  <2> QED BY <2>1, <2>3 DEF ToldAll
<1>6. Lists(Drawn) \subseteq Lists(Drawn')
  <2>1. PICK D : D = Drawn'
    OBVIOUS
  <2>2. Drawn \subseteq D
    BY <1>2, <2>1
  <2>3. Lists(Drawn) \subseteq Lists(D)
    BY <2>2, ListsGrow
  <2> QED BY <2>1, <2>3
<1>7. /\ Added(board[a], Alone(o)) \in Lists(Drawn')
      /\ DOMAIN Added(board[a], Alone(o)) = DOMAIN board[a] \cup {o}
  <2>1. board[a] \in Lists(1 .. o) /\ Alone(o) \in Lists(1 .. o)
    BY <1>2, <1>3, <1>6 DEF BoardTyped
  <2>2. o \in Nat
    BY <1>2
  <2>3. /\ Added(board[a], Alone(o)) \in Lists(1 .. o)
        /\ DOMAIN Added(board[a], Alone(o)) = DOMAIN board[a] \cup DOMAIN Alone(o)
    <3> HIDE DEF BoardInv
    <3> QED BY <2>1, <2>2, AddedIsList
  <2> QED BY <1>2, <1>3, <2>3
<1>8. /\ board' \in [Artists -> Lists(Drawn')] /\ \A b \in Artists : DOMAIN board[b] \subseteq DOMAIN board'[b]
      /\ DOMAIN board'[a] = DOMAIN board[a] \cup {o}
  BY <1>1, <1>6, <1>7 DEF BoardTyped
<1>9. BoardTyped'
  BY <1>1, <1>2, <1>5, <1>8 DEF BoardTyped
<1>10. UndoneAreErased'
  BY <1>1, <1>4, <1>5 DEF UndoneAreErased
<1>11. AuthorsKeep'
  <2>1. \A p \in Drawn \ erased.operations : author'[p] \in Artists /\ p \in DOMAIN board[author'[p]]
    BY <1>1, <1>2 DEF AuthorsKeep, Drawn
  <2> QED BY <1>1, <1>2, <1>8, <2>1 DEF AuthorsKeep
<1>12. OthersAreTold'
  <2> SUFFICES ASSUME NEW p \in Drawn' \ erased.operations, NEW e \in channel, e[1] = author'[p]
               PROVE  p \in DOMAIN board'[e[2]] \/ \E i \in DOMAIN inFlight'[e] : Brings(inFlight'[e][i], p)
    BY <1>1 DEF OthersAreTold
  <2>0. e \in Ends /\ e[2] \in Artists
    BY DEF BoardTyped, Ends
  <2>1. CASE p = o
    <3>1. e[1] = a
      BY <1>2, <2>1
    <3> QED BY <1>4, <1>5, <2>0, <2>1, <3>1
  <2>2. CASE p \in Drawn
    <3>1. p \in DOMAIN board[e[2]] \/ \E i \in DOMAIN inFlight[e] : Brings(inFlight[e][i], p)
      BY <1>2, <2>2 DEF OthersAreTold
    <3> QED BY <1>5, <1>8, <2>0, <3>1
  <2> QED BY <1>2, <2>1, <2>2
<1> QED BY <1>9, <1>10, <1>11, <1>12

\* What a step erases may go from any board.
LEMMA ErasureKeeps ==
  ASSUME BoardInv, UNCHANGED <<author, channel>>, erased.operations \subseteq erased'.operations,
         \A b \in Artists : DOMAIN board[b] \ DOMAIN board'[b] \subseteq erased'.operations,
         \A e \in Ends :
           /\ \A i \in DOMAIN inFlight'[e] : inFlight'[e][i].action = "undo" =>
                DOMAIN inFlight'[e][i].what \subseteq erased'.operations
           /\ \A i \in DOMAIN inFlight[e] : \A p \in Drawn \ erased'.operations :
                Brings(inFlight[e][i], p) =>
                  p \in DOMAIN board'[e[2]] \/ \E j \in DOMAIN inFlight'[e] : Brings(inFlight'[e][j], p)
  PROVE  UndoneAreErased' /\ AuthorsKeep' /\ OthersAreTold'
<1> USE DEF BoardInv
<1>0. Drawn' = Drawn /\ \A p \in Drawn : author[p] \in Artists
  BY DEF Drawn, BoardTyped
<1>1. UndoneAreErased'
  BY DEF UndoneAreErased
<1>2. AuthorsKeep'
  BY <1>0 DEF AuthorsKeep
<1>3. OthersAreTold'
  <2> SUFFICES ASSUME NEW p \in Drawn \ erased'.operations, NEW e \in channel, e[1] = author[p]
               PROVE  p \in DOMAIN board'[e[2]] \/ \E i \in DOMAIN inFlight'[e] : Brings(inFlight'[e][i], p)
    BY <1>0 DEF OthersAreTold
  <2>1. e \in Ends /\ e[2] \in Artists
    BY DEF BoardTyped, Ends
  <2>2. p \in DOMAIN board[e[2]] \/ \E i \in DOMAIN inFlight[e] : Brings(inFlight[e][i], p)
    BY DEF OthersAreTold
  <2> QED BY <2>1, <2>2
<1> QED BY <1>1, <1>2, <1>3

LEMMA UndoKeeps == ASSUME BoardInv, NEW a \in Artists, Undo(a) \/ ClearBoard(a) PROVE BoardInv'
<1> USE DEF BoardInv
<1>1. PICK gone \in SUBSET DOMAIN board[a], m \in Payloads(Drawn) :
        /\ Tell(a, m) /\ Erase(gone, 1) /\ UNCHANGED <<author, channel, opened>>
        /\ board' = [board EXCEPT ![a] = board'[a]] /\ board'[a] \in Lists(Drawn)
        /\ DOMAIN board'[a] = DOMAIN board[a] \ gone /\ draft' \in [Artists -> BOOLEAN]
        /\ m.action = "undo" => DOMAIN m.what \subseteq gone
  <2>0. board[a] \in Lists(Drawn) /\ board \in [Artists -> Lists(Drawn)] /\ DOMAIN board[a] \in SUBSET Drawn
    BY ListIs DEF BoardTyped
  <2>1. CASE Undo(a)
    <3> DEFINE o == ToUndo(a)  m == Payload("undo", Alone(o))
    <3>1. o \in DOMAIN board[a]
      BY <2>1, UndoneIsListed DEF Undo
    <3>2. Alone(o) \in Lists(Drawn) /\ DOMAIN Alone(o) = {o}
      BY <2>0, <3>1, AloneIsList
    <3>3. m \in Payloads(Drawn) /\ DOMAIN m.what = {o} /\ {o} \in SUBSET DOMAIN board[a]
      BY <3>1, <3>2 DEF Payloads, Payload
    <3>4. Removed(board[a], {o}) \in Lists(Drawn) /\ DOMAIN Removed(board[a], {o}) = DOMAIN board[a] \ {o}
      BY <2>0, RemovedIsList
    <3>5. /\ Tell(a, m) /\ Erase({o}, 1) /\ UNCHANGED <<draft, author, channel, opened>>
          /\ board' = [board EXCEPT ![a] = Removed(@, {o})]
      BY <2>1 DEF Undo
    <3> HIDE DEF m, o
    <3> QED BY <2>0, <3>3, <3>4, <3>5 DEF BoardTyped
  <2>2. CASE ClearBoard(a)
    <3> DEFINE m == Payload("clear", <<>>)
    <3>1. <<>> \in Lists(Drawn) /\ DOMAIN <<>> = {}
      BY BlankIsList
    <3>2. m \in Payloads(Drawn) /\ m.action = "clear"
      BY <3>1 DEF Payloads, Payload
    <3>3. /\ Tell(a, m) /\ Erase(DOMAIN board[a], 1) /\ UNCHANGED <<author, channel, opened>>
          /\ board' = [board EXCEPT ![a] = <<>>] /\ draft' = [draft EXCEPT ![a] = FALSE]
      BY <2>2 DEF ClearBoard
    <3>4. draft' \in [Artists -> BOOLEAN]
      BY <3>3 DEF BoardTyped
    <3> HIDE DEF m
    <3>5. board'[a] = <<>> /\ board' = [board EXCEPT ![a] = board'[a]]
      BY <2>0, <3>3
    <3> QED BY <3>1, <3>2, <3>3, <3>4, <3>5
  <2> QED BY <2>1, <2>2
<1>2. /\ inFlight' \in [Ends -> Seq(Payloads(Drawn))]
      /\ \A e \in Ends :
           /\ \A i \in DOMAIN inFlight[e] : i \in DOMAIN inFlight'[e] /\ inFlight'[e][i] = inFlight[e][i]
           /\ \A i \in DOMAIN inFlight'[e] :
                (i \in DOMAIN inFlight[e] /\ inFlight'[e][i] = inFlight[e][i]) \/ inFlight'[e][i] = m
  <2>1. BoardTyped /\ Drawn \subseteq Drawn /\ m \in Payloads(Drawn) /\ Tell(a, m)
    BY <1>1
  <2>2. ToldAll(a, m, Drawn)
    <3> HIDE DEF BoardInv
    <3> QED BY <2>1, TellAppends
  <2> QED BY <2>2 DEF ToldAll
<1>3. /\ erased'.operations = erased.operations \cup gone /\ Drawn' = Drawn /\ gone \subseteq Drawn
      /\ erased' = [operations |-> erased'.operations, times |-> erased'.times]
  <2>1. DOMAIN board[a] \subseteq Drawn
    BY ListIs DEF BoardTyped
  <2> QED BY <1>1, <2>1 DEF Erase, Drawn
<1>4. board' \in [Artists -> Lists(Drawn)] /\ \A b \in Artists : DOMAIN board[b] \ DOMAIN board'[b] \subseteq gone
  BY <1>1 DEF BoardTyped
<1>5. BoardTyped'
  BY <1>1, <1>2, <1>3, <1>4 DEF BoardTyped
<1>6. \A e \in Ends :
        /\ \A i \in DOMAIN inFlight'[e] : inFlight'[e][i].action = "undo" =>
             DOMAIN inFlight'[e][i].what \subseteq erased'.operations
        /\ \A i \in DOMAIN inFlight[e] : \A p \in Drawn \ erased'.operations :
             Brings(inFlight[e][i], p) =>
               p \in DOMAIN board'[e[2]] \/ \E j \in DOMAIN inFlight'[e] : Brings(inFlight'[e][j], p)
  BY <1>1, <1>2, <1>3 DEF UndoneAreErased
<1>7. UndoneAreErased' /\ AuthorsKeep' /\ OthersAreTold'
  <2>1. /\ erased.operations \subseteq erased'.operations /\ UNCHANGED <<author, channel>>
        /\ \A b \in Artists : DOMAIN board[b] \ DOMAIN board'[b] \subseteq erased'.operations
    BY <1>1, <1>3, <1>4
  <2> QED BY <1>6, <2>1, ErasureKeeps
<1> QED BY <1>5, <1>7

\* A channel that opens begins with the whole list; one that closes is owed nothing.
LEMMA ChannelsKeep == ASSUME BoardInv, NEW e \in Ends, OpenEnd(e) \/ ClosePair(e) PROVE BoardInv'
<1> USE DEF BoardInv
<1>1. UNCHANGED <<board, draft, author, erased>>
  BY DEF OpenEnd, ClosePair
<1>2. Drawn' = Drawn
  BY <1>1 DEF Drawn
<1>3. AuthorsKeep'
  BY <1>1, <1>2 DEF AuthorsKeep
<1>4. CASE OpenEnd(e)
  <2> DEFINE m == Payload("state", board[e[1]])
  <2>1. /\ channel' = channel \cup {e} /\ inFlight' = [inFlight EXCEPT ![e] = <<m>>]
    BY <1>4 DEF OpenEnd, Greeting
  <2>2. e[1] \in Artists /\ m \in Payloads(Drawn) /\ m.action = "state" /\ m.what = board[e[1]]
    BY DEF Ends, BoardTyped, Payloads, Payload
  <2> HIDE DEF m
  <2>3. <<m>> \in Seq(Payloads(Drawn)) /\ DOMAIN <<m>> = {1} /\ <<m>>[1] = m
    BY <2>2
  <2>4. inFlight' \in [Ends -> Seq(Payloads(Drawn))] /\ channel' \subseteq Ends
    BY <2>1, <2>3 DEF BoardTyped
  <2>5. BoardTyped'
    BY <1>1, <1>2, <2>4 DEF BoardTyped
  <2>6. inFlight'[e] = <<m>> /\ \A f \in Ends : f # e => inFlight'[f] = inFlight[f]
    BY <2>1 DEF BoardTyped
  <2>7. UndoneAreErased'
    BY <1>1, <2>2, <2>3, <2>6 DEF UndoneAreErased
  <2>8. OthersAreTold'
    <3> SUFFICES ASSUME NEW p \in Drawn \ erased.operations, NEW f \in channel', f[1] = author[p]
                 PROVE  p \in DOMAIN board[f[2]] \/ \E i \in DOMAIN inFlight'[f] : Brings(inFlight'[f][i], p)
      BY <1>1, <1>2 DEF OthersAreTold
    <3>1. CASE f = e
      <4>1. p \in DOMAIN m.what
        BY <2>2, <3>1 DEF AuthorsKeep
      <4> QED BY <2>2, <2>3, <2>6, <3>1, <4>1 DEF Brings
    <3>2. CASE f # e
      <4>1. f \in channel /\ inFlight'[f] = inFlight[f]
        BY <2>1, <2>4, <2>6, <3>2
      <4> QED BY <4>1 DEF OthersAreTold
    <3> QED BY <3>1, <3>2
  <2> QED BY <1>3, <2>5, <2>7, <2>8
<1>5. CASE ClosePair(e)
  <2> DEFINE back == <<e[2], e[1]>>
  <2>1. channel' = channel \ {e, back} /\ inFlight' = [inFlight EXCEPT ![e] = <<>>, ![back] = <<>>]
    BY <1>5 DEF ClosePair
  <2>2. back \in Ends
    BY DEF Ends
  <2> HIDE DEF back
  <2>3. /\ \A f \in Ends : inFlight'[f] = IF f \in {e, back} THEN <<>> ELSE inFlight[f]
        /\ inFlight' = [f \in Ends |-> inFlight'[f]]
    BY <2>1, <2>2 DEF BoardTyped
  <2>4. inFlight' \in [Ends -> Seq(Payloads(Drawn))]
    <3>1. <<>> \in Seq(Payloads(Drawn)) /\ \A f \in Ends : inFlight[f] \in Seq(Payloads(Drawn))
      BY DEF BoardTyped
    <3> QED BY <2>3, <3>1
  <2>5. BoardTyped'
    BY <1>1, <1>2, <2>1, <2>4 DEF BoardTyped
  <2>6. UndoneAreErased'
    BY <1>1, <2>3 DEF UndoneAreErased
  <2>7. \A f \in channel' : f \in channel /\ f \in Ends /\ inFlight'[f] = inFlight[f]
    BY <2>1, <2>3 DEF BoardTyped
  <2>8. OthersAreTold'
    BY <1>1, <1>2, <2>7 DEF OthersAreTold
  <2> QED BY <1>3, <2>5, <2>6, <2>8
<1> QED BY <1>4, <1>5

LEMMA ReceiveKeeps == ASSUME BoardInv, NEW e \in Ends, Receive(e) PROVE BoardInv'
<1> USE DEF BoardInv
<1> DEFINE b == e[2]  m == Head(inFlight[e])
<1>1. /\ inFlight[e] # <<>> /\ inFlight' = [inFlight EXCEPT ![e] = Tail(@)] /\ UNCHANGED <<author, channel, opened>>
      /\ inFlight[e] \in Seq(Payloads(Drawn)) /\ b \in Artists /\ Drawn' = Drawn /\ Drawn = 1 .. Len(author)
      /\ Len(author) \in Nat
  BY DEF Receive, BoardTyped, Ends, Drawn
<1>2. /\ m = inFlight[e][1] /\ 1 \in DOMAIN inFlight[e] /\ Tail(inFlight[e]) \in Seq(Payloads(Drawn))
      /\ \A i \in DOMAIN Tail(inFlight[e]) :
           i + 1 \in DOMAIN inFlight[e] /\ Tail(inFlight[e])[i] = inFlight[e][i + 1]
      /\ \A i \in DOMAIN inFlight[e] : i # 1 =>
           i - 1 \in DOMAIN Tail(inFlight[e]) /\ Tail(inFlight[e])[i - 1] = inFlight[e][i]
  BY <1>1, OneLess
<1>3. /\ inFlight' \in [Ends -> Seq(Payloads(Drawn))] /\ inFlight'[e] = Tail(inFlight[e])
      /\ \A f \in Ends : f # e => inFlight'[f] = inFlight[f]
  BY <1>1, <1>2 DEF BoardTyped
<1>4. m \in Payloads(Drawn) /\ m.what \in Lists(Drawn) /\ board[b] \in Lists(Drawn)
  <2>1. m \in Payloads(Drawn)
    BY <1>1, <1>2
  <2> QED BY <1>1, <2>1 DEF Payloads, BoardTyped
<1>5. /\ board'[b] \in Lists(Drawn) /\ board' = [board EXCEPT ![b] = board'[b]] /\ draft' \in [Artists -> BOOLEAN]
      /\ DOMAIN board[b] \ DOMAIN board'[b] \subseteq erased'.operations
      /\ erased.operations \subseteq erased'.operations /\ erased'.operations \subseteq Drawn
      /\ erased' = [operations |-> erased'.operations, times |-> erased'.times]
      /\ m.action \in {"op", "state"} => DOMAIN m.what \subseteq DOMAIN board'[b]
  <2>0. DOMAIN board[b] \subseteq Drawn /\ board \in [Artists -> Lists(Drawn)] /\ draft \in [Artists -> BOOLEAN]
    BY <1>4, ListIs DEF BoardTyped
  <2>1. CASE m.action \in {"op", "state"}
    <3>1. board' = [board EXCEPT ![b] = Added(@, m.what)] /\ UNCHANGED <<draft, erased>>
      BY <2>1 DEF Receive
    <3>2. /\ Added(board[b], m.what) \in Lists(Drawn)
          /\ DOMAIN Added(board[b], m.what) = DOMAIN board[b] \cup DOMAIN m.what
      BY <1>1, <1>4, AddedIsList
    <3> HIDE DEF b, m
    <3> QED BY <1>1, <2>0, <3>1, <3>2 DEF BoardTyped
  <2>2. CASE m.action = "undo"
    <3>1. board' = [board EXCEPT ![b] = Removed(@, DOMAIN m.what)] /\ UNCHANGED <<draft, erased>>
      BY <2>2 DEF Receive
    <3>2. /\ Removed(board[b], DOMAIN m.what) \in Lists(Drawn)
          /\ DOMAIN Removed(board[b], DOMAIN m.what) = DOMAIN board[b] \ DOMAIN m.what
      <4> HIDE DEF b, m
      <4> QED BY <1>4, RemovedIsList
    <3>3. DOMAIN m.what \subseteq erased.operations
      BY <1>2, <2>2 DEF UndoneAreErased
    <3> HIDE DEF b, m
    <3> QED BY <1>1, <2>0, <2>2, <3>1, <3>2, <3>3 DEF BoardTyped
  <2>3. CASE m.action = "clear"
    <3>1. /\ board' = [board EXCEPT ![b] = <<>>] /\ Erase(DOMAIN board[b], 0)
          /\ draft' = [draft EXCEPT ![b] = FALSE]
      BY <2>3 DEF Receive
    <3>2. <<>> \in Lists(Drawn) /\ DOMAIN <<>> = {}
      BY BlankIsList
    <3>3. /\ erased'.operations = erased.operations \cup DOMAIN board[b]
          /\ erased' = [operations |-> erased'.operations, times |-> erased'.times]
      BY <3>1 DEF Erase
    <3>4. draft' \in [Artists -> BOOLEAN]
      BY <2>0, <3>1
    <3> HIDE DEF b, m
    <3>5. board'[b] = <<>> /\ board' = [board EXCEPT ![b] = board'[b]]
      BY <1>1, <2>0, <3>1
    <3> QED BY <2>0, <2>3, <3>2, <3>3, <3>4, <3>5 DEF BoardTyped
  <2> QED BY <1>4, <2>1, <2>2, <2>3 DEF Payloads
<1> HIDE DEF m
<1>6. /\ board' \in [Artists -> Lists(Drawn)]
      /\ \A a \in Artists : DOMAIN board[a] \ DOMAIN board'[a] \subseteq erased'.operations
  BY <1>1, <1>5 DEF BoardTyped
<1>7. BoardTyped'
  BY <1>1, <1>3, <1>5, <1>6 DEF BoardTyped
<1>8. ASSUME NEW f \in Ends
      PROVE  /\ \A i \in DOMAIN inFlight'[f] : inFlight'[f][i].action = "undo" =>
                  DOMAIN inFlight'[f][i].what \subseteq erased'.operations
             /\ \A i \in DOMAIN inFlight[f] : \A p \in Drawn \ erased'.operations :
                  Brings(inFlight[f][i], p) =>
                    p \in DOMAIN board'[f[2]] \/ \E j \in DOMAIN inFlight'[f] : Brings(inFlight'[f][j], p)
  <2>1. CASE f = e
    <3>1. \A i \in DOMAIN inFlight'[f] :
            inFlight'[f][i].action = "undo" => DOMAIN inFlight'[f][i].what \subseteq erased.operations
      <4> SUFFICES ASSUME NEW i \in DOMAIN inFlight'[f]
                   PROVE  inFlight'[f][i].action = "undo" =>
                            DOMAIN inFlight'[f][i].what \subseteq erased.operations
        OBVIOUS
      <4>1. i + 1 \in DOMAIN inFlight[e] /\ inFlight'[f][i] = inFlight[e][i + 1]
        BY <1>2, <1>3, <2>1
      <4> QED BY <4>1 DEF UndoneAreErased
    <3>2. ASSUME NEW i \in DOMAIN inFlight[f], NEW p \in Drawn \ erased'.operations, Brings(inFlight[f][i], p)
          PROVE  p \in DOMAIN board'[f[2]] \/ \E j \in DOMAIN inFlight'[f] : Brings(inFlight'[f][j], p)
      <4>1. CASE i = 1
        <5>1. Brings(m, p)
          BY <1>2, <2>1, <3>2, <4>1
        <5> QED BY <1>5, <2>1, <5>1 DEF Brings
      <4>2. CASE i # 1
        <5>1. i - 1 \in DOMAIN inFlight'[f] /\ inFlight'[f][i - 1] = inFlight[f][i]
          BY <1>2, <1>3, <2>1, <4>2
        <5> QED BY <3>2, <5>1
      <4> QED BY <4>1, <4>2
    <3> QED BY <1>5, <3>1, <3>2
  <2>2. CASE f # e
    BY <1>3, <1>5, <2>2 DEF UndoneAreErased
  <2> QED BY <2>1, <2>2
<1>9. UndoneAreErased' /\ AuthorsKeep' /\ OthersAreTold'
  <2>1. erased.operations \subseteq erased'.operations /\ UNCHANGED <<author, channel>>
    BY <1>1, <1>5
  <2> HIDE DEF b
  <2> QED BY <1>6, <1>8, <2>1, ErasureKeeps
<1> QED BY <1>7, <1>9

LEMMA BoardNextInv == ASSUME BoardInv, [BoardNext]_boardVars PROVE BoardInv'
<1>1. CASE BoardNext
  BY <1>1, PointerKeeps, FinishKeeps, UndoKeeps, ChannelsKeep, ReceiveKeeps DEF BoardNext
<1>2. CASE UNCHANGED boardVars
  BY <1>2 DEF BoardInv, BoardTyped, UndoneAreErased, AuthorsKeep, OthersAreTold, boardVars, Drawn
<1> QED BY <1>1, <1>2

\* Whatever is drawn, taken back or cleared, and whichever channels break and open, an operation
\* that nobody erased is on every board once all have heard each other.
LEMMA BoardFollows == ASSUME BoardInv PROVE BoardTypeOK /\ NothingDrawnIsLost
<1> USE DEF BoardInv
<1>1. BoardTypeOK
  BY ListIs DEF BoardTypeOK, BoardTyped
<1>2. NothingDrawnIsLost
  <2> SUFFICES ASSUME channel = Ends, \A e \in Ends : inFlight[e] = <<>>,
                      NEW a \in Artists, NEW o \in Drawn \ erased.operations
               PROVE  o \in DOMAIN board[a]
    BY DEF NothingDrawnIsLost
  <2>1. CASE author[o] = a
    BY <2>1 DEF AuthorsKeep
  <2>2. CASE author[o] # a
    <3> DEFINE e == <<author[o], a>>
    <3>1. author[o] \in Artists
      BY DEF BoardTyped, Drawn
    <3>2. e \in Ends /\ e \in channel /\ e[1] = author[o] /\ e[2] = a /\ inFlight[e] = <<>>
      BY <2>2, <3>1 DEF Ends
    <3> HIDE DEF e
    <3> QED BY <3>2 DEF OthersAreTold
  <2> QED BY <2>1, <2>2
<1> QED BY <1>1, <1>2

THEOREM BoardInvariant == BoardSpec => []NothingDrawnIsLost
<1>1. BoardInit => BoardInv
  BY BoardInitInv
<1>2. BoardInv /\ [BoardNext]_boardVars => BoardInv'
  BY BoardNextInv
<1>3. BoardInv => NothingDrawnIsLost
  BY BoardFollows
<1> QED BY <1>1, <1>2, <1>3, PTL DEF BoardSpec

-----------------------------------------------------------------------------
(* The list of conversations: until a change owes its render, what the last render has read so *)
(* far is what the page holds, and what it has drawn is what it read.                          *)

ListTypes == [Talks -> {"none", "invited", "member"}]
FaceTypes == [Talks -> {"none", "title", "blocked"}]
RowTypes == [requests : SUBSET Talks, list : ListTypes, faces : FaceTypes, typed : SUBSET Talks,
             called : SUBSET Talks, online : SUBSET Talks]
RenderTypes == [at : {"notes", "displays", "details", "ended"}, personal : BOOLEAN,
                read : SUBSET Talks, rows : RowTypes]
RefreshKinds == {"none", "all", "list", "update", "message", "accept", "refuse", "again", "typing"}
RefreshTypes == [kind : RefreshKinds, entry : Talks \cup {NoTalk}, cached : BOOLEAN,
                 at : {"cache", "asked", "repairing", "posting", "typing", "again", "ended"},
                 got : SUBSET {"contacts", "conversations"}, requests : SUBSET Talks,
                 list : ListTypes]

SidebarTypes ==
  /\ joined \in [Talks -> {"none", "request", "invited", "member"}]
  /\ conversations \in ListTypes /\ contacts \in SUBSET Talks
  /\ typing \in SUBSET Talks /\ online \in SUBSET Talks /\ calling \in Talks \cup {NoTalk}
  /\ renders \in Seq(RenderTypes) /\ refreshes \in Seq(RefreshTypes)
  /\ sidebar \in RowTypes /\ notesShown \in BOOLEAN
  /\ signals \in 0 .. MaxEvents /\ mishaps \in 0 .. MaxMishaps

\* Something changed and no render has begun since.
RenderOwed == mishaps # 0 \/ \E k \in DOMAIN refreshes : Owes(refreshes[k])

RowsRead(rows_) ==
  /\ notesShown = (conversations[Notes] # "none")
  /\ rows_.requests = contacts
  /\ rows_.list = [conversations EXCEPT ![Notes] = "none"]
RowsMarked(rows_) ==
  /\ rows_.called = Called(rows_.list)
  /\ \A e \in Titled(rows_.faces) : e \in RowsIn(rows_.list) /\ (e \in rows_.typed <=> e \in typing)
RowsLit(rows_, read_) ==
  /\ rows_.online \subseteq read_
  /\ \A e \in Titled(rows_.faces) \cap read_ : e \in rows_.online <=> e \in online

LastRender == renders[Len(renders)]
RenderUp(at) == renders # <<>> /\ LastRender.at = at

RenderFollows ==
  /\ RenderUp("notes") => /\ LastRender.personal = (conversations[Notes] # "none")
                          /\ LastRender.read = {}
                          /\ notesShown => LastRender.personal
  /\ RenderUp("displays") => /\ RowsRead(LastRender.rows)
                             /\ LastRender.read = {} /\ LastRender.rows.online = {}
  /\ RenderUp("details") => /\ RowsRead(LastRender.rows) /\ RowsMarked(LastRender.rows)
                            /\ RowsLit(LastRender.rows, LastRender.read)
  /\ renders = <<>> \/ RenderUp("ended") =>
       RowsRead(sidebar) /\ RowsMarked(sidebar) /\ RowsLit(sidebar, Talks)

SidebarInv ==
  /\ SidebarTypes
  /\ listKey[2] = sidebar
  /\ ~RenderOwed => RenderFollows

LEMMA SidebarEmpty ==
  ASSUME SidebarAssumption
  PROVE  /\ Nobody \in ListTypes /\ Nobody \in FaceTypes
         /\ NoRows \in RowTypes /\ NoRender \in RenderTypes
         /\ \A kind \in RefreshKinds, e \in Talks \cup {NoTalk} :
              /\ NewRefresh(kind, e) \in RefreshTypes /\ RefreshBegun(kind, e) \in RefreshTypes
              /\ RefreshBegun(kind, e).kind = kind /\ RefreshBegun(kind, e).at \in {"cache", "asked"}
         /\ NoRefresh \in RefreshTypes
<1>1. Nobody \in ListTypes /\ Nobody \in FaceTypes
  BY DEF Nobody, ListTypes, FaceTypes
<1>2. NoRows \in RowTypes
  BY <1>1 DEF NoRows, RowTypes
<1>3. NoRender \in RenderTypes
  BY <1>2 DEF NoRender, RenderTypes
<1>4. ASSUME NEW kind \in RefreshKinds, NEW e \in Talks \cup {NoTalk}
      PROVE  /\ NewRefresh(kind, e) \in RefreshTypes /\ RefreshBegun(kind, e) \in RefreshTypes
             /\ RefreshBegun(kind, e).kind = kind /\ RefreshBegun(kind, e).at \in {"cache", "asked"}
  <2>1. NewRefresh(kind, e) \in RefreshTypes /\ NewRefresh(kind, e).kind = kind
    BY <1>1 DEF NewRefresh, RefreshTypes, RefreshKinds
  <2>2. PICK a \in {"cache", "asked"} : RefreshBegun(kind, e) = [NewRefresh(kind, e) EXCEPT !.at = a]
    BY DEF RefreshBegun
  <2> HIDE DEF NewRefresh
  <2> QED
    BY <2>1, <2>2 DEF RefreshTypes
<1>5. NewRefresh("none", NoTalk) \in RefreshTypes
  BY <1>4 DEF RefreshKinds
<1>6. NoRefresh \in RefreshTypes
  BY <1>5 DEF NoRefresh, RefreshTypes
<1> QED
  BY <1>1, <1>2, <1>3, <1>4, <1>6

LEMMA SidebarInitInv == ASSUME SidebarAssumption PROVE SidebarInit => SidebarInv
<1> SUFFICES ASSUME SidebarInit PROVE SidebarInv
  OBVIOUS
<1>1. NoRows.requests = {} /\ NoRows.list = Nobody /\ NoRows.called = {} /\ NoRows.faces = Nobody
      /\ NoRows.online = {}
  BY DEF NoRows
<1>2. RefreshBegun("all", NoTalk) \in RefreshTypes
  BY SidebarEmpty DEF RefreshKinds
<1>3. refreshes \in Seq(RefreshTypes) /\ renders \in Seq(RenderTypes) /\ renders = <<>>
  BY <1>2 DEF SidebarInit
<1>4. SidebarTypes
  <2>1. joined \in [Talks -> {"none", "request", "invited", "member"}]
    BY SidebarAssumption DEF SidebarInit, SidebarAssumption
  <2>2. conversations \in ListTypes /\ sidebar \in RowTypes
    BY SidebarEmpty DEF SidebarInit
  <2>3. /\ contacts \in SUBSET Talks /\ typing \in SUBSET Talks /\ online \in SUBSET Talks
        /\ calling \in Talks \cup {NoTalk} /\ notesShown \in BOOLEAN
    BY DEF SidebarInit
  <2>4. signals \in 0 .. MaxEvents /\ mishaps \in 0 .. MaxMishaps
    BY SidebarAssumption DEF SidebarInit, SidebarAssumption
  <2> QED
    BY <1>3, <2>1, <2>2, <2>3, <2>4 DEF SidebarTypes
<1>5. RowsRead(sidebar)
  <2>1. Notes \in Talks
    BY SidebarAssumption DEF SidebarAssumption
  <2>2. conversations[Notes] = "none" /\ [Nobody EXCEPT ![Notes] = "none"] = Nobody
    BY <2>1 DEF SidebarInit, Nobody
  <2> QED
    BY <1>1, <2>2 DEF SidebarInit, RowsRead
<1>6. Titled(sidebar.faces) = {} /\ sidebar.called = {} /\ Called(sidebar.list) = {}
  BY <1>1 DEF SidebarInit, Titled, Called, RowsIn, Nobody
<1>7. RenderFollows
  BY <1>1, <1>3, <1>5, <1>6 DEF SidebarInit, RenderFollows, RenderUp, RowsMarked, RowsLit
<1>8. listKey[2] = sidebar
  BY DEF SidebarInit
<1> QED
  BY <1>4, <1>7, <1>8 DEF SidebarInv

\* A render that begins is the last, and knows whether there is a personal conversation.
LEMMA DrawingFollows ==
  ASSUME SidebarAssumption, SidebarTypes, SidebarTypes', NEW list, list = conversations',
         Drawing(list)
  PROVE  RenderFollows'
<1> DEFINE r == [NoRender EXCEPT !.at = "notes", !.personal = list[Notes] # "none"]
<1>1. renders' = Append(renders, r) /\ renders \in Seq(RenderTypes)
  BY DEF Drawing, SidebarTypes
<1>2. r.at = "notes" /\ r.personal = (list[Notes] # "none") /\ r.read = {}
  BY DEF NoRender
<1>3. Len(renders') = Len(renders) + 1 /\ Len(renders) \in Nat
  BY <1>1, AppendProperties, LenProperties DEF SidebarTypes
<1>4. renders'[Len(renders')] = r /\ renders' # <<>>
  <2> HIDE DEF r
  <2>1. renders' \in Seq(RenderTypes)
    BY DEF SidebarTypes
  <2>2. Append(renders, r)[Len(renders) + 1] = r
    BY <1>1
  <2> QED
    BY <1>1, <1>3, <2>2, <2>1, EmptySeq
<1>5. notesShown' => list[Notes] # "none"
  BY DEF Drawing
<1> HIDE DEF r
<1> QED
  BY <1>2, <1>4, <1>5 DEF RenderFollows, RenderUp, LastRender

\* A refresh that goes on owes what it owed; one more owes nothing that was paid.
LEMMA RefreshGoesOn ==
  ASSUME SidebarAssumption, SidebarTypes, NEW k \in DOMAIN refreshes, NEW t \in RefreshTypes,
         refreshes' = [refreshes EXCEPT ![k] = t]
  PROVE  /\ refreshes' \in Seq(RefreshTypes)
         /\ mishaps' = mishaps /\ (Owes(refreshes[k]) => Owes(t)) => (RenderOwed => RenderOwed')
         /\ Owes(t) => RenderOwed'
<1>1. refreshes \in Seq(RefreshTypes) /\ DOMAIN refreshes = 1 .. Len(refreshes)
  BY DEF SidebarTypes
<1>2. refreshes' \in Seq(RefreshTypes) /\ DOMAIN refreshes' = DOMAIN refreshes
  BY <1>1
<1>3. refreshes'[k] = t /\ \A i \in DOMAIN refreshes : i # k => refreshes'[i] = refreshes[i]
  BY <1>1
<1>4. Owes(t) => RenderOwed'
  BY <1>2, <1>3 DEF RenderOwed
<1>5. ASSUME mishaps' = mishaps, Owes(refreshes[k]) => Owes(t), RenderOwed PROVE RenderOwed'
  <2>1. CASE mishaps # 0
    BY <2>1, <1>5 DEF RenderOwed
  <2>2. CASE mishaps = 0
    <3>1. PICK i \in DOMAIN refreshes : Owes(refreshes[i])
      BY <2>2, <1>5 DEF RenderOwed
    <3>2. CASE i = k
      BY <3>1, <3>2, <1>5, <1>4
    <3>3. CASE i # k
      BY <3>1, <3>3, <1>2, <1>3 DEF RenderOwed
    <3> QED
      BY <3>2, <3>3
  <2> QED
    BY <2>1, <2>2
<1> QED
  BY <1>2, <1>4, <1>5

LEMMA RefreshBegins ==
  ASSUME SidebarAssumption, SidebarTypes, NEW t \in RefreshTypes,
         refreshes' = Append(refreshes, t)
  PROVE  /\ refreshes' \in Seq(RefreshTypes)
         /\ mishaps' = mishaps => (RenderOwed => RenderOwed')
         /\ Owes(t) => RenderOwed'
<1>1. refreshes \in Seq(RefreshTypes) /\ DOMAIN refreshes = 1 .. Len(refreshes)
  BY DEF SidebarTypes
<1>2. /\ refreshes' \in Seq(RefreshTypes) /\ Len(refreshes') = Len(refreshes) + 1
      /\ Len(refreshes) \in Nat /\ DOMAIN refreshes' = 1 .. (Len(refreshes) + 1)
      /\ refreshes'[Len(refreshes) + 1] = t
      /\ \A i \in DOMAIN refreshes : refreshes'[i] = refreshes[i]
  BY <1>1
<1>3. Owes(t) => RenderOwed'
  BY <1>2 DEF RenderOwed
<1>4. mishaps' = mishaps /\ RenderOwed => RenderOwed'
  BY <1>1, <1>2 DEF RenderOwed
<1> QED
  BY <1>2, <1>3, <1>4

\* A step that draws nothing and changes nothing that is drawn, unless a render is owed.
LEMMA NothingDrawn ==
  ASSUME SidebarInv, SidebarTypes', UNCHANGED screenVars,
         \/ RenderOwed'
         \/ (RenderOwed => RenderOwed') /\ UNCHANGED <<fetchedVars, markVars>>
  PROVE  SidebarInv'
<1>1. (listKey[2] = sidebar)'
  BY DEF SidebarInv, screenVars
<1>2. ASSUME ~RenderOwed' PROVE RenderFollows'
  <2>1. RenderFollows /\ UNCHANGED <<fetchedVars, markVars>>
    BY <1>2 DEF SidebarInv
  <2>2. Called(sidebar.list)' = Called(sidebar.list)
    BY <2>1 DEF screenVars, Called, RowsIn, markVars
  <2>3. ASSUME RenderUp("details")
        PROVE  Called(LastRender.rows.list)' = Called(LastRender.rows.list)
    BY <2>1 DEF screenVars, Called, RowsIn, markVars, LastRender
  <2> QED
    BY <2>1, <2>2, <2>3 DEF screenVars, fetchedVars, markVars, RenderFollows, RenderUp, LastRender,
       RowsRead, RowsMarked, RowsLit, Titled, Called, RowsIn
<1> QED
  BY <1>1, <1>2 DEF SidebarInv

LEMMA AsksKeep ==
  ASSUME SidebarAssumption, SidebarInv, NEW kind, NEW e \in Talks \cup {NoTalk},
         \/ Refreshed(kind) /\ e = NoTalk
         \/ ConversationUpdated(e) /\ kind = "update"
         \/ NewMessage(e) /\ kind = "message"
         \/ ButtonPosts(kind, e) /\ kind \in {"accept", "refuse"}
  PROVE  SidebarInv'
<1> DEFINE t == IF kind \in {"accept", "refuse"} THEN [NewRefresh(kind, e) EXCEPT !.at = "posting"]
                ELSE RefreshBegun(kind, e)
<1>1. kind \in RefreshKinds
  BY DEF RefreshKinds, Refreshed
<1>2. /\ NewRefresh(kind, e) \in RefreshTypes /\ RefreshBegun(kind, e) \in RefreshTypes
      /\ RefreshBegun(kind, e).kind = kind /\ RefreshBegun(kind, e).at \in {"cache", "asked"}
  BY <1>1, SidebarEmpty
<1>3. t \in RefreshTypes /\ (kind = "message" => Owes(t))
  <2>1. [NewRefresh(kind, e) EXCEPT !.at = "posting"] \in RefreshTypes
    BY <1>2 DEF RefreshTypes
  <2> QED
    BY <1>2, <2>1 DEF Owes
<1>4. /\ refreshes' = Append(refreshes, t)
      /\ UNCHANGED <<fetchedVars, screenVars, joined, online, calling, signals, mishaps>>
      /\ typing' \in {typing, typing \ {e}}
      /\ kind # "message" => UNCHANGED markVars
  BY DEF Refreshed, ConversationUpdated, NewMessage, ButtonPosts, Ask, markVars
<1> HIDE DEF t
<1>5. /\ refreshes' \in Seq(RefreshTypes) /\ (RenderOwed => RenderOwed') /\ (Owes(t) => RenderOwed')
  BY <1>3, <1>4, RefreshBegins DEF SidebarInv
<1>6. SidebarTypes'
  BY <1>4, <1>5 DEF SidebarInv, SidebarTypes, fetchedVars, screenVars
<1>7. UNCHANGED screenVars /\ UNCHANGED fetchedVars
  BY <1>4
<1>8. CASE kind = "message"
  <2>1. RenderOwed'
    BY <1>3, <1>5, <1>8
  <2> QED
    BY <2>1, <1>6, <1>7, NothingDrawn
<1>9. CASE kind # "message"
  <2>1. UNCHANGED markVars
    BY <1>4, <1>9
  <2> QED
    BY <2>1, <1>5, <1>6, <1>7, NothingDrawn
<1> QED
  BY <1>8, <1>9

LEMMA GoesOnKeeps ==
  ASSUME SidebarAssumption, SidebarInv, NEW k \in DOMAIN refreshes,
         AnswerContacts(k) \/ AnswerConversations(k) \/ CreateNotes(k) \/ Posted(k)
  PROVE  SidebarInv'
<1> DEFINE r == refreshes[k]
<1> r \in RefreshTypes /\ Notes \in Talks
    /\ joined \in [Talks -> {"none", "request", "invited", "member"}]
  BY DEF SidebarInv, SidebarTypes, SidebarAssumption
<1>1. /\ UNCHANGED <<fetchedVars, markVars, screenVars, signals, mishaps>>
      /\ joined' \in [Talks -> {"none", "request", "invited", "member"}]
      /\ \E t \in RefreshTypes : /\ refreshes' = [refreshes EXCEPT ![k] = t]
                                 /\ Owes(r) => Owes(t)
  <2>1. CASE AnswerContacts(k)
    <3> DEFINE t == [r EXCEPT !.got = @ \cup {"contacts"},
                              !.requests = {e \in Talks : joined[e] = "request"}]
    <3>1. t \in RefreshTypes /\ t.kind = r.kind /\ t.at = r.at
      BY DEF RefreshTypes
    <3>2. refreshes' = [refreshes EXCEPT ![k] = t]
      BY <2>1 DEF AnswerContacts, Goes
    <3> HIDE DEF t
    <3> QED
      BY <2>1, <3>1, <3>2 DEF AnswerContacts, Owes, SidebarInv, SidebarTypes
  <2>2. CASE AnswerConversations(k)
    <3> DEFINE l == [e \in Talks |-> IF joined[e] = "request" THEN "none" ELSE joined[e]]
               t == [r EXCEPT !.got = @ \cup {"conversations"}, !.list = l]
    <3>1. l \in ListTypes
      BY DEF ListTypes
    <3>2. refreshes' = [refreshes EXCEPT ![k] = t]
      BY <2>2 DEF AnswerConversations, Goes
    <3> HIDE DEF l
    <3>3. t \in RefreshTypes /\ t.kind = r.kind /\ t.at = r.at
      BY <3>1 DEF RefreshTypes
    <3> HIDE DEF t
    <3> QED
      BY <2>2, <3>2, <3>3 DEF AnswerConversations, Owes, SidebarInv, SidebarTypes
  <2>3. CASE CreateNotes(k)
    <3> DEFINE t == [r EXCEPT !.got = {"contacts"}, !.list = Nobody]
    <3>1. t \in RefreshTypes /\ t.kind = r.kind /\ t.at = r.at
      BY SidebarEmpty DEF RefreshTypes
    <3>2. refreshes' = [refreshes EXCEPT ![k] = t]
      BY <2>3 DEF CreateNotes, Goes
    <3> HIDE DEF t
    <3>3. joined' \in [Talks -> {"none", "request", "invited", "member"}]
      BY <2>3 DEF CreateNotes
    <3> QED
      BY <2>3, <3>1, <3>2, <3>3 DEF CreateNotes, Owes, SidebarInv, SidebarTypes
  <2>4. CASE Posted(k)
    <3>1. \E t \in RefreshTypes : refreshes' = [refreshes EXCEPT ![k] = t]
      BY <2>4, SidebarEmpty DEF Posted, Goes, RefreshTypes
    <3>2. ~Owes(r)
      <4>1. r.at = "posting"
        BY <2>4 DEF Posted, Pending
      <4> QED
        BY <4>1 DEF Owes
    <3>3. joined' \in [Talks -> {"none", "request", "invited", "member"}]
      BY <2>4 DEF Posted
    <3>5. UNCHANGED <<fetchedVars, markVars, screenVars, signals, mishaps>>
      BY <2>4 DEF Posted
    <3> HIDE DEF r
    <3> QED
      BY <3>1, <3>2, <3>3, <3>5
  <2> QED
    BY <2>1, <2>2, <2>3, <2>4
<1> HIDE DEF r
<1>2. PICK t \in RefreshTypes : /\ refreshes' = [refreshes EXCEPT ![k] = t]
                                /\ Owes(r) => Owes(t)
  BY <1>1
<1>3. refreshes' \in Seq(RefreshTypes) /\ (RenderOwed => RenderOwed')
  <2>1. SidebarTypes
    BY DEF SidebarInv
  <2>2. refreshes' = [refreshes EXCEPT ![k] = t] /\ t \in RefreshTypes
    BY <1>2
  <2>3. /\ refreshes' \in Seq(RefreshTypes)
        /\ mishaps' = mishaps /\ (Owes(refreshes[k]) => Owes(t)) => (RenderOwed => RenderOwed')
    BY ONLY SidebarAssumption, k \in DOMAIN refreshes, <2>1, <2>2, RefreshGoesOn
  <2> QED
    BY <1>1, <1>2, <2>3 DEF r
<1>4. SidebarTypes'
  BY <1>1, <1>3 DEF SidebarInv, SidebarTypes, fetchedVars, markVars, screenVars
<1> QED
  BY <1>1, <1>3, <1>4, NothingDrawn

\* A render that begins is one more of them.
LEMMA DrawingTypes ==
  ASSUME SidebarAssumption, SidebarTypes, NEW list, Drawing(list)
  PROVE  /\ renders' \in Seq(RenderTypes) /\ notesShown' \in BOOLEAN
         /\ UNCHANGED <<sidebar, listKey>>
<1>1. [NoRender EXCEPT !.at = "notes", !.personal = list[Notes] # "none"] \in RenderTypes
  <2>1. NoRender \in RenderTypes
    BY SidebarEmpty
  <2>2. [NoRender EXCEPT !.at = "notes"] \in RenderTypes
    BY <2>1 DEF RenderTypes
  <2>3. [[NoRender EXCEPT !.at = "notes"] EXCEPT !.personal = list[Notes] # "none"] \in RenderTypes
    BY <2>2 DEF RenderTypes
  <2> QED
    BY <2>3
<1> QED
  BY <1>1 DEF Drawing, SidebarTypes

\* A step that draws what it leaves.
LEMMA DrawnAnew ==
  ASSUME SidebarAssumption, SidebarInv, NEW list, list = conversations', Drawing(list),
         joined' \in [Talks -> {"none", "request", "invited", "member"}],
         conversations' \in ListTypes, contacts' \in SUBSET Talks, typing' \in SUBSET Talks,
         online' \in SUBSET Talks, calling' \in Talks \cup {NoTalk},
         refreshes' \in Seq(RefreshTypes), signals' \in 0 .. MaxEvents, mishaps' = mishaps
  PROVE  SidebarInv'
<1>2. renders' \in Seq(RenderTypes) /\ notesShown' \in BOOLEAN /\ UNCHANGED <<sidebar, listKey>>
  BY DrawingTypes DEF SidebarInv
<1>3. SidebarTypes'
  BY <1>2 DEF SidebarInv, SidebarTypes
<1>4. RenderFollows'
  BY <1>3, DrawingFollows DEF SidebarInv
<1> QED
  BY <1>2, <1>3, <1>4 DEF SidebarInv

LEMMA ListsKeep ==
  ASSUME SidebarAssumption, SidebarInv, NEW k \in DOMAIN refreshes,
         CachedListRead(k) \/ ListsArrive(k) \/ DrawnAfter(k) \/ RefreshFails(k)
  PROVE  SidebarInv'
<1> DEFINE r == refreshes[k]
<1> SidebarTypes /\ r \in RefreshTypes
  BY DEF SidebarInv, SidebarTypes
<1>0. AfterLists(r) \in RefreshTypes /\ NoRefresh \in RefreshTypes
  <2>1. NewRefresh("again", r.entry) \in RefreshTypes /\ NoRefresh \in RefreshTypes
    BY SidebarEmpty DEF RefreshTypes, RefreshKinds
  <2>2. [NewRefresh("again", r.entry) EXCEPT !.at = "again"] \in RefreshTypes
    BY <2>1 DEF RefreshTypes
  <2> QED
    BY <2>1, <2>2 DEF AfterLists
<1>1. CASE ListsArrive(k)
  <2>1. /\ conversations' = r.list /\ conversations' \in ListTypes /\ contacts' \in SUBSET Talks
        /\ UNCHANGED <<joined, typing, online, calling, signals, mishaps>>
    BY <1>1 DEF ListsArrive, RefreshTypes, markVars, SidebarTypes
  <2>2. CASE Drawing(r.list) /\ Goes(k, AfterLists(r))
    <3>3. refreshes' \in Seq(RefreshTypes)
      <4>1. PICK t \in RefreshTypes : refreshes' = [refreshes EXCEPT ![k] = t]
        BY <2>2, <1>0 DEF Goes
      <4> QED
        BY <4>1 DEF SidebarTypes
    <3> HIDE DEF r
    <3> QED
      BY <2>1, <2>2, <3>3, DrawnAnew DEF SidebarTypes
  <2>3. CASE /\ Goes(k, [NewRefresh("update", r.entry) EXCEPT !.at = "repairing"])
             /\ UNCHANGED screenVars
    <3> DEFINE t == [NewRefresh("update", r.entry) EXCEPT !.at = "repairing"]
    <3>1. NewRefresh("update", r.entry) \in RefreshTypes
      BY SidebarEmpty DEF RefreshTypes, RefreshKinds
    <3>2. t \in RefreshTypes /\ t.at = "repairing"
      BY <3>1 DEF RefreshTypes
    <3>3. refreshes' = [refreshes EXCEPT ![k] = t]
      BY <2>3 DEF Goes
    <3> HIDE DEF t, r
    <3>4. refreshes' \in Seq(RefreshTypes) /\ RenderOwed'
      BY <3>2, <3>3, RefreshGoesOn DEF Owes
    <3>5. SidebarTypes'
      BY <2>1, <2>3, <3>4 DEF SidebarTypes, screenVars
    <3> QED
      BY <2>3, <3>4, <3>5, NothingDrawn
  <2> QED
    BY <1>1, <2>2, <2>3 DEF ListsArrive
<1>2. CASE DrawnAfter(k)
  <2>1. refreshes' \in Seq(RefreshTypes)
    BY <1>2, SidebarEmpty DEF DrawnAfter, Goes, SidebarTypes
  <2>2. Drawing(conversations) /\ UNCHANGED <<joined, fetchedVars, markVars, signals, mishaps>>
    BY <1>2 DEF DrawnAfter
  <2>3. conversations' = conversations
    BY <2>2 DEF fetchedVars
  <2> HIDE DEF r
  <2> QED
    BY <2>1, <2>2, <2>3, DrawnAnew DEF SidebarTypes, fetchedVars, markVars
<1>3. CASE CachedListRead(k)
  <2> DEFINE a == [r EXCEPT !.at = "asked"]
             b == [r EXCEPT !.at = "asked", !.cached = TRUE]
  <2>1. a \in RefreshTypes /\ a.kind = r.kind /\ a.at = "asked" /\ b \in RefreshTypes
    BY DEF RefreshTypes
  <2>2. r.at = "cache" /\ UNCHANGED <<joined, contacts, markVars, signals, mishaps>>
    BY <1>3 DEF CachedListRead, Pending
  <2>3. CASE Goes(k, a) /\ UNCHANGED <<conversations, screenVars>>
    <3>1. refreshes' = [refreshes EXCEPT ![k] = a] /\ (Owes(r) => Owes(a))
      BY <2>1, <2>2, <2>3 DEF Goes, Owes
    <3> HIDE DEF a, r
    <3>2. refreshes' \in Seq(RefreshTypes) /\ (RenderOwed => RenderOwed')
      BY <2>1, <2>2, <3>1, RefreshGoesOn DEF r
    <3>3. SidebarTypes'
      BY <2>2, <2>3, <3>2 DEF SidebarTypes, screenVars, markVars
    <3>4. UNCHANGED screenVars /\ UNCHANGED <<fetchedVars, markVars>>
      BY <2>2, <2>3 DEF fetchedVars
    <3> QED
      BY <3>2, <3>3, <3>4, NothingDrawn
  <2>4. CASE Goes(k, b) /\ conversations' = Cached /\ Drawing(Cached)
    <3>1. refreshes' \in Seq(RefreshTypes)
      BY <2>1, <2>4 DEF Goes, SidebarTypes
    <3>2. conversations' \in ListTypes
      BY <2>4, SidebarAssumption DEF SidebarAssumption, ListTypes
    <3> HIDE DEF r, a, b
    <3> QED
      BY <2>2, <2>4, <3>1, <3>2, DrawnAnew DEF SidebarTypes, markVars
  <2> QED
    BY <1>3, <2>3, <2>4 DEF CachedListRead
<1>4. CASE RefreshFails(k)
  <2>1. refreshes' \in Seq(RefreshTypes)
    <3>1. Goes(k, AfterLists(r)) \/ Goes(k, NoRefresh)
      BY <1>4 DEF RefreshFails
    <3> HIDE DEF r
    <3>2. PICK t \in RefreshTypes : refreshes' = [refreshes EXCEPT ![k] = t]
      BY <1>0, <3>1 DEF Goes
    <3> QED
      BY <3>2 DEF SidebarTypes
  <2>2. mishaps' # 0 /\ mishaps' \in 0 .. MaxMishaps
    BY <1>4, SidebarAssumption DEF RefreshFails, SidebarTypes, SidebarAssumption
  <2>3. UNCHANGED <<joined, contacts, markVars, signals>>
    BY <1>4 DEF RefreshFails
  <2>4. CASE conversations' = Cached /\ Drawing(Cached)
    <3>1. conversations' \in ListTypes
      BY <2>4, SidebarAssumption DEF SidebarAssumption, ListTypes
    <3>2. renders' \in Seq(RenderTypes) /\ notesShown' \in BOOLEAN /\ UNCHANGED <<sidebar, listKey>>
      BY <2>4, DrawingTypes
    <3>3. SidebarTypes' /\ RenderOwed'
      BY <2>1, <2>2, <2>3, <3>1, <3>2 DEF SidebarTypes, markVars, RenderOwed
    <3> QED
      BY <3>2, <3>3 DEF SidebarInv
  <2>5. CASE UNCHANGED <<conversations, screenVars>>
    <3>1. SidebarTypes' /\ RenderOwed'
      BY <2>1, <2>2, <2>3, <2>5 DEF SidebarTypes, markVars, screenVars, RenderOwed
    <3>2. UNCHANGED screenVars
      BY <2>5
    <3> QED
      BY <3>1, <3>2, NothingDrawn
  <2> QED
    BY <1>4, <2>4, <2>5 DEF RefreshFails
<1> QED
  BY <1>1, <1>2, <1>3, <1>4

LEMMA SignalsKeep ==
  ASSUME SidebarAssumption, SidebarInv, NEW e \in Talks, NEW writes \in BOOLEAN,
         NEW there \in SUBSET Talks,
         \/ SetTyping(e, writes) \/ PresenceChanges(there) \/ CallChanges(e) \/ ServerChanges(e)
  PROVE  SidebarInv'
<1> SidebarTypes
  BY DEF SidebarInv
<1>1. signals' \in 0 .. MaxEvents
  <2>1. signals' = signals + 1 /\ Len(refreshes) + signals < MaxEvents
    BY DEF SetTyping, PresenceChanges, CallChanges, ServerChanges, Signalled, MoreEvents
  <2>2. Len(refreshes) \in Nat /\ signals \in Nat /\ MaxEvents \in Nat
    BY SidebarAssumption DEF SidebarTypes, SidebarAssumption
  <2> QED
    BY <2>1, <2>2
<1>2. CASE SetTyping(e, writes)
  <2>1. typing' \in SUBSET Talks /\ UNCHANGED <<joined, fetchedVars, online, calling, mishaps>>
    BY <1>2 DEF SetTyping, SidebarTypes
  <2>2. CASE e = CurrentTalk
    <3> DEFINE t == [NewRefresh("typing", e) EXCEPT !.at = "typing"]
    <3>1. NewRefresh("typing", e) \in RefreshTypes
      BY SidebarEmpty DEF RefreshKinds
    <3>2. t \in RefreshTypes /\ t.at = "typing"
      BY <3>1 DEF RefreshTypes
    <3>3. refreshes' = Append(refreshes, t) /\ UNCHANGED screenVars
      BY <1>2, <2>2 DEF SetTyping, TypingChanges
    <3> HIDE DEF t
    <3>4. refreshes' \in Seq(RefreshTypes) /\ RenderOwed'
      BY <3>2, <3>3, RefreshBegins DEF Owes
    <3>5. SidebarTypes'
      BY <1>1, <2>1, <3>3, <3>4 DEF SidebarTypes, screenVars, fetchedVars
    <3> QED
      BY <3>3, <3>4, <3>5, NothingDrawn
  <2>3. CASE e # CurrentTalk
    <3>1. Drawing(conversations) /\ UNCHANGED refreshes
      BY <1>2, <2>3 DEF SetTyping, TypingChanges
    <3>2. conversations' = conversations
      BY <2>1 DEF fetchedVars
    <3> QED
      BY <1>1, <2>1, <3>1, <3>2, DrawnAnew DEF SidebarTypes, fetchedVars
  <2> QED
    BY <2>2, <2>3
<1>3. CASE PresenceChanges(there)
  <2>1. /\ Drawing(conversations)
        /\ UNCHANGED <<joined, fetchedVars, typing, calling, refreshes, mishaps>>
        /\ online' \in SUBSET Talks
    BY <1>3 DEF PresenceChanges
  <2>2. conversations' = conversations
    BY <2>1 DEF fetchedVars
  <2> QED
    BY <1>1, <2>1, <2>2, DrawnAnew DEF SidebarTypes, fetchedVars
<1>4. CASE CallChanges(e)
  <2>1. /\ Drawing(conversations)
        /\ UNCHANGED <<joined, fetchedVars, typing, online, refreshes, mishaps>>
        /\ calling' \in Talks \cup {NoTalk}
    BY <1>4 DEF CallChanges
  <2>2. conversations' = conversations
    BY <2>1 DEF fetchedVars
  <2> QED
    BY <1>1, <2>1, <2>2, DrawnAnew DEF SidebarTypes, fetchedVars
<1>5. CASE ServerChanges(e)
  <2>1. joined' \in [Talks -> {"none", "request", "invited", "member"}]
    BY <1>5 DEF ServerChanges, SidebarTypes
  <2>2. UNCHANGED <<fetchedVars, markVars, screenVars, refreshes, mishaps>>
    BY <1>5 DEF ServerChanges
  <2>3. SidebarTypes'
    BY <1>1, <2>1, <2>2 DEF SidebarTypes, fetchedVars, markVars, screenVars
  <2>4. RenderOwed' <=> RenderOwed
    BY <2>2 DEF RenderOwed
  <2> QED
    BY <2>2, <2>3, <2>4, NothingDrawn
<1> QED
  BY <1>2, <1>3, <1>4, <1>5

\* A step of the last render leaves it the last; the others end without a trace.
LEMMA RenderSteps ==
  ASSUME SidebarTypes, NEW n \in DOMAIN renders, NEW x \in RenderTypes, RenderBecomes(n, x)
  PROVE  /\ renders' \in Seq(RenderTypes) /\ renders # <<>> /\ renders' # <<>>
         /\ n = Len(renders) => LastRender' = x
         /\ n # Len(renders) => LastRender' = LastRender
<1>1. renders \in Seq(RenderTypes) /\ DOMAIN renders = 1 .. Len(renders) /\ Len(renders) \in Nat
  BY DEF SidebarTypes
<1>2. /\ renders' \in Seq(RenderTypes) /\ Len(renders') = Len(renders) /\ renders'[n] = x
      /\ \A i \in DOMAIN renders : i # n => renders'[i] = renders[i]
  BY <1>1 DEF RenderBecomes
<1>3. Len(renders) # 0 /\ renders # <<>> /\ renders' # <<>>
  BY <1>1, <1>2
<1> QED
  BY <1>1, <1>2, <1>3 DEF LastRender

LEMMA StopKeeps ==
  ASSUME SidebarAssumption, SidebarInv, NEW n \in DOMAIN renders, RenderStops(n)
  PROVE  SidebarInv'
<1> SidebarTypes
  BY DEF SidebarInv
<1>1. /\ UNCHANGED <<joined, fetchedVars, markVars, notesShown, sidebar, listKey, refreshes, signals,
                     mishaps>>
      /\ RenderBecomes(n, NoRender) /\ n # Len(renders)
  BY DEF RenderStops, IsCurrentRender
<1>2. /\ renders' \in Seq(RenderTypes) /\ renders # <<>> /\ renders' # <<>>
      /\ LastRender' = LastRender
  BY <1>1, SidebarEmpty, RenderSteps
<1>3. SidebarTypes'
  BY <1>1, <1>2 DEF SidebarTypes, fetchedVars, markVars
<1>4. (RenderOwed' <=> RenderOwed) /\ (listKey[2] = sidebar)'
  BY <1>1 DEF RenderOwed, SidebarInv
<1>5. RenderFollows => RenderFollows'
  BY <1>1, <1>2 DEF fetchedVars, markVars, RenderFollows, RenderUp, RowsRead, RowsMarked, RowsLit,
     Titled, Called, RowsIn
<1> QED
  BY <1>3, <1>4, <1>5 DEF SidebarInv

\* What the last render becomes, when it does not end.
LEMMA RenderKeeps ==
  ASSUME SidebarAssumption, SidebarInv, NEW n \in DOMAIN renders, n = Len(renders),
         NEW x \in RenderTypes, RenderBecomes(n, x), notesShown' \in BOOLEAN,
         UNCHANGED <<joined, fetchedVars, markVars, sidebar, listKey, refreshes, signals, mishaps>>,
         RenderFollows =>
           /\ x.at \in {"displays", "details"} /\ RowsRead(x.rows)'
           /\ x.at = "displays" => x.read = {} /\ x.rows.online = {}
           /\ x.at = "details" => RowsMarked(x.rows)' /\ RowsLit(x.rows, x.read)'
  PROVE  SidebarInv'
<1> SidebarTypes
  BY DEF SidebarInv
<1>1. /\ renders' \in Seq(RenderTypes) /\ renders' # <<>> /\ LastRender' = x
  BY RenderSteps
<1>2. SidebarTypes'
  BY <1>1 DEF SidebarTypes, fetchedVars, markVars
<1>3. (RenderOwed' <=> RenderOwed) /\ (listKey[2] = sidebar)'
  BY DEF RenderOwed, SidebarInv
<1>4. ASSUME RenderFollows PROVE RenderFollows'
  <2>1. (~RenderUp("notes"))' /\ (~RenderUp("ended"))' /\ (renders # <<>>)'
    BY <1>1, <1>4 DEF RenderUp
  <2>2. /\ RowsRead(LastRender.rows)'
        /\ RenderUp("displays")' => LastRender'.read = {} /\ LastRender'.rows.online = {}
    BY <1>1, <1>4 DEF RowsRead, RenderUp
  <2>3. RenderUp("details")' =>
          RowsMarked(LastRender.rows)' /\ RowsLit(LastRender.rows, LastRender.read)'
    BY <1>1, <1>4 DEF RenderUp, RowsMarked, RowsLit
  <2> QED
    BY <2>1, <2>2, <2>3 DEF RenderFollows
<1> QED
  BY <1>2, <1>3, <1>4 DEF SidebarInv

LEMMA NotesKeep ==
  ASSUME SidebarAssumption, SidebarInv, NEW n \in DOMAIN renders, NotesDrawn(n)
  PROVE  SidebarInv'
<1> SidebarTypes /\ Notes \in Talks
  BY SidebarAssumption DEF SidebarInv, SidebarAssumption
<1> DEFINE y == [NoRows EXCEPT !.requests = contacts,
                               !.list = [conversations EXCEPT ![Notes] = "none"]]
           x == [renders[n] EXCEPT !.at = "displays", !.rows = y]
<1>1. /\ renders[n] \in RenderTypes /\ renders[n].at = "notes" /\ n = Len(renders)
      /\ RenderBecomes(n, x) /\ notesShown' = (notesShown \/ renders[n].personal)
      /\ UNCHANGED <<joined, fetchedVars, markVars, sidebar, listKey, refreshes, signals, mishaps>>
  BY DEF NotesDrawn, RenderGoesOn, IsCurrentRender, SidebarTypes
<1>2. y \in RowTypes /\ y.requests = contacts /\ y.list = [conversations EXCEPT ![Notes] = "none"]
      /\ y.online = {}
  <2>1. NoRows \in RowTypes /\ [conversations EXCEPT ![Notes] = "none"] \in ListTypes
    BY SidebarEmpty DEF SidebarTypes, ListTypes
  <2>2. contacts \in SUBSET Talks
    BY DEF SidebarTypes
  <2>3. NoRows.online = {}
    BY DEF NoRows
  <2> QED
    BY <2>1, <2>2, <2>3 DEF RowTypes
<1> HIDE DEF y
<1>3. x \in RenderTypes /\ x.at = "displays" /\ x.rows = y /\ x.read = renders[n].read
  BY <1>1, <1>2 DEF RenderTypes
<1> HIDE DEF x
<1>x. PICK z : z = x
  OBVIOUS
<1>4. notesShown' \in BOOLEAN
  BY <1>1 DEF SidebarTypes, RenderTypes
<1>5. ASSUME RenderFollows PROVE RowsRead(z.rows)' /\ z.read = {} /\ z.rows.online = {}
  <2>1. renders # <<>>
    BY DEF SidebarTypes
  <2>2. /\ renders[n].personal = (conversations[Notes] # "none") /\ renders[n].read = {}
        /\ notesShown => renders[n].personal
    BY <1>1, <1>5, <2>1 DEF RenderFollows, RenderUp, LastRender
  <2>3. notesShown' = (conversations[Notes] # "none")
    BY <1>1, <2>2 DEF SidebarTypes, RenderTypes
  <2>4. UNCHANGED <<conversations, contacts>>
    BY <1>1 DEF fetchedVars
  <2> QED
    BY <1>2, <1>3, <1>x, <2>2, <2>3, <2>4 DEF RowsRead
<1> QED
  BY <1>1, <1>3, <1>x, <1>4, <1>5, RenderKeeps

LEMMA DisplaysKeep ==
  ASSUME SidebarAssumption, SidebarInv, NEW n \in DOMAIN renders, DisplaysResolved(n)
  PROVE  SidebarInv'
<1> SidebarTypes
  BY DEF SidebarInv
<1> DEFINE content == renders[n].rows
<1>1. /\ renders[n] \in RenderTypes /\ renders[n].at = "displays" /\ n = Len(renders)
      /\ UNCHANGED <<joined, fetchedVars, markVars, sidebar, listKey, notesShown, refreshes, signals,
                     mishaps>>
  BY DEF DisplaysResolved, RenderGoesOn, IsCurrentRender, SidebarTypes
<1>e. \E faces \in Faces(content.list) : \E seen \in TypingSeen(content.list, faces) :
           RenderBecomes(n, [renders[n] EXCEPT !.at = "details",
                             !.rows = [content EXCEPT !.faces = faces, !.typed = seen,
                                                      !.called = Called(content.list)]])
  BY Zenon DEF DisplaysResolved
<1>f. PICK faces \in Faces(content.list) : \E seen \in TypingSeen(content.list, faces) :
           RenderBecomes(n, [renders[n] EXCEPT !.at = "details",
                             !.rows = [content EXCEPT !.faces = faces, !.typed = seen,
                                                      !.called = Called(content.list)]])
  BY <1>e
<1>2. PICK seen \in TypingSeen(content.list, faces) :
           RenderBecomes(n, [renders[n] EXCEPT !.at = "details",
                             !.rows = [content EXCEPT !.faces = faces, !.typed = seen,
                                                      !.called = Called(content.list)]])
  BY <1>f
<1>3. content \in RowTypes /\ Called(content.list) \in SUBSET Talks
  BY <1>1 DEF RenderTypes, Called, RowsIn
<1>4. PICK y : y = [content EXCEPT !.faces = faces, !.typed = seen, !.called = Called(content.list)]
  OBVIOUS
<1>5. /\ faces \in FaceTypes /\ seen \in SUBSET Talks /\ seen \subseteq typing
      /\ Titled(faces) \subseteq RowsIn(content.list) /\ typing \cap Titled(faces) \subseteq seen
  BY DEF Faces, TypingSeen, FaceTypes, Titled, RowsIn, SidebarTypes
<1>6. /\ y \in RowTypes /\ y.faces = faces /\ y.typed = seen /\ y.called = Called(content.list)
      /\ y.list = content.list /\ y.requests = content.requests
      /\ y.online = content.online
  BY <1>3, <1>4, <1>5 DEF RowTypes
<1>7. PICK x : x = [renders[n] EXCEPT !.at = "details", !.rows = y]
  OBVIOUS
<1>8. x \in RenderTypes /\ x.at = "details" /\ x.rows = y /\ RenderBecomes(n, x)
  BY <1>1, <1>2, <1>4, <1>6, <1>7 DEF RenderTypes
<1>9. x.read = renders[n].read
  BY <1>1, <1>7 DEF RenderTypes
<1>10. ASSUME RenderFollows
       PROVE  RowsRead(x.rows)' /\ RowsMarked(x.rows)' /\ RowsLit(x.rows, x.read)'
  <2>1. renders # <<>>
    BY DEF SidebarTypes
  <2>2. RowsRead(content) /\ renders[n].read = {} /\ content.online = {}
    BY <1>1, <1>10, <2>1 DEF RenderFollows, RenderUp, LastRender
  <2>3. RowsRead(x.rows)'
    BY <1>1, <1>6, <1>8, <2>2 DEF RowsRead, fetchedVars
  <2>4. UNCHANGED <<typing, calling>>
    BY <1>1 DEF markVars
  <2>6. RowsMarked(x.rows)'
    BY <1>5, <1>6, <1>8, <2>4 DEF RowsMarked, Titled, Called, RowsIn
  <2>7. RowsLit(x.rows, x.read)'
    BY <1>6, <1>8, <1>9, <2>2 DEF RowsLit
  <2> QED
    BY <2>3, <2>6, <2>7
<1> QED
  BY <1>1, <1>8, <1>10, RenderKeeps DEF SidebarTypes

LEMMA OnlineKeeps ==
  ASSUME SidebarAssumption, SidebarInv, NEW n \in DOMAIN renders, NEW e \in Talks, OnlineRead(n, e)
  PROVE  SidebarInv'
<1> SidebarTypes
  BY DEF SidebarInv
<1> DEFINE content == renders[n].rows
<1>1. /\ renders[n] \in RenderTypes /\ renders[n].at = "details" /\ n = Len(renders)
      /\ UNCHANGED <<joined, fetchedVars, markVars, sidebar, listKey, notesShown, refreshes, signals,
                     mishaps>>
  BY DEF OnlineRead, RenderGoesOn, IsCurrentRender, SidebarTypes
<1>2. \E there \in {e \in online} \cup (IF content.faces[e] = "title" THEN {} ELSE {FALSE}) :
       RenderBecomes(n, [renders[n] EXCEPT !.read = @ \cup {e},
                     !.rows.online = IF there THEN @ \cup {e} ELSE @])
  BY Zenon DEF OnlineRead
<1>3. PICK there \in BOOLEAN :
       /\ content.faces[e] = "title" => there = (e \in online)
       /\ RenderBecomes(n, [renders[n] EXCEPT !.read = @ \cup {e},
                     !.rows.online = IF there THEN @ \cup {e} ELSE @])
  BY <1>2
<1>4. content \in RowTypes
  BY <1>1 DEF RenderTypes
<1>5. PICK o : o = IF there THEN content.online \cup {e} ELSE content.online
  OBVIOUS
<1>6. /\ o \in SUBSET Talks /\ o \ {e} = content.online \ {e}
      /\ e \in o <=> there \/ e \in content.online
  BY <1>4, <1>5 DEF RowTypes
<1>7. PICK y : y = [content EXCEPT !.online = o]
  OBVIOUS
<1>8. /\ y \in RowTypes /\ y.faces = content.faces /\ y.typed = content.typed
      /\ y.called = content.called /\ y.list = content.list /\ y.requests = content.requests
      /\ y.online = o
  BY <1>4, <1>6, <1>7 DEF RowTypes
<1>9. PICK x : x = [renders[n] EXCEPT !.read = renders[n].read \cup {e}, !.rows = y]
  OBVIOUS
<1>10. x \in RenderTypes /\ x.at = "details" /\ x.rows = y /\ x.read = renders[n].read \cup {e}
  BY <1>1, <1>8, <1>9 DEF RenderTypes
<1>11. RenderBecomes(n, x)
  BY <1>1, <1>3, <1>5, <1>7, <1>9 DEF RenderBecomes, RenderTypes
<1>12. ASSUME RenderFollows
       PROVE  RowsRead(x.rows)' /\ RowsMarked(x.rows)' /\ RowsLit(x.rows, x.read)'
  <2>1. renders # <<>>
    BY DEF SidebarTypes
  <2>2. RowsRead(content) /\ RowsMarked(content) /\ RowsLit(content, renders[n].read)
    BY <1>1, <1>12, <2>1 DEF RenderFollows, RenderUp, LastRender
  <2>3. RowsRead(x.rows)'
    BY <1>1, <1>8, <1>10, <2>2 DEF RowsRead, fetchedVars
  <2>4. UNCHANGED <<typing, online, calling>>
    BY <1>1 DEF markVars
  <2>5. RowsMarked(x.rows)'
    BY <1>8, <1>10, <2>2, <2>4 DEF RowsMarked, Titled, Called, RowsIn
  <2>6. RowsLit(x.rows, x.read)'
    <3>1. ASSUME NEW f \in Titled(x.rows.faces) \cap x.read
          PROVE  f \in x.rows.online <=> f \in online
      <4>1. f \in Titled(content.faces) /\ content.faces[f] = "title"
        BY <1>8, <1>10, <3>1 DEF Titled
      <4>2. CASE f \in renders[n].read /\ f # e
        BY <1>6, <1>8, <1>10, <2>2, <4>1, <4>2 DEF RowsLit
      <4>3. CASE f = e
        <5>1. there = (e \in online)
          BY <1>3, <4>1, <4>3
        <5>2. e \notin renders[n].read
          BY DEF OnlineRead
        <5>3. e \notin content.online
          BY <2>2, <5>2 DEF RowsLit
        <5> QED
          BY <1>6, <1>8, <1>10, <4>3, <5>1, <5>3
      <4> QED
        BY <1>10, <3>1, <4>2, <4>3
    <3>2. x.rows.online \subseteq x.read
      BY <1>6, <1>8, <1>10, <2>2 DEF RowsLit
    <3> QED
      BY <2>4, <3>1, <3>2 DEF RowsLit, Titled
  <2> QED
    BY <2>3, <2>5, <2>6
<1> QED
  BY <1>1, <1>10, <1>11, <1>12, RenderKeeps DEF SidebarTypes

\* What is drawn is what was read: the same rows under the same key are there already.
LEMMA ListKeeps ==
  ASSUME SidebarAssumption, SidebarInv, NEW n \in DOMAIN renders, ListDrawn(n)
  PROVE  SidebarInv'
<1> SidebarTypes /\ listKey[2] = sidebar
  BY DEF SidebarInv
<1>1. /\ renders[n] \in RenderTypes /\ renders[n].at = "details" /\ n = Len(renders)
      /\ renders[n].read = RowsIn(renders[n].rows.list) /\ RenderBecomes(n, NoRender)
      /\ UNCHANGED <<joined, fetchedVars, markVars, notesShown, refreshes, signals, mishaps>>
  BY DEF ListDrawn, RenderGoesOn, IsCurrentRender, SidebarTypes
<1>2. sidebar' = renders[n].rows /\ (listKey[2] = sidebar)'
  BY DEF ListDrawn, KeyOf
<1>3. renders' \in Seq(RenderTypes) /\ renders' # <<>> /\ LastRender' = NoRender
  BY <1>1, SidebarEmpty, RenderSteps
<1>4. SidebarTypes'
  BY <1>1, <1>2, <1>3 DEF SidebarTypes, fetchedVars, markVars, RenderTypes
<1>5. RenderOwed' <=> RenderOwed
  BY <1>1 DEF RenderOwed
<1>6. ASSUME RenderFollows PROVE RenderFollows'
  <2>1. renders # <<>>
    BY DEF SidebarTypes
  <2>2. /\ RowsRead(renders[n].rows) /\ RowsMarked(renders[n].rows)
        /\ RowsLit(renders[n].rows, renders[n].read)
    BY <1>1, <1>6, <2>1 DEF RenderFollows, RenderUp, LastRender
  <2>3. UNCHANGED <<conversations, contacts, typing, online, calling, notesShown>>
    BY <1>1 DEF fetchedVars, markVars
  <2>4. RowsRead(sidebar)'
    BY <1>2, <2>2, <2>3 DEF RowsRead
  <2>5. RowsMarked(sidebar)'
    BY <1>2, <2>2, <2>3 DEF RowsMarked, Titled, Called, RowsIn
  <2>6. RowsLit(sidebar, Talks)'
    <3>1. Titled(renders[n].rows.faces) \subseteq renders[n].read
      BY <1>1, <2>2 DEF RowsMarked
    <3>2. renders[n].read \subseteq Talks
      BY <1>1 DEF RenderTypes
    <3> QED
      BY <1>2, <2>2, <2>3, <3>1, <3>2 DEF RowsLit, Titled
  <2>7. /\ (RenderUp("ended"))'
        /\ ~(RenderUp("notes"))' /\ ~(RenderUp("displays"))' /\ ~(RenderUp("details"))'
    BY <1>3 DEF RenderUp, NoRender
  <2> QED
    BY <2>4, <2>5, <2>6, <2>7 DEF RenderFollows
<1> QED
  BY <1>2, <1>4, <1>5, <1>6 DEF SidebarInv

LEMMA SidebarNextInv ==
  ASSUME SidebarAssumption, SidebarInv, [SidebarNext]_sidebarVars PROVE SidebarInv'
<1>1. CASE UNCHANGED sidebarVars
  BY <1>1 DEF SidebarInv, sidebarVars, SidebarTypes, RenderOwed, RenderFollows, RenderUp, LastRender,
     RowsRead, RowsMarked, RowsLit, Titled, Called, RowsIn
<1>2. CASE SidebarNext
  <2>1. ASSUME NEW n \in DOMAIN renders,
               \/ RenderStops(n) \/ NotesDrawn(n) \/ DisplaysResolved(n) \/ ListDrawn(n)
               \/ \E e \in Talks : OnlineRead(n, e)
        PROVE  SidebarInv'
    BY <2>1, StopKeeps, NotesKeep, DisplaysKeep, ListKeeps, OnlineKeeps
  <2>2. ASSUME NEW kind \in {"all", "list"}, Refreshed(kind) PROVE SidebarInv'
    BY <2>2, AsksKeep
  <2>3. ASSUME NEW k \in DOMAIN refreshes,
               \/ CachedListRead(k) \/ AnswerContacts(k) \/ AnswerConversations(k)
               \/ CreateNotes(k) \/ ListsArrive(k) \/ DrawnAfter(k) \/ RefreshFails(k) \/ Posted(k)
        PROVE  SidebarInv'
    BY <2>3, GoesOnKeeps, ListsKeep
  <2>4. ASSUME NEW e \in Talks \ {Notes},
               \/ ConversationUpdated(e) \/ NewMessage(e)
               \/ AcceptGroupInvitation(e) \/ RefuseGroupInvitation(e)
               \/ AcceptContact(e) \/ DeleteContactRequest(e)
        PROVE  SidebarInv'
    BY <2>4, AsksKeep DEF AcceptGroupInvitation, RefuseGroupInvitation, AcceptContact,
       DeleteContactRequest
  <2>5. ASSUME NEW e \in Talks \ {Notes}, NEW writes \in BOOLEAN,
               ServerChanges(e) \/ CallChanges(e) \/ SetTyping(e, writes)
        PROVE  SidebarInv'
    BY <2>5, SignalsKeep
  <2>6. ASSUME NEW there \in SUBSET (Talks \ {Notes}), PresenceChanges(there) PROVE SidebarInv'
    BY <2>6, SignalsKeep, SidebarAssumption DEF SidebarAssumption
  <2> QED
    BY <1>2, <2>1, <2>2, <2>3, <2>4, <2>5, <2>6 DEF SidebarNext
<1> QED
  BY <1>1, <1>2

\* The types of the list, and what it shows once it is settled.
LEMMA SidebarInvShows ==
  ASSUME SidebarAssumption, SidebarInv PROVE SidebarTypeOK /\ SidebarIsCurrent
<1>1. SidebarTypeOK
  BY DEF SidebarInv, SidebarTypes, SidebarTypeOK, ListTypes, RowTypes, FaceTypes
<1>2. ASSUME Settled PROVE SidebarIsCurrent
  <2>1. ~RenderOwed
    BY <1>2 DEF Settled, RenderOwed
  <2>2. renders = <<>> \/ RenderUp("ended")
    <3>1. CASE renders # <<>>
      <4>1. Len(renders) \in DOMAIN renders
        BY <3>1 DEF SidebarInv, SidebarTypes
      <4> QED
        BY <3>1, <4>1, <1>2 DEF Settled, RenderUp, LastRender
    <3> QED
      BY <3>1
  <2>3. RowsRead(sidebar) /\ RowsMarked(sidebar) /\ RowsLit(sidebar, Talks)
    BY <2>1, <2>2 DEF SidebarInv, RenderFollows
  <2>4. \A e \in Talks \ {Notes} : sidebar.list[e] = conversations[e]
    BY <2>3 DEF RowsRead, SidebarInv, SidebarTypes, ListTypes
  <2>5. ASSUME NEW e \in Titled(sidebar.faces)
        PROVE  /\ e \in sidebar.online <=> e \in online
               /\ Subtitle(e) = IF e \in typing THEN "typing"
                                ELSE IF calling = e THEN "call" ELSE "preview"
    <3>1. e \in Talks /\ sidebar.faces[e] = "title"
      BY DEF Titled
    <3>2. e \in RowsIn(sidebar.list) /\ (e \in sidebar.typed <=> e \in typing)
      BY <2>3 DEF RowsMarked
    <3>3. e \in sidebar.called <=> calling = e
      BY <2>3, <3>2 DEF RowsMarked, Called
    <3>4. e \in sidebar.online <=> e \in online
      BY <2>3, <3>1 DEF RowsLit
    <3> QED
      BY <3>1, <3>2, <3>3, <3>4 DEF Subtitle
  <2> QED
    BY <2>3, <2>4, <2>5 DEF SidebarIsCurrent, RowsRead, RequestRows
<1> QED
  BY <1>1, <1>2 DEF SidebarIsCurrent

\* However the renders of the list overlap, the last one leaves on screen what the page holds:
\* the requests, the conversations, who writes, who is there, and the call (renderConversations).
THEOREM SidebarDrawn == ASSUME SidebarAssumption PROVE SidebarSpec => []SidebarIsCurrent
<1>1. SidebarInit => SidebarInv
  BY SidebarInitInv
<1>2. SidebarInv /\ [SidebarNext]_sidebarVars => SidebarInv'
  BY SidebarNextInv
<1>3. SidebarInv => SidebarIsCurrent
  BY SidebarInvShows
<1> QED
  BY <1>1, <1>2, <1>3, PTL DEF SidebarSpec
=============================================================================
