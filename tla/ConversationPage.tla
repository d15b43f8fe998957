---------------------------- MODULE ConversationPage ----------------------------
(***************************************************************************)
(* The displayed conversation of one page (app.js): it is selected, its     *)
(* members are verified, its messages are loaded from a preloaded copy, the *)
(* local cache and the server, and the socket adds and removes rows. Every  *)
(* "await" ends a step; the rest of the handler is a task, and tasks resume *)
(* in any order. The versions the code compares after an await are flags of *)
(* a task here, cleared when the version moves on. The transactions of the  *)
(* local cache are left out: each of its calls is one step.                 *)
(***************************************************************************)
EXTENDS Naturals, Sequences, FiniteSets

CONSTANTS
  Rooms,
  Suspended,      \* the groups whose key waits for a renewal (rotation_required)
  Owned,          \* the groups this user created
  Lively,         \* the rooms with messages, among the candidates of the preloading
  Nowhere,
  MaxPosts,       \* bound: messages ever posted
  MaxSelections,  \* bound: clicks in the list
  MaxFailures,    \* bound: requests that fail
  MaxWork         \* bound: handlers that wait at a time

PageAssumption ==
  /\ Suspended \cup Owned \cup Lively \subseteq Rooms /\ Nowhere \notin Rooms
  /\ {MaxPosts, MaxSelections, MaxFailures, MaxWork} \subseteq Nat

VARIABLES
  posted,      \* the room of each message; a message is its number
  stored,      \* the messages the server holds
  socket,      \* the events on their way to the page
  known,       \* what the page was told: the messages that came, and that went
  current,     \* state.current
  enabled,     \* the composer
  verified,    \* state.verifiedConversationMembers
  trusted,     \* the rooms whose members passed trustMembers
  shown,       \* the list: its dataset.conversationId and its rows
  veiled,      \* message-previews-pending: the list is invisible
  prepared,    \* state.preloadedMessages
  preloads,    \* state.conversationPreloads
  cached,      \* the messages of the local cache
  work,        \* the tasks
  selections, failures

serverVars == <<posted, stored, socket>>
listVars == <<shown, veiled>>
conversationVars == <<serverVars, known, current, enabled, verified, trusted, listVars, prepared,
                      preloads, cached, work, selections, failures>>

Stored == DOMAIN posted
Of(r, messages) == {m \in messages : posted[m] = r}
Absent == [found |-> FALSE, rows |-> {}]
Found(rows) == [found |-> TRUE, rows |-> rows]

\* chosen: no selection was made since; lifts: no readiness was begun since;
\* useCache, wait, displayed, fallback: the arguments and locals of loadMessages.
Job(at, r) == [at |-> at, room |-> r, m |-> 0, chosen |-> TRUE, lifts |-> FALSE, useCache |-> FALSE,
               wait |-> FALSE, displayed |-> FALSE, fallback |-> Absent, rows |-> {}, loading |-> FALSE]

ConversationInit ==
  /\ posted = <<>> /\ stored = {} /\ socket = <<>>
  /\ known = [came |-> {}, went |-> {}]
  /\ current = Nowhere
  /\ enabled = FALSE
  /\ verified = {} /\ trusted = {}
  /\ shown = [room |-> Nowhere, rows |-> {}]
  /\ veiled = FALSE
  /\ prepared = [r \in Rooms |-> Absent]
  /\ preloads = {} /\ cached = {} /\ work = {}
  /\ selections = 0 /\ failures = 0

-----------------------------------------------------------------------------
(* The server                                                              *)

Post(r) ==
  /\ Len(posted) < MaxPosts
  /\ posted' = Append(posted, r)
  /\ stored' = stored \cup {Len(posted) + 1}
  /\ socket' = Append(socket, [type |-> "new_message", m |-> Len(posted) + 1])
  /\ UNCHANGED <<known, current, enabled, verified, trusted, listVars, prepared, preloads, cached,
                 work, selections, failures>>

\* A message expires, or is deleted by a member.
Withdraw(m) ==
  /\ m \in stored
  /\ stored' = stored \ {m}
  /\ \E type \in {"message_deleted", "conversation_updated"} :
       socket' = Append(socket, [type |-> type, m |-> m])
  /\ UNCHANGED <<posted, known, current, enabled, verified, trusted, listVars, prepared, preloads,
                 cached, work, selections, failures>>

Fails == failures < MaxFailures /\ failures' = failures + 1

-----------------------------------------------------------------------------
(* loadMessages                                                            *)

\* beginMessagePreviewReadiness and clearMessagePreviewReadiness move the version.
Superseded(jobs) == {[j EXCEPT !.lifts = FALSE] : j \in jobs}

Display(r, rows) == shown' = [room |-> r, rows |-> rows]

\* With nothing displayed from a copy, a preload under way is joined.
Network(j) ==
  [j EXCEPT !.at = IF j.useCache /\ \E p \in preloads : p.room = j.room THEN "join" ELSE "fetch"]

\* loadMessages up to its first await: what becomes of the list and what remains
\* to be done. A preloaded copy is decrypted, so it is rendered at once; a copy that
\* grew old counts for nothing.
Begun(r, useCache, wait, list) ==
  LET load == [Job("cache", r) EXCEPT !.useCache = useCache, !.wait = wait]
      copy == prepared[r]
      painted == [load EXCEPT !.at = "paint", !.displayed = TRUE, !.fallback = copy, !.lifts = wait]
  IN
  IF ~useCache THEN {[list |-> list, job |-> Network(load)]}
  ELSE {[list |-> list, job |-> load]} \cup
       IF ~copy.found THEN {}
       ELSE {[list |-> [room |-> r, rows |-> copy.rows], job |-> [painted EXCEPT !.useCache = fresh]] :
               fresh \in {f \in BOOLEAN : wait => f}}
            \cup (IF wait THEN {[list |-> list, job |-> Network([load EXCEPT !.fallback = copy])]} ELSE {})

\* The list is begun anew by the load that waits for its previews.
Begin(r, useCache, wait, list, rest) ==
  \E b \in Begun(r, useCache, wait, list) :
    /\ shown' = b.list
    /\ work' = (IF b.job.lifts THEN Superseded(rest) ELSE rest) \cup {b.job}

Leave(j) == work' = work \ {j}
Become(j, next) == work' = (work \ {j}) \cup {next}

pageOnly == <<serverVars, known, current, enabled, verified, trusted, prepared, preloads, selections>>

\* renderMessages, from its first line to the decryption of the messages.
Render(j, rows, displayed) ==
  /\ veiled' = (veiled \/ j.wait)
  /\ work' = (IF j.wait THEN Superseded(work \ {j}) ELSE work \ {j})
             \cup {[j EXCEPT !.at = "decrypt", !.rows = rows, !.displayed = displayed, !.lifts = j.wait]}

CacheRead(j) ==
  /\ j.at = "cache"
  /\ LET rows == Of(j.room, cached)
         known1 == [j EXCEPT !.fallback = Found(rows)]
     IN
     IF rows = {} \/ current # j.room THEN Become(j, Network(j))
     ELSE IF j.wait THEN Become(j, Network(known1))
     ELSE Become(j, [known1 EXCEPT !.at = "decrypt", !.rows = rows, !.displayed = TRUE])
  /\ UNCHANGED <<pageOnly, listVars, cached, failures>>

\* The preload that was joined has settled with its rows.
Joined(j) ==
  /\ j.at = "joined"
  /\ \/ current # j.room /\ Leave(j) /\ UNCHANGED listVars
     \/ /\ current = j.room
        /\ Display(j.room, j.rows)
        /\ veiled' = (veiled \/ j.wait)
        /\ work' = (IF j.wait THEN Superseded(work \ {j}) ELSE work \ {j})
                   \cup {[j EXCEPT !.at = "paint", !.lifts = j.wait, !.rows = {}]}
  /\ UNCHANGED <<pageOnly, cached, failures>>

Answer(j) ==
  /\ j.at = "fetch"
  /\ Become(j, [j EXCEPT !.at = "answer", !.rows = Of(j.room, stored)])
  /\ UNCHANGED <<pageOnly, listVars, cached, failures>>

\* What is displayed already is not rendered again.
AlreadyShown(j) == j.displayed /\ j.fallback.rows = j.rows
Arrive(j) ==
  /\ j.at = "answer"
  /\ \/ /\ current # j.room
        /\ Leave(j)
        /\ UNCHANGED <<listVars, cached>>
     \/ /\ current = j.room
        /\ cached' = (cached \ Of(j.room, cached)) \cup j.rows
        /\ \/ AlreadyShown(j) /\ Leave(j) /\ UNCHANGED veiled
           \/ ~AlreadyShown(j) /\ Render(j, j.rows, FALSE)
        /\ UNCHANGED shown
  /\ UNCHANGED <<pageOnly, failures>>

\* The messages are decrypted: the list is replaced, unless another conversation
\* is displayed by now.
AnyConversation(j) == TRUE   \* mutant: the conversation is not compared after the decryption
StillCurrent(j) == current = j.room
Commit(j) ==
  /\ j.at = "decrypt"
  /\ \/ ~StillCurrent(j) /\ Leave(j) /\ UNCHANGED shown
     \/ /\ StillCurrent(j)
        /\ Display(j.room, j.rows)
        /\ IF j.displayed THEN Become(j, Network(j))
           ELSE IF j.wait THEN Become(j, [j EXCEPT !.at = "paint", !.useCache = TRUE, !.rows = {}])
           ELSE Leave(j)
  /\ UNCHANGED <<pageOnly, veiled, cached, failures>>

\* finishMessagePreviewReadiness; a copy that was not fresh is followed by a request.
Paint(j) ==
  /\ j.at = "paint"
  /\ veiled' = (veiled /\ ~(j.lifts /\ current = j.room))
  /\ IF j.useCache THEN Leave(j) ELSE Become(j, Network([j EXCEPT !.lifts = FALSE, !.useCache = TRUE]))
  /\ UNCHANGED <<pageOnly, shown, cached, failures>>

RequestFails(j) ==
  /\ j.at = "fetch"
  /\ Fails
  /\ \/ /\ current = j.room /\ ~j.displayed
        /\ \/ j.wait /\ j.fallback.found /\ Render(j, j.fallback.rows, FALSE)
           \/ /\ ~(j.wait /\ j.fallback.found)
              /\ veiled' = FALSE
              /\ work' = Superseded(work \ {j})
     \/ /\ current # j.room \/ j.displayed
        /\ Leave(j)
        /\ UNCHANGED veiled
  /\ UNCHANGED <<pageOnly, shown, cached>>

-----------------------------------------------------------------------------
(* selectConversation and closeCurrentConversation                         *)

Unchosen(jobs) == {[j EXCEPT !.chosen = @ /\ j.at \notin {"members", "repair"}] : j \in jobs}

\* The members are asked for; a room verified before is loaded at once. The list
\* of the conversation that was left stays in sight as a picture.
Select(r) ==
  LET changed == r # current
      empty == IF changed THEN [shown EXCEPT !.rows = {}] ELSE shown
      older == IF changed THEN Superseded(Unchosen(work)) ELSE Unchosen(work)
      asked == [Job("members", r) EXCEPT !.wait = changed, !.loading = r \in verified]
      displayed == ~changed /\ shown.room = r /\ shown.rows # {}
  IN
  /\ selections < MaxSelections /\ Cardinality(work) < MaxWork
  /\ selections' = selections + 1
  /\ current' = r
  /\ enabled' = (r \in verified /\ r \notin Suspended)
  /\ veiled' = (veiled \/ changed)
  /\ IF r \in verified /\ ~displayed
       THEN Begin(r, TRUE, changed, empty, older \cup {asked})
       ELSE shown' = empty /\ work' = older \cup {asked}
  /\ UNCHANGED <<serverVars, known, verified, trusted, prepared, preloads, cached, failures>>

\* Nothing of the conversation remains on the page.
Close(jobs) ==
  /\ current' = Nowhere
  /\ enabled' = FALSE
  /\ veiled' = FALSE
  /\ shown' = [shown EXCEPT !.rows = {}]
  /\ work' = Superseded(Unchosen(jobs))

\* The user deletes the conversation, leaves it, or is removed from it.
UserCloses ==
  /\ current # Nowhere
  /\ Close(work)
  /\ UNCHANGED <<serverVars, known, verified, trusted, prepared, preloads, cached, selections, failures>>

\* The composer is released, and the messages are loaded if they are not yet.
Released(j, rest) ==
  LET displayed == ~j.wait /\ shown.room = j.room /\ shown.rows # {} IN
  /\ enabled' = (j.room \notin Suspended \ Owned)
  /\ UNCHANGED <<current, veiled>>
  /\ IF j.loading \/ displayed THEN work' = rest /\ UNCHANGED shown
     ELSE Begin(j.room, TRUE, j.wait, shown, rest)

LastSelection(j) == j.chosen

\* Without an answer the members known before are checked again, unverified.
MembersAnswer(j) ==
  /\ j.at = "members"
  /\ trusted' = trusted \cup {j.room}
  /\ \/ verified' = verified \cup {j.room} /\ UNCHANGED failures
     \/ Fails /\ UNCHANGED verified
  /\ \/ /\ ~LastSelection(j)
        /\ Leave(j)
        /\ UNCHANGED <<current, enabled, listVars>>
     \/ /\ LastSelection(j)
        /\ IF j.room \in Suspended \cap Owned
             THEN /\ Become(j, [j EXCEPT !.at = "repair"])
                  /\ UNCHANGED <<current, enabled, listVars>>
             ELSE Released(j, work \ {j})
  /\ UNCHANGED <<serverVars, known, prepared, preloads, cached, selections>>

\* repairRequiredGroupRotation has renewed the key, or failed.
Repaired(j) ==
  /\ j.at = "repair"
  /\ IF LastSelection(j) THEN Released(j, work \ {j})
     ELSE Leave(j) /\ UNCHANGED <<current, enabled, listVars>>
  /\ UNCHANGED <<serverVars, known, verified, trusted, prepared, preloads, cached, selections, failures>>

\* The members cannot be verified: a conversation is closed by its own selection only.
VerificationFails(j) ==
  /\ j.at \in {"members", "repair"}
  /\ Fails
  /\ IF LastSelection(j) /\ current = j.room THEN Close(work \ {j})
     ELSE Leave(j) /\ UNCHANGED <<current, enabled, listVars>>
  /\ UNCHANGED <<serverVars, known, verified, trusted, prepared, preloads, cached, selections>>

-----------------------------------------------------------------------------
(* Preloading in the background                                            *)

Preload(r) ==
  /\ r # current /\ ~prepared[r].found /\ preloads = {}
  /\ preloads' = preloads \cup {[room |-> r, answered |-> FALSE, rows |-> {}, valid |-> TRUE]}
  /\ UNCHANGED <<serverVars, known, current, enabled, verified, trusted, listVars, prepared, cached,
                 work, selections, failures>>

PreloadAnswer(p) ==
  /\ ~p.answered
  /\ preloads' = (preloads \ {p}) \cup {[p EXCEPT !.answered = TRUE, !.rows = Of(p.room, stored)]}
  /\ cached' = cached \cup Of(p.room, stored)
  /\ UNCHANGED <<serverVars, known, current, enabled, verified, trusted, listVars, prepared,
                 work, selections, failures>>

\* The version of the conversation is compared once the messages are decrypted.
SameVersion(p) == p.valid
PreloadSettles(p) ==
  /\ preloads' = preloads \ {p}
  /\ \/ /\ p.answered /\ SameVersion(p)
        /\ prepared' = [prepared EXCEPT ![p.room] = Found(p.rows)]
        /\ work' = {IF j.at = "join" /\ j.room = p.room
                      THEN [j EXCEPT !.at = "joined", !.rows = p.rows] ELSE j : j \in work}
        /\ UNCHANGED failures
     \/ /\ \/ p.answered /\ ~SameVersion(p) /\ UNCHANGED failures
           \/ ~p.answered /\ Fails
        /\ work' = {IF j.at = "join" /\ j.room = p.room THEN [j EXCEPT !.at = "fetch"] ELSE j : j \in work}
        /\ UNCHANGED prepared
  /\ UNCHANGED <<serverVars, known, current, enabled, verified, trusted, listVars, cached, selections>>

\* invalidateConversationPreload
Invalidate(r) ==
  /\ prepared' = [prepared EXCEPT ![r] = Absent]
  /\ preloads' = {IF p.room = r THEN [p EXCEPT !.valid = FALSE] ELSE p : p \in preloads}

-----------------------------------------------------------------------------
(* handleSocketEvent                                                       *)

HearNew(m) ==
  /\ known' = [known EXCEPT !.came = @ \cup {m}]
  /\ Invalidate(posted[m])
  /\ cached' = cached \cup {m}
  /\ work' = work \cup {[Job("announced", posted[m]) EXCEPT !.m = m]}
  /\ UNCHANGED <<verified, shown>>

\* expireRenderedMessage
HearDeleted(m) ==
  /\ known' = [known EXCEPT !.went = @ \cup {m}]
  /\ Invalidate(posted[m])
  /\ cached' = cached \ {m}
  /\ shown' = IF current = posted[m] THEN [shown EXCEPT !.rows = @ \ {m}] ELSE shown
  /\ UNCHANGED <<verified, work>>

\* The conversations are asked for; then the one displayed is loaded again.
HearUpdated(m) ==
  /\ known' = [known EXCEPT !.went = @ \cup {m}]
  /\ Invalidate(posted[m])
  /\ verified' = verified \ {posted[m]}
  /\ work' = IF current = posted[m] THEN work \cup {Job("reload", current)} ELSE work
  /\ UNCHANGED <<cached, shown>>

HearEvent ==
  /\ socket # <<>> /\ Cardinality(work) < MaxWork
  /\ socket' = Tail(socket)
  /\ LET e == Head(socket) IN
     \/ e.type = "new_message" /\ HearNew(e.m)
     \/ e.type = "message_deleted" /\ HearDeleted(e.m)
     \/ e.type = "conversation_updated" /\ HearUpdated(e.m)
  /\ UNCHANGED <<posted, stored, current, enabled, trusted, veiled, selections, failures>>

\* loadMessages(null, false) loads what is displayed by then.
Reload(j) ==
  /\ j.at = "reload"
  /\ \/ current = Nowhere /\ Leave(j) /\ UNCHANGED shown
     \/ current # Nowhere /\ Begin(current, FALSE, FALSE, shown, work \ {j})
  /\ UNCHANGED <<pageOnly, veiled, cached, failures>>

\* The notification was shown: appendMessage, or refreshAll for another conversation,
\* which verifies the members of the list again, or none of them.
Announced(j) ==
  /\ j.at = "announced"
  /\ \/ /\ current = j.room
        /\ Invalidate(j.room)
        /\ cached' = cached \cup {j.m}
        /\ IF j.m \in shown.rows THEN Leave(j) ELSE Become(j, [j EXCEPT !.at = "row"])
        /\ UNCHANGED verified
     \/ /\ current # j.room
        /\ verified' \in {{}, Rooms}
        /\ Leave(j)
        /\ UNCHANGED <<prepared, preloads, cached>>
  /\ trusted' = trusted \cup verified'
  /\ UNCHANGED <<serverVars, known, current, enabled, listVars, selections, failures>>

\* The message is decrypted: its row is added once.
Row(j) ==
  /\ j.at = "row"
  /\ Leave(j)
  /\ shown' = IF StillCurrent(j) THEN [shown EXCEPT !.rows = @ \cup {j.m}] ELSE shown
  /\ UNCHANGED <<pageOnly, veiled, cached, failures>>

-----------------------------------------------------------------------------

Resumes(j) ==
  \/ CacheRead(j) \/ Joined(j) \/ Answer(j) \/ Arrive(j) \/ Commit(j) \/ Paint(j)
  \/ RequestFails(j) \/ MembersAnswer(j) \/ Repaired(j) \/ VerificationFails(j)
  \/ Reload(j) \/ Announced(j) \/ Row(j)

ConversationNext ==
  \/ \E r \in Lively : Post(r) \/ Preload(r)
  \/ \E r \in Rooms : Select(r)
  \/ \E m \in stored : Withdraw(m)
  \/ \E p \in preloads : PreloadAnswer(p) \/ PreloadSettles(p)
  \/ \E j \in work : Resumes(j)
  \/ UserCloses \/ HearEvent

ConversationSpec == ConversationInit /\ [][ConversationNext]_conversationVars

-----------------------------------------------------------------------------
(* Properties                                                              *)

ConversationTypeOK ==
  /\ current \in Rooms \cup {Nowhere}
  /\ shown.room \in Rooms \cup {Nowhere} /\ shown.rows \subseteq Stored
  /\ stored \cup cached \cup known.came \cup known.went \subseteq Stored
  /\ verified \subseteq trusted
  /\ \A j \in work : j.room \in Rooms /\ j.rows \subseteq Stored

\* A row in sight belongs to the conversation that is selected, whichever loads
\* and appends settle after another was chosen.
RowsAreOfTheSelection == \A m \in shown.rows : posted[m] = current

\* A copy that may be displayed without a request misses no message the page was
\* told of that still exists, and holds none it was told is gone.
CopiesAreCurrent ==
  \A r \in Rooms : prepared[r].found =>
    /\ Of(r, known.came \cap stored) \subseteq prepared[r].rows
    /\ prepared[r].rows \cap known.went = {}

\* What is typed can only be sent to members whose identities were checked, and
\* not to a group whose key waits for its owner.
ComposerIsVerified ==
  enabled => current \in trusted /\ current \notin Suspended \ Owned

AtRest == work = {} /\ socket = <<>>

\* The socket keeps the displayed list up to date: with nothing under way it has
\* every message that came, and none that went.
ListIsUpToDate ==
  AtRest /\ current # Nowhere /\ shown.room = current =>
    /\ Of(current, known.came \cap stored) \subseteq shown.rows
    /\ shown.rows \cap known.went = {}
=============================================================================
