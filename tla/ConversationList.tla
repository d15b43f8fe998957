--------------------------- MODULE ConversationList ---------------------------
(***************************************************************************)
(* The list of conversations of the page (app.js, renderConversations). A   *)
(* render is several steps, from one await to the next, and anything that   *)
(* changes what the list shows starts another one: only the last may draw.  *)
(* An entry stands for a conversation, or for the request that may become    *)
(* one. Texts, avatars, the search and the order of the rows are left out.  *)
(***************************************************************************)
EXTENDS Integers, Sequences, FiniteSets

CONSTANTS
  Talks,         \* the conversations there may be
  Notes,         \* the personal one
  Groups,        \* those that begin with an invitation, the others with a contact request
  Doubtful,      \* those whose members or key may fail to be verified
  CurrentTalk,   \* state.current
  NoTalk,        \* no conversation
  Cached,        \* the list the device kept of an earlier visit
  AtStart,       \* what the entries may be to the user when the page starts
  MaxEvents,     \* bound: requests of the page for its lists, clicks, and changes meanwhile
  MaxMishaps     \* bound: requests that fail

SidebarAssumption ==
  /\ IsFiniteSet(Talks) /\ Notes \in Talks /\ NoTalk \notin Talks
  /\ Groups \subseteq Talks \ {Notes} /\ Doubtful \subseteq Talks \ {Notes}
  /\ CurrentTalk \in Talks
  /\ Cached \in [Talks -> {"none", "invited", "member"}]
  /\ AtStart \subseteq [Talks -> {"none", "request", "invited", "member"}]
  /\ {MaxEvents, MaxMishaps} \subseteq Nat

VARIABLES
  joined,         \* the server: what each entry is to this user
  conversations,  \* state.conversations
  contacts,       \* state.contacts, those that are pending
  typing,         \* state.typing: where somebody else writes
  online,         \* state.onlineUsers: where somebody else is present
  calling,        \* state.call
  renders,        \* every render: conversationRenderVersion is their number
  notesShown,     \* whether the button of the personal conversation is visible
  sidebar,        \* the rows on screen
  listKey,        \* conversationListRenderKey
  refreshes,      \* what the page waits for: see NewRefresh
  signals, mishaps

fetchedVars == <<conversations, contacts>>
markVars == <<typing, online, calling>>
screenVars == <<renders, notesShown, sidebar, listKey>>
sidebarVars == <<joined, conversations, contacts, typing, online, calling, renders, notesShown,
                 sidebar, listKey, refreshes, signals, mishaps>>

Nobody == [e \in Talks |-> "none"]
NoRows == [requests |-> {}, list |-> Nobody, faces |-> Nobody, typed |-> {}, called |-> {},
           online |-> {}]
NoRender == [at |-> "ended", personal |-> FALSE, read |-> {}, rows |-> NoRows]

\* A refresh: the requests of one handler, and what it does once they are answered.
NewRefresh(kind, e) ==
  [kind |-> kind, at |-> "asked", entry |-> e, cached |-> FALSE, got |-> {}, requests |-> {},
   list |-> Nobody]
NoRefresh == [NewRefresh("none", NoTalk) EXCEPT !.at = "ended"]

\* refreshAll asks for contacts and conversations, the others for conversations only.
Wanted(t) ==
  IF t.kind \in {"list", "update"} \/ (t.kind = "message" /\ t.entry = CurrentTalk)
    THEN {"conversations"} ELSE {"contacts", "conversations"}

\* refreshAll with no conversation looks in the cache first.
RefreshBegun(kind, e) ==
  LET t == NewRefresh(kind, e) IN
  [t EXCEPT !.at = IF conversations = Nobody /\ "contacts" \in Wanted(t) THEN "cache" ELSE "asked"]

SidebarInit ==
  /\ joined \in AtStart
  /\ conversations = Nobody /\ contacts = {}
  /\ typing = {} /\ online = {} /\ calling = NoTalk
  /\ renders = <<>> /\ notesShown = FALSE /\ sidebar = NoRows
  /\ listKey = <<FALSE, NoRows>>
  /\ refreshes = <<RefreshBegun("all", NoTalk)>>
  /\ signals = 0 /\ mishaps = 0

-----------------------------------------------------------------------------
(* One render                                                              *)

RowsIn(list) == {e \in Talks \ {Notes} : list[e] # "none"}

\* renderConversations is called once the lists are these: without a personal conversation,
\* its button is hidden at once.
Drawing(list) ==
  /\ renders' = Append(renders, [NoRender EXCEPT !.at = "notes", !.personal = list[Notes] # "none"])
  /\ notesShown' = (notesShown /\ list[Notes] # "none")
  /\ UNCHANGED <<sidebar, listKey>>

EveryRender(n) == TRUE   \* mutant: an outdated render goes on
IsCurrentRender(n) == n = Len(renders)

RenderBecomes(n, render) == renders' = [renders EXCEPT ![n] = render]

RenderGoesOn(n, at) == n \in DOMAIN renders /\ renders[n].at = at /\ IsCurrentRender(n)

RenderStops(n) ==
  /\ renders[n].at # "ended" /\ ~IsCurrentRender(n)
  /\ RenderBecomes(n, NoRender)
  /\ UNCHANGED <<joined, fetchedVars, markVars, notesShown, sidebar, listKey, refreshes, signals,
                 mishaps>>

\* renderPersonalConversation has its preview; then the lists are read.
NotesDrawn(n) ==
  /\ RenderGoesOn(n, "notes")
  /\ notesShown' = (notesShown \/ renders[n].personal)
  /\ RenderBecomes(n, [renders[n] EXCEPT !.at = "displays",
                   !.rows = [NoRows EXCEPT !.requests = contacts,
                                           !.list = [conversations EXCEPT ![Notes] = "none"]]])
  /\ UNCHANGED <<joined, fetchedVars, markVars, sidebar, listKey, refreshes, signals, mishaps>>

\* resolveConversationDisplay: the members are verified, the title of a group is decrypted.
Faces(list) ==
  {faces \in [Talks -> {"none", "title", "blocked"}] : \A e \in Talks :
     /\ e \notin RowsIn(list) => faces[e] = "none"
     /\ e \in RowsIn(list) \ Doubtful => faces[e] = "title"}
Titled(faces) == {e \in Talks : faces[e] = "title"}

\* conversationCallState and activeTypingUsers, read before the members are.
Called(list) == {e \in RowsIn(list) : calling = e}
TypingSeen(list, faces) ==
  {seen \in SUBSET (typing \cap RowsIn(list)) : typing \cap Titled(faces) \subseteq seen}

DisplaysResolved(n) ==
  LET content == renders[n].rows IN
  /\ RenderGoesOn(n, "displays")
  /\ \E faces \in Faces(content.list) : \E seen \in TypingSeen(content.list, faces) :
       RenderBecomes(n, [renders[n] EXCEPT !.at = "details",
                     !.rows = [content EXCEPT !.faces = faces, !.typed = seen,
                                           !.called = Called(content.list)]])
  /\ UNCHANGED <<joined, fetchedVars, markVars, notesShown, sidebar, listKey, refreshes, signals,
                 mishaps>>

\* conversationOnline reads who is present once the members of the conversation are there;
\* without them nobody is.
OnlineRead(n, e) ==
  LET content == renders[n].rows IN
  /\ RenderGoesOn(n, "details")
  /\ e \in RowsIn(content.list) \ renders[n].read
  /\ \E there \in {e \in online} \cup (IF content.faces[e] = "title" THEN {} ELSE {FALSE}) :
       RenderBecomes(n, [renders[n] EXCEPT !.read = @ \cup {e},
                     !.rows.online = IF there THEN @ \cup {e} ELSE @])
  /\ UNCHANGED <<joined, fetchedVars, markVars, notesShown, sidebar, listKey, refreshes, signals,
                 mishaps>>

\* What renderKey compares.
KeyWithoutMarks(personal, content) == <<personal, [content EXCEPT !.typed = {}]>>   \* mutant
KeyOf(personal, content) == <<personal, content>>

ListDrawn(n) ==
  LET key == KeyOf(notesShown, renders[n].rows) IN
  /\ RenderGoesOn(n, "details")
  /\ renders[n].read = RowsIn(renders[n].rows.list)
  /\ IF key = listKey THEN UNCHANGED <<sidebar, listKey>>
     ELSE sidebar' = renders[n].rows /\ listKey' = key
  /\ RenderBecomes(n, NoRender)
  /\ UNCHANGED <<joined, fetchedVars, markVars, notesShown, refreshes, signals, mishaps>>

\* The rows with buttons to accept or refuse, and the small text of the others.
RequestRows == sidebar.requests
InvitationRows == {e \in Talks : sidebar.list[e] = "invited"}
Subtitle(e) ==
  IF e \in sidebar.typed THEN "typing" ELSE IF e \in sidebar.called THEN "call"
  ELSE IF sidebar.faces[e] = "title" THEN "preview" ELSE sidebar.faces[e]

-----------------------------------------------------------------------------
(* The lists, and what asks for them                                       *)

MoreEvents == Len(refreshes) + signals < MaxEvents

Ask(kind, e) ==
  /\ MoreEvents
  /\ refreshes' = Append(refreshes, RefreshBegun(kind, e))
Goes(k, refresh) == refreshes' = [refreshes EXCEPT ![k] = refresh]
Pending(k, at) == k \in DOMAIN refreshes /\ refreshes[k].at = at

\* contact_updated, or an action of another part of the page: refreshAll or refreshConversationList.
Refreshed(kind) ==
  /\ kind \in {"all", "list"}
  /\ Ask(kind, NoTalk)
  /\ UNCHANGED <<joined, fetchedVars, markVars, screenVars, signals, mishaps>>

\* conversation_updated, or a message that expires.
ConversationUpdated(e) ==
  /\ Ask("update", e)
  /\ UNCHANGED <<joined, fetchedVars, markVars, screenVars, signals, mishaps>>

\* new_message: its author has stopped writing.
NewMessage(e) ==
  /\ Ask("message", e)
  /\ typing' = typing \ {e}
  /\ UNCHANGED <<joined, fetchedVars, online, calling, screenVars, signals, mishaps>>

\* Kept conversations are drawn before the requests go out, whatever was listed meanwhile.
CachedListRead(k) ==
  LET t == refreshes[k] IN
  /\ Pending(k, "cache")
  /\ \/ /\ Goes(k, [t EXCEPT !.at = "asked"])
        /\ UNCHANGED <<conversations, screenVars>>
     \/ /\ Cached # Nobody /\ conversations' = Cached
        /\ Drawing(Cached)
        /\ Goes(k, [t EXCEPT !.at = "asked", !.cached = TRUE])
  /\ UNCHANGED <<joined, contacts, markVars, signals, mishaps>>

AnswerContacts(k) ==
  LET t == refreshes[k] IN
  /\ Pending(k, "asked") /\ "contacts" \in Wanted(t) \ t.got
  /\ Goes(k, [t EXCEPT !.got = @ \cup {"contacts"},
                       !.requests = {e \in Talks : joined[e] = "request"}])
  /\ UNCHANGED <<joined, fetchedVars, markVars, screenVars, signals, mishaps>>

AnswerConversations(k) ==
  LET t == refreshes[k] IN
  /\ Pending(k, "asked") /\ "conversations" \in Wanted(t) \ t.got
  /\ Goes(k, [t EXCEPT !.got = @ \cup {"conversations"},
                       !.list = [e \in Talks |->
                                   IF joined[e] = "request" THEN "none" ELSE joined[e]]])
  /\ UNCHANGED <<joined, fetchedVars, markVars, screenVars, signals, mishaps>>

Complete(k) == Pending(k, "asked") /\ refreshes[k].got = Wanted(refreshes[k])

\* refreshAll without a personal conversation: it is created, and the list is asked for again.
CreateNotes(k) ==
  LET t == refreshes[k] IN
  /\ Complete(k) /\ "contacts" \in Wanted(t) /\ t.list[Notes] = "none"
  /\ joined' = [joined EXCEPT ![Notes] = "member"]
  /\ Goes(k, [t EXCEPT !.got = {"contacts"}, !.list = Nobody])
  /\ UNCHANGED <<fetchedVars, markVars, screenVars, signals, mishaps>>

\* A message or an acceptance draws the list once more.
AfterLists(t) ==
  IF t.kind \in {"message", "accept"} THEN [NewRefresh("again", t.entry) EXCEPT !.at = "again"]
  ELSE NoRefresh

\* The lists are replaced and drawn. After conversation_updated the key of a group may have to
\* be renewed before.
ListsArrive(k) ==
  LET t == refreshes[k] IN
  /\ Complete(k)
  /\ "contacts" \in Wanted(t) => t.list[Notes] # "none"
  /\ conversations' = t.list
  /\ contacts' = (IF "contacts" \in Wanted(t) THEN t.requests ELSE contacts)
  /\ \/ /\ Drawing(t.list)
        /\ Goes(k, AfterLists(t))
     \/ /\ t.kind = "update" /\ t.entry \in Groups
        /\ Goes(k, [NewRefresh("update", t.entry) EXCEPT !.at = "repairing"])
        /\ UNCHANGED screenVars
  /\ UNCHANGED <<joined, markVars, signals, mishaps>>

\* The key is renewed, the indicator of the conversation on screen is shown, or the accepted
\* conversation is selected: the list is drawn.
DrawnAfter(k) ==
  /\ k \in DOMAIN refreshes /\ refreshes[k].at \in {"repairing", "typing", "again"}
  /\ Drawing(conversations)
  /\ Goes(k, NoRefresh)
  /\ UNCHANGED <<joined, fetchedVars, markVars, signals, mishaps>>

\* refreshAll falls back on what the cache had.
RefreshFails(k) ==
  LET t == refreshes[k] IN
  /\ k \in DOMAIN refreshes /\ t.at \in {"asked", "posting", "typing"}
  /\ mishaps < MaxMishaps /\ mishaps' = mishaps + 1
  /\ IF t.cached THEN /\ conversations' = Cached /\ Drawing(Cached)
                      /\ Goes(k, AfterLists(t))
     ELSE Goes(k, NoRefresh) /\ UNCHANGED <<conversations, screenVars>>
  /\ UNCHANGED <<joined, contacts, markVars, signals>>

-----------------------------------------------------------------------------
(* The buttons of a request or an invitation                               *)

ButtonPosts(kind, e) ==
  /\ MoreEvents
  /\ refreshes' = Append(refreshes, [NewRefresh(kind, e) EXCEPT !.at = "posting"])
  /\ UNCHANGED <<joined, fetchedVars, markVars, screenVars, signals, mishaps>>

AcceptGroupInvitation(e) == e \in InvitationRows /\ ButtonPosts("accept", e)
RefuseGroupInvitation(e) == e \in InvitationRows /\ ButtonPosts("refuse", e)
AcceptContact(e) == e \in RequestRows /\ ButtonPosts("accept", e)
DeleteContactRequest(e) == e \in RequestRows /\ ButtonPosts("refuse", e)

\* The server decides; what is no longer there is refused, and the page shows the error.
Posted(k) ==
  LET t == refreshes[k] IN
  /\ Pending(k, "posting")
  /\ IF joined[t.entry] \in {"request", "invited"}
       THEN /\ joined' = [joined EXCEPT ![t.entry] = IF t.kind = "accept" THEN "member" ELSE "none"]
            /\ Goes(k, RefreshBegun(t.kind, t.entry))
       ELSE Goes(k, NoRefresh) /\ UNCHANGED joined
  /\ UNCHANGED <<fetchedVars, markVars, screenVars, signals, mishaps>>

-----------------------------------------------------------------------------
(* What changes meanwhile                                                  *)

Signalled == MoreEvents /\ signals' = signals + 1

\* refreshTypingIndicators: the indicator of the conversation on screen first.
TypingChanges(e) ==
  IF e = CurrentTalk
    THEN /\ refreshes' = Append(refreshes, [NewRefresh("typing", e) EXCEPT !.at = "typing"])
         /\ UNCHANGED screenVars
    ELSE Drawing(conversations) /\ UNCHANGED refreshes

\* setTypingUser, and the timer that ends it.
SetTyping(e, writes) ==
  /\ Signalled
  /\ typing' = IF writes THEN typing \cup {e} ELSE typing \ {e}
  /\ TypingChanges(e)
  /\ UNCHANGED <<joined, fetchedVars, online, calling, mishaps>>

\* presence_state, user_online, user_offline, or the socket is lost.
PresenceChanges(there) ==
  /\ Signalled
  /\ online' = there
  /\ Drawing(conversations)
  /\ UNCHANGED <<joined, fetchedVars, typing, calling, refreshes, mishaps>>

\* A call begins or ends: refreshConversationCallIndicators.
CallChanges(e) ==
  /\ Signalled
  /\ calling' = (IF calling = NoTalk THEN e ELSE NoTalk)
  /\ Drawing(conversations)
  /\ UNCHANGED <<joined, fetchedVars, typing, online, refreshes, mishaps>>

\* Somebody invites this user or asks for a contact, or takes it back.
ServerChanges(e) ==
  /\ Signalled
  /\ joined' = [joined EXCEPT ![e] = IF @ # "none" THEN "none"
                                     ELSE IF e \in Groups THEN "invited" ELSE "request"]
  /\ UNCHANGED <<fetchedVars, markVars, screenVars, refreshes, mishaps>>

SidebarNext ==
  \/ \E n \in DOMAIN renders :
       \/ RenderStops(n) \/ NotesDrawn(n) \/ DisplaysResolved(n) \/ ListDrawn(n)
       \/ \E e \in Talks : OnlineRead(n, e)
  \/ \E kind \in {"all", "list"} : Refreshed(kind)
  \/ \E k \in DOMAIN refreshes :
       \/ CachedListRead(k) \/ AnswerContacts(k) \/ AnswerConversations(k) \/ CreateNotes(k)
       \/ ListsArrive(k) \/ DrawnAfter(k) \/ RefreshFails(k) \/ Posted(k)
  \/ \E e \in Talks \ {Notes} :
       \/ ConversationUpdated(e) \/ NewMessage(e) \/ ServerChanges(e) \/ CallChanges(e)
       \/ AcceptGroupInvitation(e) \/ RefuseGroupInvitation(e)
       \/ AcceptContact(e) \/ DeleteContactRequest(e)
       \/ \E writes \in BOOLEAN : SetTyping(e, writes)
  \/ \E there \in SUBSET (Talks \ {Notes}) : PresenceChanges(there)

SidebarSpec == SidebarInit /\ [][SidebarNext]_sidebarVars

-----------------------------------------------------------------------------
(* Properties                                                              *)

SidebarTypeOK ==
  /\ conversations \in [Talks -> {"none", "invited", "member"}] /\ contacts \subseteq Talks
  /\ typing \subseteq Talks /\ online \subseteq Talks /\ calling \in Talks \cup {NoTalk}
  /\ sidebar.faces \in [Talks -> {"none", "title", "blocked"}]
  /\ signals \in 0 .. MaxEvents /\ mishaps \in 0 .. MaxMishaps

\* A change whose render is still to come.
Owes(t) ==
  \/ t.at \in {"repairing", "typing"}
  \/ t.kind = "message" /\ t.at \in {"cache", "asked"}

Settled ==
  /\ mishaps = 0
  /\ \A n \in DOMAIN renders : renders[n].at = "ended"
  /\ \A k \in DOMAIN refreshes : ~Owes(refreshes[k])

\* However renders overlap, what the last one left on screen is what the page holds: the
\* requests, the conversations, who writes and who is there, and the call.
SidebarIsCurrent ==
  Settled =>
    /\ notesShown = (conversations[Notes] # "none")
    /\ RequestRows = contacts
    /\ \A e \in Talks \ {Notes} : sidebar.list[e] = conversations[e]
    /\ \A e \in Titled(sidebar.faces) :
         /\ e \in sidebar.online <=> e \in online
         /\ Subtitle(e) = IF e \in typing THEN "typing"
                          ELSE IF calling = e THEN "call" ELSE "preview"
=============================================================================
