----------------------------- MODULE PreviewPass -----------------------------
(***************************************************************************)
(* How the previews of the files of one conversation get drawn             *)
(* (renderMessages, prepareVisibleFilePreviews, scheduleFilePreview,       *)
(* trackedFilePreviewRender and renderRemainingFilePreviews of app.js).    *)
(*                                                                         *)
(* A preview is drawn before the list is revealed, when its message comes  *)
(* near the window (an observer sees it), or by a pass in the background;  *)
(* a drawing under way is shared by message.  Every reload of the messages *)
(* makes a new list, with new frames to fill: the bookkeeping of the old   *)
(* one is dropped first, the list is replaced when the messages are        *)
(* decrypted, at once when they were prepared in the background.           *)
(***************************************************************************)
EXTENDS Naturals, FiniteSets

CONSTANTS
    Messages,   \* messages with a file
    Late,       \* the messages that arrive while the conversation is shown
    MaxLists,   \* bound: lists shown
    MaxFailures \* bound: reloads that fail

PassBounds == Late \subseteq Messages /\ {MaxLists, MaxFailures} \subseteq Nat

VARIABLES
    onScreen,   \* the list on screen: its number
    listed,     \* the messages of the list
    drawn,      \* the frames of the list that are filled
    arrived,    \* the messages the conversation has
    reloads,    \* reloads that dropped the bookkeeping and decrypt
    pending,    \* pendingFilePreviews: the list of the frame a message waits in
    observers,  \* filePreviewObservers: the frames watched
    sharing,    \* filePreviewRenders: the list of the drawing a message shares
    drawing,    \* drawings under way
    reveals,    \* lists being drawn before they are revealed, and what is left
    replaced,   \* how the list on screen came: "together" with its bookkeeping, or "later";
                \* "dropped" once a reload that failed has dropped its bookkeeping
    joined,     \* the frames of the list on screen that joined the drawing of an older list
    failures

passVars == <<onScreen, listed, drawn, arrived, reloads, pending, observers, sharing, drawing, reveals,
              replaced, joined, failures>>
bookkeeping == <<pending, observers, sharing, drawing>>

NoList == [m \in Messages |-> 0]
Frames(list, ms) == {<<list, m>> : m \in ms}

-----------------------------------------------------------------------------
(* scheduleFilePreview: the frames wait for the window to come near. *)
Scheduled(list, ms) ==
    /\ pending' = [m \in Messages |-> IF m \in ms THEN list ELSE pending[m]]
    /\ observers' = observers \cup Frames(list, ms)

(* clearRenderedFilePreviews. *)
SharedAfter == NoList

Forgotten == pending' = NoList /\ observers' = {} /\ sharing' = SharedAfter

(* renderMessages: the new list replaces the old one; its frames are drawn  *)
(* before it is revealed, or scheduled.                                     *)
ListReplaced(waits, how) ==
    /\ onScreen' = onScreen + 1
    /\ replaced' = how /\ joined' = {}
    /\ listed' = arrived
    /\ drawn' = {}
    /\ reveals' = IF waits THEN reveals \cup {[list |-> onScreen + 1, todo |-> arrived]} ELSE reveals

ReloadPrepared(waits) ==
    /\ onScreen + reloads < MaxLists
    /\ ListReplaced(waits, "together")
    /\ sharing' = SharedAfter
    /\ IF waits THEN pending' = NoList /\ observers' = {}
       ELSE /\ pending' = [m \in Messages |-> IF m \in arrived THEN onScreen + 1 ELSE 0]
            /\ observers' = Frames(onScreen + 1, arrived)
    /\ UNCHANGED <<arrived, reloads, drawing, failures>>

ReloadList ==
    /\ onScreen + reloads < MaxLists
    /\ Forgotten
    /\ reloads' = reloads + 1
    /\ UNCHANGED <<onScreen, listed, drawn, arrived, drawing, reveals, replaced, joined, failures>>

Decrypted(waits) ==
    /\ reloads > 0
    /\ reloads' = reloads - 1
    /\ ListReplaced(waits, "later")
    /\ IF waits THEN UNCHANGED <<pending, observers>> ELSE Scheduled(onScreen + 1, arrived)
    /\ UNCHANGED <<arrived, sharing, drawing, failures>>

(* A key is missing, an identity changed: the old list stays. *)
ReloadFails ==
    /\ reloads > 0 /\ failures < MaxFailures
    /\ reloads' = reloads - 1
    /\ failures' = failures + 1
    /\ replaced' = "dropped"
    /\ UNCHANGED <<onScreen, listed, drawn, arrived, bookkeeping, reveals, joined>>

(* prepareVisibleFilePreviews: visible frames first, the rest is scheduled. *)
Filled(list, m) == drawn' = IF list = onScreen THEN drawn \cup {m} ELSE drawn

RevealDraws(r, m) ==
    /\ m \in r.todo
    /\ Filled(r.list, m)
    /\ reveals' = (reveals \ {r}) \cup {[r EXCEPT !.todo = @ \ {m}]}
    /\ UNCHANGED <<onScreen, listed, arrived, reloads, bookkeeping, replaced, joined, failures>>

RevealEnds(r) ==
    /\ reveals' = reveals \ {r}
    /\ Scheduled(r.list, r.todo)
    /\ UNCHANGED <<onScreen, listed, drawn, arrived, reloads, sharing, drawing, replaced, joined, failures>>

(* appendMessage: a message arrives at the end of the list. *)
Arrives(m) ==
    /\ m \in Late \ arrived
    /\ arrived' = arrived \cup {m}
    /\ listed' = listed \cup {m}
    /\ Scheduled(onScreen, {m})
    /\ UNCHANGED <<onScreen, drawn, reloads, sharing, drawing, reveals, replaced, joined, failures>>

(* trackedFilePreviewRender: a drawing under way is joined, whatever list its *)
(* frame is of. *)
Tracked(list, m) ==
    /\ joined' = IF sharing[m] \in {0, list} THEN joined ELSE joined \cup {m}
    /\ IF sharing[m] # 0 THEN UNCHANGED <<sharing, drawing>>
       ELSE /\ sharing' = [sharing EXCEPT ![m] = list]
            /\ drawing' = drawing \cup {<<list, m>>}

(* An observer sees the frame near the window. *)
Near(m) ==
    /\ <<onScreen, m>> \in observers
    /\ observers' = observers \ {<<onScreen, m>>}
    /\ pending' = [pending EXCEPT ![m] = 0]
    /\ Tracked(onScreen, m)
    /\ UNCHANGED <<onScreen, listed, drawn, arrived, reloads, reveals, replaced, failures>>

(* renderRemainingFilePreviews, ensureRenderedMessageFilePreview: the nearest *)
(* pending frame still in the page, when nothing draws the message already.   *)
Background(m) ==
    /\ pending[m] = onScreen /\ m \notin drawn /\ sharing[m] = 0
    /\ observers' = observers \ {<<onScreen, m>>}
    /\ pending' = [pending EXCEPT ![m] = 0]
    /\ Tracked(onScreen, m)
    /\ UNCHANGED <<onScreen, listed, drawn, arrived, reloads, reveals, replaced, failures>>

(* renderFilePreview ends: a frame no longer in the page is left alone. *)
DrawingEnds(list, m) ==
    /\ <<list, m>> \in drawing
    /\ drawing' = drawing \ {<<list, m>>}
    /\ sharing' = [sharing EXCEPT ![m] = IF @ = list THEN 0 ELSE @]
    /\ Filled(list, m)
    /\ UNCHANGED <<onScreen, listed, arrived, reloads, pending, observers, reveals, replaced, joined, failures>>

-----------------------------------------------------------------------------
PassInit ==
    /\ onScreen = 1 /\ listed = Messages \ Late /\ arrived = Messages \ Late
    /\ drawn = {} /\ reloads = 0 /\ failures = 0
    /\ pending = NoList /\ observers = {} /\ sharing = NoList /\ drawing = {}
    /\ reveals = {[list |-> 1, todo |-> Messages \ Late]}
    /\ replaced = "together" /\ joined = {}

PassNext ==
    \/ \E waits \in BOOLEAN : ReloadPrepared(waits) \/ Decrypted(waits)
    \/ ReloadList
    \/ ReloadFails
    \/ \E r \in reveals : RevealEnds(r) \/ \E m \in r.todo : RevealDraws(r, m)
    \/ \E m \in Messages : Arrives(m) \/ Near(m) \/ Background(m)
    \/ \E d \in drawing : DrawingEnds(d[1], d[2])

PassSpec == PassInit /\ [][PassNext]_passVars

-----------------------------------------------------------------------------
PassTypeOK ==
    /\ drawn \subseteq listed /\ listed \subseteq arrived
    /\ pending \in [Messages -> 0..onScreen] /\ sharing \in [Messages -> 0..onScreen]
    /\ \A f \in observers \cup drawing : f[1] \in 1..onScreen /\ f[2] \in Messages
    /\ \A r \in reveals : r.list \in 1..onScreen /\ r.todo \subseteq Messages
    /\ replaced \in {"together", "later", "dropped"} /\ joined \subseteq Messages

(* When no reload decrypts, every frame of the list on screen is filled, being *)
(* filled, watched, or has its turn before the list is revealed. Two kinds of  *)
(* frame are excepted, which stay empty for ever: one that joined the drawing  *)
(* of an older list, begun while a reload decrypted (only a list that replaced *)
(* the old one later has such frames), and those whose bookkeeping a reload    *)
(* dropped before it failed. app.js:10363 promises more, "L'utilisateur ne     *)
(* doit jamais tomber sur un aperçu en cours de préparation" (app.js 697-705,  *)
(* 6998-7010, 10329-10365).                                                    *)
Attended(m) ==
    \/ <<onScreen, m>> \in observers \cup drawing
    \/ \E r \in reveals : r.list = onScreen /\ m \in r.todo

FramesAreAttended ==
    /\ reloads = 0 /\ replaced # "dropped" => \A m \in listed \ drawn : Attended(m) \/ m \in joined
    /\ replaced = "together" => joined = {}
=============================================================================
