------------------------------- MODULE MCPage -------------------------------
(* Parts of a page that do not meet, side by side, and the connections of the *)
(* server that feed it: a behaviour is one of a single part, named by page,   *)
(* and p1, p2, ... are the variables of that part.                            *)
EXTENDS Naturals, TLC
\* The constants of the parts that are proved of (PageProofs), and of the hub.
CONSTANTS
  Owners, Readers, MaxEpoch, MaxEdits, Artists, MaxStrokes, MaxErasures, MaxOpenings, Tabs,
  MaxKeys, MaxSigns, MaxQueue, VideoCalls, Nothing, MaxTracks, Rooms, Federated, Nowhere, Ttl,
  Retry, MaxTime, MaxClicks, MaxFaults, Chats, NoChat, MaxPins, MaxPresses, MaxReads, People,
  MaxChanges, MaxLoads, MaxDeletions, MaxErrors, Files, Thumbs, MaxFetches, MaxClears, Conn,
  User, UserOf, QueueSize, EphemeralLimit, CallQueueSize, Windows, BrowserOf, MaxMade,
  MaxReturns, MaxDenials, Messages, Late, MaxLists, MaxFailures, SharedFiles, NoFile,
  MaxLinks, MaxDialogs, MaxLosses, Conversations, NoRoom, MaxItems, MaxMoves, MaxSends,
  MaxPostFaults, PageSize, Fits, OldFiles, MaxFileChanges, MaxFolderOpenings, MaxScrolls,
  MaxRequestFaults, Talks, Notes, Groups, Doubtful, CurrentTalk, NoTalk, Cached, AtStart,
  MaxEvents, MaxMishaps, Suspended, Owned, Lively, MaxPosts, MaxSelections, MaxWork, MaxLoadFailures
VARIABLES page, p1, p2, p3, p4, p5, p6, p7, p8, p9, p10, p11, p12, p13, p14, p15, p16
pageVars == <<page, p1, p2, p3, p4, p5, p6, p7, p8, p9, p10, p11, p12, p13, p14, p15, p16>>

Browser == INSTANCE PageProofs WITH
  book <- p1, present <- p2, changes <- p3, cached <- p4, loaded <- p5, dialogOpen <- p6,
  list <- p7, busy <- p8, loads <- p9, deletions <- p10, deleted <- p11, forgotten <- p12,
  errors <- p13,
  pins <- p1, events <- p2, chat <- p3, selected <- p4, hidden <- p5, cards <- p6,
  opening <- p7, reads <- p8, wanted <- p9, presses <- p10, asked <- p11,
  announced <- p1, stored <- p2, record <- p3, operations <- p4, saving <- p5, warning <- p6,
  confirmed <- p7,
  epochKeys <- p1, titleKey <- p2, frozen <- p3, generated <- p4, row <- p5, keys <- p6,
  envelopes <- p7, loading <- p8, dialog <- p9, posting <- p10,
  current <- p1, media <- p2, live <- p3, screens <- p4, captured <- p5, waits <- p6,
  room <- p1, capability <- p2, probing <- p3, retry <- p4, offered <- p5, config <- p6,
  identity <- p7, configLoading <- p8, clock <- p9,
  active <- p1, preparation <- p2, session <- p3, greeted <- p4, timer <- p5, requests <- p6,
  manual <- p7, downloading <- p8, shown <- p9, disabled <- p10, clicks <- p11, faults <- p12,
  clients <- p1, pc <- p2, writer <- p3, open <- p4, queue <- p5, callQueue <- p6, closed <- p7,
  kick <- p8, done <- p9, resync <- p10, missed <- p11, kicking <- p12,
  onScreen <- p1, listed <- p2, drawn <- p3, arrived <- p4, reloads <- p5, pending <- p6,
  observers <- p7, sharing <- p8, drawing <- p9, reveals <- p10, replaced <- p11, joined <- p12,
  failures <- p13,
  here <- p1, written <- p2, text <- p3, files <- p4, voice <- p5, recorder <- p6,
  sends <- p7, posted <- p8, poll <- p9, kept <- p10, moves <- p11, sendClicks <- p12,
  postFaults <- p13,
  allFiles <- p1, sent <- p2, fileChanges <- p3, fileEvents <- p4, index <- p5,
  pageLoads <- p6, first <- p7, next <- p8, scheduled <- p9, folderOpen <- p10, rows <- p11,
  folderLoading <- p12, tasks <- p13, openings <- p14, scrolls <- p15, requestFaults <- p16
Conversation == INSTANCE ConversationProofs WITH
  MaxFailures <- MaxLoadFailures, posted <- p1, stored <- p2, socket <- p3, known <- p4,
  current <- p5, enabled <- p6, verified <- p7, trusted <- p8, shown <- p9, veiled <- p10,
  prepared <- p11, preloads <- p12, cached <- p13, work <- p14, selections <- p15,
  failures <- p16,
  generation <- p1, entry <- p2, shared <- p3, fetches <- p4, display <- p5, crops <- p6,
  revoked <- p7, alive <- p8, created <- p9, removed <- p10,
  board <- p1, draft <- p2, author <- p3, channel <- p4, opened <- p5, inFlight <- p6,
  erased <- p7,
  account <- p1, vault <- p2, unlocking <- p3, store <- p4, made <- p5, spent <- p6,
  links <- p1, counts <- p2, sharesOpen <- p3, sharedFile <- p4, madeLink <- p5, address <- p6,
  listedLinks <- p7, listings <- p8, creation <- p9, revoking <- p10, dialogs <- p11,
  losses <- p12,
  joined <- p1, conversations <- p2, contacts <- p3, typing <- p4, online <- p5, calling <- p6,
  renders <- p7, notesShown <- p8, sidebar <- p9, listKey <- p10, refreshes <- p11,
  signals <- p12, mishaps <- p13
From7 == <<p7, p8, p9, p10, p11, p12, p13, p14, p15, p16>>
From8 == <<p8, p9, p10, p11, p12, p13, p14, p15, p16>>
From10 == <<p10, p11, p12, p13, p14, p15, p16>>
From11 == <<p11, p12, p13, p14, p15, p16>>
From12 == <<p12, p13, p14, p15, p16>>
From13 == <<p13, p14, p15, p16>>
From14 == <<p14, p15, p16>>

PageInit ==
  \/ page = "conversation" /\ Conversation!ConversationInit
  \/ page = "folder" /\ Browser!FolderInit
  \/ /\ page = "carnet" /\ Browser!CarnetInit
     /\ p14 = 0 /\ p15 = 0 /\ p16 = 0
  \/ /\ page = "shares" /\ Conversation!SharesInit
     /\ p13 = 0 /\ p14 = 0 /\ p15 = 0 /\ p16 = 0
  \/ /\ page = "pins" /\ Browser!PinnedInit
     /\ p12 = 0 /\ p13 = 0 /\ p14 = 0 /\ p15 = 0 /\ p16 = 0
  \/ /\ page = "composer" /\ Browser!ComposerInit
     /\ p14 = 0 /\ p15 = 0 /\ p16 = 0
  \/ /\ page = "sidebar" /\ Conversation!SidebarInit
     /\ p14 = 0 /\ p15 = 0 /\ p16 = 0
  \/ /\ page = "trust" /\ Browser!TrustInit
     /\ p8 = 0 /\ p9 = 0 /\ p10 = 0 /\ p11 = 0 /\ p12 = 0 /\ p13 = 0 /\ p14 = 0 /\ p15 = 0 /\ p16 = 0
  \/ /\ page = "keys" /\ Browser!KeysInit
     /\ p11 = 0 /\ p12 = 0 /\ p13 = 0 /\ p14 = 0 /\ p15 = 0 /\ p16 = 0
  \/ /\ page = "decrypted" /\ Conversation!CacheInit
     /\ p11 = 0 /\ p12 = 0 /\ p13 = 0 /\ p14 = 0 /\ p15 = 0 /\ p16 = 0
  \/ /\ page = "previews" /\ Browser!PassInit
     /\ p14 = 0 /\ p15 = 0 /\ p16 = 0
  \/ /\ page = "media" /\ Browser!MediaInit
     /\ p7 = 0 /\ p8 = 0 /\ p9 = 0 /\ p10 = 0 /\ p11 = 0 /\ p12 = 0 /\ p13 = 0 /\ p14 = 0 /\ p15 = 0 /\ p16 = 0
  \/ /\ page = "buttons" /\ Browser!ConfigInit
     /\ p10 = 0 /\ p11 = 0 /\ p12 = 0 /\ p13 = 0 /\ p14 = 0 /\ p15 = 0 /\ p16 = 0
  \/ /\ page = "board" /\ Conversation!BoardInit
     /\ p8 = 0 /\ p9 = 0 /\ p10 = 0 /\ p11 = 0 /\ p12 = 0 /\ p13 = 0 /\ p14 = 0 /\ p15 = 0 /\ p16 = 0
  \/ /\ page = "visit" /\ Browser!SharePageInit
     /\ p13 = 0 /\ p14 = 0 /\ p15 = 0 /\ p16 = 0
  \/ /\ page = "hub" /\ Browser!Init
     /\ p13 = 0 /\ p14 = 0 /\ p15 = 0 /\ p16 = 0
  \/ /\ page = "account" /\ Conversation!UnlockInit
     /\ p7 = 0 /\ p8 = 0 /\ p9 = 0 /\ p10 = 0 /\ p11 = 0 /\ p12 = 0 /\ p13 = 0 /\ p14 = 0 /\ p15 = 0 /\ p16 = 0

PageNext ==
  \/ page = "conversation" /\ Conversation!ConversationNext /\ UNCHANGED page
  \/ page = "folder" /\ Browser!FolderNext /\ UNCHANGED page
  \/ page = "carnet" /\ Browser!CarnetNext /\ UNCHANGED <<page, From14>>
  \/ page = "shares" /\ Conversation!SharesNext /\ UNCHANGED <<page, From13>>
  \/ page = "pins" /\ Browser!PinnedNext /\ UNCHANGED <<page, From12>>
  \/ page = "composer" /\ Browser!ComposerNext /\ UNCHANGED <<page, From14>>
  \/ page = "sidebar" /\ Conversation!SidebarNext /\ UNCHANGED <<page, From14>>
  \/ page = "trust" /\ Browser!TrustNext /\ UNCHANGED <<page, From8>>
  \/ page = "keys" /\ Browser!KeysNext /\ UNCHANGED <<page, From11>>
  \/ page = "decrypted" /\ Conversation!CacheNext /\ UNCHANGED <<page, From11>>
  \/ page = "previews" /\ Browser!PassNext /\ UNCHANGED <<page, From14>>
  \/ page = "media" /\ Browser!MediaNext /\ UNCHANGED <<page, From7>>
  \/ page = "buttons" /\ Browser!ConfigNext /\ UNCHANGED <<page, From10>>
  \/ page = "board" /\ Conversation!BoardNext /\ UNCHANGED <<page, From8>>
  \/ page = "visit" /\ Browser!SharePageNext /\ UNCHANGED <<page, From13>>
  \/ page = "hub" /\ Browser!Next /\ UNCHANGED <<page, From13>>
  \/ page = "account" /\ Conversation!UnlockNext /\ UNCHANGED <<page, From7>>

PageSpec == PageInit /\ [][PageNext]_pageVars

-----------------------------------------------------------------------------
ASSUME PageAssumption ==
  /\ Conversation!PageAssumption /\ Browser!FolderAssumption /\ Browser!CarnetAssumption
  /\ Conversation!SharesAssumption /\ Browser!PinnedAssumption /\ Browser!ComposerAssumption
  /\ Browser!TrustBounds /\ Browser!GroupKeysBounds /\ Conversation!CacheBounds
  /\ Browser!PassBounds /\ Browser!MediaAssumption
  /\ Browser!ConfigAssumption /\ Conversation!SidebarAssumption /\ Conversation!BoardAssumption
  /\ Conversation!UnlockBounds
  /\ Browser!SharePageAssumption /\ Browser!HubAssumption

\* The type invariant of the part.
PageTypeOK ==
  /\ page = "conversation" => Conversation!ConversationTypeOK
  /\ page = "folder" => Browser!FolderTypeOK
  /\ page = "carnet" => Browser!CarnetTypeOK
  /\ page = "shares" => Conversation!SharesTypeOK
  /\ page = "pins" => Browser!PinnedTypeOK
  /\ page = "composer" => Browser!ComposerTypeOK
  /\ page = "sidebar" => Conversation!SidebarTypeOK
  /\ page = "trust" => Browser!TrustTypeOK
  /\ page = "keys" => Browser!KeysTypeOK
  /\ page = "decrypted" => Conversation!CacheTypeOK
  /\ page = "previews" => Browser!PassTypeOK
  /\ page = "media" => Browser!MediaTypeOK
  /\ page = "buttons" => Browser!ConfigTypeOK
  /\ page = "board" => Conversation!BoardTypeOK
  /\ page = "account" => Conversation!UnlockTypeOK
  /\ page = "hub" => Browser!TypeOK
  /\ page = "visit" => Browser!SharePageTypeOK

\* Whatever answers come late, the rows, the preloaded and cached copies and the open composer
\* are those of the conversation on screen (app.js, the selection and its refreshes).
ConversationIsTheSelected ==
  page = "conversation" => /\ Conversation!RowsAreOfTheSelection
                           /\ Conversation!CopiesAreCurrent
                           /\ Conversation!ComposerIsVerified

\* The index of the folder holds no file the page was told is gone; a listed link exists, and is
\* one of the file whose dialog is open.
FilesAreTheServers ==
  /\ page = "folder" => Browser!IndexIsTheServers
  /\ page = "shares" => Conversation!LinksExist /\ Conversation!ListedLinksAreOfTheFile

\* A file (not a voice message: a recording follows its user to the conversation on screen when
\* it ends) is posted to the conversation it was added in, or is still kept.
FilesStayInTheirConversation ==
  page = "composer" => Browser!FilesStayInTheirConversation /\ Browser!FilesAreNotForgotten

\* What a page holds as the key of an epoch of a group is the key of that epoch.
KeysAreOfTheirEpoch == page = "keys" => Browser!KeysAreOfTheirEpoch

\* Leaving a conversation leaves no decrypted file behind; when no reload of the messages decrypts,
\* no frame that is watched by nobody and drawn by nobody is empty, but for the frames that joined
\* the drawing of an older list and those whose bookkeeping was dropped by a reload that failed.
PreviewsAreKept ==
  /\ page = "decrypted" => Conversation!NoFileIsLeftBehind
  /\ page = "previews" => Browser!FramesAreAttended

\* A screen is captured only for a call that was not ended and that says it shares it (the screen
\* of a call that was replaced stays captured), and calls are offered in a conversation with
\* members elsewhere only if the other server said so.
CallControlsAreTrue ==
  /\ page = "media" => Browser!ScreensAreReleased
  /\ page = "buttons" => Browser!CallsAreOfferedOnAnswers

\* Whoever joins a whiteboard sees what was drawn before, and the last render of the list of
\* conversations leaves what the page holds on screen.
DrawnIsCurrent ==
  /\ page = "board" => Conversation!NothingDrawnIsLost
  /\ page = "sidebar" => Conversation!SidebarIsCurrent

\* Tabs that open an account of the first format at once agree on its signing identity.
OneSigningIdentity == page = "account" => Conversation!OneSigningIdentity

\* No event is sent on closed queues, and what a connection missed makes it ask for everything.
NoEventIsLostInSilence ==
  page = "hub" => Browser!ClosedQueuesAreUnreachable /\ Browser!MissedMeansResync

\* The last click counts, whatever answer comes late: who was deleted is not brought back by an
\* answer whose version is compared (the refresh of the conversations compares none and does bring
\* them back), the panel opens as asked, the page of a link starts no download after a click.
ClicksAreObeyed ==
  [][/\ page = "carnet" => Browser!StaysAway
     /\ page = "pins" => Browser!AsAsked
     /\ page = "visit" => Browser!ClickFirst]_pageVars

\* In a browser with one tab, the recorded keys of a correspondent change with the user's
\* consent only.
ChangesNeedConsent == [][page = "trust" => Browser!Consented]_pageVars
-----------------------------------------------------------------------------
(* A small instance for TLC                                                *)
CONSTANTS roomA, roomB, nowhere, notes, ann, bob, f1, f2, a1, a2, none
\* A page that starts with a request and an invitation, and whose cache has the invitation.
SmallStart ==
  {[e \in {notes, roomA, roomB} |->
      IF e = notes THEN "none" ELSE IF e = roomA THEN "request" ELSE "invited"]}
KeptList == [e \in {notes, roomA, roomB} |-> IF e = roomB THEN "invited" ELSE "none"]
OneUser == [c \in {a1, a2} |-> ann]
OneBrowser == [w \in {a1, a2} |-> ann]
=============================================================================
