---------------------------- MODULE SystemProofs ----------------------------
(***************************************************************************)
(* What the runs over several parts check, for any constants of the parts: *)
(* each part keeps its own inductive invariant, and a behaviour is one of  *)
(* a single part.                                                          *)
(***************************************************************************)
EXTENDS MCServer, MCPage, MCLive, TLAPS

-----------------------------------------------------------------------------
(* The server                                                              *)

\* Each part of the server keeps its invariant.
ServerInv ==
  /\ server = "cache" => Server!ReceiptInv /\ Server!WithinCapacity
  /\ server = "sent" => Sent!IInv /\ Sent!EndedStaysEnded
  /\ server = "received" => Received!IInv /\ Received!EndedStaysEnded
  /\ server = "stalled" => Stalled!IInv /\ Stalled!EndedStaysEnded
  /\ server = "sessions" => Server!IInv
  /\ server = "presence" => Server!PresenceInv

\* Each part starts in it.
LEMMA ServerInvInit == ASSUME ServerAssumption, ServerInit PROVE ServerInv
<1>1. CASE server = "cache" /\ Server!ReceiptInit
  BY <1>1, Server!ReceiptInitInv, Server!InitFits DEF ServerInv, ServerAssumption
<1>2. CASE server = "sent" /\ Sent!Init
  BY <1>2, Sent!InitInv DEF ServerInv, ServerAssumption
<1>3. CASE server = "received" /\ Received!Init
  BY <1>3, Received!InitInv DEF ServerInv, ServerAssumption
<1>4. CASE server = "stalled" /\ Stalled!Init
  BY <1>4, Stalled!InitInv DEF ServerInv, ServerAssumption
<1>5. CASE server = "sessions" /\ Server!Init
  BY <1>5, Server!InitIInv DEF ServerInv, ServerAssumption
<1>6. CASE server = "presence" /\ Server!PresenceInit
  BY <1>6, Server!PresenceInitInv DEF ServerInv, ServerAssumption
<1>7. QED BY <1>1, <1>2, <1>3, <1>4, <1>5, <1>6 DEF ServerInit

\* A step is one of its part.
LEMMA ServerInvNext == ASSUME ServerAssumption, ServerInv, [ServerNext]_serverVars PROVE ServerInv'
<1>1. server' = server
  BY DEF ServerNext, serverVars
<1>2. ASSUME server = "cache" PROVE Server!ReceiptInv' /\ Server!WithinCapacity'
  <2>1. [Server!ReceiptNext]_(Server!receiptVars)
    BY <1>2 DEF ServerNext, serverVars, Server!receiptVars, Server!entryVars
  <2>2. Server!ReceiptAssumption /\ Server!ReceiptInv /\ Server!WithinCapacity
    BY <1>2 DEF ServerAssumption, ServerInv
  <2>3. QED BY <2>1, <2>2, Server!ReceiptNextInv, Server!NextFits
<1>3. ASSUME server = "sent" PROVE Sent!IInv' /\ Sent!EndedStaysEnded'
  <2>1. [Sent!Next]_(Sent!vars)
    BY <1>3 DEF ServerNext, serverVars, Sent!vars, Sent!ledger
  <2>2. /\ Sent!LedgerAssumption /\ Sent!TombstoneLasts
        /\ Sent!IInv /\ Sent!EndedStaysEnded
    BY <1>3 DEF ServerAssumption, ServerInv
  <2>3. QED BY <2>1, <2>2, Sent!StepInv
<1>4. ASSUME server = "received" PROVE Received!IInv' /\ Received!EndedStaysEnded'
  <2>1. [Received!Next]_(Received!vars)
    BY <1>4 DEF ServerNext, serverVars, Received!vars, Received!ledger
  <2>2. /\ Received!LedgerAssumption /\ Received!TombstoneLasts
        /\ Received!IInv /\ Received!EndedStaysEnded
    BY <1>4 DEF ServerAssumption, ServerInv
  <2>3. QED BY <2>1, <2>2, Received!StepInv
<1>5. ASSUME server = "stalled" PROVE Stalled!IInv' /\ Stalled!EndedStaysEnded'
  <2>1. [Stalled!Next]_(Stalled!vars)
    BY <1>5 DEF ServerNext, serverVars, Stalled!vars, Stalled!ledger
  <2>2. /\ Stalled!LedgerAssumption /\ Stalled!TombstoneLasts
        /\ Stalled!IInv /\ Stalled!EndedStaysEnded
    BY <1>5 DEF ServerAssumption, ServerInv
  <2>3. QED BY <2>1, <2>2, Stalled!StepInv
<1>6. ASSUME server = "sessions" PROVE Server!IInv'
  <2>1. [Server!Next]_(Server!vars)
    BY <1>6 DEF ServerNext, serverVars, Server!vars, Server!locals, Server!tables,
                Server!resetVars, Server!history
  <2>2. Server!SessionsAssumption /\ Server!IInv
    BY <1>6 DEF ServerAssumption, ServerInv
  <2>3. QED BY <2>1, <2>2, Server!NextIInv
<1>7. ASSUME server = "presence" PROVE Server!PresenceInv'
  <2>1. [Server!PresenceNext]_(Server!presenceVars)
    BY <1>7 DEF ServerNext, serverVars, Server!presenceVars
  <2>2. Server!PresenceAssumption /\ Server!PresenceInv
    BY <1>7 DEF ServerAssumption, ServerInv
  <2>3. QED BY <2>1, <2>2, Server!PresenceNextInv
<1>8. QED BY <1>1, <1>2, <1>3, <1>4, <1>5, <1>6, <1>7 DEF ServerInv

\* The invariants of the parts are those of the server.
LEMMA ServerInvHolds == ASSUME ServerAssumption PROVE ServerSpec => []ServerInv
<1>1. ServerInit => ServerInv
  BY ServerInvInit
<1>2. ServerInv /\ [ServerNext]_serverVars => ServerInv'
  BY ServerInvNext
<1>3. QED BY <1>1, <1>2, PTL DEF ServerSpec

\* Every part keeps its types, the maps of the cache and of the ledgers their capacities.
THEOREM ServerTypes == ASSUME ServerAssumption PROVE ServerSpec => []ServerTypeOK
<1>1. ServerInv => ServerTypeOK
  BY DEF ServerInv, ServerTypeOK, Server!ReceiptInv, Sent!IInv, Sent!BaseInv, Received!IInv,
         Received!BaseInv, Stalled!IInv, Stalled!BaseInv, Server!IInv, Server!PresenceInv
<1>2. QED BY <1>1, ServerInvHolds, PTL

\* A follower is answered what its leader published, and released when it is done; the cache
\* is within its capacity and holds every delivery in flight whose retention runs on.
THEOREM ServerReceipts == ASSUME ServerAssumption PROVE ServerSpec => []FollowersGetTheAnswer
<1>1. ServerInv => FollowersGetTheAnswer
  BY DEF ServerInv, FollowersGetTheAnswer, Server!ReceiptInv, Server!EntriesOK,
         Server!RequestsOK, Server!WithinCapacity, Server!CapacityAndInFlight,
         Server!FollowersAreReleased, Server!Running
<1>2. QED BY <1>1, ServerInvHolds, PTL

\* A receipt is final, and an event is delivered again only once its record is gone.
THEOREM ServerRedelivery == ASSUME ServerAssumption PROVE ServerSpec => RedeliveryIsExplained
<1>1. ServerInv /\ [ServerNext]_serverVars
        => [server = "cache" => Server!Final /\ Server!Explained]_serverVars
  <2> SUFFICES ASSUME ServerInv, ServerNext, server = "cache"
               PROVE  Server!Final /\ Server!Explained
    OBVIOUS
  <2>1. Server!ReceiptNext /\ Server!ReceiptInv /\ Server!ReceiptAssumption
    BY DEF ServerNext, ServerInv, ServerAssumption
  <2>2. QED BY <2>1, Server!StepFinal, Server!StepExplained
<1>2. QED BY <1>1, ServerInvHolds, PTL DEF ServerSpec, RedeliveryIsExplained

\* On either side of a call, retries are dropped, outdated signals refused, and no refusal is
\* without cause, however late the clock was read.
THEOREM ServerVerdicts == ASSUME ServerAssumption PROVE ServerSpec => []VerdictsAreRight
<1>1. ServerInv => VerdictsAreRight
  BY DEF ServerInv, VerdictsAreRight, Sent!IInv, Received!IInv, Stalled!IInv
<1>2. QED BY <1>1, ServerInvHolds, PTL

\* What was in flight when the end of its call was recorded is not delivered after it.
THEOREM ServerEndedCalls == ASSUME ServerAssumption PROVE ServerSpec => []EndedStaysEnded
<1>1. ServerInv => EndedStaysEnded
  BY DEF ServerInv, EndedStaysEnded
<1>2. QED BY <1>1, ServerInvHolds, PTL

\* A session is bound to the device of its own browser, and goes with it; no session is approved
\* unasked once a device is trusted.
THEOREM ServerSessions == ASSUME ServerAssumption PROVE ServerSpec => []SessionsFollowTheirDevice
<1>1. ServerInv => SessionsFollowTheirDevice
  BY DEF ServerInv, SessionsFollowTheirDevice, Server!IInv, Server!Promises
<1>2. QED BY <1>1, ServerInvHolds, PTL

\* Nobody is announced online who left, or online unannounced, whatever connections come and go.
THEOREM ServerPresence == ASSUME ServerAssumption PROVE ServerSpec => []PresenceIsAnnounced
<1>1. ServerInv => PresenceIsAnnounced
  BY Server!AnnouncedInTheEnd DEF ServerInv, ServerAssumption, PresenceIsAnnounced
<1>2. QED BY <1>1, ServerInvHolds, PTL

-----------------------------------------------------------------------------
(* The page                                                                *)

\* Each part that is proved of keeps its invariant.
PageInv ==
  /\ page = "keys" => Browser!KeysInv
  /\ page = "hub" => Browser!HubInv
  /\ page = "buttons" => Browser!ConfigInv
  /\ page = "media" => Browser!MediaInv
  /\ page = "pins" => Browser!PinsInv
  /\ page = "carnet" => Browser!CarnetInv /\ Browser!CarnetShows
  /\ page = "decrypted" => Conversation!CacheInv /\ Conversation!HeldAreAlive
  /\ page = "account" => Conversation!UnlockInv
  /\ page = "previews" => Browser!FramesInv
  /\ page = "shares" => Conversation!SharesInv /\ Conversation!CountsFit
  /\ page = "composer" => Browser!DraftInv
  /\ page = "folder" => Browser!FolderInv /\ Browser!FolderShows
  /\ page = "board" => Conversation!BoardInv
  /\ page = "sidebar" => Conversation!SidebarInv
  /\ page = "conversation" => Conversation!ConversationInv
  /\ page = "trust" => Browser!TrustInv
  /\ page = "visit" => Browser!SharePageTypeOK

\* Each part starts in it.
LEMMA PageInvInit == ASSUME PageAssumption, PageInit PROVE PageInv
<1> USE DEF PageAssumption
<1>1. page = "keys" => Browser!KeysInv
  BY Browser!KeysInitInv DEF PageInit
<1>2. page = "hub" => Browser!HubInv
  BY Browser!HubInitInv DEF PageInit
<1>3. page = "buttons" => Browser!ConfigInv
  BY Browser!ConfigInitInv DEF PageInit
<1>4. page = "media" => Browser!MediaInv
  BY Browser!MediaInitInv DEF PageInit
<1>5. page = "pins" => Browser!PinsInv
  BY Browser!PinsInitInv DEF PageInit
<1>6. page = "carnet" => Browser!CarnetInv /\ Browser!CarnetShows
  BY Browser!CarnetInitInv, Browser!CarnetShowsInit DEF PageInit
<1>7. page = "decrypted" => Conversation!CacheInv /\ Conversation!HeldAreAlive
  BY Conversation!CacheInitInv, Conversation!HeldInit DEF PageInit
<1>8. page = "account" => Conversation!UnlockInv
  BY Conversation!UnlockInitInv DEF PageInit
<1>9. page = "previews" => Browser!FramesInv
  BY Browser!PassInitInv DEF PageInit
<1>10. page = "shares" => Conversation!SharesInv /\ Conversation!CountsFit
  BY Conversation!SharesInitInv, Conversation!CountsInit DEF PageInit
<1>11. page = "composer" => Browser!DraftInv
  BY Browser!DraftInitInv DEF PageInit
<1>12. page = "folder" => Browser!FolderInv /\ Browser!FolderShows
  BY Browser!FolderInitInv, Browser!FolderShowsInit DEF PageInit
<1>13. page = "board" => Conversation!BoardInv
  BY Conversation!BoardInitInv DEF PageInit
<1>14. page = "sidebar" => Conversation!SidebarInv
  BY Conversation!SidebarInitInv DEF PageInit
<1>15. page = "conversation" => Conversation!ConversationInv
  BY Conversation!ConversationInitInv DEF PageInit
<1>16. page = "trust" => Browser!TrustInv
  BY Browser!TrustInitInv DEF PageInit
<1>17. page = "visit" => Browser!SharePageTypeOK
  BY Browser!VisitInit DEF PageInit
<1>18. QED BY <1>1, <1>2, <1>3, <1>4, <1>5, <1>6, <1>7, <1>8, <1>9, <1>10, <1>11, <1>12, <1>13,
             <1>14, <1>15, <1>16, <1>17 DEF PageInv

\* A step is one of its part.
LEMMA PageSteps ==
  ASSUME [PageNext]_pageVars
  PROVE  /\ page' = page
         /\ page = "keys" => [Browser!KeysNext]_(Browser!keysVars)
         /\ page = "hub" => [Browser!Next]_(Browser!vars)
         /\ page = "buttons" => [Browser!ConfigNext]_(Browser!configVars)
         /\ page = "media" => [Browser!MediaNext]_(Browser!mediaVars)
         /\ page = "pins" => [Browser!PinnedNext]_(Browser!pinnedVars)
         /\ page = "carnet" => [Browser!CarnetNext]_(Browser!carnetVars)
         /\ page = "decrypted" => [Conversation!CacheNext]_(Conversation!cacheVars)
         /\ page = "trust" => [Browser!TrustNext]_(Browser!trustVars)
         /\ page = "visit" => [Browser!SharePageNext]_(Browser!sharePageVars)
         /\ page = "account" => [Conversation!UnlockNext]_(Conversation!unlockVars)
         /\ page = "previews" => [Browser!PassNext]_(Browser!passVars)
         /\ page = "shares" => [Conversation!SharesNext]_(Conversation!sharesVars)
         /\ page = "composer" => [Browser!ComposerNext]_(Browser!composerVars)
         /\ page = "folder" => [Browser!FolderNext]_(Browser!folderVars)
         /\ page = "board" => [Conversation!BoardNext]_(Conversation!boardVars)
         /\ page = "sidebar" => [Conversation!SidebarNext]_(Conversation!sidebarVars)
         /\ page = "conversation" => [Conversation!ConversationNext]_(Conversation!conversationVars)
<1> USE DEF PageNext, pageVars
<1>1. page' = page
  OBVIOUS
<1>2. page = "keys" => [Browser!KeysNext]_(Browser!keysVars)
  BY DEF Browser!keysVars
<1>3. page = "hub" => [Browser!Next]_(Browser!vars)
  BY DEF Browser!vars, Browser!life, Browser!flags, Browser!queues
<1>4. page = "buttons" => [Browser!ConfigNext]_(Browser!configVars)
  BY DEF Browser!configVars
<1>5. page = "media" => [Browser!MediaNext]_(Browser!mediaVars)
  BY DEF Browser!mediaVars
<1>6. page = "pins" => [Browser!PinnedNext]_(Browser!pinnedVars)
  BY DEF Browser!pinnedVars, Browser!panelVars
<1>7. page = "carnet" => [Browser!CarnetNext]_(Browser!carnetVars)
  BY DEF Browser!carnetVars, Browser!serverVars, Browser!pageVars
<1>8. page = "decrypted" => [Conversation!CacheNext]_(Conversation!cacheVars)
  BY DEF Conversation!cacheVars
<1>9. page = "trust" => [Browser!TrustNext]_(Browser!trustVars)
  BY DEF Browser!trustVars
<1>10. page = "visit" => [Browser!SharePageNext]_(Browser!sharePageVars)
  BY DEF Browser!sharePageVars
<1>11. page = "account" => [Conversation!UnlockNext]_(Conversation!unlockVars)
  BY DEF Conversation!unlockVars
<1>12. page = "previews" => [Browser!PassNext]_(Browser!passVars)
  BY DEF Browser!passVars
<1>13. page = "shares" => [Conversation!SharesNext]_(Conversation!sharesVars)
  BY DEF Conversation!sharesVars, Conversation!shareDialogVars
<1>14. page = "composer" => [Browser!ComposerNext]_(Browser!composerVars)
  BY DEF Browser!composerVars, Browser!draftVars
<1>15. page = "folder" => [Browser!FolderNext]_(Browser!folderVars)
  BY DEF Browser!folderVars, Browser!storedVars, Browser!indexVars, Browser!dialogVars,
         Browser!countVars
<1>16. page = "board" => [Conversation!BoardNext]_(Conversation!boardVars)
  BY DEF Conversation!boardVars
<1>17. page = "sidebar" => [Conversation!SidebarNext]_(Conversation!sidebarVars)
  BY DEF Conversation!sidebarVars
<1>18. page = "conversation" => [Conversation!ConversationNext]_(Conversation!conversationVars)
  BY DEF Conversation!conversationVars, Conversation!serverVars, Conversation!listVars
<1>19. QED BY <1>1, <1>2, <1>3, <1>4, <1>5, <1>6, <1>7, <1>8, <1>9, <1>10, <1>11, <1>12, <1>13,
             <1>14, <1>15, <1>16, <1>17, <1>18

\* Every step keeps it.
LEMMA PageInvNext == ASSUME PageAssumption, PageInv, [PageNext]_pageVars PROVE PageInv'
<1> USE PageSteps DEF PageAssumption, PageInv
<1>1. page = "keys" => Browser!KeysInv'
  BY Browser!KeysNextInv
<1>2. page = "hub" => Browser!HubInv'
  BY Browser!HubNextInv
<1>3. page = "buttons" => Browser!ConfigInv'
  BY Browser!ConfigNextInv
<1>4. page = "media" => Browser!MediaInv'
  BY Browser!MediaNextInv
<1>5. page = "pins" => Browser!PinsInv'
  BY Browser!PinsNextInv
<1>6. page = "carnet" => Browser!CarnetInv' /\ Browser!CarnetShows'
  BY Browser!CarnetNextInv, Browser!CarnetShowsNext
<1>7. page = "decrypted" => Conversation!CacheInv' /\ Conversation!HeldAreAlive'
  BY Conversation!CacheNextInv, Conversation!HeldNext
<1>8. page = "account" => Conversation!UnlockInv'
  BY Conversation!UnlockNextInv
<1>9. page = "previews" => Browser!FramesInv'
  BY Browser!PassNextInv
<1>10. page = "shares" => Conversation!SharesInv' /\ Conversation!CountsFit'
  BY Conversation!SharesNextInv, Conversation!CountsNext
<1>11. page = "composer" => Browser!DraftInv'
  BY Browser!DraftNextInv
<1>12. page = "folder" => Browser!FolderInv' /\ Browser!FolderShows'
  BY Browser!FolderNextInv, Browser!FolderShowsNext
<1>13. page = "board" => Conversation!BoardInv'
  BY Conversation!BoardNextInv
<1>14. page = "sidebar" => Conversation!SidebarInv'
  BY Conversation!SidebarNextInv
<1>15. page = "conversation" => Conversation!ConversationInv'
  BY Conversation!ConversationNextInv
<1>16. page = "trust" => Browser!TrustInv'
  BY Browser!TrustNextInv
<1>17. page = "visit" => Browser!SharePageTypeOK'
  BY Browser!VisitNext
<1>18. QED BY <1>1, <1>2, <1>3, <1>4, <1>5, <1>6, <1>7, <1>8, <1>9, <1>10, <1>11, <1>12, <1>13,
             <1>14, <1>15, <1>16, <1>17

\* The invariants of the parts are those of the page.
LEMMA PageInvHolds == ASSUME PageAssumption PROVE PageSpec => []PageInv
<1>1. PageInit => PageInv
  BY PageInvInit
<1>2. PageInv /\ [PageNext]_pageVars => PageInv'
  BY PageInvNext
<1>3. QED BY <1>1, <1>2, PTL DEF PageSpec

\* Every part of the page keeps its types.
THEOREM PageTypes == ASSUME PageAssumption PROVE PageSpec => []PageTypeOK
<1>1. PageInv => PageTypeOK
  <2> SUFFICES ASSUME PageInv PROVE PageTypeOK
    OBVIOUS
  <2> USE DEF PageInv, PageAssumption
  <2>1. /\ page = "conversation" => Conversation!ConversationTypeOK
        /\ page = "shares" => Conversation!SharesTypeOK
        /\ page = "sidebar" => Conversation!SidebarTypeOK
        /\ page = "decrypted" => Conversation!CacheTypeOK
        /\ page = "board" => Conversation!BoardTypeOK
        /\ page = "account" => Conversation!UnlockTypeOK
    BY Conversation!ConversationFollows, Conversation!SharesFollow, Conversation!SidebarInvShows,
       Conversation!CacheFollows, Conversation!BoardFollows DEF Conversation!UnlockInv
  <2>2. /\ page = "folder" => Browser!FolderTypeOK
        /\ page = "carnet" => Browser!CarnetTypeOK
        /\ page = "pins" => Browser!PinnedTypeOK
        /\ page = "composer" => Browser!ComposerTypeOK
        /\ page = "trust" => Browser!TrustTypeOK
        /\ page = "keys" => Browser!KeysTypeOK
    BY Browser!FolderFollows, Browser!CarnetFollows, Browser!PinsFollow, Browser!DraftFollows,
       Browser!TrustFollows, Browser!KeysFollow
  <2>3. /\ page = "previews" => Browser!PassTypeOK
        /\ page = "media" => Browser!MediaTypeOK
        /\ page = "buttons" => Browser!ConfigTypeOK
        /\ page = "hub" => Browser!TypeOK
        /\ page = "visit" => Browser!SharePageTypeOK
    BY Browser!PassFollows, Browser!MediaFollows, Browser!ConfigFollows
       DEF Browser!HubInv
  <2>4. QED BY <2>1, <2>2, <2>3 DEF PageTypeOK
<1>2. QED BY <1>1, PageInvHolds, PTL

\* Whatever answers come late, the rows are those of the selected conversation, the copies that
\* may be shown without a request miss nothing the page was told of, and the composer is open
\* to checked members only.
THEOREM PageConversation == ASSUME PageAssumption PROVE PageSpec => []ConversationIsTheSelected
<1>1. PageInv => ConversationIsTheSelected
  BY Conversation!ConversationFollows DEF PageInv, ConversationIsTheSelected
<1>2. QED BY <1>1, PageInvHolds, PTL

\* The key a page files under an epoch is the key of that epoch for everyone.
THEOREM PageKeys == ASSUME PageAssumption PROVE PageSpec => []KeysAreOfTheirEpoch
<1>1. PageInv => KeysAreOfTheirEpoch
  BY DEF PageInv, KeysAreOfTheirEpoch, Browser!KeysInv
<1>2. QED BY <1>1, PageInvHolds, PTL

\* No event is sent on closed queues, and what a connection missed makes it ask for everything.
THEOREM PageEvents == ASSUME PageAssumption PROVE PageSpec => []NoEventIsLostInSilence
<1>1. PageInv => NoEventIsLostInSilence
  BY Browser!HubFollows DEF PageInv, NoEventIsLostInSilence
<1>2. QED BY <1>1, PageInvHolds, PTL

\* Windows that open an account of the first format at once agree on its signing identity.
THEOREM PageIdentities == ASSUME PageAssumption PROVE PageSpec => []OneSigningIdentity
<1>1. PageInv => OneSigningIdentity
  BY DEF PageInv, OneSigningIdentity, Conversation!UnlockInv
<1>2. QED BY <1>1, PageInvHolds, PTL

\* A file that is decrypted is forgotten with its conversation, and every frame on screen is
\* filled, being filled or watched when no reload decrypts, but for those that joined the drawing
\* of an older list or that a reload dropped before it failed.
THEOREM PagePreviews == ASSUME PageAssumption PROVE PageSpec => []PreviewsAreKept
<1>1. PageInv => PreviewsAreKept
  BY DEF PageInv, PreviewsAreKept, Browser!FramesInv, Conversation!CacheInv
<1>2. QED BY <1>1, PageInvHolds, PTL

\* A file that is chosen (not a voice message, which follows its user to the next conversation) is
\* posted and offered in its own conversation only, and is in the composer, being sent or posted
\* until its user takes it away.
THEOREM PageFiles == ASSUME PageAssumption PROVE PageSpec => []FilesStayInTheirConversation
<1>1. PageInv => FilesStayInTheirConversation
  BY Browser!DraftFollows DEF PageInv, FilesStayInTheirConversation
<1>2. QED BY <1>1, PageInvHolds, PTL

\* The index of the folder, when no event is on its way, is what the server has, and the links
\* that are listed exist and are those of the file of the dialog.
THEOREM PageFolder == ASSUME PageAssumption PROVE PageSpec => []FilesAreTheServers
<1>1. PageInv => FilesAreTheServers
  BY DEF PageInv, FilesAreTheServers, Browser!FolderInv, Conversation!SharesInv, Conversation!LinksAreKnown,
     Conversation!LinksExist
<1>2. QED BY <1>1, PageInvHolds, PTL

\* What is drawn on a whiteboard and not taken back is on every board once all have heard each
\* other, and the last render of the list of conversations leaves what the page holds on screen.
THEOREM PageDrawings == ASSUME PageAssumption PROVE PageSpec => []DrawnIsCurrent
<1>1. PageInv => DrawnIsCurrent
  BY Conversation!BoardFollows, Conversation!SidebarInvShows DEF PageInv, PageAssumption, DrawnIsCurrent
<1>2. QED BY <1>1, PageInvHolds, PTL

\* A screen is captured only for a call that was not ended and says it shares it (the screen of a
\* call that another one replaced stays captured), and calls are offered on answers.
THEOREM PageCalls == ASSUME PageAssumption PROVE PageSpec => []CallControlsAreTrue
<1>1. PageInv => CallControlsAreTrue
  BY DEF PageInv, CallControlsAreTrue, Browser!MediaInv, Browser!ConfigInv
<1>2. QED BY <1>1, PageInvHolds, PTL

\* The panel opens as it was asked, answers that compare the versions bring nobody back who was
\* deleted, and a click comes before the download the page starts by itself.
THEOREM PageClicks == ASSUME PageAssumption PROVE PageSpec => ClicksAreObeyed
<1>1. ASSUME PageInv, [PageNext]_pageVars
      PROVE  [/\ page = "carnet" => Browser!StaysAway
              /\ page = "pins" => Browser!AsAsked
              /\ page = "visit" => Browser!ClickFirst]_pageVars
  <2> SUFFICES ASSUME PageNext
               PROVE  /\ page = "carnet" => Browser!StaysAway
                      /\ page = "pins" => Browser!AsAsked
                      /\ page = "visit" => Browser!ClickFirst
    BY <1>1
  <2>1. page = "carnet" => Browser!StaysAway
    BY <1>1, PageSteps, Browser!CarnetStep DEF PageInv
  <2>2. page = "pins" => Browser!AsAsked
    BY <1>1, PageSteps, Browser!PinsStep DEF PageInv, PageAssumption
  <2>3. page = "visit" => Browser!ClickFirst
    BY Browser!VisitStep DEF PageNext
  <2>4. QED BY <2>1, <2>2, <2>3
<1>2. QED BY <1>1, PageInvHolds, PTL DEF PageSpec, ClicksAreObeyed

\* In a browser with one tab, the recorded keys of a correspondent change with the user's consent.
THEOREM PageConsent == ASSUME PageAssumption, Browser!OneTab PROVE PageSpec => ChangesNeedConsent
<1> DEFINE Inv == page = "trust" => Browser!RecordIsStored
<1>1. PageInit => Inv
  BY DEF PageInit, Browser!TrustInit, Browser!RecordIsStored
<1>2. ASSUME PageInv, Inv, [PageNext]_pageVars PROVE Inv'
  BY <1>2, PageSteps, Browser!RecordStays DEF PageInv, PageAssumption
<1>3. ASSUME PageInv, Inv, [PageNext]_pageVars PROVE [page = "trust" => Browser!Consented]_pageVars
  BY <1>3, PageSteps, Browser!TrustStep DEF PageInv, PageAssumption
<1> HIDE DEF Inv
<1>4. QED BY <1>1, <1>2, <1>3, PageInvHolds, PTL DEF PageSpec, ChangesNeedConsent

-----------------------------------------------------------------------------
(* The start, the thumbnails, the sign-in and the calls                    *)

\* Each of these parts keeps its invariant.
LiveInv ==
  /\ mode = "start" => Part!StartInv
  /\ mode = "preload" => Part!PreloadInv
  /\ mode = "login" => Part!SignInInv
  /\ mode = "calls" => Part!CallsInv

\* Each part starts in it.
LEMMA LiveInvInit == ASSUME LiveAssumptions, LiveInit PROVE LiveInv
<1>1. mode = "start" => Part!StartInv
  BY Part!StartInitInv DEF LiveInit, LiveAssumptions
<1>2. mode = "preload" => Part!PreloadInv
  BY Part!PreloadInitInv DEF LiveInit, LiveAssumptions
<1>3. mode = "login" => Part!SignInInv
  BY Part!SignInInitInv DEF LiveInit, LiveAssumptions
<1>4. mode = "calls" => Part!CallsInv
  BY Part!CallsInitInv DEF LiveInit, LiveAssumptions
<1>5. QED BY <1>1, <1>2, <1>3, <1>4 DEF LiveInv

\* A step is one of its part.
LEMMA LiveSteps ==
  ASSUME [LiveNext]_liveVars
  PROVE  /\ mode' = mode
         /\ mode = "start" => [Part!StartupNext]_(Part!startupVars)
         /\ mode = "preload" => [Part!PreloadNext]_(Part!preloadVars)
         /\ mode = "login" => [Part!SignInNext]_(Part!signInVars)
         /\ mode = "calls" => [Part!CallPageNext]_(Part!callPageVars)
<1> USE DEF LiveNext, liveVars
<1>1. mode' = mode
  OBVIOUS
<1>2. mode = "start" => [Part!StartupNext]_(Part!startupVars)
  BY DEF Part!startupVars
<1>3. mode = "preload" => [Part!PreloadNext]_(Part!preloadVars)
  BY DEF Part!preloadVars
<1>4. mode = "login" => [Part!SignInNext]_(Part!signInVars)
  BY DEF Part!signInVars, Part!waits
<1>5. mode = "calls" => [Part!CallPageNext]_(Part!callPageVars)
  BY DEF Part!callPageVars
<1>6. QED BY <1>1, <1>2, <1>3, <1>4, <1>5

\* Every step keeps it.
LEMMA LiveInvNext == ASSUME LiveAssumptions, LiveInv, [LiveNext]_liveVars PROVE LiveInv'
<1> USE LiveSteps DEF LiveAssumptions, LiveInv
<1>1. mode = "start" => Part!StartInv'
  BY Part!StartNextInv
<1>2. mode = "preload" => Part!PreloadInv'
  BY Part!PreloadNextInv
<1>3. mode = "login" => Part!SignInInv'
  BY Part!SignInNextInv
<1>4. mode = "calls" => Part!CallsInv'
  BY Part!CallsNextInv
<1>5. QED BY <1>1, <1>2, <1>3, <1>4

\* It holds whatever the parts do; no fairness is needed for it.
LEMMA LiveInvHolds == ASSUME LiveAssumptions PROVE LiveSpec => []LiveInv
<1>1. LiveInit => LiveInv
  BY LiveInvInit
<1>2. LiveInv /\ [LiveNext]_liveVars => LiveInv'
  BY LiveInvNext
<1>3. QED BY <1>1, <1>2, PTL DEF LiveSpec

\* The parts keep their types.
THEOREM LiveTypes == ASSUME LiveAssumptions PROVE LiveSpec => []LiveTypeOK
<1>1. LiveInv => LiveTypeOK
  BY Part!StartInvConnects, Part!PreloadInvKeepsLimits, Part!SignInInvIsTyped,
     Part!CallsInvIsTyped DEF LiveInv, LiveTypeOK, LiveAssumptions
<1>2. QED BY <1>1, LiveInvHolds, PTL

\* The page holds the only connection that lives, and what was missed while a page that was ready
\* had none is asked for, for any number of failures, breaks and returns from the background.
THEOREM LiveStart == ASSUME LiveAssumptions PROVE LiveSpec => []StartMissesNothing
<1>1. LiveInv => StartMissesNothing
  BY Part!StartInvConnects DEF LiveInv, StartMissesNothing, LiveAssumptions
<1>2. QED BY <1>1, LiveInvHolds, PTL

\* However tasks and sessions overlap, no session spends more than its budget, no file is asked
\* for twice at a time and no more tasks run than allowed.
THEOREM LivePreloads == ASSUME LiveAssumptions PROVE LiveSpec => []PreloadsKeepTheirLimits
<1>1. LiveInv => PreloadsKeepTheirLimits
  BY Part!PreloadInvKeepsLimits DEF LiveInv, PreloadsKeepTheirLimits, LiveAssumptions
<1>2. QED BY <1>1, LiveInvHolds, PTL

\* Whenever the form of the sign-in page cannot be submitted, something is under way that gives
\* its button back or leaves the page.
THEOREM LiveSignIn == ASSUME LiveAssumptions PROVE LiveSpec => []ButtonIsGivenBack
<1>1. LiveInv => ButtonIsGivenBack
  BY DEF LiveInv, ButtonIsGivenBack, Part!SignInInv
<1>2. QED BY <1>1, LiveInvHolds, PTL

\* A timer, a failed signal or a lost socket ends only the call it belongs to, for any calls, members
\* and signals, though tasks resume on whatever call the page then has. The connections of a call
\* that was replaced are excepted: they do end the new call when they fail.
THEOREM LiveCalls == ASSUME LiveAssumptions PROVE LiveSpec => []CallsEndForTheirOwnReasons
<1>1. LiveInv => CallsEndForTheirOwnReasons
  BY DEF LiveInv, CallsEndForTheirOwnReasons, Part!CallsInv
<1>2. QED BY <1>1, LiveInvHolds, PTL
=============================================================================
