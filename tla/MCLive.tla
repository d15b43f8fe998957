------------------------------- MODULE MCLive -------------------------------
(* What must happen in the end, part by part: a behaviour is one of a single  *)
(* part, named by mode, and x1, x2, ... are the variables of that part.       *)
(* The module of the proofs is instantiated, so that what it says of the      *)
(* parts can be said of the whole (SystemProofs).                             *)
EXTENDS Naturals, Sequences
\* The constants of each part.
CONSTANTS
  Own, Incoming, Users, Members, CallerOf, Group, Initiates, Silence, MaxSignals, MaxDrops,
  Slots, MaxNews, MaxBootErrors, MaxBreaks, MaxHides,
  Pictures, SizeOf, Largest, PicturePages, Refreshes, Budget, Concurrency, MaxTasks,
  MaxSubmits, MaxFlowFaults
CONSTANT viewer     \* the connection to the hub
VARIABLES mode, x1, x2, x3, x4, x5, x6, x7, x8, x9, x10, x11, x12
liveVars == <<mode, x1, x2, x3, x4, x5, x6, x7, x8, x9, x10, x11, x12>>

Part == INSTANCE LiveProofs WITH
  Own <- Own, Incoming <- Incoming, Users <- Users,
  Members <- Members, CallerOf <- CallerOf, Group <- Group,
  Initiates <- Initiates, None <- Silence, MaxSignals <- MaxSignals,
  MaxDrops <- MaxDrops, call <- x1, info <- x2, ready <- x3, open <- x4,
  fullscreen <- x5, tasks <- x6, ended <- x7, invited <- x8, signals <- x9, strays <- x10,
  drops <- x11,
  Slots <- Slots, MaxChanges <- MaxNews, MaxErrors <- MaxBootErrors,
  MaxBreaks <- MaxBreaks, MaxHides <- MaxHides, boot <- x1, done <- x2,
  retryTimer <- x3, cached <- x4, chat <- x5, socket <- x6, dot <- x7, screen <- x8,
  version <- x9, askedAt <- x10, spent <- x11,
  Files <- Pictures, Size <- SizeOf, Largest <- Largest,
  Pages <- PicturePages, Sessions <- Refreshes, Budget <- Budget,
  Concurrency <- Concurrency, MaxTasks <- MaxTasks, waiting <- x1,
  running <- x2, loading <- x3, kept <- x4, remaining <- x5, fetched <- x6, asked <- x7,
  MaxSubmits <- MaxSubmits, MaxFaults <- MaxFlowFaults, session <- x1,
  accepted <- x2, flow <- x3, poll <- x4, dialog <- x5, cancelling <- x6, asking <- x7,
  disabled <- x8, refused <- x9, left <- x10, submits <- x11, faults <- x12
Socket == INSTANCE Hub WITH
  Conn <- {viewer}, User <- {viewer}, UserOf <- [c \in {viewer} |-> viewer], QueueSize <- 2,
  EphemeralLimit <- 1, CallQueueSize <- 1, clients <- x1, pc <- x2, writer <- x3, open <- x4,
  queue <- x5, callQueue <- x6, closed <- x7, kick <- x8, done <- x9, resync <- x10,
  missed <- x11, kicking <- x12
Visit == INSTANCE SharePage WITH
  MaxClicks <- 2, MaxFaults <- 1, active <- x1, preparation <- x2, session <- x3,
  greeted <- x4, timer <- x5, requests <- x6, manual <- x7, downloading <- x8, shown <- x9,
  disabled <- x10, clicks <- x11, faults <- x12

Rest8 == <<x8, x9, x10, x11, x12>>
Rest12 == <<x12>>

LiveInit ==
  \/ /\ mode = "calls" /\ Part!CallPageInit
     /\ x12 = 0
  \/ /\ mode = "start" /\ Part!StartupInit
     /\ x12 = 0
  \/ /\ mode = "preload" /\ Part!PreloadInit
     /\ x8 = 0 /\ x9 = 0 /\ x10 = 0 /\ x11 = 0 /\ x12 = 0
  \/ mode = "login" /\ Part!SignInInit
  \/ mode = "socket" /\ Socket!Init
  \/ mode = "share" /\ Visit!SharePageInit

LiveNext ==
  \/ mode = "calls" /\ Part!CallPageNext /\ UNCHANGED <<mode, Rest12>>
  \/ mode = "start" /\ Part!StartupNext /\ UNCHANGED <<mode, Rest12>>
  \/ mode = "preload" /\ Part!PreloadNext /\ UNCHANGED <<mode, Rest8>>
  \/ mode = "login" /\ Part!SignInNext /\ UNCHANGED mode
  \/ mode = "socket" /\ Socket!Next /\ UNCHANGED mode
  \/ mode = "share" /\ Visit!SharePageNext /\ UNCHANGED mode

LiveFairness ==
  /\ \A c \in Own \cup Incoming : WF_(Part!callPageVars)(mode = "calls" /\ Part!InviteTimeout(c))
  /\ WF_(Part!callPageVars)(mode = "calls" /\ Part!AnyFullscreenLeft)
  /\ WF_(Part!startupVars)(mode = "start" /\ Part!Began)
  /\ WF_(Part!startupVars)(mode = "start" /\ Part!BootTimer)
  /\ WF_(Part!startupVars)(mode = "start" /\ Part!Step)
  /\ WF_(Part!startupVars)(mode = "start" /\ Part!ConnectSocket)
  /\ WF_(Part!startupVars)(mode = "start" /\ Part!AskList)
  /\ WF_(Part!startupVars)(mode = "start" /\ Part!ListAnswered)
  /\ WF_(Part!startupVars)(mode = "start" /\ Part!ReconnectTimer)
  /\ WF_(Part!startupVars)(mode = "start" /\ Part!ReturnFromHistory)
  /\ \A s \in Slots : WF_(Part!startupVars)(mode = "start" /\ Part!AcceptSocket(s))
  /\ \A s \in Slots : WF_(Part!startupVars)(mode = "start" /\ Part!Opened(s))
  /\ \A s \in Slots : WF_(Part!startupVars)(mode = "start" /\ Part!Closing(s))
  /\ WF_(Part!preloadVars)(mode = "preload" /\ Part!TaskProgress)
  /\ \A id \in 1..2 * MaxSubmits + 2 : WF_(Part!signInVars)(mode = "login" /\ Part!FlowProgress(id))
  /\ WF_(Part!signInVars)(mode = "login" /\ Part!TermsAnswered)
  /\ WF_(Part!signInVars)(mode = "login" /\ Part!CancelServed)
  /\ WF_(Part!signInVars)(mode = "login" /\ Part!Cancelled)
  /\ WF_(Part!signInVars)(mode = "login" /\ Part!TermsDecided)
  /\ WF_(Visit!sharePageVars)(mode = "share" /\ Visit!Prepared)
  /\ WF_(Visit!sharePageVars)(mode = "share" /\ Visit!Downloaded)
  /\ WF_(Visit!sharePageVars)(mode = "share" /\ Visit!AnyRequested)
  /\ WF_(Socket!vars)(mode = "socket" /\ Socket!Handler(viewer))
  /\ WF_(Socket!vars)(mode = "socket" /\ Socket!Deadline(viewer))
  /\ WF_(Socket!vars)(mode = "socket" /\ Socket!Kick(viewer))
  /\ SF_(Socket!vars)(mode = "socket" /\ Socket!WriteClose(viewer))

LiveSpec == LiveInit /\ [][LiveNext]_liveVars /\ LiveFairness

-----------------------------------------------------------------------------
ASSUME LiveAssumptions ==
  /\ Part!CallPageAssumption /\ Part!StartupBounds /\ Part!PreloadBounds
  /\ Part!SignInBounds /\ Visit!SharePageAssumption /\ Socket!HubAssumption

\* The type invariant of the part; that of the hub and of the page of a link is checked with the
\* other parts of the page (MCPage).
LiveTypeOK ==
  /\ mode = "calls" => Part!CallPageTypeOK
  /\ mode = "start" => Part!StartupTypeOK
  /\ mode = "preload" => Part!PreloadTypeOK
  /\ mode = "login" => Part!SignInTypeOK

\* A timer of a call, the failure of one of its signals, or the loss of the socket it noticed ends
\* the call it belongs to, never the one that replaced it (app.js, the call handlers). A connection
\* of a call that was replaced is excepted: when it fails, it may end the new call.
CallsEndForTheirOwnReasons == mode = "calls" => Part!CallsEndForTheirOwnReasons

\* call-negotiation.js:331: "A call that ended stays ended."
EndedCallsStayEnded == mode = "calls" => Part!EndedCallsStayEnded

\* One connection at a time; and a page that was ready when its socket opened has asked for its
\* list since every change that socket did not announce (app.js, connectSocket and the foreground
\* handlers). What was missed by a socket that opened during the first start is not covered: the
\* code does not ask for it again.
StartMissesNothing == mode = "start" => Part!OneConnection /\ Part!MissedIsAskedFor

\* The thumbnails loaded ahead keep to their budget and to their number.
PreloadsKeepTheirLimits == mode = "preload" => Part!PreloadsKeepTheirLimits

\* The user who cannot submit the form of the login page is being served.
ButtonIsGivenBack == mode = "login" => Part!ButtonIsGivenBack

\* No call rings for ever, neither here nor for the person who calls.
NobodyRingsForEver ==
  \A c \in Own \cup Incoming : (mode = "calls" /\ Part!Ringing(c)) ~> (mode = "calls" /\ ~Part!Ringing(c))

\* What was begun comes to its end: the page is started and its socket open, the queue of thumbnails
\* drains, an approval is noticed, a click on a shared file is answered, and a connection asked
\* to close leaves the hub.
Begun ==
  \/ mode = "login" /\ Part!ApprovedAlone
  \/ mode = "share" /\ Visit!BeingPrepared
  \/ mode = "socket" /\ Socket!AskedToClose(viewer)
Answered ==
  \/ mode = "login" /\ Part!Noticed
  \/ mode = "share" /\ ~Visit!BeingPrepared
  \/ mode = "socket" /\ Socket!Gone(viewer)

EverythingEnds ==
  /\ <>[](/\ mode = "start" => Part!StartedOrGone
          /\ mode = "preload" => Part!Drained)
  /\ Begun ~> Answered

-----------------------------------------------------------------------------
(* A small instance for TLC                                                *)
CONSTANTS mine, theirs, hers, amy, bill, g1, g2, g3
SmallMembers == [c \in {mine, theirs, hers} |-> IF c = theirs THEN {amy, bill} ELSE {amy}]
SmallCallers == [c \in {theirs, hers} |-> IF c = theirs THEN bill ELSE amy]
SmallSizes == [f \in {g1, g2, g3} |-> IF f = g3 THEN 1 ELSE 2]
SmallPages == {<<g1, g2>>, <<g2, g3, g1>>, <<g3>>}
=============================================================================
