------------------------------- MODULE SharePage -------------------------------
(***************************************************************************)
(* The public page of a link to a file (share.js): it prepares the file      *)
(* while it asks who the visitor is, and downloads it by itself a moment     *)
(* after it recognised a session, unless the visitor clicked before. The     *)
(* link may be revoked at any time.                                          *)
(***************************************************************************)
EXTENDS Naturals

CONSTANTS
  MaxClicks, \* bound: clicks on the button
  MaxFaults  \* bound: requests that fail while the link is active

SharePageAssumption == MaxClicks \in Nat /\ MaxFaults \in Nat

VARIABLES
  active,      \* the link is neither revoked nor expired
  preparation, \* sharePreparation: asked, ready, failed
  session,     \* the answer to /api/me: asked, known, unknown
  greeted,     \* init went on after both
  timer,       \* automaticDownloadTimer
  requests,    \* requestSharedFileDownload, awaiting sharePreparation: the manual, the automatic one
  manual,      \* manualDownloadRequested
  downloading, \* the download under way: none, manual, automatic
  shown,       \* what the page tells
  disabled,    \* the button
  clicks, faults

sharePageVars == <<active, preparation, session, greeted, timer, requests, manual, downloading,
                   shown, disabled, clicks, faults>>

SharePageInit ==
  /\ active \in BOOLEAN
  /\ preparation = "asked" /\ session = "asked" /\ greeted = FALSE /\ timer = FALSE
  /\ requests = {} /\ manual = FALSE /\ downloading = "none"
  /\ shown = "nothing" /\ disabled = FALSE /\ clicks = 0 /\ faults = 0

Revoked ==
  /\ active /\ active' = FALSE
  /\ UNCHANGED <<preparation, session, greeted, timer, requests, manual, downloading, shown, disabled,
                 clicks, faults>>

\* A request fails: the link is not active any more, or for want of an answer.
Fault ==
  \/ ~active /\ UNCHANGED faults
  \/ active /\ faults < MaxFaults /\ faults' = faults + 1

\* prepareSharedFile; a failure ends init, which tells it.
Prepared ==
  /\ preparation = "asked"
  /\ \/ /\ active /\ preparation' = "ready"
        /\ UNCHANGED <<shown, disabled, faults>>
     \/ /\ Fault /\ preparation' = "failed"
        /\ shown' = "error" /\ disabled' = TRUE
  /\ UNCHANGED <<active, session, greeted, timer, requests, manual, downloading, clicks>>

SessionAnswers ==
  /\ session = "asked"
  /\ session' \in {"known", "unknown"}
  /\ UNCHANGED <<active, preparation, greeted, timer, requests, manual, downloading, shown, disabled,
                 clicks, faults>>

\* init, once the file is ready and the session answered.
Greet ==
  /\ preparation = "ready" /\ session # "asked" /\ ~greeted
  /\ greeted' = TRUE
  /\ IF session = "known" /\ ~manual THEN timer' = TRUE /\ shown' = "announced" ELSE UNCHANGED <<timer, shown>>
  /\ UNCHANGED <<active, preparation, session, requests, manual, downloading, disabled, clicks, faults>>

Fires ==
  /\ timer
  /\ timer' = FALSE
  /\ requests' = IF manual THEN requests ELSE requests \cup {"automatic"}
  /\ UNCHANGED <<active, preparation, session, greeted, manual, downloading, shown, disabled, clicks, faults>>

Click ==
  /\ clicks < MaxClicks /\ ~disabled
  /\ clicks' = clicks + 1
  /\ manual' = TRUE /\ timer' = FALSE
  /\ shown' = "preparing"
  /\ requests' = requests \cup {"manual"}
  /\ UNCHANGED <<active, preparation, session, greeted, downloading, disabled, faults>>

Overtaken(r) == r = "automatic" /\ manual

\* requestSharedFileDownload after its await, and downloadSharedFile up to its own.  Clicks that
\* wait for the same preparation go on together: the first downloads, the others find it.
Requested(r) ==
  /\ preparation # "asked"
  /\ requests' = requests \ {r}
  /\ IF preparation = "failed" \/ Overtaken(r) \/ downloading # "none"
       THEN UNCHANGED <<downloading, shown, disabled>>
       ELSE downloading' = r /\ shown' = "preparing" /\ disabled' = TRUE
  /\ UNCHANGED <<active, preparation, session, greeted, timer, manual, clicks, faults>>

Downloaded ==
  /\ downloading # "none"
  /\ downloading' = "none" /\ disabled' = FALSE
  /\ \/ active /\ shown' = "started" /\ UNCHANGED faults
     \/ Fault /\ shown' = "error"
  /\ UNCHANGED <<active, preparation, session, greeted, timer, requests, manual, clicks>>

SharePageNext ==
  \/ Revoked \/ Prepared \/ SessionAnswers \/ Greet \/ Fires \/ Click \/ Downloaded
  \/ \E r \in requests : Requested(r)

\* The requests are answered or fail, and a promise that settled resumes its task.
AnyRequested == \E r \in requests : Requested(r)

SharePageFairness ==
  /\ WF_sharePageVars(Prepared) /\ WF_sharePageVars(Downloaded)
  /\ WF_sharePageVars(AnyRequested)

SharePageSpec == SharePageInit /\ [][SharePageNext]_sharePageVars /\ SharePageFairness

-----------------------------------------------------------------------------
(* Properties                                                              *)

SharePageTypeOK ==
  /\ requests \subseteq {"manual", "automatic"}
  /\ downloading \in {"none", "manual", "automatic"}
  /\ shown \in {"nothing", "announced", "preparing", "started", "error"}
  /\ timer => greeted /\ preparation = "ready"

\* Once the visitor clicked, the page starts no download of its own.
ClickFirst == manual /\ downloading = "none" => downloading' # "automatic"
ClicksComeFirst == [][ClickFirst]_sharePageVars

\* A click is answered: the page does not stay at "Preparation du telechargement".
BeingPrepared == shown = "preparing"
ClicksAreAnswered == BeingPrepared ~> ~BeingPrepared
=============================================================================
