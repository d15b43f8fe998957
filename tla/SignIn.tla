-------------------------------- MODULE SignIn --------------------------------
(***************************************************************************)
(* The sign-in page (web/js/login.js): the forms to sign in and to          *)
(* register, the proof of a device the account trusts, the wait for the     *)
(* approval of a device it does not, the terms of use, and what a page that *)
(* is loaded finds of an earlier visit.  A click starts a function that     *)
(* waits for answers while the user may click again; a poll that waits for  *)
(* its answer is not stopped by clearTimeout.                               *)
(***************************************************************************)
EXTENDS Naturals

CONSTANTS
    MaxSubmits, \* bound: submissions of the forms
    MaxFaults   \* bound: requests that fail

SignInBounds == {MaxSubmits, MaxFaults} \subseteq Nat

VARIABLES
    session,    \* this browser's session at the server
    accepted,   \* the account accepted the terms
    flow,       \* the functions under way: submissions, polls, the start of the page
    poll,       \* sessionApprovalPoll: the poll whose timer it names
    dialog,     \* the approval dialog is open
    cancelling, \* the click on its button: "no", "sent" or "served"
    asking,     \* termsAcceptancePromise: "none", "request" or "dialog"
    disabled,   \* the forms whose button is disabled
    refused,    \* the terms were refused after an approval
    left,       \* the page leaves for the application
    submits, faults

waits == <<poll, dialog, cancelling>>
signInVars ==
    <<session, accepted, flow, waits, asking, disabled, refused, left, submits, faults>>

NoPoll == 0
Flow(id, kind, step) == [id |-> id, kind |-> kind, step |-> step, saw |-> "none"]
Goes(f, step) == flow' = (flow \ {f}) \cup {[f EXCEPT !.step = step]}
Ends(f) == flow' = flow \ {f}
Fault == faults < MaxFaults /\ faults' = faults + 1

KeepDisabled(form) == UNCHANGED disabled      \* mutant: an error keeps the button
GiveBack(form) == disabled' = disabled \ {form}

-----------------------------------------------------------------------------
(* The forms.  An open dialog covers them. *)
Covered == dialog \/ asking = "dialog" \/ \E f \in flow : f.step = "code"

Submit(kind, form) ==
    /\ ~left /\ form \notin disabled /\ ~Covered
    /\ submits < MaxSubmits /\ submits' = submits + 1
    /\ disabled' = disabled \cup {form}
    /\ flow' = flow \cup {Flow(2 * submits + 1, kind, "login")}
    /\ UNCHANGED <<session, accepted, waits, asking, refused, left, faults>>

(* showSessionApproval: the poll before is stopped, another begins. *)
Stopped(flows) == {g \in flows : ~(g.id = poll /\ g.step = "timer")}
ShowApproval(f) ==
    LET new == Flow(f.id + 1, "poll", "timer") IN
    /\ flow' = Stopped(flow \ {f}) \cup {new}
    /\ poll' = new.id
    /\ dialog' = TRUE

(* POST /api/login: a session, to be approved unless the device is trusted.  A *)
(* cancellation still on its way names the session before. *)
Replaced == cancelling' = IF cancelling = "sent" THEN "served" ELSE cancelling

LoggedIn(f) ==
    /\ f.step = "login" /\ f.kind = "submit"
    /\ Replaced
    /\ \/ session' = "approved" /\ Goes(f, "terms") /\ UNCHANGED <<poll, dialog>>
       \/ session' = "pending" /\ flow' = (flow \ {f}) \cup {[f EXCEPT !.kind = "proof"]}
          /\ UNCHANGED <<poll, dialog>>
       \/ session' = "pending" /\ ShowApproval(f)
    /\ UNCHANGED <<accepted, asking, disabled, refused, left, submits, faults>>

(* POST /api/register: a new account, whose code of recovery is shown. *)
Registered(f) ==
    /\ f.step = "login" /\ f.kind = "register"
    /\ Replaced
    /\ session' = "approved" /\ accepted' \in BOOLEAN
    /\ Goes(f, "code")
    /\ UNCHANGED <<poll, dialog, asking, disabled, refused, left, submits, faults>>

CodeClosed(f) ==
    /\ f.step = "code" /\ Goes(f, "terms")
    /\ UNCHANGED <<session, accepted, waits, asking, disabled, refused, left, submits, faults>>

(* The device signs the challenge, or the approval remains available. *)
Proved(f) ==
    /\ f.step = "login" /\ f.kind = "proof"
    /\ \/ session = "pending" /\ session' = "approved" /\ Goes(f, "terms") /\ UNCHANGED <<poll, dialog>>
       \/ UNCHANGED session /\ ShowApproval(f)
    /\ UNCHANGED <<accepted, cancelling, asking, disabled, refused, left, submits, faults>>

(* A page loaded again asks who it is, unless it finds an approval under way. *)
WhoAmI(f) ==
    /\ f.step = "who"
    /\ IF session = "approved" THEN Goes(f, "terms") ELSE Ends(f)
    /\ UNCHANGED <<session, accepted, waits, asking, disabled, refused, left, submits, faults>>

-----------------------------------------------------------------------------
(* What a function does with an error; lost: a 401, the session is gone. *)
Rearmed(f) == Goes(f, "timer") /\ poll' = f.id

GivesUp(f) ==
    /\ flow' = Stopped(flow \ {f}) /\ poll' = NoPoll
    /\ GiveBack("login") /\ UNCHANGED dialog

Throws(f, lost) ==
    \/ f.kind = "submit" /\ Ends(f) /\ GiveBack("login") /\ UNCHANGED <<poll, dialog>>
    \/ f.kind = "register" /\ Ends(f) /\ GiveBack("register") /\ UNCHANGED <<poll, dialog>>
    \/ f.kind = "proof" /\ ShowApproval(f) /\ UNCHANGED disabled
    \/ f.kind = "poll" /\ ~lost /\ Rearmed(f) /\ UNCHANGED <<dialog, disabled>>
    \/ f.kind = "poll" /\ lost /\ GivesUp(f)
    \/ f.kind = "start" /\ Ends(f) /\ UNCHANGED <<poll, dialog, disabled>>

FlowFails(f) ==
    /\ f.step \in {"login", "request", "me", "who"} /\ ~(f.kind = "proof" /\ f.step = "login")
    /\ Fault
    /\ Throws(f, FALSE)
    /\ UNCHANGED <<session, accepted, cancelling, asking, refused, left, submits>>

(* The middleware: 401 without a session or past its deadline, 403 for one that *)
(* awaits its approval. *)
Gone == session \in {"none", "expired"}
Looked == session' = IF session = "expired" THEN "none" ELSE session

-----------------------------------------------------------------------------
(* The poll of showSessionApproval. *)
PollTimer(f) ==
    /\ f.step = "timer"
    /\ Goes(f, "request")
    /\ UNCHANGED <<session, accepted, waits, asking, disabled, refused, left, submits, faults>>

PollAnswered(f) ==                  \* PendingSessionStatus reads the session
    /\ f.step = "request"
    /\ flow' = (flow \ {f}) \cup {[f EXCEPT !.step = "answer", !.saw = session]}
    /\ Looked
    /\ UNCHANGED <<accepted, waits, asking, disabled, refused, left, submits, faults>>

PollRead(f) ==
    /\ f.step = "answer"
    /\ \/ /\ f.saw = "approved"
          /\ flow' = Stopped(flow \ {f}) \cup {[f EXCEPT !.step = "terms"]}
          /\ poll' = NoPoll /\ dialog' = FALSE
          /\ UNCHANGED disabled
       \/ f.saw = "pending" /\ Rearmed(f) /\ UNCHANGED <<dialog, disabled>>
       \/ f.saw \in {"none", "expired"} /\ GivesUp(f)
    /\ UNCHANGED <<session, accepted, cancelling, asking, refused, left, submits, faults>>

(* The user gives up: the session is deleted, then the dialog is closed.  (A second *)
(* click before the answer does the same again, and is left out.) *)
Cancel ==
    /\ dialog /\ cancelling = "no" /\ cancelling' = "sent"
    /\ flow' = Stopped(flow) /\ poll' = NoPoll
    /\ UNCHANGED <<session, accepted, dialog, asking, disabled, refused, left, submits, faults>>

CancelServed ==
    /\ cancelling = "sent" /\ cancelling' = "served"
    /\ \/ session' = "none" /\ UNCHANGED faults
       \/ UNCHANGED session /\ Fault
    /\ UNCHANGED <<accepted, flow, poll, dialog, asking, disabled, refused, left, submits>>

Cancelled ==
    /\ cancelling = "served" /\ cancelling' = "no" /\ dialog' = FALSE
    /\ GiveBack("login")
    /\ UNCHANGED <<session, accepted, flow, poll, asking, refused, left, submits, faults>>

-----------------------------------------------------------------------------
(* ensureTermsAccepted: one promise for all who wait. *)
Waiting == {f \in flow : f.step = "waiting"}

AskTerms(f) ==
    /\ f.step = "terms"
    /\ Goes(f, "waiting")
    /\ asking' = IF asking = "none" THEN "request" ELSE asking
    /\ UNCHANGED <<session, accepted, waits, disabled, refused, left, submits, faults>>

AllGo(step) == asking' = "none" /\ flow' = (flow \ Waiting) \cup {[f EXCEPT !.step = step] : f \in Waiting}

(* A login asks for the user before it leaves, the others leave. *)
AllEnter ==
    /\ asking' = "none"
    /\ flow' = (flow \ Waiting) \cup
         {[f EXCEPT !.step = IF f.kind \in {"register", "start"} THEN "leave" ELSE "me"] : f \in Waiting}

TermsAnswered ==
    /\ asking = "request"
    /\ \/ Gone /\ AllGo("lost") /\ UNCHANGED faults
       \/ session = "pending" /\ AllGo("failed") /\ UNCHANGED faults
       \/ Fault /\ AllGo("failed")
       \/ session = "approved" /\ accepted /\ AllEnter /\ UNCHANGED faults
       \/ session = "approved" /\ ~accepted /\ asking' = "dialog" /\ UNCHANGED <<flow, faults>>
    /\ Looked
    /\ UNCHANGED <<accepted, waits, disabled, refused, left, submits>>

AcceptTerms ==                      \* without a session, the dialog tells the error
    /\ asking = "dialog" /\ session = "approved"
    /\ accepted' = TRUE
    /\ AllEnter
    /\ UNCHANGED <<session, waits, disabled, refused, left, submits, faults>>

(* The terms are refused: the session is closed, a submission gives the button *)
(* back.  A poll does not. *)
RefuseTerms ==
    /\ asking = "dialog" /\ asking' = "none"
    /\ \/ session' = "none" /\ UNCHANGED faults
       \/ UNCHANGED session /\ Fault
    /\ flow' = flow \ Waiting
    /\ disabled' = disabled \ ({"login" : f \in {g \in Waiting : g.kind \in {"submit", "proof"}}}
                               \cup {"register" : f \in {g \in Waiting : g.kind = "register"}})
    /\ refused' = (refused \/ \E f \in Waiting : f.kind = "poll")
    /\ UNCHANGED <<accepted, waits, left, submits>>

Rejected(f) ==
    /\ f.step \in {"lost", "failed"}
    /\ Throws(f, f.step = "lost")
    /\ UNCHANGED <<session, accepted, cancelling, asking, refused, left, submits, faults>>

(* finishSuccessfulLogin: GET /api/me, and the page leaves. *)
Enter(f) ==
    /\ f.step = "leave" \/ (f.step = "me" /\ session = "approved")
    /\ left' = TRUE
    /\ flow' = {} /\ asking' = "none" /\ dialog' = FALSE /\ poll' = NoPoll /\ cancelling' = "no"
    /\ UNCHANGED <<session, accepted, disabled, refused, submits, faults>>

Unknown(f) ==
    /\ f.step = "me" /\ session # "approved"
    /\ Throws(f, Gone)
    /\ Looked
    /\ UNCHANGED <<accepted, cancelling, asking, refused, left, submits, faults>>

-----------------------------------------------------------------------------
(* A device of the account approves the session, its time is over, or it is revoked. *)
Approve == session = "pending" /\ session' = "approved"
Expire == session = "pending" /\ session' = "expired"
Revoke == session \in {"pending", "approved"} /\ session' = "none"
Elsewhere ==
    /\ Approve \/ Expire \/ Revoke
    /\ UNCHANGED <<accepted, flow, waits, asking, disabled, refused, left, submits, faults>>

(* A page starts, or starts again while its session awaits an approval. *)
SignInInit ==
    /\ session \in {"none", "pending", "approved", "expired"} /\ accepted \in BOOLEAN
    /\ \/ flow = {Flow(2 * MaxSubmits + 1, "start", "who")} /\ poll = NoPoll /\ dialog = FALSE
       \/ /\ flow = {Flow(2 * MaxSubmits + 2, "poll", "timer")}
          /\ poll = 2 * MaxSubmits + 2 /\ dialog = TRUE
    /\ cancelling = "no" /\ asking = "none"
    /\ disabled = {} /\ refused = FALSE /\ left = FALSE
    /\ submits = 0 /\ faults = 0

FlowStep(f) ==
    \/ LoggedIn(f) \/ Registered(f) \/ CodeClosed(f) \/ Proved(f) \/ WhoAmI(f)
    \/ PollTimer(f) \/ PollAnswered(f) \/ PollRead(f)
    \/ AskTerms(f) \/ Rejected(f) \/ Enter(f) \/ Unknown(f)

SignInNext ==
    \/ Submit("submit", "login") \/ Submit("register", "register")
    \/ Cancel \/ CancelServed \/ Cancelled \/ TermsAnswered \/ AcceptTerms \/ RefuseTerms
    \/ Elsewhere
    \/ \E f \in flow : FlowStep(f) \/ FlowFails(f)

(* Timers fire and requests are answered or fail; the user who is asked to *)
(* accept the terms, or shown a code, answers. *)
FlowProgress(id) == \E f \in flow : f.id = id /\ FlowStep(f)
TermsDecided == AcceptTerms \/ RefuseTerms

SignInFairness ==
    /\ \A id \in 1..2 * MaxSubmits + 2 : WF_signInVars(FlowProgress(id))
    /\ WF_signInVars(TermsAnswered) /\ WF_signInVars(TermsDecided)
    /\ WF_signInVars(CancelServed) /\ WF_signInVars(Cancelled)

SignInSpec == SignInInit /\ [][SignInNext]_signInVars /\ SignInFairness

-----------------------------------------------------------------------------
SignInTypeOK ==
    /\ session \in {"none", "pending", "approved", "expired"}
    /\ cancelling \in {"no", "sent", "served"} /\ asking \in {"none", "request", "dialog"}
    /\ \A f \in flow : /\ f.id \in 1..2 * MaxSubmits + 2
                       /\ f.kind \in {"submit", "proof", "register", "poll", "start"}
    /\ asking # "none" => Waiting # {}

(* The user who cannot submit a form is being served: something is under way for *)
(* it, or a dialog is open.  One case is left, and README tells it: the terms    *)
(* were refused after an approval (login.js 98-153, 393-440).                    *)
ButtonIsGivenBack ==
    /\ "login" \in disabled /\ ~left =>
         dialog \/ refused \/ \E f \in flow : f.kind \in {"submit", "proof", "poll"}
    /\ "register" \in disabled /\ ~left => \E f \in flow : f.kind = "register"

(* An approved session is noticed: the page enters, or the dialog is closed, or  *)
(* the session was revoked (login.js 109-150).  A poll of a sign-in given up     *)
(* earlier may read that its session is gone after another sign-in began: it     *)
(* stops the poll of that one.  A poll that is alone and has still to ask is     *)
(* not stopped.                                                                  *)
Noticed == left \/ ~dialog \/ session # "approved"
ApprovedAlone ==
    /\ dialog /\ session = "approved"
    /\ \E f \in flow : flow = {f} /\ f.kind = "poll" /\ f.step \in {"timer", "request"}
LonePollNotices == ApprovedAlone ~> Noticed
=============================================================================
