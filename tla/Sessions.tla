------------------------------ MODULE Sessions ------------------------------
(***************************************************************************)
(* The sessions and the trusted devices of one account (internal/auth).    *)
(* A login checks the password, asks the database whether the account has  *)
(* a device to ask for consent, and inserts its session: approved when it  *)
(* has none, pending otherwise.  A pending session becomes approved when a *)
(* session already open approves it or when its browser proves that it     *)
(* holds the key of a trusted device.  An approved session is bound to the *)
(* trusted device of its browser, so that revoking the device takes it.    *)
(*                                                                         *)
(* The handlers share one connection to the database and no lock: each     *)
(* statement is a step, and other requests run between two statements of   *)
(* a handler.  A transaction keeps the connection: it is one step.  A      *)
(* session is named after the login that inserts it, a browser after its   *)
(* key.  An id is drawn at random in the code; here it is the least one    *)
(* that nothing refers to.                                                 *)
(***************************************************************************)
EXTENDS Integers, FiniteSets

CONSTANTS
    Login,       \* the login requests, and the sessions they insert
    Key,         \* the keys of the browsers
    KeyOf,       \* the key of the browser each login comes from
    Keyed,       \* the logins that present it: an older client does not
    Acting,      \* the sessions that enroll, approve and revoke: a bound
    MaxResets,   \* how often the password may be recovered: a bound
    None

SessionsAssumption ==
    /\ IsFiniteSet(Login) /\ IsFiniteSet(Key)
    /\ KeyOf \in [Login -> Key] /\ Keyed \cup Acting \subseteq Login
    /\ MaxResets \in Nat
    /\ None \notin Login \cup Int

VARIABLES
    pc,          \* the statement a login, then a request of its session, is at
    needed,      \* requiresApproval, count > 0: what the handler read last
    found,       \* the device id the handler read last
    target,      \* the pending session an approval has looked up
    session,     \* the table sessions
    device,      \* the table trusted_devices: the id of the row of each key
    reset,       \* the statement ResetPassword is at
    resets,      \* how often the password has changed
    outdated,    \* logins under way that checked a password since replaced
    guarded      \* logins under way with a trusted device ever since they began

locals == <<needed, found, target>>
tables == <<session, device>>
resetVars == <<reset, resets>>
history == <<outdated, guarded>>
vars == <<pc, locals, tables, resetVars, history>>

UnderWay == {"lookup", "count", "purge", "sessions", "insert"}
Enrolling == {"find", "write", "bind", "undo"}
PC == {"new", "lost", "answered"} \cup UnderWay \cup Enrolling \cup
      {"enrollCount", "enrollFind", "enrollSelect", "enrollWrite", "enrollBind",
       "approve", "prove", "revoke"}

Id == 1 .. 2 * Cardinality(Login) + Cardinality(Key)
Row == [approved : {"no", "unasked", "consent"},   \* approved_at, and how it came
        late : BOOLEAN,              \* past approval_expires_at
        bound : Id \cup {None},      \* trusted_device_id
        challenge : BOOLEAN,         \* device_challenge_hash IS NOT NULL
        orphan : BOOLEAN,            \* history: its device was deleted under it
        outdated : BOOLEAN,          \* history: what its login was when it was inserted
        guarded : BOOLEAN]

Rows == {s \in Login : session[s] # None}
Devices == {device[k] : k \in Key} \ {None}
Pending(s) == s \in Rows /\ session[s].approved = "no"
\* The middleware lets its requests through.
Usable(s) == s \in Rows /\ session[s].approved # "no"
\* The login was answered: the browser has the cookie.
Held(s) == pc[s] \notin {"new", "lost"} \cup UnderWay \cup Enrolling

\* The rows have their type, and the foreign key of trusted_device_id holds.
TypeOK ==
    /\ pc \in [Login -> PC] /\ needed \in [Login -> BOOLEAN]
    /\ found \in [Login -> Id \cup {None}] /\ target \in [Login -> Login \cup {None}]
    /\ session \in [Login -> Row \cup {None}]
    /\ device \in [Key -> Id \cup {None}]
    /\ \A j, k \in Key : device[j] = device[k] /\ j # k => device[j] = None
    /\ \A s \in Rows : session[s].bound \in Devices \cup {None}
    /\ reset \in {"none", "sessions", "devices", "answered"} /\ resets \in 0 .. MaxResets
    /\ \A s \in outdated \cup guarded : s \in Login /\ pc[s] \in UnderWay

Init ==
    /\ pc = [s \in Login |-> "new"] /\ needed = [s \in Login |-> FALSE]
    /\ found = [s \in Login |-> None] /\ target = [s \in Login |-> None]
    /\ session = [s \in Login |-> None] /\ device = [k \in Key |-> None]
    /\ reset = "none" /\ resets = 0
    /\ outdated = {} /\ guarded = {}

-----------------------------------------------------------------------------
Fresh == CHOOSE i \in Id :
    /\ i \notin Devices
    /\ \A s \in Login : found[s] # i /\ (s \in Rows => session[s].bound # i)

\* The request of s is at `from', and goes to `to'.
Step(s, from, to) == pc[s] = from /\ pc' = [pc EXCEPT ![s] = to]
\* A handler that has answered keeps nothing it read.
Forget(s) ==
    /\ needed' = [needed EXCEPT ![s] = FALSE]
    /\ found' = [found EXCEPT ![s] = None]
    /\ target' = [target EXCEPT ![s] = None]

\* trusted_device_id REFERENCES trusted_devices(id) ON DELETE SET NULL.
SetNull(ids) ==
    [s \in Login |-> IF s \in Rows /\ session[s].bound \in ids
                     THEN [session[s] EXCEPT !.bound = None, !.orphan = TRUE]
                     ELSE session[s]]
DeleteRows(gone) == [s \in Login |-> IF s \in gone THEN None ELSE session[s]]
DropDevices(ids) ==
    /\ device' = [k \in Key |-> IF device[k] \in ids THEN None ELSE device[k]]
    /\ guarded' = IF \E k \in Key : device'[k] # None THEN guarded ELSE {}

-----------------------------------------------------------------------------
(* Login and Register.  The first session of a new account is the one of a *)
(* login that finds the tables empty: Register runs the same statements    *)
(* from createSession on.                                                  *)

\* The password is the one in effect.
StartLogin(s) ==
    /\ Step(s, "new", "lookup")
    /\ guarded' = IF Devices # {} THEN guarded \cup {s} ELSE guarded
    /\ UNCHANGED <<locals, tables, resetVars, outdated>>

\* trustedDeviceForKey
LookUpDevice(s) ==
    /\ Step(s, "lookup", "count")
    /\ found' = [found EXCEPT ![s] = IF s \in Keyed THEN device[KeyOf[s]] ELSE None]
    /\ UNCHANGED <<needed, target, tables, resetVars, history>>

CountOtherDevices(s) ==                    \* mutant: a key that is known is not proved
    /\ Step(s, "count", IF Devices # {} THEN "insert" ELSE "purge")
    /\ needed' = [needed EXCEPT ![s] = Devices # {} /\ found[s] = None]
    /\ UNCHANGED <<found, target, tables, resetVars, history>>

\* hasTrustedDevices: an account with a device needs no look at its sessions.
CountDevices(s) ==
    /\ Step(s, "count", IF Devices # {} THEN "insert" ELSE "purge")
    /\ needed' = [needed EXCEPT ![s] = Devices # {}]
    /\ UNCHANGED <<found, target, tables, resetVars, history>>

\* requiresSessionApproval: DELETE of what is past its deadline, then COUNT.
Purge(s) ==
    /\ Step(s, "purge", "sessions")
    /\ session' = DeleteRows({t \in Rows : session[t].late})
    /\ UNCHANGED <<locals, device, resetVars, history>>

CountSessions(s) ==
    /\ Step(s, "sessions", "insert")
    /\ needed' = [needed EXCEPT ![s] = \E t \in Login : Usable(t)]
    /\ UNCHANGED <<found, target, tables, resetVars, history>>

\* createSession: the foreign key refuses a device revoked since it was read.
NewRow(s) == [approved |-> IF needed[s] THEN "no" ELSE "unasked", late |-> FALSE,
              bound |-> found[s], challenge |-> needed[s] /\ found[s] # None,
              orphan |-> FALSE, outdated |-> s \in outdated, guarded |-> s \in guarded]
Insertable(s) == found[s] \in Devices \cup {None}

Insert(s) ==
    /\ Step(s, "insert", IF Insertable(s) /\ ~needed[s] /\ s \in Keyed
                         THEN "find" ELSE "answered")
    /\ session' = IF Insertable(s) THEN [session EXCEPT ![s] = NewRow(s)] ELSE session
    /\ Forget(s)
    /\ outdated' = outdated \ {s} /\ guarded' = guarded \ {s}
    /\ UNCHANGED <<device, resetVars>>

\* enrollTrustedDevice: SELECT, then UPDATE of the row found or INSERT of a new one,
\* which UNIQUE(user_id, key_id) refuses when another request was faster.
Find(s, from, to) ==
    /\ Step(s, from, to)
    /\ found' = [found EXCEPT ![s] = device[KeyOf[s]]]
    /\ UNCHANGED <<needed, target, tables, resetVars, history>>

Write(s, from, to, failed) ==
    LET taken == found[s] = None /\ device[KeyOf[s]] # None
    IN /\ Step(s, from, IF taken THEN failed ELSE to)
       /\ IF taken \/ found[s] # None
          THEN UNCHANGED <<device, found>>
          ELSE /\ device' = [device EXCEPT ![KeyOf[s]] = Fresh]
               /\ found' = [found EXCEPT ![s] = Fresh]
       /\ UNCHANGED <<needed, target, session, resetVars, history>>

\* UPDATE sessions SET trusted_device_id: nothing for a session deleted meanwhile,
\* refused by the foreign key for a device deleted meanwhile.
Bind(s, from, failed) ==
    LET broken == s \in Rows /\ found[s] \notin Devices
    IN /\ Step(s, from, IF broken THEN failed ELSE "answered")
       /\ session' = IF s \in Rows /\ ~broken
                     THEN [session EXCEPT ![s].bound = found[s]] ELSE session
       /\ Forget(s)
       /\ UNCHANGED <<device, resetVars, history>>

\* The session of a login whose enrolment failed is deleted.
Undo(s) ==
    /\ Step(s, "undo", "answered")
    /\ session' = DeleteRows({s})
    /\ Forget(s)
    /\ UNCHANGED <<device, resetVars, history>>

FreeLogin(s) ==
    \/ Find(s, "find", "write")
    \/ Write(s, "write", "bind", "undo")
    \/ Bind(s, "bind", "undo")
    \/ Undo(s)

-----------------------------------------------------------------------------
(* POST /api/me/trusted-devices/enroll: the browser of an open session has its key   *)
(* trusted, without approval when the account has no device yet.           *)
StartEnroll(s) ==
    /\ s \in Acting /\ Usable(s) /\ Step(s, "answered", "enrollCount")
    /\ UNCHANGED <<locals, tables, resetVars, history>>

EnrollCount(s) ==
    /\ Step(s, "enrollCount", "enrollFind")
    /\ needed' = [needed EXCEPT ![s] = Devices # {}]
    /\ UNCHANGED <<found, target, tables, resetVars, history>>

EnrollFind(s) ==
    /\ Step(s, "enrollFind", IF needed[s] /\ device[KeyOf[s]] = None
                             THEN "answered" ELSE "enrollSelect")
    /\ needed' = [needed EXCEPT ![s] = FALSE]
    /\ UNCHANGED <<found, target, tables, resetVars, history>>

Enroll(s) ==
    \/ StartEnroll(s)
    \/ EnrollCount(s)
    \/ EnrollFind(s)
    \/ Find(s, "enrollSelect", "enrollWrite")
    \/ Write(s, "enrollWrite", "enrollBind", "answered")
    \/ Bind(s, "enrollBind", "answered")

-----------------------------------------------------------------------------
(* ApproveSession: the middleware and the lookup, then the transaction.    *)
StartApprove(a, s) ==
    /\ a \in Acting /\ Usable(a) /\ Pending(s) /\ ~session[s].late
    /\ Step(a, "answered", "approve")
    /\ target' = [target EXCEPT ![a] = s]
    /\ UNCHANGED <<needed, found, tables, resetVars, history>>

Consented(s, id) == [session EXCEPT ![s].approved = "consent", ![s].late = FALSE,
                                   ![s].bound = id, ![s].challenge = FALSE]

\* enrollPendingSessionCredential: the key the pending login presented.
Enrolled(s) ==
    IF s \notin Keyed THEN session[s].bound
    ELSE IF device[KeyOf[s]] = None THEN Fresh ELSE device[KeyOf[s]]

\* The deadline is not read again.  A session cancelled or approved meanwhile
\* makes the transaction roll back.
Approve(a) ==
    LET s == target[a]
    IN /\ Step(a, "approve", "answered")
       /\ IF Pending(s)
          THEN /\ session' = Consented(s, Enrolled(s))
               /\ device' = IF s \in Keyed THEN [device EXCEPT ![KeyOf[s]] = Enrolled(s)]
                            ELSE device
          ELSE UNCHANGED tables
       /\ Forget(a)
       /\ UNCHANGED <<resetVars, history>>

(* ProveTrustedDevice: the SELECT joins the row of the device the session  *)
(* is bound to; the UPDATE looks only at approved_at.                      *)
StartProve(s) ==
    /\ Pending(s) /\ ~session[s].late /\ session[s].challenge /\ session[s].bound # None
    /\ Step(s, "answered", "prove")
    /\ UNCHANGED <<locals, tables, resetVars, history>>

Prove(s) ==
    /\ Step(s, "prove", "answered")
    /\ session' = IF Pending(s) THEN Consented(s, session[s].bound) ELSE session
    /\ UNCHANGED <<locals, device, resetVars, history>>

RevokeDeviceOnly(a) ==                     \* mutant: its sessions are left alone
    /\ Step(a, "revoke", "answered")
    /\ session' = [s \in Login |->
                     IF s \in Rows /\ session[s].bound = found[a] /\ found[a] # None
                     THEN [session[s] EXCEPT !.bound = None] ELSE session[s]]
    /\ DropDevices({found[a]} \ {None})
    /\ Forget(a)
    /\ UNCHANGED <<resetVars, outdated>>

(* RevokeTrustedDevice: the middleware, then the transaction, which rolls  *)
(* back when the device is gone already.                                   *)
StartRevoke(a, id) ==
    /\ a \in Acting /\ Usable(a) /\ id \in Devices
    /\ Step(a, "answered", "revoke")
    /\ found' = [found EXCEPT ![a] = id]
    /\ UNCHANGED <<needed, target, tables, resetVars, history>>

Revoke(a) ==
    /\ Step(a, "revoke", "answered")
    /\ IF found[a] \in Devices
       THEN /\ session' = DeleteRows({s \in Rows : session[s].bound = found[a]})
            /\ DropDevices({found[a]})
       ELSE UNCHANGED <<tables, guarded>>
    /\ Forget(a)
    /\ UNCHANGED <<resetVars, outdated>>

\* Logout, CancelPendingSession, RevokeSession from another session, and the
\* deadline seen by the middleware or by PendingSessionStatus: one DELETE by id.
\* So is expires_at: no handler takes a row past it for a session.
Drop(s) ==
    /\ s \in Rows
    /\ session' = DeleteRows({s})
    /\ UNCHANGED <<pc, locals, device, resetVars, history>>

-----------------------------------------------------------------------------
(* ResetPassword: three statements and no transaction.                     *)
SetPassword ==
    /\ reset \in {"none", "answered"} /\ resets < MaxResets
    /\ reset' = "sessions" /\ resets' = resets + 1
    /\ outdated' = {s \in Login : pc[s] \in UnderWay}
    /\ UNCHANGED <<pc, locals, tables, guarded>>

DeleteSessions ==
    /\ reset = "sessions" /\ reset' = "devices"
    /\ session' = DeleteRows(Login)
    /\ UNCHANGED <<pc, locals, device, resets, history>>

DeleteDevices ==
    /\ reset = "devices" /\ reset' = "answered"
    /\ session' = SetNull(Devices)
    /\ DropDevices(Devices)
    /\ UNCHANGED <<pc, locals, resets, outdated>>

-----------------------------------------------------------------------------
\* The five minutes of a pending session pass.
Lapse(s) ==
    /\ Pending(s) /\ ~session[s].late
    /\ session' = [session EXCEPT ![s].late = TRUE]
    /\ UNCHANGED <<pc, locals, device, resetVars, history>>

\* The server stops between two statements: no handler goes on, and the browser of
\* a login that was not answered has no cookie.
Restart ==
    /\ \/ \E s \in Login : pc[s] \notin {"new", "lost", "answered"}
       \/ reset \in {"sessions", "devices"}
    /\ pc' = [s \in Login |-> IF pc[s] = "new" THEN "new"
                              ELSE IF Held(s) THEN "answered" ELSE "lost"]
    /\ needed' = [s \in Login |-> FALSE] /\ found' = [s \in Login |-> None]
    /\ target' = [s \in Login |-> None]
    /\ reset' = IF reset = "answered" THEN "answered" ELSE "none"
    /\ outdated' = {} /\ guarded' = {}
    /\ UNCHANGED <<tables, resets>>

LoginStep(s) ==
    \/ StartLogin(s) \/ LookUpDevice(s) \/ CountDevices(s) \/ Purge(s) \/ CountSessions(s)
    \/ Insert(s) \/ FreeLogin(s)

Next ==
    \/ \E s \in Login :
        \/ LoginStep(s)
        \/ Enroll(s)
        \/ StartProve(s) \/ Prove(s)
        \/ Approve(s) \/ Revoke(s)
        \/ Drop(s) \/ Lapse(s)
        \/ \E t \in Login : StartApprove(s, t)
        \/ \E i \in Id : StartRevoke(s, i)
    \/ SetPassword \/ DeleteSessions \/ DeleteDevices
    \/ Restart

Spec == Init /\ [][Next]_vars

-----------------------------------------------------------------------------
\* A session is bound to no device but the one whose key its own browser holds,
\* whoever enrolled it, whenever the row was deleted and inserted again.
BoundToItsOwnBrowser ==
    \A s \in Rows : session[s].bound # None => session[s].bound = device[KeyOf[s]]

\* RevokeTrustedDevice finds the sessions of a device by their binding.  A browser
\* that logged in with its key and holds an approved session is bound to the trusted
\* device of that key: revoking the device leaves it no way in.  Only ResetPassword,
\* which deletes the devices after the sessions, may have left one unbound.
HeldSessionsFollowTheirDevice ==
    \A s \in Rows \cap Keyed :
        Held(s) /\ session[s].approved # "no" /\ session[s].bound = None => session[s].orphan

\* While the account has a trusted device, from before the login began until its
\* session is inserted, no session is approved without an approval or a proof.
NoFreeSessionOnceTrusted ==
    \A s \in Rows : session[s].approved = "unasked" => ~session[s].guarded

\* README.md: recovering the password revokes every session.  One whose login was
\* checked against the old password opens nothing once ResetPassword has answered.
ResetRevokesEverySession ==
    reset = "answered" => \A s \in Rows : Held(s) /\ Usable(s) => ~session[s].outdated

=============================================================================
