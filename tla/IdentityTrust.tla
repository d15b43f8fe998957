---------------------------- MODULE IdentityTrust ----------------------------
(***************************************************************************)
(* What a browser remembers of one correspondent's public keys             *)
(* (web/js/identity-trust.js and trustedPublicKey of app.js): the first    *)
(* keys seen are trusted, a later change is kept aside until the user      *)
(* accepts it, a comparison by another channel marks them verified.        *)
(*                                                                         *)
(* The registry lives in IndexedDB, shared by the tabs of the browser;     *)
(* each tab keeps the record it read in memory and runs its operations on  *)
(* it one after the other.  Tabs do not tell each other of their writes.   *)
(* Whatever the server announced once may be observed later: members come  *)
(* from several answers and from the cache.                                *)
(***************************************************************************)
EXTENDS Integers, Sequences, FiniteSets

CONSTANTS
    Tabs,       \* tabs of one browser
    MaxKeys,    \* bound: encryption keys the correspondent announces
    MaxSigns,   \* bound: signing keys the correspondent announces
    MaxQueue    \* bound: operations a tab has waiting

TrustBounds == Tabs # {} /\ {MaxKeys, MaxSigns, MaxQueue} \subseteq Nat \ {0}

VARIABLES
    announced,  \* the pairs of keys the server has announced, the last one last
    stored,     \* the record of IndexedDB
    record,     \* the record each tab holds in memory
    operations,      \* the operations each tab has to run
    saving,     \* the record a tab is writing
    warning,    \* the change a tab asks the user about
    confirmed   \* what the user has accepted on seeing it, and the first keys

trustVars == <<announced, stored, record, operations, saving, warning, confirmed>>

-----------------------------------------------------------------------------
(* Keys and records. *)

NoSigning == 0                  \* an identity without signing key
Keys == [encryption: 1..MaxKeys, signing: 0..MaxSigns]
Absent == [at |-> "absent"]
Unread == [at |-> "unread"]
Rec(keys, pending, verified) ==
    [at |-> "known", keys |-> keys, pending |-> pending, verified |-> verified]
Known(r) == r.at = "known"
Changed(r) == Known(r) /\ r.pending # {}

(* What an observation says: a bare one does not mention the signing key *)
(* and takes the one on record. *)
Seen(r, o) ==
    [encryption |-> o.keys.encryption,
     signing |-> IF ~o.bare THEN o.keys.signing
                 ELSE IF Known(r) THEN r.keys.signing ELSE NoSigning]

(* The first signing key of an identity nobody compared is taken as it comes. *)
EvenVerified(r, o) ==              \* mutant: a compared identity too
    /\ ~Changed(r)
    /\ r.keys.encryption = o.keys.encryption
    /\ r.keys.signing = NoSigning /\ ~o.bare /\ o.keys.signing # NoSigning
FirstSigningKey(r, o) ==
    /\ ~Changed(r) /\ ~r.verified
    /\ r.keys.encryption = o.keys.encryption
    /\ r.keys.signing = NoSigning /\ ~o.bare /\ o.keys.signing # NoSigning

(* observeIdentityKey: the records it may leave. *)
Observed(r, o) ==
    LET seen == Seen(r, o) IN
    CASE ~Known(r)              -> {Rec(seen, {}, FALSE)}
      [] Known(r) /\ FirstSigningKey(r, o) -> {Rec(seen, {}, FALSE)}
      [] Known(r) /\ ~FirstSigningKey(r, o) /\ seen = r.keys -> {r}
      [] OTHER                  -> {[r EXCEPT !.pending = {seen}]}

(* acceptPendingIdentity: of the change that was shown, or of none. *)
Accepted(r, shown) ==
    IF Changed(r) /\ shown \in r.pending THEN {Rec(shown, {}, FALSE)} ELSE {}

(* markIdentityVerified: of the keys the click read, no change waiting. *)
Compared(r, read) ==
    IF Known(r) /\ ~Changed(r) /\ r.keys = read THEN {[r EXCEPT !.verified = TRUE]} ELSE {}

After(r, op) ==
    CASE op.kind = "observe" -> Observed(r, op)
      [] op.kind = "accept"  -> Accepted(r, op.keys)
      [] op.kind = "verify"  -> Compared(r, op.keys)

-----------------------------------------------------------------------------
(* The correspondent, as the server's answers show it. *)

LastAnnounced == announced[Len(announced)]

(* The account gets its first signing key. *)
AnnounceSigning ==
    /\ Len(announced) < MaxKeys + MaxSigns
    /\ LastAnnounced.signing = NoSigning
    /\ \E s \in 1..MaxSigns : announced' = Append(announced, [LastAnnounced EXCEPT !.signing = s])
    /\ UNCHANGED <<stored, record, operations, saving, warning, confirmed>>

(* The account answers with other keys. *)
AnnounceOther ==
    /\ Len(announced) < MaxKeys + MaxSigns
    /\ LastAnnounced.encryption < MaxKeys
    /\ \E s \in 0..MaxSigns :
         announced' = Append(announced, [encryption |-> LastAnnounced.encryption + 1, signing |-> s])
    /\ UNCHANGED <<stored, record, operations, saving, warning, confirmed>>

-----------------------------------------------------------------------------
(* A tab. *)

Room(t) == Len(operations[t]) < MaxQueue
Enqueue(t, op) == operations' = [operations EXCEPT ![t] = Append(@, op)]

(* trustedPublicKey: members arrive, from the network or from the cache. *)
Observe(t, keys, bare) ==
    /\ Room(t)
    /\ Enqueue(t, [kind |-> "observe", keys |-> keys, bare |-> bare])
    /\ UNCHANGED <<announced, stored, record, saving, warning, confirmed>>

(* serialized, load: the head of the queue takes the record of the tab, the *)
(* stored one the first time; an operation that has nothing to do ends.     *)
Loaded(t) == IF record[t] = Unread THEN stored ELSE record[t]

BeginOperation(t) ==
    /\ operations[t] # <<>> /\ saving[t] = {}
    /\ record' = [record EXCEPT ![t] = Loaded(t)]
    /\ saving' = [saving EXCEPT ![t] = After(Loaded(t), Head(operations[t]))]
    /\ operations' = IF saving'[t] = {} THEN [operations EXCEPT ![t] = Tail(@)] ELSE operations
    /\ warning' = IF saving'[t] = {} /\ Head(operations[t]).kind = "accept"
                    THEN [warning EXCEPT ![t] = {}] ELSE warning
    /\ UNCHANGED <<announced, stored, confirmed>>

(* save: IndexedDB first, memory second; an observation that found a change *)
(* asks the user about it, once at a time (confirmIdentityKeyChange).       *)
Save(t) ==
    \E r \in saving[t] :
      /\ stored' = r
      /\ record' = [record EXCEPT ![t] = r]
      /\ saving' = [saving EXCEPT ![t] = {}]
      /\ operations' = [operations EXCEPT ![t] = Tail(@)]
      /\ confirmed' = IF stored = Absent THEN confirmed \cup {r.keys} ELSE confirmed
      /\ \/ /\ Head(operations[t]).kind = "observe" /\ Changed(r) /\ warning[t] = {}
            /\ warning' = [warning EXCEPT ![t] = r.pending]
         \/ warning' = IF Head(operations[t]).kind = "accept"
                         THEN [warning EXCEPT ![t] = {}] ELSE warning
      /\ UNCHANGED announced

(* An observation of the keys on record, lately seen, writes nothing; a write *)
(* may fail. *)
NotSaved(t) ==
    /\ saving[t] # {}
    /\ saving' = [saving EXCEPT ![t] = {}]
    /\ operations' = [operations EXCEPT ![t] = Tail(@)]
    /\ warning' = IF Head(operations[t]).kind = "accept" THEN [warning EXCEPT ![t] = {}] ELSE warning
    /\ UNCHANGED <<announced, stored, record, confirmed>>

(* The user accepts the keys the dialog shows, or not. *)
Accepting(t) == \E i \in DOMAIN operations[t] : operations[t][i].kind = "accept"

Accept(t) ==
    /\ ~Accepting(t) /\ Room(t)
    /\ \E shown \in warning[t] :
         /\ Enqueue(t, [kind |-> "accept", keys |-> shown])
         /\ confirmed' = confirmed \cup {shown}
    /\ UNCHANGED <<announced, stored, record, saving, warning>>

Refuse(t) ==
    /\ ~Accepting(t) /\ warning[t] # {}
    /\ warning' = [warning EXCEPT ![t] = {}]
    /\ UNCHANGED <<announced, stored, record, operations, saving, confirmed>>

(* verifyCurrentConversationIdentity: the click reads the record and asks for *)
(* its verification. *)
Verify(t) ==
    /\ Known(Loaded(t)) /\ Room(t)
    /\ record' = [record EXCEPT ![t] = Loaded(t)]
    /\ Enqueue(t, [kind |-> "verify", keys |-> Loaded(t).keys])
    /\ UNCHANGED <<announced, stored, saving, warning, confirmed>>

(* The tab is reloaded: nothing of its memory is left. *)
ReloadTab(t) ==
    /\ record[t] # Unread
    /\ record' = [record EXCEPT ![t] = Unread]
    /\ operations' = [operations EXCEPT ![t] = <<>>]
    /\ saving' = [saving EXCEPT ![t] = {}]
    /\ warning' = [warning EXCEPT ![t] = {}]
    /\ UNCHANGED <<announced, stored, confirmed>>

-----------------------------------------------------------------------------
TrustInit ==
    /\ announced = <<[encryption |-> 1, signing |-> NoSigning]>>
    /\ stored = Absent
    /\ record = [t \in Tabs |-> Unread]
    /\ operations = [t \in Tabs |-> <<>>]
    /\ saving = [t \in Tabs |-> {}]
    /\ warning = [t \in Tabs |-> {}]
    /\ confirmed = {}

TrustNext ==
    \/ AnnounceSigning
    \/ AnnounceOther
    \/ \E t \in Tabs :
         \/ \E i \in DOMAIN announced, bare \in BOOLEAN : Observe(t, announced[i], bare)
         \/ BeginOperation(t)
         \/ Save(t)
         \/ NotSaved(t)
         \/ Accept(t)
         \/ Refuse(t)
         \/ Verify(t)
         \/ ReloadTab(t)

TrustSpec == TrustInit /\ [][TrustNext]_trustVars

-----------------------------------------------------------------------------
(* Types; a change that is saved is of the tab's own record. *)
Records == [at : {"known"}, keys : Keys, pending : {{}} \cup {{q} : q \in Keys}, verified : BOOLEAN]
TrustTypeOK ==
    /\ announced \in Seq(Keys)
    /\ stored \in Records \cup {Absent}
    /\ record \in [Tabs -> Records \cup {Absent, Unread}]
    /\ \A t \in Tabs :
         /\ Len(operations[t]) <= MaxQueue
         /\ saving[t] = {} \/ (operations[t] # <<>> /\ \E r \in saving[t] : r \in Records /\ saving[t] = {r})
         /\ warning[t] = {} \/ \E k \in Keys : warning[t] = {k}
    /\ confirmed \subseteq Keys

Grows(r, s) ==
    /\ r.pending = {} /\ ~r.verified
    /\ r.keys.signing = NoSigning /\ s.keys.encryption = r.keys.encryption

Disappears(r, s) == r.pending # {} /\ s.pending = {}

(* The keys on record are replaced by keys the user accepted on seeing them, *)
(* by a first signing key nobody has compared, and by nothing else; a change *)
(* that waits does not disappear otherwise (identity-trust.js 162-310).      *)
Consented ==
    Known(stored) /\ stored' # stored =>
      /\ stored'.keys # stored.keys => stored'.keys \in confirmed \/ Grows(stored, stored')
      /\ Disappears(stored, stored') => stored'.keys \in confirmed \cap stored.pending
ChangesNeedConsent == [][Consented]_trustVars
=============================================================================
