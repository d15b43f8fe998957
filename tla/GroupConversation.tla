------------------------- MODULE GroupConversation -------------------------
(***************************************************************************)
(* One group of internal/conversations, the key epochs that                *)
(* internal/groupkeys guards it with, and the delivery receipts of its     *)
(* messages (internal/messages, internal/files).                           *)
(*                                                                         *)
(* A handler is a request that runs its SQL statements one after the       *)
(* other: what it checks in one statement may no longer hold at the next.  *)
(* A transaction is one step, because SQLite runs on one connection and    *)
(* every transaction below first writes the row of the conversation.       *)
(* A key is named by the epoch it was generated for.                       *)
(***************************************************************************)
EXTENDS Integers, FiniteSets, Sequences

CONSTANTS
  Users,          \* the accounts
  Owner,          \* created_by: the only user who may rotate or delete
  Invited,        \* the members the group is created with
  Requests,       \* the requests that may run at the same time
  Kinds,          \* the kinds of message that are sent: "text", "file"
  MaxEpoch,       \* bound: rotations stop at this epoch
  MaxMessages     \* bound: messages ever stored

ASSUME GroupAssumption ==
  /\ Owner \in Users
  /\ Invited \subseteq Users \ {Owner}
  /\ Invited # {}
  /\ Kinds \subseteq {"text", "file"}
  /\ MaxEpoch \in Nat \ {0}
  /\ MaxMessages \in Nat

VARIABLES
  exists,            \* the conversations row
  epoch,             \* conversations.current_key_epoch
  rotationRequired,  \* conversations.rotation_required
  role,              \* conversation_members.role, "none" without a row
  memberKey,         \* conversation_members.encrypted_conversation_key
  envelopes,         \* conversation_key_envelopes: the key under epoch and user
  messages,          \* messages and message_receipts, in the order of their ids
  requests           \* what each running request knows

groupVars == <<exists, epoch, rotationRequired, role, memberKey, envelopes, messages, requests>>

group == <<exists, epoch, rotationRequired, role, memberKey, envelopes>>

Epochs == 1..MaxEpoch
NoKey == 0
Roles == {"none", "pending", "member", "owner"}
Statuses == {"sent", "delivered", "read"}

Members == {u \in Users : role[u] # "none"}
Active == {u \in Users : role[u] \in {"member", "owner"}}

\* The user can decrypt what is encrypted under a key when one of the envelopes
\* addressed to the user holds it. Rows of former members are never deleted.
Holds(u, key) == \E e \in Epochs : envelopes[e][u] = key

-----------------------------------------------------------------------------
(* Requests                                                                *)

Idle == [op |-> "idle"]

Sending(u, e) == [op |-> "send", user |-> u, epoch |-> e]
LookingUp(i) == [op |-> "lookup", message |-> i]
Delivering(i, todo, reached) ==
  [op |-> "deliver", message |-> i, todo |-> todo, reached |-> reached]
Reading(u, i) == [op |-> "read", user |-> u, message |-> i]
Deleting(u) == [op |-> "delete", user |-> u]
Rotating(e, removed, added, keys) ==
  [op |-> "rotate", epoch |-> e, removed |-> removed, added |-> added, keys |-> keys]

RequestRecords ==
  [op : {"idle"}]
    \cup [op : {"send"}, user : Users, epoch : Epochs]
    \cup [op : {"lookup"}, message : 1..MaxMessages]
    \cup [op : {"deliver"}, message : 1..MaxMessages, todo : SUBSET Users, reached : SUBSET Users]
    \cup [op : {"read"}, user : Users, message : 1..MaxMessages]
    \cup [op : {"delete"}, user : Users]
    \cup [op : {"rotate"}, epoch : Epochs, removed : SUBSET Users, added : SUBSET Users,
          keys : SUBSET Users]

Become(r, request) == requests' = [requests EXCEPT ![r] = request]
Running(r, op) == requests[r].op = op

-----------------------------------------------------------------------------
(* createConversation: one transaction, every member gets the first key.   *)

GroupInit ==
  /\ exists = TRUE
  /\ epoch = 1
  /\ rotationRequired = FALSE
  /\ role = [u \in Users |-> IF u = Owner THEN "owner"
                             ELSE IF u \in Invited THEN "pending" ELSE "none"]
  /\ memberKey = [u \in Users |-> IF u \in Invited \cup {Owner} THEN 1 ELSE NoKey]
  /\ envelopes = [e \in Epochs |-> [u \in Users |->
                    IF e = 1 /\ u \in Invited \cup {Owner} THEN 1 ELSE NoKey]]
  /\ messages = <<>>
  /\ requests = [r \in Requests |-> Idle]

-----------------------------------------------------------------------------
(* Membership and rotation                                                 *)

\* Accept: one UPDATE, guarded by the role.
AcceptMembership(u) ==
  /\ exists
  /\ role[u] = "pending"
  /\ role' = [role EXCEPT ![u] = "member"]
  /\ UNCHANGED <<exists, epoch, rotationRequired, memberKey, envelopes, messages, requests>>

\* The owner's page reads the members and the epoch, wraps a new key for each
\* final member and posts the rotation. Two pages of the owner may do so at once.
StartRotate(r) ==
  /\ exists
  /\ Running(r, "idle")
  /\ epoch < MaxEpoch
  /\ \E removed \in SUBSET (Members \ {Owner}), added \in SUBSET (Users \ Members) :
       /\ removed # {} \/ added # {} \/ rotationRequired
       /\ Become(r, Rotating(epoch + 1, removed, added, (Members \ removed) \cup added))
  /\ UNCHANGED <<group, messages>>

\* RotateGroupKeys, the checks made inside the transaction.
NextEpoch(req) ==
  /\ req.epoch = epoch + 1
  /\ req.removed # {} \/ req.added # {} \/ rotationRequired

KeysForEveryFinalMember(req) ==
  /\ req.removed \subseteq Members \ {Owner}
  /\ req.added \cap Members = {}
  /\ req.keys = (Members \ req.removed) \cup req.added

\* Mutant: only the members who join are given an envelope.
RotateForAdded(r) ==
  LET req == requests[r] IN
  /\ Running(r, "rotate")
  /\ exists /\ NextEpoch(req) /\ KeysForEveryFinalMember(req)
  /\ epoch' = req.epoch
  /\ rotationRequired' = FALSE
  /\ role' = [u \in Users |-> IF u \in req.removed THEN "none"
                              ELSE IF u \in req.added THEN "pending" ELSE role[u]]
  /\ memberKey' = [u \in Users |-> IF u \in req.keys THEN req.epoch ELSE NoKey]
  /\ envelopes' = [e \in Epochs |-> [u \in Users |->
                     IF e = req.epoch /\ u \in req.added THEN req.epoch ELSE envelopes[e][u]]]
  /\ Become(r, Idle)
  /\ UNCHANGED <<exists, messages>>

Rotate(r) ==
  LET req == requests[r] IN
  /\ Running(r, "rotate")
  /\ exists /\ NextEpoch(req) /\ KeysForEveryFinalMember(req)
  /\ epoch' = req.epoch
  /\ rotationRequired' = FALSE
  /\ role' = [u \in Users |-> IF u \in req.removed THEN "none"
                              ELSE IF u \in req.added THEN "pending" ELSE role[u]]
  /\ memberKey' = [u \in Users |-> IF u \in req.keys THEN req.epoch ELSE NoKey]
  /\ envelopes' = [e \in Epochs |-> [u \in Users |->
                     IF e = req.epoch /\ u \in req.keys THEN req.epoch ELSE envelopes[e][u]]]
  /\ Become(r, Idle)
  /\ UNCHANGED <<exists, messages>>

\* Delete: the membership is read first, what is deleted depends on the caller.
StartDelete(r, u) ==
  /\ exists
  /\ Running(r, "idle")
  /\ u \in Members
  /\ Become(r, Deleting(u))
  /\ UNCHANGED <<group, messages>>

\* Mutant: the row of the member is marked, not deleted.
LeaveKeepsKey(r) ==
  LET u == requests[r].user IN
  /\ Running(r, "delete")
  /\ exists
  /\ u # Owner
  /\ rotationRequired' = TRUE
  /\ role' = [role EXCEPT ![u] = "none"]
  /\ Become(r, Idle)
  /\ UNCHANGED <<exists, epoch, memberKey, envelopes, messages>>

\* A member who leaves freezes the group until the owner rotates its key. The
\* transaction does not look at the membership again.
LeaveGroup(r) ==
  LET u == requests[r].user IN
  /\ Running(r, "delete")
  /\ exists
  /\ u # Owner
  /\ rotationRequired' = TRUE
  /\ role' = [role EXCEPT ![u] = "none"]
  /\ memberKey' = [memberKey EXCEPT ![u] = NoKey]
  /\ Become(r, Idle)
  /\ UNCHANGED <<exists, epoch, envelopes, messages>>

\* The owner deletes the conversation; the other tables follow (CASCADE). The
\* columns of the row that is gone take their first values.
DeleteGroup(r) ==
  /\ Running(r, "delete")
  /\ exists
  /\ requests[r].user = Owner
  /\ exists' = FALSE
  /\ role' = [u \in Users |-> "none"]
  /\ memberKey' = [u \in Users |-> NoKey]
  /\ envelopes' = [e \in Epochs |-> [u \in Users |-> NoKey]]
  /\ epoch' = 1
  /\ rotationRequired' = FALSE
  /\ messages' = <<>>
  /\ Become(r, Idle)

-----------------------------------------------------------------------------
(* Messages and receipts                                                   *)

\* Create and Upload check the membership before the transaction. The epoch is
\* the one the page knows: it may have been read long ago.
StartSend(r, u, e) ==
  /\ exists
  /\ Running(r, "idle")
  /\ u \in Active
  /\ envelopes[e][u] # NoKey
  /\ Become(r, Sending(u, e))
  /\ UNCHANGED <<group, messages>>

\* Mutant: the freeze is not looked at.
ValidateSendFrozen(u, e) ==
  /\ exists
  /\ u \in Active
  /\ e = epoch

\* groupkeys.ValidateSend, inside the transaction that stores the message.
ValidateSend(u, e) ==
  /\ exists
  /\ u \in Active
  /\ ~rotationRequired
  /\ e = epoch

\* "audience" is history: the members when the message was stored.
Stored(u, kind, e) ==
  [sender |-> u, kind |-> kind, epoch |-> e, audience |-> Members,
   receipts |-> [v \in Active |-> IF v = u THEN "read" ELSE "sent"]]

MessageRecords ==
  [sender : Users, kind : {"text", "file"}, epoch : Epochs, audience : SUBSET Users,
   receipts : UNION {[readers -> Statuses] : readers \in SUBSET Users}]

\* Create stores a text and broadcasts it to the members a second query finds,
\* Upload a file, announced to those the transaction found.
Store(r, kind) ==
  LET req == requests[r]
      id == Len(messages) + 1 IN
  /\ Running(r, "send")
  /\ Len(messages) < MaxMessages
  /\ ValidateSend(req.user, req.epoch)
  /\ messages' = Append(messages, Stored(req.user, kind, req.epoch))
  /\ Become(r, IF kind = "text" THEN LookingUp(id)
               ELSE Delivering(id, Active \ {req.user}, {}))
  /\ UNCHANGED group

\* The message a request works on is gone once the group was deleted.
Target(r) == messages[requests[r].message]
Alive(r) == requests[r].message \in DOMAIN messages

LookUp(r) ==
  /\ Running(r, "lookup")
  /\ Alive(r)
  /\ Become(r, Delivering(requests[r].message, Active \ {Target(r).sender}, {}))
  /\ UNCHANGED <<group, messages>>

\* Hub.SendToUser, whose answer says whether the user is connected. A file is
\* marked after each recipient, a text once for all of them.
Push(r, u, online) ==
  LET req == requests[r] IN
  /\ Running(r, "deliver")
  /\ Alive(r)
  /\ u \in req.todo
  /\ Target(r).kind = "text" \/ req.reached = {}
  /\ Become(r, Delivering(req.message, req.todo \ {u},
                          IF online THEN req.reached \cup {u} ELSE req.reached))
  /\ UNCHANGED <<group, messages>>

\* Mutant: the status is not part of the WHERE clause.
DeliveredAny(receipts, reached) ==
  [u \in DOMAIN receipts |-> IF u \in reached THEN "delivered" ELSE receipts[u]]

\* messages.broadcast: UPDATE ... WHERE status='sent' AND user_id IN (...).
DeliveredText(receipts, reached) ==
  [u \in DOMAIN receipts |->
     IF u \in reached /\ receipts[u] = "sent" THEN "delivered" ELSE receipts[u]]

\* files.Upload: UPDATE ... WHERE message_id=? AND user_id=?, whatever the status.
DeliveredFile(receipts, reached) ==
  [u \in DOMAIN receipts |-> IF u \in reached THEN "delivered" ELSE receipts[u]]

MarkText(r) ==
  LET req == requests[r] IN
  /\ Running(r, "deliver")
  /\ Alive(r)
  /\ Target(r).kind = "text"
  /\ req.todo = {}
  /\ messages' = [messages EXCEPT ![req.message].receipts = DeliveredText(@, req.reached)]
  /\ Become(r, Idle)
  /\ UNCHANGED group

MarkFile(r) ==
  LET req == requests[r] IN
  /\ Running(r, "deliver")
  /\ Alive(r)
  /\ Target(r).kind = "file"
  /\ req.reached # {} \/ req.todo = {}
  /\ messages' = [messages EXCEPT ![req.message].receipts = DeliveredFile(@, req.reached)]
  /\ Become(r, IF req.todo = {} THEN Idle ELSE Delivering(req.message, req.todo, {}))
  /\ UNCHANGED group

\* Read checks the membership, then updates the receipt. A user without one
\* gets a 404: receipts are only created with the message.
StartRead(r, u, i) ==
  /\ Running(r, "idle")
  /\ u \in Active \cap DOMAIN messages[i].receipts
  /\ Become(r, Reading(u, i))
  /\ UNCHANGED <<group, messages>>

Read(r) ==
  LET req == requests[r] IN
  /\ Running(r, "read")
  /\ Alive(r)
  /\ messages' = [messages EXCEPT ![req.message].receipts[req.user] = "read"]
  /\ Become(r, Idle)
  /\ UNCHANGED group

-----------------------------------------------------------------------------
(* Failures                                                                *)

\* A refused or failed statement ends its request: 4xx, 5xx, a lost connection
\* to the database. What earlier statements wrote stays.
Abort(r) ==
  /\ ~Running(r, "idle")
  /\ Become(r, Idle)
  /\ UNCHANGED <<group, messages>>

\* Mutant: INSERT OR REPLACE.
BackfilledOver ==
  [e \in Epochs |-> [u \in Users |->
     IF e = 1 /\ u \in Members THEN memberKey[u] ELSE envelopes[e][u]]]

\* db.Migrate runs at every start: each member without an envelope for the
\* first epoch is given one that holds the key of the member's row.
Backfilled ==
  [e \in Epochs |-> [u \in Users |->
     IF e = 1 /\ u \in Members /\ envelopes[e][u] = NoKey
     THEN memberKey[u] ELSE envelopes[e][u]]]

Restart ==
  /\ requests' = [r \in Requests |-> Idle]
  /\ envelopes' = Backfilled
  /\ UNCHANGED <<exists, epoch, rotationRequired, role, memberKey, messages>>

GroupNext ==
  \/ \E u \in Users : AcceptMembership(u)
  \/ \E r \in Requests : \/ StartRotate(r)
                         \/ Rotate(r)
                         \/ \E u \in Users : StartDelete(r, u)
                         \/ LeaveGroup(r)
                         \/ DeleteGroup(r)
                         \/ \E u \in Users, e \in Epochs : StartSend(r, u, e)
                         \/ \E kind \in Kinds : Store(r, kind)
                         \/ LookUp(r)
                         \/ \E u \in Users, online \in BOOLEAN : Push(r, u, online)
                         \/ MarkText(r)
                         \/ MarkFile(r)
                         \/ \E u \in Users, i \in DOMAIN messages : StartRead(r, u, i)
                         \/ Read(r)
                         \/ Abort(r)
  \/ Restart

GroupSpec == GroupInit /\ [][GroupNext]_groupVars

-----------------------------------------------------------------------------
(* Properties                                                              *)

\* The tables keep their columns: a member's row holds a key, nobody else's
\* does, the owner never leaves, and a receipt belongs to a stored message.
GroupTypeOK ==
  /\ exists \in BOOLEAN
  /\ epoch \in Epochs
  /\ rotationRequired \in BOOLEAN
  /\ role \in [Users -> Roles]
  /\ memberKey \in [Users -> Epochs \cup {NoKey}]
  /\ \A u \in Users : memberKey[u] # NoKey <=> role[u] # "none"
  /\ exists <=> role[Owner] = "owner"
  /\ envelopes \in [Epochs -> [Users -> Epochs \cup {NoKey}]]
  /\ messages \in Seq(MessageRecords) /\ Len(messages) <= MaxMessages
  /\ \A i \in DOMAIN messages : DOMAIN messages[i].receipts \subseteq messages[i].audience
  /\ requests \in [Requests -> RequestRecords]

\* Whatever rotations, departures and restarts cross each other, the envelope
\* of the current epoch of every member, pending ones included, holds the
\* current key: the "invalid group members" check of RotateGroupKeys.
MembersHoldTheCurrentKey ==
  exists => \A u \in Members : envelopes[epoch][u] = epoch /\ memberKey[u] = epoch

\* README: "la rotation des clés de groupe protège les messages futurs après un
\* ajout ou un retrait". Whoever was not a member when a message was stored,
\* because they had left or were added later, never holds its key.
OutsidersCannotRead ==
  \A i \in DOMAIN messages :
    \A u \in Users \ messages[i].audience : ~Holds(u, messages[i].epoch)

\* Whoever owes a receipt for a message can decrypt it: its sender did not
\* encrypt it under a key that a recipient was never given.
RecipientsCanRead ==
  \A i \in DOMAIN messages :
    \A u \in DOMAIN messages[i].receipts : envelopes[messages[i].epoch][u] = messages[i].epoch

Rank(status) == CASE status = "sent" -> 0 [] status = "delivered" -> 1 [] status = "read" -> 2

NeverRegress(kind) ==
  \A i \in DOMAIN messages \cap DOMAIN messages' :
    messages[i].kind = kind =>
      \A u \in DOMAIN messages[i].receipts :
        Rank(messages'[i].receipts[u]) >= Rank(messages[i].receipts[u])

\* README: "un message déjà marqué comme lu ne peut plus revenir à l'état livré
\* lors d'une mise à jour concurrente". A recipient may read a text while its
\* broadcast has yet to record the deliveries.
TextReceiptsNeverRegress == [][NeverRegress("text")]_groupVars

\* The same promise for the message that carries a file.
FileReceiptsNeverRegress == [][NeverRegress("file")]_groupVars
=============================================================================
