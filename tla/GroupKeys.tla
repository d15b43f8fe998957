------------------------------ MODULE GroupKeys ------------------------------
(***************************************************************************)
(* The keys of one group in the pages that show it (getConversationKey,    *)
(* getConversationKeyEnvelopes, editConversation and                       *)
(* repairRequiredGroupRotation of web/js/app.js).                          *)
(*                                                                         *)
(* Every change of members, and every departure, makes the owner's page    *)
(* generate the key of the next epoch, wrap it for the final members and   *)
(* encrypt the group's title anew.  A page keeps the conversation as the   *)
(* last list gave it, the keys it opened, by epoch, and the envelopes it   *)
(* loaded.  What a dialog captured when it opened is used when it is saved.*)
(* The rules of the server are those of GroupConversation; here they are   *)
(* one step, with the key an epoch really got.                             *)
(***************************************************************************)
EXTENDS Naturals, Sequences, FiniteSets

CONSTANTS
    Owners,     \* pages of the group's owner
    Readers,    \* pages of another member
    MaxEpoch,   \* bound: epochs of the group
    MaxEdits    \* bound: dialogs opened

GroupKeysBounds == Owners \cap Readers = {} /\ MaxEpoch \in Nat \ {0} /\ MaxEdits \in Nat

VARIABLES
    epochKeys,  \* the key of each epoch, as the envelopes of the server hold it
    titleKey,   \* the key the stored title is encrypted under
    frozen,     \* rotation_required: a member left
    generated,  \* keys generated so far: their names
    row,        \* the conversation each page holds
    keys,       \* state.keys: the keys a page opened, by epoch
    envelopes,  \* state.keyEnvelopes: the epochs of the envelopes a page loaded
    loading,    \* the envelopes an answer on its way holds
    dialog,     \* what the edit dialog of a page captured
    posting     \* the rotation or the title a page is posting

pages == <<row, keys, envelopes, loading, dialog, posting>>
server == <<epochKeys, titleKey, frozen>>
keysVars == <<epochKeys, titleKey, frozen, generated, row, keys, envelopes, loading, dialog, posting>>

Pages == Owners \cup Readers
Epochs == 1..MaxEpoch
NoKey == 0
None == [is |-> "none"]
Epoch == Len(epochKeys)
Row == [epoch |-> Epoch, key |-> epochKeys[Epoch], frozen |-> frozen]
NoKeys == [e \in Epochs |-> NoKey]

-----------------------------------------------------------------------------
(* Opening keys. *)

(* getConversationKeyEnvelopes: the answer holds the epochs of its time, and *)
(* is kept when it arrives. *)
AskEnvelopes(p) ==
    /\ envelopes[p] = 0 /\ loading[p] = 0
    /\ loading' = [loading EXCEPT ![p] = Epoch]
    /\ UNCHANGED <<server, generated, row, keys, envelopes, dialog, posting>>

EnvelopesArrive(p) ==
    /\ loading[p] # 0
    /\ loading' = [loading EXCEPT ![p] = 0]
    /\ envelopes' = [envelopes EXCEPT ![p] = loading[p]]
    /\ UNCHANGED <<server, generated, row, keys, dialog, posting>>

(* getConversationKey: the envelope of the epoch, or the key that came with *)
(* the conversation for its own epoch; an epoch with neither is refused.    *)
RowForAny(p, e) ==                  \* mutant: the conversation's key for any epoch
    IF e <= envelopes[p] THEN epochKeys[e] ELSE row[p].key
Envelope(p, e) ==
    IF e <= envelopes[p] THEN epochKeys[e]
    ELSE IF e = row[p].epoch THEN row[p].key ELSE NoKey

OpenKey(p, e) ==
    /\ envelopes[p] # 0 /\ e <= Epoch
    /\ keys[p][e] = NoKey
    /\ Envelope(p, e) # NoKey
    /\ keys' = [keys EXCEPT ![p][e] = Envelope(p, e)]
    /\ UNCHANGED <<server, generated, row, envelopes, loading, dialog, posting>>

(* The list of conversations is read again (conversation_updated, refreshAll): *)
(* a new object, which an open dialog does not hold. *)
Refresh(p) ==
    /\ row[p] # Row
    /\ row' = [row EXCEPT ![p] = Row]
    /\ dialog' = [dialog EXCEPT ![p] = IF @.is = "open" THEN [@ EXCEPT !.live = FALSE] ELSE @]
    /\ UNCHANGED <<server, generated, keys, envelopes, loading, posting>>

(* The page is reloaded. *)
Reload(p) ==
    /\ row' = [row EXCEPT ![p] = Row]
    /\ keys' = [keys EXCEPT ![p] = NoKeys]
    /\ envelopes' = [envelopes EXCEPT ![p] = 0]
    /\ loading' = [loading EXCEPT ![p] = 0]
    /\ dialog' = [dialog EXCEPT ![p] = None]
    /\ posting' = [posting EXCEPT ![p] = None]
    /\ UNCHANGED <<server, generated>>

-----------------------------------------------------------------------------
(* Changing the group. *)

(* Another member leaves: the server freezes the group. *)
Leave ==
    /\ ~frozen /\ Epoch < MaxEpoch
    /\ frozen' = TRUE
    /\ UNCHANGED <<epochKeys, titleKey, generated, pages>>

Rotation(next, change) ==
    [is |-> "rotation", next |-> next, key |-> generated + 1, done |-> FALSE, change |-> change]
Post(p, what) == posting' = [posting EXCEPT ![p] = what]

Remember(p, e, k) == [keys EXCEPT ![p] = [NoKeys EXCEPT ![e] = k]]

(* repairRequiredGroupRotation: the owner's page sees the group frozen. *)
Repair(p) ==
    /\ posting[p] = None
    /\ row[p].frozen /\ keys[p][row[p].epoch] # NoKey
    /\ row[p].epoch < MaxEpoch
    /\ generated' = generated + 1
    /\ Post(p, Rotation(row[p].epoch + 1, FALSE))
    /\ UNCHANGED <<server, row, keys, envelopes, loading, dialog>>

(* editConversation: the dialog opens with the title and the key of now. *)
OpenEdit(p) ==
    /\ dialog[p] = None
    /\ keys[p][row[p].epoch] # NoKey
    /\ dialog' = [dialog EXCEPT ![p] = [is |-> "open", live |-> TRUE, epoch |-> row[p].epoch,
                                        frozen |-> row[p].frozen, key |-> keys[p][row[p].epoch]]]
    /\ UNCHANGED <<server, generated, row, keys, envelopes, loading, posting>>

(* The dialog is saved: other members, or a group it saw frozen, take a new *)
(* key; another title alone is encrypted under the key captured.            *)
SaveMembers(p) ==
    /\ dialog[p].is = "open" /\ posting[p] = None
    /\ dialog[p].epoch < MaxEpoch
    /\ generated' = generated + 1
    /\ Post(p, Rotation(dialog[p].epoch + 1, TRUE))
    /\ UNCHANGED <<server, row, keys, envelopes, loading, dialog>>

SaveTitle(p) ==
    /\ dialog[p].is = "open" /\ posting[p] = None
    /\ ~dialog[p].frozen
    /\ Post(p, [is |-> "title", key |-> dialog[p].key])
    /\ dialog' = [dialog EXCEPT ![p] = None]
    /\ UNCHANGED <<server, generated, row, keys, envelopes, loading>>

CloseEdit(p) ==
    /\ dialog[p].is = "open" /\ posting[p] = None
    /\ dialog' = [dialog EXCEPT ![p] = None]
    /\ UNCHANGED <<server, generated, row, keys, envelopes, loading, posting>>

(* The server: the next epoch only, for other members or a frozen group; a *)
(* title as it comes. *)
StoreRotation(p) ==
    /\ posting[p].is = "rotation" /\ ~posting[p].done
    /\ posting[p].next = Epoch + 1
    /\ posting[p].change \/ frozen
    /\ epochKeys' = Append(epochKeys, posting[p].key)
    /\ titleKey' = posting[p].key
    /\ frozen' = FALSE
    /\ posting' = [posting EXCEPT ![p].done = TRUE]
    /\ UNCHANGED <<generated, row, keys, envelopes, loading, dialog>>

StoreTitle(p) ==
    /\ posting[p].is = "title"
    /\ titleKey' = posting[p].key
    /\ Post(p, None)
    /\ UNCHANGED <<epochKeys, frozen, generated, row, keys, envelopes, loading, dialog>>

(* The answer: the page forgets the keys of the group but the new one, and *)
(* marks the conversation it changed. *)
Marked(old, r) == [old EXCEPT !.epoch = r.next, !.key = r.key, !.frozen = FALSE]
Answered(p) == posting[p].is = "rotation" /\ posting[p].done

Rotated(p) ==
    LET r == posting[p] IN
    /\ Answered(p)
    /\ keys' = Remember(p, r.next, r.key)
    /\ envelopes' = [envelopes EXCEPT ![p] = 0]
    /\ row' = IF row[p].epoch < r.next THEN [row EXCEPT ![p] = Marked(@, r)] ELSE row
    /\ dialog' = [dialog EXCEPT ![p] =
                    IF r.change THEN None
                    ELSE IF @.is = "open" /\ @.live
                      THEN [@ EXCEPT !.epoch = r.next, !.frozen = FALSE] ELSE @]
    /\ Post(p, None)
    /\ UNCHANGED <<server, generated, loading>>

(* The request, or its answer, is lost or refused. *)
PostFails(p) ==
    /\ posting[p] # None
    /\ Post(p, None)
    /\ dialog' = [dialog EXCEPT ![p] =
                    IF posting[p].is = "rotation" /\ posting[p].change THEN None ELSE @]
    /\ UNCHANGED <<server, generated, row, keys, envelopes, loading>>

-----------------------------------------------------------------------------
(* createGroup: the page that created the group holds its key. *)
KeysInit ==
    /\ epochKeys = <<1>> /\ titleKey = 1 /\ frozen = FALSE /\ generated = 1
    /\ row = [p \in Pages |-> Row]
    /\ keys \in {[p \in Pages |-> IF p = q THEN [NoKeys EXCEPT ![1] = 1] ELSE NoKeys] : q \in Owners}
    /\ envelopes = [p \in Pages |-> 0]
    /\ loading = [p \in Pages |-> 0]
    /\ dialog = [p \in Pages |-> None]
    /\ posting = [p \in Pages |-> None]

KeysNext ==
    \/ Leave
    \/ \E p \in Pages :
         \/ AskEnvelopes(p)
         \/ EnvelopesArrive(p)
         \/ \E e \in Epochs : OpenKey(p, e)
         \/ Refresh(p)
         \/ Reload(p)
    \/ \E p \in Owners :
         \/ generated < MaxEdits /\ Repair(p)
         \/ OpenEdit(p)
         \/ generated < MaxEdits /\ SaveMembers(p)
         \/ SaveTitle(p)
         \/ CloseEdit(p)
         \/ StoreRotation(p)
         \/ StoreTitle(p)
         \/ Rotated(p)
         \/ PostFails(p)

KeysSpec == KeysInit /\ [][KeysNext]_keysVars

-----------------------------------------------------------------------------
KeysTypeOK ==
    /\ epochKeys \in Seq(Nat) /\ Epoch <= MaxEpoch /\ titleKey \in 1..generated
    /\ \A p \in Pages : keys[p] \in [Epochs -> 0..generated] /\ envelopes[p] \in 0..Epoch

(* The key a page keeps for an epoch is the one every other member was given *)
(* for it, whichever page rotated, was refused, or lost the answer: what it  *)
(* encrypts or opens under an epoch is readable by all (app.js 4063-4067,    *)
(* 4136-4145, 4469-4512).                                                    *)
KeysAreOfTheirEpoch ==
    \A p \in Pages, e \in Epochs :
      keys[p][e] # NoKey => e <= Epoch /\ keys[p][e] = epochKeys[e]

(* The group's title is encrypted under the group's key (README.md:507, "Le  *)
(* titre du groupe utilise la clé du groupe."): a member reads it with the   *)
(* key of the current epoch and no other (resolveConversationDisplay).       *)
TitleUsesTheGroupKey == titleKey = epochKeys[Epoch]
=============================================================================
