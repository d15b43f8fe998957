----------------------------- MODULE PageProofs -----------------------------
(***************************************************************************)
(* Parts of a page and the connections that feed it, for any value of      *)
(* their constants. Their names are distinct, so that one module holds     *)
(* what is proved of each.                                                 *)
(***************************************************************************)
EXTENDS GroupKeys, IdentityTrust, CallMedia, CallConfig, SharePage, PinnedPanel, Carnet, Hub,
        PreviewPass, Composer, GlobalFiles, SequenceTheorems, FiniteSetTheorems,
        WellFoundedInduction, TLAPS

-----------------------------------------------------------------------------
(* The keys of a group in its pages: whatever rotations are posted, refused or lost, and       *)
(* whenever envelopes and lists arrive, the key kept for an epoch is the one of the others. *)

Rows == [epoch : Nat, key : Nat, frozen : BOOLEAN]
Dialogs == [is : {"open"}, live : BOOLEAN, epoch : Nat, frozen : BOOLEAN, key : Nat]
Rotations == [is : {"rotation"}, next : Nat, key : Nat, done : BOOLEAN, change : BOOLEAN]
Titles == [is : {"title"}, key : Nat]

ServerOK ==
  /\ epochKeys \in Seq(Nat) /\ Epoch \in 1..MaxEpoch
  /\ generated \in Nat /\ frozen \in BOOLEAN
  /\ \A e \in 1..Epoch : epochKeys[e] \in 1..generated
  /\ titleKey \in 1..generated

\* What a page may hold, and the keys in it, which were all generated.
PagesOK ==
  /\ row \in [Pages -> Rows]
  /\ keys \in [Pages -> [Epochs -> 0..generated]]
  /\ envelopes \in [Pages -> 0..Epoch] /\ loading \in [Pages -> 0..Epoch]
  /\ dialog \in [Pages -> Dialogs \cup {None}]
  /\ posting \in [Pages -> Rotations \cup Titles \cup {None}]

Chosen ==
  \A p \in Pages : /\ dialog[p] # None => dialog[p].key \in 1..generated
                                          /\ dialog[p].epoch \in 1..MaxEpoch
                   /\ posting[p] # None => posting[p].key \in 1..generated
                   /\ posting[p].is = "rotation" => posting[p].next \in 1..MaxEpoch

\* A row is the group at some epoch, with the key of that epoch.
RowsAreTrue ==
  \A p \in Pages : row[p].epoch \in 1..Epoch /\ row[p].key = epochKeys[row[p].epoch]

\* A rotation the server took is the one of its epoch.
AnswersAreTrue ==
  \A p \in Pages : Answered(p) => posting[p].next <= Epoch /\ posting[p].key = epochKeys[posting[p].next]

KeysInv == ServerOK /\ PagesOK /\ Chosen /\ RowsAreTrue /\ AnswersAreTrue /\ KeysAreOfTheirEpoch

-----------------------------------------------------------------------------
\* The group is created with one epoch, whose key its page holds.
LEMMA KeysInitInv == ASSUME GroupKeysBounds PROVE KeysInit => KeysInv
<1> SUFFICES ASSUME KeysInit PROVE KeysInv
  OBVIOUS
<1> USE DEF KeysInit, GroupKeysBounds, Epochs, NoKey, None, NoKeys, Epoch
<1>1. Len(epochKeys) = 1 /\ epochKeys[1] = 1 /\ epochKeys \in Seq(Nat)
  OBVIOUS
<1>2. ServerOK
  <2>1. MaxEpoch \in Nat /\ 1 \in 1..MaxEpoch
    OBVIOUS
  <2>2. \A e \in 1..Len(epochKeys) : epochKeys[e] \in 1..generated
    BY <1>1
  <2>3. generated = 1 /\ titleKey = 1 /\ frozen = FALSE
    OBVIOUS
  <2> HIDE DEF KeysInit
  <2>4. 1 \in 1..generated
    BY <2>3
  <2>5. QED BY <1>1, <2>1, <2>2, <2>3, <2>4 DEF ServerOK
<1>3. Row = [epoch |-> 1, key |-> 1, frozen |-> FALSE]
  BY <1>1 DEF Row
<1>4. \A p \in Pages : keys[p] \in [Epochs -> 0..1] /\ \A e \in Epochs : keys[p][e] # 0 => e = 1 /\ keys[p][e] = 1
  <2>1. 1 \in Epochs
    OBVIOUS
  <2>2. /\ NoKeys \in [Epochs -> 0..1] /\ \A e \in Epochs : NoKeys[e] = 0
        /\ [NoKeys EXCEPT ![1] = 1] \in [Epochs -> 0..1]
        /\ \A e \in Epochs : [NoKeys EXCEPT ![1] = 1][e] = IF e = 1 THEN 1 ELSE 0
    BY <2>1
  <2>3. PICK q \in Owners :
          keys = [p \in Pages |-> IF p = q THEN [NoKeys EXCEPT ![1] = 1] ELSE NoKeys]
    OBVIOUS
  <2>4. QED BY <2>2, <2>3
<1>5. PagesOK
  <2>1. row \in [Pages -> Rows]
    <3>1. Row \in Rows
      BY <1>3 DEF Rows
    <3>2. QED BY <3>1
  <2>2. keys \in [Pages -> [Epochs -> 0..generated]]
    BY <1>4
  <2>3. QED BY <1>1, <2>1, <2>2 DEF PagesOK
<1>6. Chosen /\ AnswersAreTrue
  BY DEF Chosen, AnswersAreTrue, Answered
<1>7. RowsAreTrue
  BY <1>1, <1>3 DEF RowsAreTrue
<1>8. KeysAreOfTheirEpoch
  BY <1>1, <1>4 DEF KeysAreOfTheirEpoch
<1>9. QED BY <1>2, <1>5, <1>6, <1>7, <1>8 DEF KeysInv

-----------------------------------------------------------------------------
\* Envelopes and rows that arrive, and keys opened from them, are of the epochs the
\* server had.
LEMMA ArrivalsInv ==
  ASSUME GroupKeysBounds, KeysInv, NEW p \in Pages,
         AskEnvelopes(p) \/ EnvelopesArrive(p) \/ Refresh(p) \/ Reload(p)
  PROVE  KeysInv'
<1> USE DEF GroupKeysBounds, KeysInv, server, pages, Epoch
<1>1. CASE AskEnvelopes(p) \/ EnvelopesArrive(p)
  <2>1. envelopes' \in [Pages -> 0..Epoch] /\ loading' \in [Pages -> 0..Epoch]
    <3>1. Len(epochKeys) \in 0..Len(epochKeys)
      BY DEF ServerOK
    <3>2. CASE AskEnvelopes(p)
      BY <3>1, <3>2 DEF AskEnvelopes, PagesOK
    <3>3. CASE EnvelopesArrive(p)
      BY <3>3 DEF EnvelopesArrive, ServerOK, PagesOK
    <3>4. QED BY <1>1, <3>2, <3>3
  <2>2. UNCHANGED <<server, generated, row, keys, dialog, posting>>
    BY <1>1 DEF AskEnvelopes, EnvelopesArrive
  <2>3. QED
    BY <2>1, <2>2 DEF ServerOK, PagesOK, Chosen, RowsAreTrue, AnswersAreTrue, Answered,
                      KeysAreOfTheirEpoch
<1>2. Row \in Rows /\ Row.epoch = Len(epochKeys) /\ Row.key = epochKeys[Len(epochKeys)]
  BY DEF ServerOK, Row, Rows
<1>3. ASSUME row' = [row EXCEPT ![p] = Row], UNCHANGED server
      PROVE  row' \in [Pages -> Rows] /\ RowsAreTrue'
  BY <1>2, <1>3 DEF ServerOK, PagesOK, RowsAreTrue
<1>4. CASE Refresh(p)
  <2> USE <1>4 DEF Refresh
  <2>1. dialog' \in [Pages -> Dialogs \cup {None}]
    BY DEF PagesOK, Dialogs, None
  <2>2. \A q \in Pages : dialog'[q] # None => /\ dialog[q] # None
                                              /\ dialog'[q].key = dialog[q].key
                                              /\ dialog'[q].epoch = dialog[q].epoch
    BY DEF PagesOK, Dialogs, None
  <2>3. ServerOK' /\ PagesOK' /\ RowsAreTrue'
    BY <1>3, <2>1 DEF ServerOK, PagesOK
  <2>4. Chosen' /\ AnswersAreTrue' /\ KeysAreOfTheirEpoch'
    BY <2>2 DEF Chosen, AnswersAreTrue, Answered, KeysAreOfTheirEpoch
  <2>5. QED BY <2>3, <2>4
<1>5. CASE Reload(p)
  <2> USE <1>5 DEF Reload
  <2>1. keys' \in [Pages -> [Epochs -> 0..generated]]
    BY DEF ServerOK, PagesOK, NoKeys, NoKey
  <2>2. ServerOK' /\ PagesOK' /\ RowsAreTrue'
    BY <1>3, <2>1 DEF ServerOK, PagesOK
  <2>3. Chosen' /\ AnswersAreTrue'
    BY DEF PagesOK, Chosen, AnswersAreTrue, Answered, None
  <2>4. KeysAreOfTheirEpoch'
    BY DEF PagesOK, KeysAreOfTheirEpoch, NoKeys, NoKey
  <2>5. QED BY <2>2, <2>3, <2>4
<1>6. QED BY <1>1, <1>4, <1>5

\* A key opened for an epoch is in its envelope, or in the row of that very epoch.
LEMMA OpenKeyInv ==
  ASSUME GroupKeysBounds, KeysInv, NEW p \in Pages, NEW e \in Epochs, OpenKey(p, e)
  PROVE  KeysInv'
<1> USE DEF GroupKeysBounds, KeysInv, server, Epoch, OpenKey
<1>1. Envelope(p, e) = epochKeys[e] /\ e \in 1..Len(epochKeys)
  BY DEF ServerOK, PagesOK, RowsAreTrue, Envelope, NoKey, Epochs
<1>2. keys' \in [Pages -> [Epochs -> 0..generated]]
  BY <1>1 DEF ServerOK, PagesOK
<1>3. KeysAreOfTheirEpoch'
  BY <1>1 DEF PagesOK, KeysAreOfTheirEpoch
<1>4. QED
  BY <1>2, <1>3 DEF ServerOK, PagesOK, Chosen, RowsAreTrue, AnswersAreTrue, Answered

\* What the owner's page opens, posts and gives up holds keys that were generated.
LEMMA OwnerInv ==
  ASSUME GroupKeysBounds, KeysInv, NEW p \in Pages,
         OpenEdit(p) \/ SaveTitle(p) \/ CloseEdit(p) \/ PostFails(p)
  PROVE  KeysInv'
<1> USE DEF GroupKeysBounds, KeysInv, server, Epoch, Post
<1>1. UNCHANGED <<server, generated, row, keys, envelopes, loading>>
  BY DEF OpenEdit, SaveTitle, CloseEdit, PostFails
<1>2. dialog' \in [Pages -> Dialogs \cup {None}]
  <2>1. CASE OpenEdit(p)
    <3>1. row[p] \in Rows /\ keys[p][row[p].epoch] \in Nat
      BY DEF ServerOK, PagesOK, RowsAreTrue, Epochs
    <3>2. [is |-> "open", live |-> TRUE, epoch |-> row[p].epoch,
           frozen |-> row[p].frozen, key |-> keys[p][row[p].epoch]] \in Dialogs
      BY <3>1 DEF Rows, Dialogs
    <3>3. QED BY <2>1, <3>2 DEF OpenEdit, PagesOK
  <2>2. QED BY <2>1 DEF SaveTitle, CloseEdit, PostFails, PagesOK
<1>3. posting' \in [Pages -> Rotations \cup Titles \cup {None}]
  <2>1. CASE SaveTitle(p)
    <3>1. dialog[p] \in Dialogs
      BY <2>1 DEF SaveTitle, PagesOK, None
    <3>2. [is |-> "title", key |-> dialog[p].key] \in Titles
      BY <3>1 DEF Dialogs, Titles
    <3>3. QED BY <2>1, <3>2 DEF SaveTitle, PagesOK
  <2>2. QED BY <2>1 DEF OpenEdit, CloseEdit, PostFails, PagesOK
<1>4. Chosen'
  <2>1. CASE OpenEdit(p)
    BY <2>1 DEF OpenEdit, ServerOK, PagesOK, RowsAreTrue, Chosen, NoKey, Epochs, Rows
  <2>2. CASE SaveTitle(p)
    BY <2>2 DEF SaveTitle, PagesOK, Chosen, None
  <2>3. CASE CloseEdit(p)
    BY <2>3 DEF CloseEdit, PagesOK, Chosen, None
  <2>4. CASE PostFails(p)
    BY <2>4 DEF PostFails, PagesOK, Chosen, None
  <2>5. QED BY <2>1, <2>2, <2>3, <2>4
<1>5. AnswersAreTrue'
  <2>1. \A q \in Pages : Answered(q)' => Answered(q) /\ posting'[q] = posting[q]
    BY DEF OpenEdit, SaveTitle, CloseEdit, PostFails, PagesOK, Answered, None
  <2>2. QED BY <1>1, <2>1 DEF AnswersAreTrue
<1>6. QED BY <1>1, <1>2, <1>3, <1>4, <1>5 DEF ServerOK, PagesOK, RowsAreTrue, KeysAreOfTheirEpoch

\* A rotation is posted with a key of its own, for an epoch within the bound.
LEMMA PostRotationInv ==
  ASSUME GroupKeysBounds, KeysInv, NEW p \in Pages, Repair(p) \/ SaveMembers(p)
  PROVE  KeysInv'
<1> USE DEF GroupKeysBounds, KeysInv, server, Epoch, Post
<1>1. PICK r \in Rotations : /\ posting' = [posting EXCEPT ![p] = r]
                             /\ r.key = generated + 1 /\ ~r.done /\ r.next \in 1..MaxEpoch
  <2>1. CASE Repair(p)
    <3>1. row[p].epoch + 1 \in 1..MaxEpoch
      BY <2>1 DEF Repair, ServerOK, PagesOK, RowsAreTrue
    <3>2. Rotation(row[p].epoch + 1, FALSE) \in Rotations
      BY <3>1 DEF Rotation, Rotations, ServerOK
    <3>3. WITNESS Rotation(row[p].epoch + 1, FALSE) \in Rotations
    <3>4. QED BY <2>1, <3>1 DEF Repair, Rotation
  <2>2. CASE SaveMembers(p)
    <3>1. dialog[p] # None /\ dialog[p].epoch + 1 \in 1..MaxEpoch
      BY <2>2 DEF SaveMembers, Chosen, None
    <3>2. Rotation(dialog[p].epoch + 1, TRUE) \in Rotations
      BY <3>1 DEF Rotation, Rotations, ServerOK
    <3>3. WITNESS Rotation(dialog[p].epoch + 1, TRUE) \in Rotations
    <3>4. QED BY <2>2, <3>1 DEF SaveMembers, Rotation
  <2>3. QED BY <2>1, <2>2
<1>2. UNCHANGED <<server, row, keys, envelopes, loading, dialog>> /\ generated' = generated + 1
  BY DEF Repair, SaveMembers
<1>3. ServerOK'
  BY <1>2 DEF ServerOK
<1>4. keys' \in [Pages -> [Epochs -> 0..generated']]
  BY <1>2 DEF PagesOK, ServerOK
<1>5. PagesOK'
  BY <1>1, <1>2, <1>4 DEF PagesOK
<1>p. /\ posting'[p] = r /\ posting'[p] # None /\ r.is = "rotation" /\ r.key \in 1..generated'
      /\ \A q \in Pages : q # p => posting'[q] = posting[q]
      /\ generated \in Nat
  <2>1. /\ posting'[p] = r /\ \A q \in Pages : q # p => posting'[q] = posting[q]
    BY <1>1 DEF PagesOK
  <2>2. r.is = "rotation" /\ None.is # "rotation"
    BY DEF Rotations, None
  <2>3. generated \in Nat /\ r.key \in 1..generated'
    BY <1>1, <1>2 DEF ServerOK
  <2> QED BY <2>1, <2>2, <2>3
<1>c. Chosen'
  <2>1. \A q \in Pages : dialog[q] # None => dialog[q].key \in 1..generated' /\ dialog[q].epoch \in 1..MaxEpoch
    BY <1>2, <1>p DEF Chosen
  <2>2. \A q \in Pages \ {p} : posting[q] # None => posting[q].key \in 1..generated'
    BY <1>2, <1>p DEF Chosen
  <2>3. \A q \in Pages \ {p} : posting[q].is = "rotation" => posting[q].next \in 1..MaxEpoch
    BY DEF Chosen
  <2> QED BY <1>1, <1>2, <1>p, <2>1, <2>2, <2>3 DEF Chosen
<1>6. AnswersAreTrue'
  <2>1. \A q \in Pages \ {p} : Answered(q)' <=> Answered(q)
    BY <1>p DEF Answered
  <2>2. ~Answered(p)'
    BY <1>1, <1>p DEF Answered
  <2> QED BY <1>2, <1>p, <2>1, <2>2 DEF AnswersAreTrue
<1>7. QED BY <1>2, <1>3, <1>5, <1>c, <1>6 DEF RowsAreTrue, KeysAreOfTheirEpoch

\* The server takes the next epoch and no other: the keys of those before stand.
LEMMA StoreInv ==
  ASSUME GroupKeysBounds, KeysInv, NEW p \in Pages, StoreRotation(p) \/ StoreTitle(p)
  PROVE  KeysInv'
<1> USE DEF GroupKeysBounds, KeysInv, server, Epoch, Post
<1>1. CASE StoreTitle(p)
  <2> USE <1>1 DEF StoreTitle
  <2>1. posting[p] # None
    BY DEF None
  <2>2. ServerOK' /\ PagesOK'
    BY <2>1 DEF ServerOK, PagesOK, Chosen
  <2>3. Chosen' /\ AnswersAreTrue'
    BY DEF PagesOK, Chosen, AnswersAreTrue, Answered, None
  <2>4. QED BY <2>2, <2>3 DEF RowsAreTrue, KeysAreOfTheirEpoch
<1>2. CASE StoreRotation(p)
  <2> USE <1>2 DEF StoreRotation
  <2>1. /\ posting[p] \in Rotations /\ posting[p].key \in 1..generated
        /\ posting[p].next = Len(epochKeys) + 1 /\ posting[p].next \in 1..MaxEpoch
    BY DEF PagesOK, Chosen, Rotations, Titles, None
  <2>2. /\ epochKeys' \in Seq(Nat) /\ Len(epochKeys') = Len(epochKeys) + 1
        /\ \A e \in 1..Len(epochKeys) : epochKeys'[e] = epochKeys[e]
        /\ epochKeys'[Len(epochKeys) + 1] = posting[p].key
    BY <2>1, AppendProperties DEF ServerOK
  <2>3. ServerOK'
    <3>1. \A e \in 1..Len(epochKeys') : epochKeys'[e] \in 1..generated
      BY <2>1, <2>2 DEF ServerOK
    <3>2. Len(epochKeys') \in 1..MaxEpoch
      BY <2>1, <2>2 DEF ServerOK
    <3>3. QED BY <2>1, <2>2, <3>1, <3>2 DEF ServerOK
  <2>4. /\ posting' \in [Pages -> Rotations \cup Titles \cup {None}]
        /\ posting'[p] \in Rotations /\ posting'[p].key = posting[p].key
        /\ posting'[p].next = posting[p].next
        /\ \A q \in Pages : q # p => posting'[q] = posting[q]
    BY <2>1 DEF PagesOK, Rotations
  <2>5. PagesOK'
    BY <2>2, <2>4 DEF PagesOK, ServerOK
  <2>6. Chosen'
    BY <2>1, <2>4 DEF Chosen, Rotations, None
  <2>7. RowsAreTrue'
    BY <2>2 DEF RowsAreTrue, ServerOK
  <2>8. AnswersAreTrue'
    <3> SUFFICES ASSUME NEW q \in Pages, Answered(q)'
                 PROVE  posting'[q].next <= Len(epochKeys') /\ posting'[q].key = epochKeys'[posting'[q].next]
      BY DEF AnswersAreTrue
    <3>1. CASE q = p
      BY <2>1, <2>2, <2>4, <3>1 DEF ServerOK
    <3>2. CASE q # p
      BY <2>2, <2>4, <3>2 DEF AnswersAreTrue, Answered, Chosen, ServerOK
    <3>3. QED BY <3>1, <3>2
  <2>9. KeysAreOfTheirEpoch'
    BY <2>2 DEF KeysAreOfTheirEpoch, Epochs, ServerOK
  <2>10. QED BY <2>3, <2>5, <2>6, <2>7, <2>8, <2>9
<1>3. QED BY <1>1, <1>2

\* The answer leaves the page with the new key alone, and the row of its epoch.
LEMMA RotatedInv ==
  ASSUME GroupKeysBounds, KeysInv, NEW p \in Pages, Rotated(p)
  PROVE  KeysInv'
<1> DEFINE r == posting[p]
<1> USE DEF GroupKeysBounds, KeysInv, server, Epoch, Post
<1>1. /\ r \in Rotations /\ r.key \in 1..generated /\ r.next \in 1..MaxEpoch
      /\ r.next <= Len(epochKeys) /\ r.key = epochKeys[r.next]
  BY DEF Rotated, Answered, PagesOK, Chosen, AnswersAreTrue, Rotations, Titles, None
<1>2. UNCHANGED <<server, generated, loading>> /\ posting' = [posting EXCEPT ![p] = None]
  BY DEF Rotated
<1>3. keys' = [keys EXCEPT ![p] = [NoKeys EXCEPT ![r.next] = r.key]]
  BY DEF Rotated, Remember
<1>4. keys' \in [Pages -> [Epochs -> 0..generated]] /\ KeysAreOfTheirEpoch'
  <2>1. /\ [NoKeys EXCEPT ![r.next] = r.key] \in [Epochs -> 0..generated]
        /\ \A e \in Epochs : [NoKeys EXCEPT ![r.next] = r.key][e] = IF e = r.next THEN r.key ELSE 0
    BY <1>1 DEF ServerOK, NoKeys, NoKey, Epochs
  <2>2. keys' \in [Pages -> [Epochs -> 0..generated]]
    BY <1>3, <2>1 DEF PagesOK
  <2>3. KeysAreOfTheirEpoch'
    BY <1>1, <1>2, <1>3, <2>1 DEF PagesOK, NoKey, KeysAreOfTheirEpoch
  <2>4. QED BY <1>2, <2>2, <2>3
<1>5. row' \in [Pages -> Rows] /\ RowsAreTrue'
  <2>1. CASE row' = row
    BY <1>2, <2>1 DEF PagesOK, RowsAreTrue
  <2>2. CASE row' = [row EXCEPT ![p] = Marked(row[p], r)]
    <3>1. Marked(row[p], r) \in Rows /\ Marked(row[p], r).epoch = r.next /\ Marked(row[p], r).key = r.key
      BY <1>1 DEF Marked, Rows, PagesOK, Rotations
    <3>2. QED BY <1>1, <1>2, <2>2, <3>1 DEF PagesOK, RowsAreTrue, ServerOK
  <2>3. QED BY <2>1, <2>2 DEF Rotated
<1>6. /\ dialog' \in [Pages -> Dialogs \cup {None}]
      /\ \A q \in Pages : dialog'[q] # None => /\ dialog[q] # None
                                               /\ dialog'[q].key = dialog[q].key
                                               /\ dialog'[q].epoch \in {dialog[q].epoch, r.next}
  <2> DEFINE d == IF r.change THEN None
                  ELSE IF dialog[p].is = "open" /\ dialog[p].live
                    THEN [dialog[p] EXCEPT !.epoch = r.next, !.frozen = FALSE] ELSE dialog[p]
  <2>1. dialog' = [dialog EXCEPT ![p] = d]
    BY DEF Rotated
  <2>2. dialog[p] \in Dialogs \cup {None}
    BY DEF PagesOK
  <2>3. d \in Dialogs \cup {None}
    BY <1>1, <2>2 DEF Dialogs, Rotations, None
  <2>4. d # None => /\ dialog[p] # None /\ d.key = dialog[p].key
                    /\ d.epoch \in {dialog[p].epoch, r.next}
    BY <1>1, <2>2 DEF Dialogs, Rotations, None
  <2> HIDE DEF d
  <2>5. QED BY <2>1, <2>3, <2>4 DEF PagesOK
<1>7. PagesOK'
  BY <1>2, <1>4, <1>5, <1>6 DEF Rotated, PagesOK, ServerOK
<1>8. Chosen' /\ AnswersAreTrue'
  BY <1>1, <1>2, <1>6 DEF PagesOK, Chosen, AnswersAreTrue, Answered, None
<1>9. QED BY <1>2, <1>4, <1>5, <1>7, <1>8 DEF ServerOK

\* Every step keeps the invariant.
LEMMA KeysNextInv == ASSUME GroupKeysBounds, KeysInv, [KeysNext]_keysVars PROVE KeysInv'
<1>1. CASE Leave
  BY <1>1 DEF Leave, KeysInv, pages, ServerOK, Epoch, PagesOK, Chosen, RowsAreTrue, AnswersAreTrue, Answered,
              KeysAreOfTheirEpoch
<1>2. CASE UNCHANGED keysVars
  BY <1>2 DEF keysVars, KeysInv, pages, ServerOK, Epoch, PagesOK, Chosen, RowsAreTrue, AnswersAreTrue, Answered,
              KeysAreOfTheirEpoch
<1>3. Owners \subseteq Pages
  BY DEF Pages
<1>4. QED
  BY <1>1, <1>2, <1>3, ArrivalsInv, OpenKeyInv, OwnerInv, PostRotationInv, StoreInv, RotatedInv
  DEF KeysNext

-----------------------------------------------------------------------------
\* What pages, dialogs and answers hold agrees with the epochs of the server.
THEOREM GroupKeysInvariant ==
  ASSUME GroupKeysBounds PROVE KeysSpec => []KeysInv
<1>1. KeysInit => KeysInv
  BY KeysInitInv
<1>2. KeysInv /\ [KeysNext]_keysVars => KeysInv'
  BY KeysNextInv
<1>3. QED BY <1>1, <1>2, PTL DEF KeysSpec

\* A key filed under an epoch is the key of that epoch, however rotations cross,
\* fail or lose their answers (app.js 4063-4067, 4136-4145, 4469-4512).
THEOREM PagesHoldTheGroupsKeys ==
  ASSUME GroupKeysBounds PROVE KeysSpec => []KeysAreOfTheirEpoch
<1>1. KeysInv => KeysAreOfTheirEpoch
  BY DEF KeysInv
<1>2. QED BY <1>1, GroupKeysInvariant, PTL

\* The types follow.
LEMMA KeysFollow == ASSUME GroupKeysBounds, KeysInv PROVE KeysTypeOK
  BY DEF GroupKeysBounds, KeysInv, ServerOK, PagesOK, KeysTypeOK, Epoch

\* The types of GroupKeys.
THEOREM GroupKeysTypeOK ==
  ASSUME GroupKeysBounds PROVE KeysSpec => []KeysTypeOK
  BY KeysFollow, GroupKeysInvariant, PTL

-----------------------------------------------------------------------------
(* The connections of the server: no event reaches a closed queue, and an *)
(* overflow is never silent.                                              *)

\* The hub starts without connections, in a state of the invariant.
LEMMA HubInitInv == ASSUME HubAssumption PROVE Init => HubInv
  BY DEF HubAssumption, Init, HubInv, TypeOK, ProgressShows, MissedMeansResync, PC

\* No send lets a queue grow past its size: each looks at the length first.
LEMMA HubSendsKeepTypes ==
  ASSUME HubAssumption, TypeOK, NEW u \in User,
         SendToUser(u) \/ SendEphemeralToUser(u) \/ SendCallToUser(u)
  PROVE  queue' \in [Conn -> 0 .. QueueSize] /\ callQueue' \in [Conn -> 0 .. CallQueueSize]
<1> USE DEF HubAssumption, TypeOK, queues, flags, Longer
<1>1. CASE SendToUser(u)
  BY <1>1 DEF SendToUser, Full
<1>2. CASE SendEphemeralToUser(u)
  BY <1>2 DEF SendEphemeralToUser
<1>3. CASE SendCallToUser(u)
  BY <1>3 DEF SendCallToUser
<1>4. QED BY <1>1, <1>2, <1>3

\* Every step keeps the invariant.
LEMMA HubNextInv == ASSUME HubAssumption, HubInv, [Next]_vars PROVE HubInv'
<1> USE DEF HubInv, ProgressShows, MissedMeansResync
<1>1. ASSUME NEW u \in User, SendToUser(u) \/ SendEphemeralToUser(u) \/ SendCallToUser(u)
      PROVE  HubInv'
  <2>1. queue' \in [Conn -> 0 .. QueueSize] /\ callQueue' \in [Conn -> 0 .. CallQueueSize]
    BY <1>1, HubSendsKeepTypes
  <2>2. UNCHANGED <<life, kick, kicking>>
    BY <1>1 DEF SendToUser, SendEphemeralToUser, SendCallToUser, flags
  <2>3. /\ missed' = missed /\ resync' = resync /\ done' = done
        \/ \E full \in SUBSET Conn : /\ missed' = missed \cup full
                                     /\ resync' = resync \cup full
                                     /\ done' = done \cup full
    BY <1>1 DEF SendToUser, SendEphemeralToUser, SendCallToUser, flags, Overflow, TypeOK,
                ConnectionsOf
  <2>4. QED BY <2>1, <2>2, <2>3 DEF TypeOK, life
<1>2. ASSUME NEW u \in User, KickUser(u)
      PROVE  HubInv'
  BY <1>2 DEF KickUser, TypeOK, life, flags, queues, ConnectionsOf
<1>3. ASSUME NEW c \in Conn, Kick(c)
      PROVE  HubInv'
  BY <1>3 DEF Kick, TypeOK, life, queues
<1>4. ASSUME NEW c \in Conn, Register(c) \/ Handler(c) \/ ReadLoopReturns(c)
      PROVE  HubInv'
  <2> USE DEF TypeOK, PC, flags, queues, Goto
  <2>1. CASE Register(c)
    BY <2>1 DEF Register
  <2>2. CASE Serve(c)
    BY <2>2 DEF Serve
  <2>3. CASE ReadLoopReturns(c)
    BY <2>3 DEF ReadLoopReturns
  <2>4. CASE Unregister(c)
    BY <2>4 DEF Unregister, Unregistered
  <2>5. CASE CloseQueues(c)
    BY <2>5 DEF CloseQueues
  <2>6. QED BY <1>4, <2>1, <2>2, <2>3, <2>4, <2>5 DEF Handler
<1>5. ASSUME NEW c \in Conn, Write(c)
      PROVE  HubInv'
  BY <1>5 DEF HubAssumption, Write, Exit, TypeOK, flags
<1>6. ASSUME NEW c \in Conn, WriteLoopReturns(c) \/ WriteClose(c)
      PROVE  HubInv'
  BY <1>6 DEF WriteLoopReturns, WriteClose, Exit, TypeOK, flags, queues
<1>7. CASE UNCHANGED vars
  BY <1>7 DEF vars, life, flags, queues, TypeOK
<1>8. QED BY <1>1, <1>2, <1>3, <1>4, <1>5, <1>6, <1>7 DEF Next

-----------------------------------------------------------------------------
\* The invariant of the hub: what each goroutine has done, what the queues hold and
\* which connections are to come back, for any number of connections (hub.go).
THEOREM HubInvariant == ASSUME HubAssumption PROVE Spec => []HubInv
<1>1. Init => HubInv
  BY HubInitInv
<1>2. HubInv /\ [Next]_vars => HubInv'
  BY HubNextInv
<1>3. QED BY <1>1, <1>2, PTL DEF Spec

\* The queues of a connection in the hub are open, and what it missed it will ask for.
LEMMA HubFollows == ASSUME HubInv PROVE ClosedQueuesAreUnreachable /\ MissedMeansResync
  BY DEF HubInv, TypeOK, ProgressShows, ClosedQueuesAreUnreachable

\* A queue is closed only once its connection is out of the hub, so that no sender
\* finds it (handlers.go:78-87).
THEOREM HubClosedQueues == ASSUME HubAssumption PROVE Spec => []ClosedQueuesAreUnreachable
  BY HubInvariant, HubFollows, PTL

\* A durable event that finds no room marks its connection for a resync and asks it
\* to close, whatever kicks and presence events do to it (hub.go:105-140).
THEOREM HubMissedMeansResync == ASSUME HubAssumption PROVE Spec => []MissedMeansResync
  BY HubInvariant, HubFollows, PTL

-----------------------------------------------------------------------------
(* What the buttons of calls are set by                                    *)

CapabilityEntries == [found : BOOLEAN, verified : BOOLEAN, supported : BOOLEAN, at : Nat]

ConfigFits ==
  /\ room \in Rooms \cup {Nowhere} /\ probing \subseteq Rooms
  /\ capability \in [Rooms -> CapabilityEntries]
  /\ \A r \in Rooms : capability[r].at <= clock
  /\ retry \in [for : Rooms \cup {Nowhere}, due : Nat] /\ (retry = NoTimer \/ retry.for \in Rooms)
  /\ offered \in BOOLEAN /\ clock \in Nat

\* An entry supports the calls of a federated conversation, or does not expire late, only
\* if every instance answered.
EntriesAreAnswers ==
  \A r \in Rooms : /\ capability[r].verified => capability[r].found
                   /\ capability[r].supported /\ r \in Federated => capability[r].verified

ConfigInv == ConfigFits /\ EntriesAreAnswers /\ CallsAreOfferedOnAnswers

\* The page starts without a conversation and without an answer.
LEMMA ConfigInitInv == ASSUME ConfigAssumption PROVE ConfigInit => ConfigInv
<1> SUFFICES ASSUME ConfigInit PROVE ConfigInv
  OBVIOUS
<1>1. Never \in CapabilityEntries
  BY DEF Never, CapabilityEntries
<1>2. NoTimer \in [for : Rooms \cup {Nowhere}, due : Nat]
  BY DEF NoTimer
<1>3. retry \in [for : Rooms \cup {Nowhere}, due : Nat] /\ retry = NoTimer
  BY <1>2 DEF ConfigInit
<1>4. capability \in [Rooms -> CapabilityEntries]
  BY <1>1 DEF ConfigInit
<1>5. \A r \in Rooms : capability[r].at <= clock
  BY DEF ConfigInit, Never
<1>6. offered \in BOOLEAN /\ clock \in Nat /\ room \in Rooms \cup {Nowhere} /\ probing \subseteq Rooms
  BY DEF ConfigInit
<1>7. ConfigFits
  BY <1>3, <1>4, <1>5, <1>6 DEF ConfigFits
<1>8. EntriesAreAnswers /\ CallsAreOfferedOnAnswers
  BY DEF ConfigInit, EntriesAreAnswers, CallsAreOfferedOnAnswers, Never
<1>9. QED BY <1>7, <1>8 DEF ConfigInv

\* Calls are offered in a federated conversation on an entry that every instance answered.
LEMMA OfferingIsAnswered ==
  ASSUME ConfigFits, EntriesAreAnswers, NEW r \in Rooms \cap Federated, Offering(r, capability[r])
  PROVE  capability[r].verified /\ capability[r].supported
  BY DEF ConfigFits, CapabilityEntries, EntriesAreAnswers, Offering

\* A probe writes an entry that every instance answered, or one that enables no more than
\* the conversations of this instance.
LEMMA ProbeInv == ASSUME ConfigAssumption, ConfigInv, NEW r \in Rooms, ProbeSettles(r) PROVE ConfigInv'
<1> USE DEF ConfigAssumption, ConfigInv, ConfigFits, ProbeSettles
<1>1. PICK put \in {FailedEntry(r), AnsweredEntry(TRUE), AnsweredEntry(FALSE)} :
        /\ capability' = [capability EXCEPT ![r] = put]
        /\ \/ /\ room = r
              /\ offered' = Offering(r, put)
              /\ retry' = IF put.verified THEN retry ELSE [for |-> r, due |-> clock + Retry]
           \/ room # r /\ UNCHANGED <<offered, retry>>
  OBVIOUS
<1>2. /\ put \in CapabilityEntries /\ put.at = clock /\ put.found
      /\ put.supported /\ r \in Federated => put.verified
  <2>1. FailedEntry(r) \in CapabilityEntries /\ (FailedEntry(r).supported => r \notin Federated)
    BY DEF FailedEntry, CapabilityEntries
  <2>2. \A s \in BOOLEAN : AnsweredEntry(s) \in CapabilityEntries /\ AnsweredEntry(s).verified
    BY DEF AnsweredEntry, CapabilityEntries
  <2>3. /\ FailedEntry(r).at = clock /\ FailedEntry(r).found
        /\ \A s \in BOOLEAN : AnsweredEntry(s).at = clock /\ AnsweredEntry(s).found
    BY DEF FailedEntry, AnsweredEntry
  <2>4. QED BY <2>1, <2>2, <2>3
<1>3. ConfigFits'
  <2>1. capability' \in [Rooms -> CapabilityEntries]
    BY <1>1, <1>2
  <2>2. \A q \in Rooms : capability'[q].at <= clock
    BY <1>1, <1>2
  <2>3. retry' \in [for : Rooms \cup {Nowhere}, due : Nat] /\ (retry' = NoTimer \/ retry'.for \in Rooms)
    BY <1>1
  <2>4. offered' \in BOOLEAN
    BY <1>1 DEF Offering
  <2>5. room' \in Rooms \cup {Nowhere} /\ probing' \subseteq Rooms /\ clock' = clock
    OBVIOUS
  <2>6. QED BY <2>1, <2>2, <2>3, <2>4, <2>5
<1>4. EntriesAreAnswers'
  BY <1>1, <1>2 DEF EntriesAreAnswers
<1>5. CallsAreOfferedOnAnswers'
  <2>1. CASE room = r
    <3>1. ASSUME offered', r \in Federated PROVE put.supported
      BY <1>1, <1>2, <2>1, <3>1 DEF Offering
    <3>2. QED BY <1>1, <1>2, <2>1, <3>1 DEF CallsAreOfferedOnAnswers
  <2>2. CASE room # r
    BY <1>1, <2>2 DEF CallsAreOfferedOnAnswers
  <2>3. QED BY <2>1, <2>2
<1>6. QED BY <1>3, <1>4, <1>5

\* Every step keeps the invariant.
LEMMA ConfigNextInv == ASSUME ConfigAssumption, ConfigInv, [ConfigNext]_configVars PROVE ConfigInv'
<1> USE DEF ConfigAssumption, ConfigInv, ConfigFits, EntriesAreAnswers, CapabilityEntries
<1>1. ASSUME NEW r \in Rooms, Display(r) PROVE ConfigInv'
  <2>1. ConfigFits' /\ EntriesAreAnswers'
    BY <1>1 DEF Display, Probed, Offering
  <2>2. CallsAreOfferedOnAnswers'
    BY <1>1, OfferingIsAnswered DEF Display, CallsAreOfferedOnAnswers
  <2>3. QED BY <2>1, <2>2
<1>2. CASE RetryTimer
  <2>1. retry' = NoTimer /\ NoTimer \in [for : Rooms \cup {Nowhere}, due : Nat]
    BY <1>2 DEF RetryTimer, NoTimer
  <2>2. probing' \subseteq Rooms
    BY <1>2 DEF RetryTimer, Probed
  <2>3. QED BY <1>2, <2>1, <2>2 DEF RetryTimer, CallsAreOfferedOnAnswers
<1>3. CASE UpdateButtons
  <2>1. ConfigFits' /\ EntriesAreAnswers'
    BY <1>3 DEF UpdateButtons, Offering
  <2>2. CallsAreOfferedOnAnswers'
    BY <1>3, OfferingIsAnswered DEF UpdateButtons, CallsAreOfferedOnAnswers
  <2>3. QED BY <2>1, <2>2
<1>4. CASE LoadConfig \/ ConfigSettles \/ Tick
  BY <1>4 DEF LoadConfig, ConfigSettles, Tick, CallsAreOfferedOnAnswers
<1>5. CASE UNCHANGED configVars
  BY <1>5 DEF configVars, CallsAreOfferedOnAnswers
<1>6. QED BY <1>1, <1>2, <1>3, <1>4, <1>5, ProbeInv DEF ConfigNext

\* The types follow.
LEMMA ConfigFollows == ASSUME ConfigInv PROVE ConfigTypeOK
  BY DEF ConfigInv, ConfigFits, EntriesAreAnswers, ConfigTypeOK

\* A button is enabled in a federated conversation only by an answer that every instance
\* gave for it, whatever conversations are displayed while probes are under way.
THEOREM ConfigOffers == ASSUME ConfigAssumption PROVE ConfigSpec => []CallsAreOfferedOnAnswers
<1>1. ConfigInit => ConfigInv
  BY ConfigInitInv
<1>2. ConfigInv /\ [ConfigNext]_configVars => ConfigInv'
  BY ConfigNextInv
<1>3. ConfigInv => CallsAreOfferedOnAnswers
  BY DEF ConfigInv
<1>4. QED BY <1>1, <1>2, <1>3, PTL DEF ConfigSpec

-----------------------------------------------------------------------------
(* The tracks of calls                                                     *)

Tracks == 1..captured

MediaOf ==
  [phase : {"new", "begun", "over"}, stream : BOOLEAN, local : SUBSET Nat,
   screen : Nat \cup {Nothing}, sharing : BOOLEAN]

MediaFits ==
  /\ current \in VideoCalls \cup {Nothing} /\ captured \in Nat
  /\ media \in [VideoCalls -> MediaOf]
  /\ live \subseteq Tracks /\ screens \subseteq Tracks
  /\ \A c \in VideoCalls : media[c].sharing <=> media[c].screen # Nothing
  /\ current # Nothing => media[current].phase = "begun"

\* Who waits for the picker waits for nothing else, and what is given to the senders is a
\* track or nothing.
WaitsFit ==
  /\ \A w \in waits : w.for = "picker" => w = Wait("picker", Nothing, Nothing)
  /\ \A w \in waits : w.for = "senders" => w.track \in Nat \cup {Nothing}

\* The picker is not open while a screen is shared: what it gives replaces no screen.
PickersShareNothing ==
  PickerOpen /\ current # Nothing => ~media[current].sharing

OneLocalTrack == \A c \in VideoCalls : media[c].local = {} \/ \E t \in Nat : media[c].local = {t}

MediaInv == MediaFits /\ WaitsFit /\ PickersShareNothing /\ OneLocalTrack /\ ScreensAreReleased

\* The page starts without a call.
LEMMA MediaInitInv == ASSUME MediaAssumption PROVE MediaInit => MediaInv
  BY DEF MediaAssumption, MediaInit, MediaInv, MediaFits, MediaOf, Tracks, NoMedia, WaitsFit,
         PickersShareNothing, PickerOpen, OneLocalTrack, ScreensAreReleased

\* What holds a call's new media changes that of no other call.
LEMMA HoldsOne ==
  ASSUME MediaFits, NEW c \in VideoCalls, NEW m \in MediaOf, Holds(c, m)
  PROVE  /\ media' \in [VideoCalls -> MediaOf] /\ media'[c] = m
         /\ \A d \in VideoCalls : d # c => media'[d] = media[d]
  BY DEF MediaFits, Holds

\* The call that begins holds nothing, and the one it replaces keeps what it has.
LEMMA BeginInv ==
  ASSUME MediaAssumption, MediaInv, NEW c \in VideoCalls, Begin(c) PROVE MediaInv'
<1> USE DEF MediaAssumption, MediaInv, MediaFits, Tracks
<1> DEFINE m == [NoMedia EXCEPT !.phase = "begun"]
<1>1. m \in MediaOf /\ m.phase = "begun" /\ m.local = {} /\ m.screen = Nothing /\ ~m.sharing
  BY DEF NoMedia, MediaOf
<1>2. /\ media' \in [VideoCalls -> MediaOf] /\ media'[c] = m
      /\ \A d \in VideoCalls : d # c => media'[d] = media[d]
  BY <1>1, HoldsOne DEF Begin
<1>3. media[c].phase = "new" /\ current' = c /\ UNCHANGED <<live, screens, captured, waits>>
  BY DEF Begin
<1> HIDE DEF m
<1>4. MediaFits' /\ OneLocalTrack'
  BY <1>1, <1>2, <1>3 DEF OneLocalTrack
<1>5. PickersShareNothing' /\ WaitsFit'
  BY <1>1, <1>2, <1>3 DEF PickersShareNothing, PickerOpen, WaitsFit
<1>6. ScreensAreReleased'
  BY <1>2, <1>3 DEF ScreensAreReleased
<1>7. QED BY <1>4, <1>5, <1>6

\* What the page holds for the call it is in, a screen or none.
LEMMA HeldFits ==
  ASSUME MediaAssumption, MediaInv, current # Nothing, NEW m \in MediaOf, Holds(current, m),
         m.sharing <=> m.screen # Nothing,
         m.local = {} \/ \E t \in Nat : m.local = {t}
  PROVE  /\ media' \in [VideoCalls -> MediaOf] /\ media'[current] = m
         /\ \A c \in VideoCalls : c # current => media'[c] = media[c]
         /\ \A c \in VideoCalls : media'[c].sharing <=> media'[c].screen # Nothing
         /\ (OneLocalTrack)'
<1>1. current \in VideoCalls /\ MediaFits
  BY DEF MediaInv, MediaFits
<1>2. /\ media' \in [VideoCalls -> MediaOf] /\ media'[current] = m
      /\ \A d \in VideoCalls : d # current => media'[d] = media[d]
  BY <1>1, HoldsOne
<1>3. QED BY <1>1, <1>2 DEF MediaInv, MediaFits, OneLocalTrack

\* The call that ends stops its screen, and no other.
LEMMA EndInv == ASSUME MediaAssumption, MediaInv, End PROVE MediaInv'
<1> USE DEF MediaAssumption, MediaInv, MediaFits, Tracks
<1> DEFINE m == [media[current] EXCEPT !.phase = "over"]
<1>1. current # Nothing /\ Holds(current, m) /\ live' = live \ Stopped(media[current])
      /\ current' = Nothing /\ UNCHANGED <<screens, captured, waits>>
  BY DEF End
<1>2. m \in MediaOf /\ m.screen = media[current].screen /\ m.sharing = media[current].sharing
      /\ m.local = media[current].local
  BY <1>1 DEF MediaOf
<1> HIDE DEF m
<1>3. /\ media' \in [VideoCalls -> MediaOf]
      /\ \A c \in VideoCalls : c # current => media'[c] = media[c]
      /\ \A c \in VideoCalls : media'[c].sharing <=> media'[c].screen # Nothing
      /\ OneLocalTrack'
  <2>1. m.local = {} \/ \E t \in Nat : m.local = {t}
    BY <1>1, <1>2 DEF OneLocalTrack
  <2>2. QED BY <1>1, <1>2, <2>1, HeldFits
<1>4. MediaFits' /\ PickersShareNothing' /\ WaitsFit'
  BY <1>1, <1>3 DEF PickersShareNothing, PickerOpen, WaitsFit
<1>5. ScreensAreReleased'
  <2>1. ASSUME NEW t \in live' \cap screens'
        PROVE  \E c \in VideoCalls : media'[c].phase = "begun" /\ media'[c].sharing /\ media'[c].screen = t
    <3>1. t \in live \cap screens /\ t # media[current].screen
      BY <1>1, <2>1 DEF Stopped
    <3>2. PICK c \in VideoCalls : media[c].phase = "begun" /\ media[c].sharing /\ media[c].screen = t
      BY <3>1 DEF ScreensAreReleased
    <3>3. QED BY <1>3, <3>1, <3>2
  <2>2. QED BY <2>1 DEF ScreensAreReleased
<1>6. QED BY <1>3, <1>4, <1>5

\* Unless the call of the moment loses the screen it had, every screen keeps its call.
LEMMA ScreensStay ==
  ASSUME MediaFits, ScreensAreReleased, current # Nothing, NEW m, media'[current] = m,
         \A c \in VideoCalls : c # current => media'[c] = media[c],
         m.phase = "begun", m.screen = media[current].screen /\ m.sharing = media[current].sharing,
         live' \cap screens' \subseteq live \cap screens
  PROVE  ScreensAreReleased'
<1>1. ASSUME NEW t \in live' \cap screens'
      PROVE  \E c \in VideoCalls : media'[c].phase = "begun" /\ media'[c].sharing /\ media'[c].screen = t
  <2>1. PICK c \in VideoCalls : media[c].phase = "begun" /\ media[c].sharing /\ media[c].screen = t
    BY <1>1 DEF ScreensAreReleased
  <2>2. CASE c = current
    BY <2>1, <2>2
  <2>3. CASE c # current
    BY <2>1, <2>3
  <2>4. QED BY <2>2, <2>3
<1>2. QED BY <1>1 DEF ScreensAreReleased

\* The stream of the user goes to the call of the moment.
LEMMA LocalInv ==
  ASSUME MediaAssumption, MediaInv, AskForLocal \/ \E w \in waits : LocalOpened(w) PROVE MediaInv'
<1> USE DEF MediaAssumption, MediaInv, MediaFits, Tracks
<1>1. CASE AskForLocal
  <2>1. waits' = waits \cup {Wait("local", Nothing, Nothing)} /\ UNCHANGED <<current, media, live, screens, captured>>
    BY <1>1 DEF AskForLocal
  <2>2. \A v \in waits' : v \in waits \/ v.for = "local"
    BY <2>1 DEF Wait
  <2>3. WaitsFit' /\ PickersShareNothing'
    BY <2>1, <2>2 DEF WaitsFit, PickersShareNothing, PickerOpen
  <2>4. QED BY <2>1, <2>3 DEF OneLocalTrack, ScreensAreReleased
<1>2. ASSUME NEW w \in waits, LocalOpened(w) PROVE MediaInv'
  <2>1. /\ captured' = NewTrack /\ NewTrack \in Nat /\ live' = live \cup {NewTrack} /\ waits' = waits \ {w}
        /\ UNCHANGED <<current, screens>> /\ NewTrack \notin screens /\ NewTrack \in 1..NewTrack
        /\ 1..captured \subseteq 1..NewTrack
    BY <1>2 DEF LocalOpened, Capture, NewTrack
  <2>2. live' \cap screens' = live \cap screens /\ live' \subseteq 1..captured' /\ screens' \subseteq 1..captured'
    BY <2>1
  <2>3. CASE current = Nothing
    <3>1. UNCHANGED media
      BY <1>2, <2>3 DEF LocalOpened
    <3>2. QED BY <2>1, <2>2, <2>3, <3>1 DEF OneLocalTrack, ScreensAreReleased, WaitsFit, PickersShareNothing, PickerOpen
  <2>4. CASE current # Nothing
    <3> DEFINE m == [media[current] EXCEPT !.stream = TRUE, !.local = {NewTrack}]
    <3>1. Holds(current, m)
      BY <1>2, <2>4 DEF LocalOpened
    <3>2. /\ m \in MediaOf /\ m.screen = media[current].screen /\ m.sharing = media[current].sharing
          /\ m.phase = media[current].phase /\ m.local = {NewTrack}
      BY <2>1, <2>4 DEF MediaOf
    <3> HIDE DEF m
    <3>3. /\ media' \in [VideoCalls -> MediaOf] /\ media'[current] = m
          /\ \A c \in VideoCalls : c # current => media'[c] = media[c]
          /\ \A c \in VideoCalls : media'[c].sharing <=> media'[c].screen # Nothing
          /\ OneLocalTrack'
      BY <2>1, <2>4, <3>1, <3>2, HeldFits
    <3>4. ScreensAreReleased'
      BY <2>2, <2>4, <3>2, <3>3, ScreensStay
    <3>5. MediaFits' /\ WaitsFit' /\ PickersShareNothing'
      BY <2>1, <2>2, <2>4, <3>2, <3>3 DEF WaitsFit, PickersShareNothing, PickerOpen
    <3>6. QED BY <3>3, <3>4, <3>5
  <2>5. QED BY <2>3, <2>4
<1>3. QED BY <1>1, <1>2

\* The senders took the track: it becomes the only one of the stream, or is stopped.
LEMMA ReplacedInv ==
  ASSUME MediaAssumption, MediaInv, NEW w \in waits, Replaced(w) PROVE MediaInv'
<1> USE DEF MediaAssumption, MediaInv, MediaFits, Tracks, WaitsFit, PickersShareNothing, PickerOpen, ScreensAreReleased
<1>1. w.track \in Nat \cup {Nothing} /\ waits' \subseteq waits /\ live' \subseteq live
      /\ UNCHANGED <<current, screens, captured>>
  BY DEF Replaced
<1>2. CASE current = w.call /\ current # Nothing
  <2> DEFINE m == [media[current] EXCEPT !.local = {w.track} \ {Nothing}]
  <2>1. Holds(current, m)
    BY <1>2 DEF Replaced
  <2>2. /\ m \in MediaOf /\ m.screen = media[current].screen /\ m.sharing = media[current].sharing
        /\ m.phase = media[current].phase
        /\ (m.local = {} \/ \E t \in Nat : m.local = {t})
    BY <1>1, <1>2 DEF MediaOf
  <2> HIDE DEF m
  <2>3. /\ media' \in [VideoCalls -> MediaOf] /\ media'[current] = m
        /\ \A c \in VideoCalls : c # current => media'[c] = media[c]
        /\ \A c \in VideoCalls : media'[c].sharing <=> media'[c].screen # Nothing
        /\ OneLocalTrack'
    BY <1>2, <2>1, <2>2, HeldFits
  <2>4. ScreensAreReleased'
    BY <1>1, <1>2, <2>2, <2>3, ScreensStay
  <2>5. QED BY <1>1, <1>2, <2>2, <2>3, <2>4
<1>3. CASE ~(current = w.call /\ current # Nothing)
  <2>1. UNCHANGED media
    BY <1>3 DEF Replaced, Holds
  <2>2. QED BY <1>1, <2>1 DEF OneLocalTrack
<1>4. QED BY <1>2, <1>3

\* The picker gives a track or nothing; there is one picker at a time.
LEMMA PickerInv ==
  ASSUME MediaAssumption, MediaInv, NEW w \in waits, TakeScreen(w) \/ RefuseScreen(w) PROVE MediaInv'
<1> USE DEF MediaAssumption, MediaInv, MediaFits, Tracks, WaitsFit, PickersShareNothing, PickerOpen
<1>1. w.for = "picker" /\ w = Wait("picker", Nothing, Nothing)
  BY DEF TakeScreen, RefuseScreen
<1>2. current # Nothing => ~media[current].sharing /\ media[current].screen = Nothing
  BY <1>1
<1>4. CASE TakeScreen(w)
  <2>1. /\ captured' = NewTrack /\ NewTrack \in Nat /\ NewTrack \in 1..NewTrack /\ 1..captured \subseteq 1..NewTrack
        /\ screens' = screens \cup {NewTrack} /\ current' = current /\ NewTrack \notin live \cup screens
    BY <1>4 DEF TakeScreen, Capture, NewTrack
  <2>2. CASE current = Nothing
    <3>1. waits' = waits \ {w} /\ UNCHANGED <<media, live>>
      BY <1>4, <2>2 DEF TakeScreen
    <3>2. live' \subseteq 1..captured' /\ screens' \subseteq 1..captured' /\ live' \cap screens' = live \cap screens
      BY <2>1, <3>1
    <3>3. QED BY <2>1, <2>2, <3>1, <3>2 DEF OneLocalTrack, ScreensAreReleased
  <2>3. CASE current # Nothing
    <3> DEFINE m == [media[current] EXCEPT !.screen = NewTrack, !.sharing = TRUE]
    <3>1. Holds(current, m) /\ Replace(NewTrack, waits \ {w})
      BY <1>4, <2>3 DEF TakeScreen
    <3>2. /\ m \in MediaOf /\ m.screen = NewTrack /\ m.sharing /\ m.local = media[current].local
          /\ m.phase = "begun"
      BY <2>1, <2>3 DEF MediaOf
    <3> HIDE DEF m
    <3>3. m.screen # Nothing
      BY <2>1, <3>2
    <3>4. (m.local = {} \/ \E t \in Nat : m.local = {t})
      BY <2>3, <3>2 DEF OneLocalTrack
    <3>5. /\ media' \in [VideoCalls -> MediaOf] /\ media'[current] = m
          /\ \A c \in VideoCalls : c # current => media'[c] = media[c]
          /\ \A c \in VideoCalls : media'[c].sharing <=> media'[c].screen # Nothing
          /\ OneLocalTrack'
      BY <2>3, <3>1, <3>2, <3>3, <3>4, HeldFits
    <3>6. /\ live' \subseteq live \cup {NewTrack} /\ waits' \subseteq (waits \ {w}) \cup {Replacing(current, NewTrack)}
          /\ live' \subseteq 1..captured' /\ screens' \subseteq 1..captured'
      <4>1. /\ live' \subseteq live \cup {NewTrack}
            /\ waits' \subseteq (waits \ {w}) \cup {Replacing(current, NewTrack)}
        BY <3>1 DEF Replace
      <4>2. QED BY <2>1, <4>1
    <3>7. WaitsFit' /\ \A v \in waits' : v.for # "picker"
      BY <1>1, <2>1, <3>6 DEF Replacing, Wait
    <3>8. ScreensAreReleased'
      <4>1. ASSUME NEW t \in live' \cap screens'
            PROVE  \E c \in VideoCalls : media'[c].phase = "begun" /\ media'[c].sharing /\ media'[c].screen = t
        <5>1. CASE t = NewTrack
          BY <2>3, <3>2, <3>5, <5>1
        <5>2. CASE t # NewTrack
          <6>1. t \in live \cap screens
            BY <2>1, <3>6, <5>2
          <6>2. PICK c \in VideoCalls : media[c].phase = "begun" /\ media[c].sharing /\ media[c].screen = t
            BY <6>1 DEF ScreensAreReleased
          <6>3. c # current
            BY <1>2, <2>3, <6>2
          <6>4. QED BY <3>5, <6>2, <6>3
        <5>3. QED BY <5>1, <5>2
      <4>2. QED BY <4>1 DEF ScreensAreReleased
    <3>9. MediaFits'
      BY <2>1, <2>3, <3>2, <3>5, <3>6
    <3>10. QED BY <3>5, <3>7, <3>8, <3>9
  <2>4. QED BY <2>2, <2>3
<1>5. CASE RefuseScreen(w)
  <2>1. waits' \subseteq waits /\ UNCHANGED <<current, screens, captured>> /\ live' \subseteq live
    BY <1>5 DEF RefuseScreen
  <2>2. UNCHANGED media
    <3>1. CASE current = Nothing
      BY <1>5, <3>1 DEF RefuseScreen
    <3>2. CASE current # Nothing
      <4>1. media' = [media EXCEPT ![current] = [media[current] EXCEPT !.screen = Nothing, !.sharing = FALSE]]
        BY <1>5, <3>2 DEF RefuseScreen, Holds
      <4>2. [media[current] EXCEPT !.screen = Nothing, !.sharing = FALSE] = media[current]
        BY <1>2, <3>2 DEF MediaOf
      <4>3. QED BY <4>1, <4>2
    <3>3. QED BY <3>1, <3>2
  <2>3. QED BY <2>1, <2>2 DEF OneLocalTrack, ScreensAreReleased
<1>6. QED BY <1>4, <1>5

\* The end of the sharing stops the screen of the call whatever it waits for.
LEMMA StopSharingInv == ASSUME MediaAssumption, MediaInv, StopSharing PROVE MediaInv'
<1> USE DEF MediaAssumption, MediaInv, MediaFits, Tracks, WaitsFit, PickersShareNothing, PickerOpen
<1> DEFINE m == [media[current] EXCEPT !.screen = Nothing, !.sharing = FALSE]
<1>1. /\ current # Nothing /\ Holds(current, m) /\ live' = live \ {media[current].screen}
      /\ waits' = waits \cup {Wait("camera", current, Nothing)}
      /\ UNCHANGED <<current, screens, captured>>
  BY DEF StopSharing
<1>2. /\ m \in MediaOf /\ m.screen = Nothing /\ ~m.sharing /\ m.local = media[current].local
      /\ m.phase = "begun"
  BY <1>1 DEF MediaOf
<1> HIDE DEF m
<1>3. m.local = {} \/ \E t \in Nat : m.local = {t}
  BY <1>1, <1>2 DEF OneLocalTrack
<1>4. /\ media' \in [VideoCalls -> MediaOf] /\ media'[current] = m
      /\ \A c \in VideoCalls : c # current => media'[c] = media[c]
      /\ \A c \in VideoCalls : media'[c].sharing <=> media'[c].screen # Nothing
      /\ OneLocalTrack'
  BY <1>1, <1>2, <1>3, HeldFits
<1>5. WaitsFit' /\ \A v \in waits' : v.for = "picker" => v \in waits
  BY <1>1 DEF Wait
<1>6. ScreensAreReleased'
  <2>1. ASSUME NEW t \in live' \cap screens'
        PROVE  \E c \in VideoCalls : media'[c].phase = "begun" /\ media'[c].sharing /\ media'[c].screen = t
    <3>1. PICK c \in VideoCalls : media[c].phase = "begun" /\ media[c].sharing /\ media[c].screen = t
      BY <1>1, <2>1 DEF ScreensAreReleased
    <3>2. c # current
      BY <1>1, <2>1, <3>1
    <3>3. QED BY <1>4, <3>1, <3>2
  <2>2. QED BY <2>1 DEF ScreensAreReleased
<1>7. MediaFits'
  BY <1>1, <1>2, <1>4
<1>8. PickersShareNothing'
  BY <1>1, <1>2, <1>4
<1>9. QED BY <1>4, <1>5, <1>6, <1>7, <1>8

\* What asks for the camera, and what it gives, touches no screen.
LEMMA CameraInv ==
  ASSUME MediaAssumption, MediaInv,
         AskForScreen \/ AskForCamera \/ \E w \in waits : CameraBack(w) \/ OtherCamera(w) \/ NoCamera(w)
  PROVE  MediaInv'
<1> USE DEF MediaAssumption, MediaInv, MediaFits, Tracks, WaitsFit, PickersShareNothing, PickerOpen
<1>1. UNCHANGED <<current, media, screens>>
  BY DEF AskForScreen, AskForCamera, CameraBack, OtherCamera, NoCamera
<1>2. \/ UNCHANGED captured /\ live' = live
      \/ captured' = NewTrack /\ live' \subseteq live \cup {NewTrack}
  <2>1. CASE AskForScreen \/ AskForCamera
    BY <2>1 DEF AskForScreen, AskForCamera
  <2>2. ASSUME NEW w \in waits, CameraBack(w)
        PROVE  (UNCHANGED captured /\ live' = live) \/ (captured' = NewTrack /\ live' \subseteq live \cup {NewTrack})
    <3>1. CASE Capture /\ Replace(NewTrack, waits \ {w})
      BY <3>1 DEF Capture, Replace
    <3>2. CASE UNCHANGED captured /\ Replace(Nothing, waits \ {w})
      BY <3>2 DEF Replace
    <3>3. QED BY <2>2, <3>1, <3>2 DEF CameraBack
  <2>3. ASSUME NEW w \in waits, OtherCamera(w) \/ NoCamera(w)
        PROVE  (UNCHANGED captured /\ live' = live) \/ (captured' = NewTrack /\ live' \subseteq live \cup {NewTrack})
    BY <2>3 DEF OtherCamera, NoCamera, Capture
  <2>4. QED BY <2>1, <2>2, <2>3
<1>3. /\ captured' \in Nat /\ live' \subseteq 1..captured' /\ screens' \subseteq 1..captured'
      /\ live' \cap screens' = live \cap screens
  <2>1. CASE UNCHANGED captured /\ live' = live
    BY <1>1, <2>1
  <2>2. CASE captured' = NewTrack /\ live' \subseteq live \cup {NewTrack}
    <3>1. NewTrack \in Nat /\ NewTrack \in 1..NewTrack /\ 1..captured \subseteq 1..NewTrack /\ NewTrack \notin screens
      BY DEF NewTrack
    <3>3. live \subseteq live'
      BY DEF AskForScreen, AskForCamera, CameraBack, OtherCamera, NoCamera, Replace
    <3>2. QED BY <1>1, <2>2, <3>1, <3>3
  <2>3. QED BY <1>2, <2>1, <2>2
<1>4. /\ \A v \in waits' : v.for = "picker" => v = Wait("picker", Nothing, Nothing)
      /\ \A v \in waits' : v.for = "senders" => v.track \in Nat \cup {Nothing}
      /\ \A v \in waits' : v.for = "picker" => v \in waits \/ (current # Nothing /\ ~media[current].sharing)
  <2>1. CASE AskForScreen \/ AskForCamera
    <3>1. CASE AskForScreen
      <4>1. current # Nothing /\ ~media[current].sharing /\ waits' = waits \cup {Wait("picker", Nothing, Nothing)}
        BY <3>1 DEF AskForScreen
      <4>2. QED BY <4>1 DEF Wait
    <3>2. CASE AskForCamera
      <4>1. waits' = waits \cup {Wait("other camera", current, Nothing)}
        BY <3>2 DEF AskForCamera
      <4>2. Wait("other camera", current, Nothing).for = "other camera"
        BY DEF Wait
      <4>3. \A v \in waits' : v \in waits \/ v.for = "other camera"
        BY <4>1, <4>2
      <4>4. QED BY <4>3
    <3>3. QED BY <2>1, <3>1, <3>2
  <2>2. ASSUME NEW w \in waits, CameraBack(w) \/ OtherCamera(w) \/ NoCamera(w)
        PROVE  \A v \in waits' : v \in waits \/ \E t \in Nat \cup {Nothing} : v = Replacing(current, t)
    <3>1. NewTrack \in Nat
      BY DEF NewTrack
    <3>2. QED BY <2>2, <3>1 DEF CameraBack, OtherCamera, NoCamera, Replace
  <2>3. QED BY <2>1, <2>2 DEF Replacing, Wait
<1>5. QED BY <1>1, <1>3, <1>4 DEF OneLocalTrack, ScreensAreReleased

\* Every step keeps the invariant.
LEMMA MediaNextInv == ASSUME MediaAssumption, MediaInv, [MediaNext]_mediaVars PROVE MediaInv'
<1>1. CASE UNCHANGED mediaVars
  BY <1>1 DEF mediaVars, MediaInv, MediaFits, MediaOf, Tracks, WaitsFit, PickersShareNothing, PickerOpen,
              OneLocalTrack, ScreensAreReleased
<1>2. CASE MediaNext
  BY <1>2, BeginInv, EndInv, LocalInv, ReplacedInv, PickerInv, StopSharingInv, CameraInv DEF MediaNext
<1>3. QED BY <1>1, <1>2

\* The types follow: at most one track of the user is in the stream of a call.
LEMMA MediaFollows == ASSUME MediaAssumption, MediaInv PROVE MediaTypeOK
<1>1. \A c \in VideoCalls : Cardinality(media[c].local) <= 1
  <2>1. ASSUME NEW c \in VideoCalls PROVE Cardinality(media[c].local) <= 1
    <3>1. CASE media[c].local = {}
      BY <3>1, FS_EmptySet
    <3>2. ASSUME NEW t \in Nat, media[c].local = {t} PROVE Cardinality(media[c].local) <= 1
      BY <3>2, FS_Singleton
    <3>3. QED BY <3>1, <3>2 DEF MediaInv, OneLocalTrack
  <2>2. QED BY <2>1
<1>2. QED BY <1>1 DEF MediaTypeOK, MediaInv, MediaFits, Tracks

\* A screen is captured only for a call that was not ended and says it shares it, however calls
\* end or replace one another around the picker, the senders and the replacement of the camera.
THEOREM ScreensReleased == ASSUME MediaAssumption PROVE MediaSpec => []ScreensAreReleased
<1>1. MediaInit => MediaInv
  BY MediaInitInv
<1>2. MediaInv /\ [MediaNext]_mediaVars => MediaInv'
  BY MediaNextInv
<1>3. MediaInv => ScreensAreReleased
  BY DEF MediaInv
<1>4. QED BY <1>1, <1>2, <1>3, PTL DEF MediaSpec

-----------------------------------------------------------------------------
(* The clicks of a visitor                                                 *)

\* A step that starts a download of its own is one before the visitor clicked.
LEMMA VisitStep == ASSUME SharePageNext PROVE ClickFirst
  BY DEF SharePageNext, Revoked, Prepared, SessionAnswers, Greet, Fires, Click, Downloaded, Fault, Requested,
         Overtaken, ClickFirst

\* Once the visitor clicked, the page of a link starts no download of its own.
THEOREM VisitorsComeFirst == SharePageSpec => [][ClickFirst]_sharePageVars
  BY VisitStep, PTL DEF SharePageSpec

\* The page starts without a timer.
LEMMA VisitInit == ASSUME SharePageInit PROVE SharePageTypeOK
  BY DEF SharePageInit, SharePageTypeOK

\* Every step keeps the types of the page of a link.
LEMMA VisitNext == ASSUME SharePageTypeOK, [SharePageNext]_sharePageVars PROVE SharePageTypeOK'
<1> USE DEF SharePageTypeOK
<1>1. ASSUME SharePageTypeOK, Revoked \/ SessionAnswers PROVE SharePageTypeOK'
  <2>1. UNCHANGED <<requests, downloading, shown, timer, greeted, preparation>>
    BY <1>1 DEF Revoked, SessionAnswers
  <2>2. QED BY <1>1, <2>1
<1>2. ASSUME SharePageTypeOK, Prepared PROVE SharePageTypeOK'
  BY <1>2 DEF Prepared
<1>3. ASSUME SharePageTypeOK, Greet PROVE SharePageTypeOK'
  BY <1>3 DEF Greet
<1>4. ASSUME SharePageTypeOK, Fires PROVE SharePageTypeOK'
  BY <1>4 DEF Fires
<1>5. ASSUME SharePageTypeOK, Click PROVE SharePageTypeOK'
  BY <1>5 DEF Click
<1>6. ASSUME SharePageTypeOK, Downloaded PROVE SharePageTypeOK'
  BY <1>6 DEF Downloaded, Fault
<1>7. ASSUME SharePageTypeOK, NEW r \in requests, Requested(r) PROVE SharePageTypeOK'
  <2>1. requests' \subseteq requests /\ UNCHANGED <<timer, greeted, preparation>>
    BY <1>7 DEF Requested
  <2>2. downloading' \in {downloading, r} /\ shown' \in {shown, "preparing"}
    BY <1>7 DEF Requested
  <2>3. QED BY <1>7, <2>1, <2>2
<1>8. ASSUME SharePageTypeOK, UNCHANGED sharePageVars PROVE SharePageTypeOK'
  BY <1>8 DEF sharePageVars
<1>9. QED BY <1>1, <1>2, <1>3, <1>4, <1>5, <1>6, <1>7, <1>8 DEF SharePageNext

\* The timer of the page runs only once it greeted a visitor it recognised.
THEOREM VisitTypeOK == SharePageSpec => []SharePageTypeOK
<1>1. SharePageTypeOK /\ [SharePageNext]_sharePageVars => SharePageTypeOK'
  BY VisitNext
<1>2. QED BY <1>1, VisitInit, PTL DEF SharePageSpec

-----------------------------------------------------------------------------
(* The panel of the pinned messages                                        *)

ReadsOf ==
  [n : Nat, of : Chats, opens : BOOLEAN, valid : BOOLEAN, at : {"asked", "answered"}, pins : Nat]

PinsFit ==
  /\ pins \in [Chats -> Nat] /\ chat \in Chats \cup {NoChat}
  /\ cards \in [of : Chats \cup {NoChat}, pins : Nat] /\ hidden \in BOOLEAN
  /\ opening \in Nat /\ asked \in Nat /\ reads \subseteq ReadsOf

\* Reads are numbered, and the one the panel waits for is under way.
ReadsAreNumbered ==
  /\ \A l \in reads : l.n \in 1..asked
  /\ \A k \in reads, l \in reads : k.n = l.n => k = l
  /\ opening # 0 => \E l \in reads : l.n = opening /\ l.valid

\* An opening that no click closed is still wanted.
OpeningsAreWanted == \A l \in reads : l.opens /\ l.valid => wanted

PinsInv == PinsFit /\ ReadsAreNumbered /\ OpeningsAreWanted

\* The panel starts closed.
LEMMA PinsInitInv == ASSUME PinnedAssumption PROVE PinnedInit => PinsInv
  BY DEF PinnedAssumption, PinnedInit, PinsInv, PinsFit, ReadsAreNumbered, OpeningsAreWanted, ReadsOf, NoCards

\* A read that is asked for takes the next number.
LEMMA AskedInv ==
  ASSUME PinnedAssumption, PinsInv, NEW o \in BOOLEAN, chat # NoChat,
         reads' = reads \cup {NewLoad(o)}, asked' = asked + 1, o => wanted',
         \/ opening' = opening /\ wanted' = wanted
         \/ opening' = asked + 1 /\ wanted'
  PROVE  /\ asked' \in Nat /\ opening' \in Nat /\ reads' \subseteq ReadsOf
         /\ ReadsAreNumbered' /\ OpeningsAreWanted'
<1> USE DEF PinsInv, PinsFit
<1>1. /\ NewLoad(o) \in ReadsOf /\ NewLoad(o).n = asked + 1
      /\ NewLoad(o).valid /\ (NewLoad(o).opens <=> o)
  BY DEF NewLoad, ReadsOf, PinnedAssumption
<1>2. /\ asked' \in Nat /\ opening' \in Nat /\ reads' \subseteq ReadsOf
  BY <1>1
<1>3. \A l \in reads : l.n \in 1..asked' /\ l.n # asked + 1
  BY DEF ReadsAreNumbered
<1>4. \A l \in reads' : l.n \in 1..asked'
  BY <1>1, <1>3
<1>5. \A k \in reads', l \in reads' : k.n = l.n => k = l
  BY <1>1, <1>3 DEF ReadsAreNumbered
<1>6. opening' # 0 => \E l \in reads' : l.n = opening' /\ l.valid
  BY <1>1 DEF ReadsAreNumbered
<1>7. OpeningsAreWanted'
  BY <1>1 DEF OpeningsAreWanted
<1>8. QED BY <1>2, <1>4, <1>5, <1>6, <1>7 DEF ReadsAreNumbered

\* A reload asks while the panel is open, and opens nothing.
LEMMA ReloadPinsInv ==
  ASSUME PinnedAssumption, PinsInv, ReloadPins, pins' = pins, chat' = chat PROVE PinsInv'
<1>1. CASE UNCHANGED panelVars
  BY <1>1 DEF panelVars, PinsInv, PinsFit, ReadsAreNumbered, OpeningsAreWanted
<1>2. CASE ~(chat = NoChat \/ hidden \/ asked >= MaxReads)
  <2>1. /\ chat # NoChat /\ reads' = reads \cup {NewLoad(FALSE)} /\ asked' = asked + 1
        /\ cards' = NoCards /\ UNCHANGED <<hidden, opening, wanted>>
    BY <1>2 DEF ReloadPins
  <2>2. /\ asked' \in Nat /\ opening' \in Nat /\ reads' \subseteq ReadsOf
        /\ ReadsAreNumbered' /\ OpeningsAreWanted'
    BY <2>1, AskedInv
  <2>3. NoCards \in [of : Chats \cup {NoChat}, pins : Nat]
    BY DEF NoCards
  <2>4. QED BY <2>1, <2>2, <2>3 DEF PinsInv, PinsFit
<1>3. QED BY <1>1, <1>2 DEF ReloadPins

\* A read that ends is taken off; the panel opens only if it is still wanted.
LEMMA ReadInv ==
  ASSUME PinnedAssumption, PinsInv, NEW l \in reads, PinsAnswered(l) \/ Built(l) \/ PinsFail(l)
  PROVE  PinsInv'
<1> USE DEF PinsInv, PinsFit, ReadsAreNumbered, OpeningsAreWanted
<1>1. l \in ReadsOf
  OBVIOUS
<1>2. CASE PinsAnswered(l)
  <2> DEFINE a == [l EXCEPT !.at = "answered", !.pins = pins[l.of]]
  <2>1. /\ a \in ReadsOf /\ a.n = l.n /\ (a.opens <=> l.opens) /\ (a.valid <=> l.valid)
    BY <1>1 DEF ReadsOf
  <2>2. reads' = (reads \ {l}) \cup {a} /\ UNCHANGED <<pins, chat, hidden, cards, opening, wanted, asked>>
    BY <1>2 DEF PinsAnswered
  <2> HIDE DEF a
  <2>3. PinsFit' /\ OpeningsAreWanted'
    BY <2>1, <2>2
  <2>4. ReadsAreNumbered'
    BY <2>1, <2>2
  <2>5. QED BY <2>3, <2>4
<1>3. CASE Built(l) \/ PinsFail(l)
  <2>1. /\ reads' = reads \ {l} /\ UNCHANGED <<pins, chat, wanted, asked>> /\ hidden' \in BOOLEAN
        /\ opening' = IF opening = l.n THEN 0 ELSE opening
    BY <1>3 DEF Built, PinsFail
  <2>2. cards' \in [of : Chats \cup {NoChat}, pins : Nat]
    BY <1>1, <1>3 DEF Built, PinsFail, NoCards, ReadsOf
  <2>3. PinsFit' /\ OpeningsAreWanted'
    BY <2>1, <2>2
  <2>4. ReadsAreNumbered'
    BY <2>1
  <2>5. QED BY <2>3, <2>4
<1>4. QED BY <1>2, <1>3

\* Closing the panel makes every read give up its opening.
LEMMA ClosedInv ==
  ASSUME PinnedAssumption, PinsInv, Closed, asked' = asked, pins' = pins, cards' = cards,
         chat' \in Chats \cup {NoChat}
  PROVE  PinsInv'
<1> USE DEF PinsInv, PinsFit, ReadsAreNumbered, OpeningsAreWanted
<1>1. \A l \in reads : /\ [l EXCEPT !.valid = FALSE] \in ReadsOf
                       /\ [l EXCEPT !.valid = FALSE].n = l.n /\ ~[l EXCEPT !.valid = FALSE].valid
  BY DEF ReadsOf
<1>2. hidden' \in BOOLEAN /\ opening' = 0 /\ reads' = {[l EXCEPT !.valid = FALSE] : l \in reads}
  BY DEF Closed
<1>3. ASSUME NEW k \in reads' PROVE k \in ReadsOf /\ ~k.valid /\ \E l \in reads : k.n = l.n /\ k = [l EXCEPT !.valid = FALSE]
  <2>1. PICK l \in reads : k = [l EXCEPT !.valid = FALSE]
    BY <1>2
  <2>2. QED BY <1>1, <2>1
<1>4. PinsFit' /\ OpeningsAreWanted'
  BY <1>2, <1>3
<1>5. ReadsAreNumbered'
  <2>1. \A k \in reads' : k.n \in 1..asked'
    BY <1>3
  <2>2. ASSUME NEW k \in reads', NEW l \in reads', k.n = l.n PROVE k = l
    <3>1. PICK a \in reads : k.n = a.n /\ k = [a EXCEPT !.valid = FALSE]
      BY <1>3
    <3>2. PICK b \in reads : l.n = b.n /\ l = [b EXCEPT !.valid = FALSE]
      BY <1>3
    <3>3. a = b
      BY <2>2, <3>1, <3>2
    <3>4. QED BY <3>1, <3>2, <3>3
  <2>3. QED BY <1>2, <2>1, <2>2
<1>6. QED BY <1>4, <1>5

\* Every step keeps the invariant.
LEMMA PinsNextInv == ASSUME PinnedAssumption, PinsInv, [PinnedNext]_pinnedVars PROVE PinsInv'
<1>1. CASE OpenPanel
  <2>1. /\ chat # NoChat /\ reads' = reads \cup {NewLoad(TRUE)} /\ asked' = asked + 1
        /\ opening' = asked + 1 /\ wanted' /\ UNCHANGED <<pins, chat, hidden, cards>>
    BY <1>1 DEF OpenPanel
  <2>2. /\ asked' \in Nat /\ opening' \in Nat /\ reads' \subseteq ReadsOf
        /\ ReadsAreNumbered' /\ OpeningsAreWanted'
    BY <2>1, AskedInv
  <2>3. QED BY <2>1, <2>2 DEF PinsInv, PinsFit
<1>2. CASE ClosePanel \/ CloseConversation
  <2>1. Closed /\ asked' = asked /\ pins' = pins /\ cards' = cards /\ chat' \in Chats \cup {NoChat}
    BY <1>2 DEF ClosePanel, CloseConversation, PinsInv, PinsFit
  <2>2. QED BY <2>1, ClosedInv
<1>3. CASE Displayed
  BY <1>3, ReloadPinsInv DEF Displayed
<1>4. ASSUME NEW r \in Chats, HearPin(r) PROVE PinsInv'
  <2>1. CASE r = chat
    BY <1>4, <2>1, ReloadPinsInv DEF HearPin
  <2>2. CASE r # chat
    BY <1>4, <2>2 DEF HearPin, panelVars, PinsInv, PinsFit, ReadsAreNumbered, OpeningsAreWanted
  <2>3. QED BY <2>1, <2>2
<1>5. ASSUME NEW r \in Chats, Select(r) \/ Pin(r) PROVE PinsInv'
  BY <1>5 DEF Select, Pin, panelVars, PinsInv, PinsFit, ReadsAreNumbered, OpeningsAreWanted
<1>6. CASE UNCHANGED pinnedVars
  BY <1>6 DEF pinnedVars, panelVars, PinsInv, PinsFit, ReadsAreNumbered, OpeningsAreWanted
<1>7. QED BY <1>1, <1>2, <1>3, <1>4, <1>5, <1>6, ReadInv DEF PinnedNext

\* Only a read that is still wanted opens the panel, on the cards it built.
LEMMA PinsStep == ASSUME PinnedAssumption, PinsInv, [PinnedNext]_pinnedVars PROVE AsAsked
<1>1. ASSUME NEW l \in reads, Built(l), hidden, ~hidden' PROVE wanted' /\ cards'.of = chat'
  <2>1. l.opens /\ IsRelevant(l) /\ l.valid
    BY <1>1 DEF Built, LastOpening
  <2>2. wanted /\ wanted' = wanted /\ chat' = chat /\ cards' = [of |-> l.of, pins |-> l.pins]
    BY <1>1, <2>1 DEF Built, PinsInv, OpeningsAreWanted
  <2>3. QED BY <2>1, <2>2 DEF IsRelevant
<1>2. ASSUME ~\E l \in reads : Built(l) PROVE ~(hidden /\ ~hidden')
  BY <1>2 DEF PinnedNext, pinnedVars, panelVars, OpenPanel, ClosePanel, CloseConversation, Closed, Displayed,
              ReloadPins, Select, Pin, HearPin, PinsAnswered, PinsFail
<1>3. QED BY <1>1, <1>2 DEF AsAsked

\* The types follow.
LEMMA PinsFollow == ASSUME PinsInv PROVE PinnedTypeOK
  BY DEF PinsInv, PinsFit, ReadsAreNumbered, ReadsOf, PinnedTypeOK

\* A panel that opens shows the conversation on screen, and no click closed it since it was asked for.
THEOREM PanelsOpenAsAsked == ASSUME PinnedAssumption PROVE PinnedSpec => [][AsAsked]_pinnedVars
<1>1. PinnedInit => PinsInv
  BY PinsInitInv
<1>2. PinsInv /\ [PinnedNext]_pinnedVars => PinsInv' /\ AsAsked
  BY PinsNextInv, PinsStep
<1>3. QED BY <1>1, <1>2, PTL DEF PinnedSpec

-----------------------------------------------------------------------------
(* The address book of the page                                            *)

EntriesOf == [of : People, active : BOOLEAN]
LoadsOf ==
  [kind : {"open", "refresh", "list"}, had : BOOLEAN, valid : BOOLEAN,
   at : {"asked", "answered", "done"}, entries : SUBSET EntriesOf]

CarnetFits ==
  /\ book \subseteq People /\ present \subseteq People /\ forgotten \subseteq People
  /\ cached \subseteq EntriesOf /\ loaded \in BOOLEAN /\ loads \in Seq(LoadsOf)
  /\ \A d \in deletions : d.gone \subseteq People

\* Who was forgotten is noted nowhere on the server, nor in an answer the page will still take.
ForgottenAreGone ==
  /\ forgotten \cap (book \cup present) = {}
  /\ \A n \in DOMAIN loads :
       loads[n].at = "answered" /\ loads[n].valid /\ Versioned(loads[n].kind)
         => Of(loads[n].entries) \cap forgotten = {}

CarnetInv == CarnetFits /\ ForgottenAreGone

\* What the dialog lists, and that the page has no entry before it loaded some.
CarnetShows ==
  /\ list \in [shown : {"nothing", "loading", "failed", "entries"}, entries : SUBSET EntriesOf]
  /\ cached # {} => loaded

\* The page starts with an empty copy.
LEMMA CarnetInitInv == ASSUME CarnetAssumption PROVE CarnetInit => CarnetInv
<1> SUFFICES ASSUME CarnetInit PROVE CarnetInv
  OBVIOUS
<1>1. loads \in Seq(LoadsOf) /\ DOMAIN loads = {}
  BY DEF CarnetInit
<1>2. QED BY <1>1 DEF CarnetInit, CarnetInv, CarnetFits, ForgottenAreGone

\* Loads that a newer one or a deletion outdates answer nothing the page takes.
LEMMA OutdatedFits ==
  ASSUME CarnetFits
  PROVE  /\ Outdated \in Seq(LoadsOf) /\ Len(Outdated) = Len(loads)
         /\ \A n \in DOMAIN Outdated : ~Outdated[n].valid
<1>1. Outdated = [n \in 1..Len(loads) |-> [loads[n] EXCEPT !.valid = FALSE]] /\ Len(loads) \in Nat
  BY DEF CarnetFits, Outdated
<1>2. ASSUME NEW l \in LoadsOf PROVE [l EXCEPT !.valid = FALSE] \in LoadsOf /\ ~[l EXCEPT !.valid = FALSE].valid
  BY DEF LoadsOf
<1>3. \A n \in 1..Len(loads) : loads[n] \in LoadsOf
  BY DEF CarnetFits
<1>4. Outdated \in [1..Len(loads) -> LoadsOf]
  BY <1>1, <1>2, <1>3
<1>5. Outdated \in Seq(LoadsOf) /\ DOMAIN Outdated = 1..Len(loads) /\ Len(Outdated) = Len(loads)
  BY <1>1, <1>4, SeqDef, LenProperties
<1>6. QED BY <1>1, <1>2, <1>3, <1>5

\* A new load has no answer yet.
LEMMA NewLoadInv ==
  ASSUME CarnetInv, NEW k \in {"open", "refresh", "list"}, NEW h \in BOOLEAN,
         \/ loads' = Append(Outdated, Load(k, h))
         \/ loads' = Append(loads, Load(k, h)),
         UNCHANGED <<book, present, forgotten, cached, loaded, deletions>>
  PROVE  CarnetInv'
<1> USE DEF CarnetInv, CarnetFits, ForgottenAreGone
<1>1. Load(k, h) \in LoadsOf /\ Load(k, h).at = "asked"
  BY DEF Load, LoadsOf
<1>2. CASE loads' = Append(loads, Load(k, h))
  <2>1. loads' \in Seq(LoadsOf)
    BY <1>1, <1>2
  <2>2. \A n \in DOMAIN loads' : loads'[n].at = "answered" => n \in DOMAIN loads /\ loads'[n] = loads[n]
    BY <1>1, <1>2
  <2>3. QED BY <2>1, <2>2
<1>3. CASE loads' = Append(Outdated, Load(k, h))
  <2>1. loads' \in Seq(LoadsOf)
    BY <1>1, <1>3, OutdatedFits
  <2>2. \A n \in DOMAIN loads' : loads'[n].at = "answered" => ~loads'[n].valid
    BY <1>1, <1>3, OutdatedFits
  <2>3. QED BY <2>1, <2>2
<1>4. QED BY <1>2, <1>3

\* The loads of the page, an answer or their end.
LEMMA LoadInv ==
  ASSUME CarnetInv, NEW n \in DOMAIN loads, Answer(n) \/ Arrive(n) \/ LoadFails(n) PROVE CarnetInv'
<1> USE DEF CarnetInv, CarnetFits, ForgottenAreGone
<1>1. loads[n] \in LoadsOf /\ n \in 1..Len(loads)
  OBVIOUS
<1>2. CASE Answer(n)
  <2> DEFINE es == {Entry(p) : p \in book \cup present}
             l == [loads[n] EXCEPT !.at = "answered", !.entries = es]
  <2>1. es \subseteq EntriesOf /\ Of(es) = book \cup present
    <3>1. ASSUME NEW p \in book \cup present PROVE Entry(p) \in EntriesOf /\ Entry(p).of = p
      <4>1. p \in People /\ (p \in present) \in BOOLEAN
        OBVIOUS
      <4>2. QED BY <4>1 DEF Entry, EntriesOf
    <3>2. QED BY <3>1 DEF Of
  <2> HIDE DEF es
  <2>2. l \in LoadsOf /\ l.entries = es
    BY <1>1, <2>1 DEF LoadsOf
  <2>3. /\ loads' = [loads EXCEPT ![n] = l] /\ book' = book \cup present
        /\ UNCHANGED <<present, forgotten, cached, loaded, deletions>>
    BY <1>2 DEF Answer, pageVars, es
  <2> HIDE DEF l
  <2>4. loads' \in Seq(LoadsOf) /\ loads'[n] = l /\ \A m \in DOMAIN loads' : m # n => loads'[m] = loads[m]
    BY <1>1, <2>2, <2>3
  <2>5. CarnetFits'
    BY <2>3, <2>4
  <2>6. ForgottenAreGone'
    BY <2>1, <2>2, <2>3, <2>4
  <2>7. QED BY <2>5, <2>6
<1>3. CASE Arrive(n) \/ LoadFails(n)
  <2> DEFINE l == [loads[n] EXCEPT !.at = "done"]
  <2>1. l \in LoadsOf /\ l.at = "done"
    BY <1>1 DEF LoadsOf
  <2>2. /\ loads' = [loads EXCEPT ![n] = l]
        /\ UNCHANGED <<book, present, forgotten, deletions>>
        /\ cached' \in {cached, loads[n].entries} /\ loaded' \in {loaded, TRUE}
    BY <1>3 DEF Arrive, LoadFails, pageVars, serverVars
  <2> HIDE DEF l
  <2>3. loads' \in Seq(LoadsOf) /\ loads'[n] = l /\ \A m \in DOMAIN loads' : m # n => loads'[m] = loads[m]
    BY <1>1, <2>1, <2>2
  <2>4. loads[n].entries \subseteq EntriesOf
    BY <1>1 DEF LoadsOf
  <2>5. QED BY <2>1, <2>2, <2>3, <2>4
<1>4. QED BY <1>2, <1>3

\* A deletion that arrives outdates every load, and forgets only those the server did not note again.
LEMMA DeletionInv ==
  ASSUME CarnetInv, NEW d \in deletions, ServerDeletes(d) \/ DeletionArrives(d) PROVE CarnetInv'
<1> USE DEF CarnetInv, CarnetFits, ForgottenAreGone
<1>1. CASE ServerDeletes(d)
  <2> DEFINE gone == (IF d.who = Everyone THEN book ELSE book \cap {d.who}) \ present
  <2>1. book' \subseteq book /\ UNCHANGED <<present, cached, loaded, loads, forgotten>> /\ gone \subseteq People
    BY <1>1 DEF ServerDeletes, pageVars
  <2>2. \/ deletions' = deletions \ {d}
        \/ deletions' = (deletions \ {d}) \cup {[d EXCEPT !.at = "answered", !.gone = gone]}
    BY <1>1 DEF ServerDeletes
  <2> HIDE DEF gone
  <2>3. \A e \in deletions' : e.gone \subseteq People
    <3>1. [d EXCEPT !.at = "answered", !.gone = gone].gone \in {gone, d.gone}
      OBVIOUS
    <3>2. QED BY <2>1, <2>2, <3>1
  <2>4. QED BY <2>1, <2>3
<1>2. CASE DeletionArrives(d)
  <2>1. /\ deletions' = deletions \ {d} /\ loads' = Outdated /\ UNCHANGED <<book, present>>
        /\ cached' \subseteq cached /\ loaded' = TRUE
        /\ forgotten' = forgotten \cup (d.gone \ (Of(cached') \cup book \cup present))
    BY <1>2 DEF DeletionArrives, serverVars, VersionMoved, Kept
  <2>2. QED BY <2>1, OutdatedFits
<1>3. QED BY <1>1, <1>2

\* Every step keeps the invariant.
LEMMA CarnetNextInv == ASSUME CarnetAssumption, CarnetInv, [CarnetNext]_carnetVars PROVE CarnetInv'
<1>1. CASE Open \/ RefreshCarnet \/ RefreshList
  <2>1. \E k \in {"open", "refresh", "list"}, h \in {loaded, FALSE} :
          loads' = Append(Outdated, Load(k, h)) \/ loads' = Append(loads, Load(k, h))
    BY <1>1 DEF Open, RefreshCarnet, RefreshList
  <2>2. UNCHANGED <<book, present, forgotten, cached, deletions, loaded>>
    BY <1>1 DEF Open, RefreshCarnet, RefreshList, serverVars, pageVars
  <2>3. loaded \in BOOLEAN
    BY DEF CarnetInv, CarnetFits
  <2>4. QED BY <2>1, <2>2, <2>3, NewLoadInv
<1>2. CASE Close
  BY <1>2, OutdatedFits DEF Close, serverVars, CarnetInv, CarnetFits, ForgottenAreGone
<1>3. ASSUME NEW p \in People, Converse(p) PROVE CarnetInv'
  BY <1>3 DEF Converse, pageVars, CarnetInv, CarnetFits, ForgottenAreGone
<1>4. ASSUME NEW who, Confirm(who) PROVE CarnetInv'
  BY <1>4 DEF Confirm, serverVars, pageVars, CarnetInv, CarnetFits, ForgottenAreGone
<1>5. CASE UNCHANGED carnetVars
  BY <1>5 DEF carnetVars, serverVars, pageVars, CarnetInv, CarnetFits, ForgottenAreGone
<1>6. QED BY <1>1, <1>2, <1>3, <1>4, <1>5, LoadInv, DeletionInv DEF CarnetNext, Delete, DeleteAll

\* The dialog shows what the page holds, or that it loads or fails.
LEMMA CarnetShowsInit == ASSUME CarnetInit PROVE CarnetShows
  BY DEF CarnetInit, CarnetShows, Told

\* What it lists is the copy of the page or an answer.
LEMMA CarnetShowsNext == ASSUME CarnetInv, CarnetShows, [CarnetNext]_carnetVars PROVE CarnetShows'
<1> DEFINE Lists == [shown : {"nothing", "loading", "failed", "entries"}, entries : SUBSET EntriesOf]
<1>1. \A x \in {"nothing", "loading", "failed"} : Told(x) \in Lists
  BY DEF Told
<1>2. \A es \in SUBSET EntriesOf : Listed(es) \in Lists
  BY DEF Listed
<1>3. list \in Lists /\ (cached # {} => loaded) /\ cached \subseteq EntriesOf
  BY DEF CarnetShows, CarnetInv, CarnetFits
<1> HIDE DEF Lists
<1>4. ASSUME list' \in Lists, cached' # {} => loaded' PROVE CarnetShows'
  BY <1>4 DEF CarnetShows, Lists
<1>5. CASE Open
  BY <1>1, <1>2, <1>3, <1>4, <1>5 DEF Open
<1>6. ASSUME NEW n \in DOMAIN loads, Arrive(n) PROVE CarnetShows'
  <2>1. loads[n].entries \subseteq EntriesOf
    <3>1. loads[n] \in LoadsOf
      BY DEF CarnetInv, CarnetFits
    <3>2. QED BY <3>1 DEF LoadsOf
  <2>2. list' \in {list, Listed(loads[n].entries)} /\ (loaded' \/ UNCHANGED <<cached, loaded>>)
    BY <1>6 DEF Arrive, pageVars
  <2>3. QED BY <1>2, <1>3, <1>4, <2>1, <2>2
<1>7. ASSUME NEW n \in DOMAIN loads, LoadFails(n) PROVE CarnetShows'
  BY <1>1, <1>3, <1>4, <1>7 DEF LoadFails
<1>8. ASSUME NEW d \in deletions, DeletionArrives(d) PROVE CarnetShows'
  <2>1. cached' \subseteq EntriesOf /\ list' = Listed(cached') /\ loaded'
    BY <1>3, <1>8 DEF DeletionArrives, Kept
  <2>2. QED BY <1>2, <1>4, <2>1
<1>9. ASSUME UNCHANGED <<list, cached, loaded>> PROVE CarnetShows'
  BY <1>3, <1>4, <1>9
<1>10. \/ Open
       \/ \E n \in DOMAIN loads : Arrive(n) \/ LoadFails(n)
       \/ \E d \in deletions : DeletionArrives(d)
       \/ UNCHANGED <<list, cached, loaded>>
  BY DEF CarnetNext, carnetVars, pageVars, Close, RefreshCarnet, RefreshList, Converse, Delete, DeleteAll, Confirm,
         Answer, ServerDeletes
<1>11. QED BY <1>5, <1>6, <1>7, <1>8, <1>9, <1>10

\* The types follow.
LEMMA CarnetFollows == ASSUME CarnetInv, CarnetShows PROVE CarnetTypeOK
<1>1. \A es \in SUBSET EntriesOf : Of(es) \subseteq People
  BY DEF Of, EntriesOf
<1>2. Of(cached) \subseteq People /\ Of(list.entries) \subseteq People
  BY <1>1 DEF CarnetInv, CarnetFits, CarnetShows
<1>3. ASSUME NEW n \in DOMAIN loads PROVE loads[n].kind \in {"open", "refresh", "list"}
  <2>1. loads[n] \in LoadsOf
    BY DEF CarnetInv, CarnetFits
  <2>2. QED BY <2>1 DEF LoadsOf
<1>4. QED BY <1>2, <1>3 DEF CarnetInv, CarnetFits, CarnetShows, CarnetTypeOK

\* What brings someone forgotten back is an answer to refreshConversationList.
LEMMA CarnetStep == ASSUME CarnetInv, [CarnetNext]_carnetVars PROVE StaysAway
<1>1. ASSUME NEW n \in DOMAIN loads, Arrive(n), ComesBack PROVE loads[n].kind = "list" /\ loads'[n] # loads[n]
  <2>1. n \in 1..Len(loads) /\ loads \in Seq(LoadsOf) /\ loads[n] \in LoadsOf
    BY DEF CarnetInv, CarnetFits
  <2>4. loads' = [loads EXCEPT ![n].at = "done"] /\ loads[n].at = "answered"
    BY <1>1 DEF Arrive
  <2>5. loads'[n].at = "done"
    <3>1. loads[n] = [kind |-> loads[n].kind, had |-> loads[n].had, valid |-> loads[n].valid,
                      at |-> loads[n].at, entries |-> loads[n].entries]
      BY <2>1 DEF LoadsOf
    <3>2. [loads[n] EXCEPT !.at = "done"].at = "done"
      BY <3>1
    <3>3. n \in DOMAIN loads
      OBVIOUS
    <3>4. QED BY <2>4, <3>2, <3>3
  <2>2. cached' = loads[n].entries /\ (Versioned(loads[n].kind) => loads[n].valid)
    BY <1>1 DEF Arrive, ComesBack, pageVars
  <2>6. loads'[n] # loads[n]
    BY <2>4, <2>5
  <2>7. Of(loads[n].entries) \cap forgotten # {}
    BY <1>1, <2>2 DEF ComesBack
  <2>8. ~Versioned(loads[n].kind)
    BY <2>2, <2>4, <2>7 DEF CarnetInv, ForgottenAreGone
  <2>9. QED BY <2>6, <2>8 DEF Versioned
<1>2. ASSUME NEW d \in deletions, DeletionArrives(d) PROVE ~ComesBack
  <2>1. cached' \subseteq cached
    BY <1>2 DEF DeletionArrives, Kept
  <2>2. QED BY <2>1 DEF ComesBack, Of
<1>3. ASSUME cached' = cached PROVE ~ComesBack
  BY <1>3 DEF ComesBack
<1>4. CarnetNext \/ UNCHANGED carnetVars => cached' = cached \/ (\E n \in DOMAIN loads : Arrive(n)) \/ \E d \in deletions : DeletionArrives(d)
  BY DEF CarnetNext, carnetVars, pageVars, Open, Close, RefreshCarnet, RefreshList, Converse, Delete, DeleteAll, Confirm,
         Answer, LoadFails, ServerDeletes
<1>5. QED BY <1>1, <1>2, <1>3, <1>4 DEF StaysAway

\* Whoever's deletion was confirmed does not come back with an answer of before, except through
\* refreshConversationList, which compares no version.
THEOREM DeletedPeopleStayAway == ASSUME CarnetAssumption PROVE CarnetSpec => [][StaysAway]_carnetVars
<1>1. CarnetInit => CarnetInv
  BY CarnetInitInv
<1>2. CarnetInv /\ [CarnetNext]_carnetVars => CarnetInv' /\ StaysAway
  BY CarnetNextInv, CarnetStep
<1>3. QED BY <1>1, <1>2, PTL DEF CarnetSpec

-----------------------------------------------------------------------------
(* The keys recorded for a correspondent                                   *)

OneTab == \A t \in Tabs, u \in Tabs : t = u

OpsOf ==
  [kind : {"observe"}, keys : Keys, bare : BOOLEAN] \cup [kind : {"accept", "verify"}, keys : Keys]

TrustFits ==
  /\ announced \in Seq(Keys) /\ announced # <<>>
  /\ stored \in Records \cup {Absent}
  /\ record \in [Tabs -> Records \cup {Absent, Unread}]
  /\ operations \in [Tabs -> Seq(OpsOf)] /\ confirmed \subseteq Keys
  /\ saving \in [Tabs -> {{}} \cup {{r} : r \in Records}]
  /\ warning \in [Tabs -> {{}} \cup {{k} : k \in Keys}]

QueuesFit == \A t \in Tabs : Len(operations[t]) <= MaxQueue

\* What a tab saves is what its first operation makes of the record it holds.
SavesAreOfTheRecord ==
  \A t \in Tabs :
    saving[t] # {} => /\ record[t] # Unread /\ operations[t] # <<>>
                      /\ saving[t] = After(record[t], Head(operations[t]))

\* While the browser has one tab, the record it holds is the stored one.
RecordIsStored == \A t \in Tabs : record[t] = Unread \/ record[t] = stored

\* What an operation accepts was shown to the user, who accepted it.
AcceptedAreConfirmed ==
  \A t \in Tabs : \A i \in DOMAIN operations[t] :
    operations[t][i].kind = "accept" => operations[t][i].keys \in confirmed

TrustInv == TrustFits /\ QueuesFit /\ SavesAreOfTheRecord /\ AcceptedAreConfirmed

\* The fields of a record, and what tells it from the others.
LEMMA RecordFields ==
  ASSUME NEW r \in Records
  PROVE  /\ r = Rec(r.keys, r.pending, r.verified) /\ Known(r) /\ r # Absent /\ r # Unread
         /\ r.keys \in Keys /\ r.pending \in {{}} \cup {{q} : q \in Keys} /\ r.verified \in BOOLEAN
<1> DEFINE Pendings == {{}} \cup {{q} : q \in Keys}
<1>1. r \in [at : {"known"}, keys : Keys, pending : Pendings, verified : BOOLEAN]
  BY DEF Records
<1> HIDE DEF Pendings
<1>2. /\ r = [at |-> r.at, keys |-> r.keys, pending |-> r.pending, verified |-> r.verified]
      /\ r.at = "known" /\ r.keys \in Keys /\ r.pending \in Pendings
  BY <1>1
<1>3. r.verified \in BOOLEAN
  BY <1>1, Zenon
<1>4. r = Rec(r.keys, r.pending, r.verified)
  BY <1>2 DEF Rec
<1>5. Known(r) /\ r # Absent /\ r # Unread
  BY <1>2 DEF Known, Absent, Unread
<1> QED BY <1>2, <1>3, <1>4, <1>5 DEF Pendings

\* A record is one of the records.
LEMMA RecIn ==
  ASSUME NEW k \in Keys, NEW p \in {{}} \cup {{q} : q \in Keys}, NEW v \in BOOLEAN
  PROVE  Rec(k, p, v) \in Records
<1> DEFINE Pendings == {{}} \cup {{q} : q \in Keys}
<1> HIDE DEF Pendings
<1>1. p \in Pendings
  BY DEF Pendings
<1>2. Rec(k, p, v) \in [at : {"known"}, keys : Keys, pending : Pendings, verified : BOOLEAN]
  BY <1>1 DEF Rec
<1> QED BY <1>2 DEF Records, Pendings

\* A comparison changes nothing else of a record.
LEMMA RecVerified ==
  ASSUME NEW k, NEW p, NEW v \in BOOLEAN PROVE [Rec(k, p, v) EXCEPT !.verified = TRUE] = Rec(k, p, TRUE)
<1> DEFINE S == [at : {"known"}, keys : {k}, pending : {p}, verified : {TRUE}]
<1>1. Rec(k, p, v) \in [at : {"known"}, keys : {k}, pending : {p}, verified : BOOLEAN]
  BY DEF Rec
<1>2. [Rec(k, p, v) EXCEPT !.verified = TRUE] \in S
  BY <1>1
<1>3. Rec(k, p, TRUE) \in S
  BY DEF Rec
<1>4. ASSUME NEW x \in S PROVE x = [at |-> "known", keys |-> k, pending |-> p, verified |-> TRUE]
  <2>1. x = [at |-> x.at, keys |-> x.keys, pending |-> x.pending, verified |-> x.verified]
    OBVIOUS
  <2>2. x.at = "known" /\ x.keys = k /\ x.pending = p
    OBVIOUS
  <2>3. x.verified = TRUE
    BY Zenon
  <2>4. QED BY <2>1, <2>2, <2>3, Zenon
<1>5. QED BY <1>2, <1>3, <1>4

\* Nothing is known of keys that are absent.
LEMMA AbsentUnknown == ~Known(Absent) /\ Absent # Unread
  BY DEF Absent, Unread, Known

\* What an operation leaves is a record, or nothing.
LEMMA AfterFits ==
  ASSUME TrustBounds, NEW r \in Records \cup {Absent}, NEW op \in OpsOf
  PROVE  After(r, op) \in {{}} \cup {{s} : s \in Records}
<1>1. CASE op.kind = "observe"
  <2>1. op.keys \in Keys /\ op.bare \in BOOLEAN
    BY <1>1 DEF OpsOf
  <2>2. Seen(r, op) \in Keys
    <3>1. Known(r) => r.keys \in Keys
      BY RecordFields, AbsentUnknown
    <3>2. op.keys.encryption \in 1..MaxKeys /\ op.keys.signing \in 0..MaxSigns /\ NoSigning \in 0..MaxSigns
      BY <2>1 DEF Keys, NoSigning, TrustBounds
    <3>3. Known(r) => r.keys.signing \in 0..MaxSigns
      BY <3>1 DEF Keys
    <3>4. (IF ~op.bare THEN op.keys.signing ELSE IF Known(r) THEN r.keys.signing ELSE NoSigning) \in 0..MaxSigns
      BY <3>2, <3>3
    <3>5. QED BY <3>2, <3>4 DEF Seen, Keys
  <2>3. Rec(Seen(r, op), {}, FALSE) \in Records
    BY <2>2, RecIn
  <2>4. Known(r) => [r EXCEPT !.pending = {Seen(r, op)}] \in Records
    <3>1. SUFFICES ASSUME Known(r) PROVE [r EXCEPT !.pending = {Seen(r, op)}] \in Records
      OBVIOUS
    <3>2. /\ r = Rec(r.keys, r.pending, r.verified)
          /\ r.keys \in Keys /\ r.verified \in BOOLEAN
      BY <3>1, RecordFields, AbsentUnknown
    <3>3. [Rec(r.keys, r.pending, r.verified) EXCEPT !.pending = {Seen(r, op)}] = Rec(r.keys, {Seen(r, op)}, r.verified)
      BY DEF Rec
    <3>4. Rec(r.keys, {Seen(r, op)}, r.verified) \in Records
      BY <2>2, <3>2, RecIn
    <3>5. QED BY <3>2, <3>3, <3>4
  <2>5. Observed(r, op) \in {{Rec(Seen(r, op), {}, FALSE)}, {r}, {[r EXCEPT !.pending = {Seen(r, op)}]}}
        /\ (~Known(r) => Observed(r, op) = {Rec(Seen(r, op), {}, FALSE)})
    BY DEF Observed
  <2>6. Known(r) => r \in Records
    BY AbsentUnknown
  <2>7. Observed(r, op) \in {{s} : s \in Records}
    BY <2>3, <2>4, <2>5, <2>6
  <2>8. QED BY <1>1, <2>7 DEF After
<1>2. CASE op.kind = "accept"
  <2>1. op.keys \in Keys
    BY <1>2 DEF OpsOf
  <2>2. Rec(op.keys, {}, FALSE) \in Records
    BY <2>1, RecIn
  <2>3. QED BY <1>2, <2>2 DEF After, Accepted
<1>3. CASE op.kind = "verify"
  <2>1. ASSUME Known(r) PROVE [r EXCEPT !.verified = TRUE] \in Records
    <3>1. /\ r = Rec(r.keys, r.pending, r.verified)
          /\ r.keys \in Keys /\ r.pending \in {{}} \cup {{q} : q \in Keys}
      BY <2>1, RecordFields, AbsentUnknown
    <3>2. [Rec(r.keys, r.pending, r.verified) EXCEPT !.verified = TRUE] = Rec(r.keys, r.pending, TRUE)
      BY <2>1, RecordFields, AbsentUnknown, RecVerified
    <3>3. Rec(r.keys, r.pending, TRUE) \in Records
      BY <3>1, RecIn
    <3>4. QED BY <3>1, <3>2, <3>3
  <2>2. QED BY <1>3, <2>1 DEF After, Compared
<1>4. QED BY <1>1, <1>2, <1>3 DEF OpsOf

\* Nothing was read, and nothing waits, when the tab starts.
LEMMA TrustInitInv == ASSUME TrustBounds PROVE TrustInit => TrustInv
<1> SUFFICES ASSUME TrustInit PROVE TrustInv
  OBVIOUS
<1> USE DEF TrustInit
<1>1. announced \in Seq(Keys) /\ announced # <<>>
  <2>1. [encryption |-> 1, signing |-> NoSigning] \in Keys
    BY DEF TrustBounds, Keys, NoSigning
  <2>2. QED BY <2>1
<1>2. TrustFits
  BY <1>1 DEF TrustFits
<1>3. QueuesFit /\ SavesAreOfTheRecord /\ AcceptedAreConfirmed
  BY DEF QueuesFit, SavesAreOfTheRecord, AcceptedAreConfirmed, TrustBounds
<1>4. QED BY <1>2, <1>3 DEF TrustInv

\* An operation that waits for its turn changes nothing of the one before it.
LEMMA EnqueueInv ==
  ASSUME TrustBounds, TrustInv, NEW t \in Tabs, NEW op \in OpsOf, Room(t), Enqueue(t, op),
         confirmed \subseteq confirmed', confirmed' \subseteq Keys,
         op.kind = "accept" => op.keys \in confirmed',
         UNCHANGED <<stored, saving>>,
         \A u \in Tabs : record'[u] = record[u] \/ (record'[u] = stored /\ record[u] = Unread)
  PROVE  /\ operations' \in [Tabs -> Seq(OpsOf)] /\ QueuesFit' /\ SavesAreOfTheRecord' /\ AcceptedAreConfirmed'
<1> USE DEF TrustInv, TrustFits
<1>1. /\ operations' \in [Tabs -> Seq(OpsOf)] /\ operations'[t] = Append(operations[t], op)
      /\ \A u \in Tabs : u # t => operations'[u] = operations[u]
  BY DEF Enqueue
<1>2. Len(operations[t]) < MaxQueue /\ Len(operations'[t]) = Len(operations[t]) + 1 /\ MaxQueue \in Nat
  BY <1>1 DEF Room, TrustBounds
<1>3. QueuesFit'
  BY <1>1, <1>2 DEF QueuesFit
<1>4. operations[t] # <<>> => operations'[t] # <<>> /\ Head(operations'[t]) = Head(operations[t])
  BY <1>1
<1>5. SavesAreOfTheRecord'
  BY <1>1, <1>4 DEF SavesAreOfTheRecord
<1>6. AcceptedAreConfirmed'
  <2>1. ASSUME NEW i \in DOMAIN operations'[t], operations'[t][i].kind = "accept"
        PROVE  operations'[t][i].keys \in confirmed'
    <3>1. CASE i \in DOMAIN operations[t]
      <4>1. operations'[t][i] = operations[t][i]
        BY <1>1, <3>1
      <4>2. QED BY <2>1, <3>1, <4>1 DEF AcceptedAreConfirmed
    <3>2. CASE i \notin DOMAIN operations[t]
      <4>1. operations'[t][i] = op
        BY <1>1, <3>2
      <4>2. QED BY <2>1, <4>1
    <3>3. QED BY <3>1, <3>2
  <2>2. QED BY <1>1, <2>1 DEF AcceptedAreConfirmed
<1>7. QED BY <1>1, <1>3, <1>5, <1>6

\* The first operation of a tab that ends leaves the rest to wait.
LEMMA DequeueFits ==
  ASSUME TrustBounds, TrustInv, NEW t \in Tabs, operations[t] # <<>>,
         operations' = [operations EXCEPT ![t] = Tail(@)], confirmed \subseteq confirmed'
  PROVE  /\ operations' \in [Tabs -> Seq(OpsOf)] /\ QueuesFit' /\ AcceptedAreConfirmed'
<1> USE DEF TrustInv, TrustFits
<1>1. /\ operations' \in [Tabs -> Seq(OpsOf)] /\ operations'[t] = Tail(operations[t])
      /\ \A u \in Tabs : u # t => operations'[u] = operations[u]
  OBVIOUS
<1>2. Len(operations'[t]) = Len(operations[t]) - 1
  BY <1>1
<1>3. QueuesFit'
  BY <1>1, <1>2 DEF QueuesFit, TrustBounds
<1>4. \A i \in DOMAIN operations'[t] : i + 1 \in DOMAIN operations[t] /\ operations'[t][i] = operations[t][i + 1]
  BY <1>1
<1>5. AcceptedAreConfirmed'
  BY <1>1, <1>4 DEF AcceptedAreConfirmed
<1>6. QED BY <1>1, <1>3, <1>5

\* The tab reads the record before its first operation, which works on that record.
LEMMA TrustBeginInv ==
  ASSUME TrustBounds, TrustInv, NEW t \in Tabs, BeginOperation(t) PROVE TrustInv'
<1> USE DEF TrustInv, TrustFits
<1>1. operations[t] # <<>> /\ saving[t] = {} /\ UNCHANGED <<announced, stored, confirmed>>
  BY DEF BeginOperation
<1>2. Loaded(t) \in Records \cup {Absent} /\ Loaded(t) # Unread
  BY AbsentUnknown, RecordFields DEF Loaded
<1>3. Head(operations[t]) \in OpsOf
  BY <1>1
<1>4. PICK r \in Records \cup {Absent} : r # Unread /\ r = Loaded(t)
  BY <1>2
<1>14. /\ record' = [record EXCEPT ![t] = r]
       /\ saving' = [saving EXCEPT ![t] = After(r, Head(operations[t]))]
  BY <1>4 DEF BeginOperation
<1>5. After(r, Head(operations[t])) \in {{}} \cup {{s} : s \in Records}
  BY <1>3, <1>4, AfterFits
<1>6. /\ record' \in [Tabs -> Records \cup {Absent, Unread}]
      /\ saving' \in [Tabs -> {{}} \cup {{s} : s \in Records}]
      /\ record'[t] = r /\ saving'[t] = After(r, Head(operations[t]))
      /\ \A u \in Tabs : u # t => record'[u] = record[u] /\ saving'[u] = saving[u]
  <2> HIDE DEF TrustInv
  <2>1. record \in [Tabs -> Records \cup {Absent, Unread}] /\ stored \in Records \cup {Absent}
        /\ saving \in [Tabs -> {{}} \cup {{s} : s \in Records}]
    BY DEF TrustInv
  <2>2. QED BY <1>4, <1>14, <1>5, <2>1
<1>7. warning' \in [Tabs -> {{}} \cup {{k} : k \in Keys}]
  BY DEF BeginOperation
<1>8. CASE saving'[t] = {}
  <2>1. operations' = [operations EXCEPT ![t] = Tail(@)]
    BY <1>8 DEF BeginOperation
  <2>2. operations' \in [Tabs -> Seq(OpsOf)] /\ QueuesFit' /\ AcceptedAreConfirmed'
    BY <1>1, <2>1, DequeueFits
  <2>3. SavesAreOfTheRecord'
    BY <1>1, <1>6, <1>8, <2>1 DEF SavesAreOfTheRecord
  <2>4. QED BY <1>1, <1>6, <1>7, <2>2, <2>3
<1>9. CASE saving'[t] # {}
  <2>1. operations' = operations
    BY <1>9 DEF BeginOperation
  <2>2. QueuesFit' /\ AcceptedAreConfirmed'
    BY <1>1, <2>1 DEF QueuesFit, AcceptedAreConfirmed
  <2>3. SavesAreOfTheRecord'
    BY <1>1, <1>4, <1>6, <2>1 DEF SavesAreOfTheRecord
  <2>4. QED BY <1>1, <1>6, <1>7, <2>1, <2>2, <2>3
<1>10. QED BY <1>8, <1>9

\* The record that is saved is the one the tab then holds.
LEMMA SavedInv ==
  ASSUME TrustBounds, TrustInv, NEW t \in Tabs, Save(t) \/ NotSaved(t) PROVE TrustInv'
<1> USE DEF TrustInv, TrustFits
<1>1. saving[t] # {} /\ operations[t] # <<>>
  BY DEF Save, NotSaved, SavesAreOfTheRecord
<1>2. /\ operations' = [operations EXCEPT ![t] = Tail(@)] /\ saving' = [saving EXCEPT ![t] = {}]
      /\ announced' = announced
  BY DEF Save, NotSaved
<1>3. CASE NotSaved(t)
  <2>1. UNCHANGED <<stored, record, confirmed>> /\ warning' \in [Tabs -> {{}} \cup {{k} : k \in Keys}]
    BY <1>3 DEF NotSaved
  <2>2. operations' \in [Tabs -> Seq(OpsOf)] /\ QueuesFit' /\ AcceptedAreConfirmed'
    BY <1>1, <1>2, <2>1, DequeueFits
  <2>3. saving' \in [Tabs -> {{}} \cup {{s} : s \in Records}] /\ saving'[t] = {}
    BY <1>2
  <2>4. SavesAreOfTheRecord'
    BY <1>2, <2>1, <2>3 DEF SavesAreOfTheRecord
  <2>5. QED BY <1>2, <2>1, <2>2, <2>3, <2>4
<1>4. ASSUME NEW r \in saving[t], stored' = r, record' = [record EXCEPT ![t] = r],
             confirmed' = (IF stored = Absent THEN confirmed \cup {r.keys} ELSE confirmed),
             \/ r.pending # {} /\ warning' = [warning EXCEPT ![t] = r.pending]
             \/ warning' = [warning EXCEPT ![t] = {}]
             \/ warning' = warning
      PROVE  TrustInv'
  <2>1. r \in Records /\ r.keys \in Keys /\ r.pending \in {{}} \cup {{k} : k \in Keys}
    <3>1. saving[t] \in {{}} \cup {{s} : s \in Records}
      OBVIOUS
    <3>2. r \in Records
      BY <1>4, <3>1
    <3>3. QED BY <3>2, RecordFields
  <2>2. confirmed \subseteq confirmed' /\ confirmed' \subseteq Keys
    BY <1>4, <2>1
  <2>3. operations' \in [Tabs -> Seq(OpsOf)] /\ QueuesFit' /\ AcceptedAreConfirmed'
    BY <1>1, <1>2, <2>2, DequeueFits
  <2>4. /\ saving' \in [Tabs -> {{}} \cup {{s} : s \in Records}] /\ saving'[t] = {}
        /\ record' \in [Tabs -> Records \cup {Absent, Unread}] /\ record'[t] = r
        /\ warning' \in [Tabs -> {{}} \cup {{k} : k \in Keys}]
    BY <1>2, <1>4, <2>1
  <2>5. SavesAreOfTheRecord'
    BY <1>2, <1>4, <2>4 DEF SavesAreOfTheRecord
  <2>6. QED BY <1>2, <1>4, <2>1, <2>2, <2>3, <2>4, <2>5
<1>5. CASE Save(t)
  <2>1. PICK r \in saving[t] :
          /\ stored' = r /\ record' = [record EXCEPT ![t] = r]
          /\ confirmed' = (IF stored = Absent THEN confirmed \cup {r.keys} ELSE confirmed)
          /\ \/ Changed(r) /\ warning' = [warning EXCEPT ![t] = r.pending]
             \/ warning' = [warning EXCEPT ![t] = {}]
             \/ warning' = warning
    BY <1>5 DEF Save
  <2>2. QED BY <1>4, <2>1 DEF Changed
<1>6. QED BY <1>3, <1>5

\* The account announces keys that are keys.
LEMMA AnnounceInv ==
  ASSUME TrustBounds, TrustInv, AnnounceSigning \/ AnnounceOther PROVE TrustInv'
<1> USE DEF TrustInv, TrustFits
<1>1. LastAnnounced \in Keys
  BY DEF LastAnnounced
<1>2. PICK k \in Keys : announced' = Append(announced, k)
  <2>1. CASE AnnounceSigning
    <3>1. PICK s \in 1..MaxSigns : announced' = Append(announced, [LastAnnounced EXCEPT !.signing = s])
      BY <2>1 DEF AnnounceSigning
    <3>2. [LastAnnounced EXCEPT !.signing = s] \in Keys
      <4>1. s \in 0..MaxSigns
        BY DEF TrustBounds
      <4> HIDE DEF TrustInv
      <4>2. QED BY <1>1, <4>1 DEF Keys
    <3>3. QED BY <3>1, <3>2
  <2>2. CASE AnnounceOther
    <3>1. PICK s \in 0..MaxSigns :
            announced' = Append(announced, [encryption |-> LastAnnounced.encryption + 1, signing |-> s])
      BY <2>2 DEF AnnounceOther
    <3>2. LastAnnounced.encryption \in 1..MaxKeys /\ LastAnnounced.encryption < MaxKeys /\ MaxKeys \in Nat
      BY <1>1, <2>2 DEF AnnounceOther, Keys, TrustBounds
    <3>3. [encryption |-> LastAnnounced.encryption + 1, signing |-> s] \in Keys
      BY <3>1, <3>2 DEF Keys
    <3>4. QED BY <3>1, <3>3
  <2>3. QED BY <2>1, <2>2
<1>3. announced' \in Seq(Keys) /\ announced' # <<>>
  BY <1>2
<1>4. UNCHANGED <<stored, record, operations, saving, warning, confirmed>>
  BY DEF AnnounceSigning, AnnounceOther
<1>5. QED BY <1>3, <1>4 DEF QueuesFit, SavesAreOfTheRecord, AcceptedAreConfirmed

\* What the user and the answers of the server ask a tab for.
LEMMA AskedOfATab ==
  ASSUME TrustBounds, TrustInv, NEW t \in Tabs,
         Accept(t) \/ Verify(t) \/ \E i \in DOMAIN announced, bare \in BOOLEAN : Observe(t, announced[i], bare)
  PROVE  TrustInv'
<1> USE DEF TrustInv, TrustFits
<1>1. ASSUME NEW i \in DOMAIN announced, NEW bare \in BOOLEAN, Observe(t, announced[i], bare) PROVE TrustInv'
  <2> DEFINE op == [kind |-> "observe", keys |-> announced[i], bare |-> bare]
  <2>1. announced[i] \in Keys
    BY <1>1
  <2>2. op \in OpsOf /\ op.kind = "observe"
    BY <2>1 DEF OpsOf
  <2>3. Room(t) /\ Enqueue(t, op) /\ UNCHANGED <<announced, stored, record, saving, warning, confirmed>>
    BY <1>1 DEF Observe
  <2> HIDE DEF op
  <2>4. operations' \in [Tabs -> Seq(OpsOf)] /\ QueuesFit' /\ SavesAreOfTheRecord' /\ AcceptedAreConfirmed'
    BY <2>2, <2>3, EnqueueInv
  <2>5. QED BY <2>3, <2>4
<1>2. CASE Accept(t)
  <2>1. PICK displayed \in warning[t] :
          /\ Enqueue(t, [kind |-> "accept", keys |-> displayed])
          /\ confirmed' = confirmed \cup {displayed}
    BY <1>2 DEF Accept
  <2> DEFINE op == [kind |-> "accept", keys |-> displayed]
  <2>2. warning[t] \in {{}} \cup {{k} : k \in Keys}
    OBVIOUS
  <2>3. displayed \in Keys
    BY <2>1, <2>2
  <2>4. op \in OpsOf /\ op.keys = displayed
    BY <2>3 DEF OpsOf
  <2>5. Room(t) /\ Enqueue(t, op) /\ UNCHANGED <<announced, stored, record, saving, warning>>
    BY <1>2, <2>1 DEF Accept
  <2> HIDE DEF op
  <2>6. operations' \in [Tabs -> Seq(OpsOf)] /\ QueuesFit' /\ SavesAreOfTheRecord' /\ AcceptedAreConfirmed'
    BY <2>1, <2>3, <2>4, <2>5, EnqueueInv
  <2>7. QED BY <2>1, <2>3, <2>5, <2>6
<1>3. CASE Verify(t)
  <2> DEFINE op == [kind |-> "verify", keys |-> Loaded(t).keys]
  <2>1. Loaded(t) \in Records \cup {Absent} /\ (Loaded(t) = record[t] \/ (Loaded(t) = stored /\ record[t] = Unread))
    BY DEF Loaded
  <2>2. Known(Loaded(t)) /\ Loaded(t) \in Records
    BY <1>3, <2>1, AbsentUnknown DEF Verify
  <2>3. Loaded(t).keys \in Keys
    BY <2>2, RecordFields
  <2>4. op \in OpsOf /\ op.kind = "verify"
    BY <2>3 DEF OpsOf
  <2>5. /\ Room(t) /\ Enqueue(t, op) /\ record' = [record EXCEPT ![t] = Loaded(t)]
        /\ UNCHANGED <<announced, stored, saving, warning, confirmed>>
    BY <1>3 DEF Verify
  <2> HIDE DEF op
  <2>6. record' \in [Tabs -> Records \cup {Absent, Unread}]
        /\ \A u \in Tabs : record'[u] = record[u] \/ (record'[u] = stored /\ record[u] = Unread)
    BY <2>1, <2>2, <2>5
  <2>7. operations' \in [Tabs -> Seq(OpsOf)] /\ QueuesFit' /\ SavesAreOfTheRecord' /\ AcceptedAreConfirmed'
    BY <2>4, <2>5, <2>6, EnqueueInv
  <2>8. QED BY <2>5, <2>6, <2>7
<1>4. QED BY <1>1, <1>2, <1>3

\* A warning that is closed, or a tab that is loaded again, has nothing left to save.
LEMMA LeftInv ==
  ASSUME TrustBounds, TrustInv, NEW t \in Tabs, Refuse(t) \/ ReloadTab(t) PROVE TrustInv'
<1> USE DEF TrustInv, TrustFits
<1>1. UNCHANGED <<announced, stored, confirmed>> /\ warning' \in [Tabs -> {{}} \cup {{k} : k \in Keys}]
  BY DEF Refuse, ReloadTab
<1>2. CASE Refuse(t)
  BY <1>1, <1>2 DEF Refuse, QueuesFit, SavesAreOfTheRecord, AcceptedAreConfirmed
<1>3. CASE ReloadTab(t)
  <2>1. record' \in [Tabs -> Records \cup {Absent, Unread}] /\ record'[t] = Unread
        /\ \A u \in Tabs : u # t => record'[u] = record[u]
    BY <1>3 DEF ReloadTab
  <2>2. operations' \in [Tabs -> Seq(OpsOf)] /\ operations'[t] = <<>>
        /\ \A u \in Tabs : u # t => operations'[u] = operations[u]
    BY <1>3 DEF ReloadTab
  <2>3. saving' \in [Tabs -> {{}} \cup {{r} : r \in Records}] /\ saving'[t] = {}
        /\ \A u \in Tabs : u # t => saving'[u] = saving[u]
    BY <1>3 DEF ReloadTab
  <2>4. ASSUME NEW u \in Tabs
        PROVE  /\ Len(operations'[u]) <= MaxQueue
               /\ saving'[u] # {} => /\ record'[u] # Unread /\ operations'[u] # <<>>
                                     /\ saving'[u] = After(record'[u], Head(operations'[u]))
               /\ \A i \in DOMAIN operations'[u] :
                    operations'[u][i].kind = "accept" => operations'[u][i].keys \in confirmed'
    <3>1. CASE u = t
      <4>1. Len(<<>>) <= MaxQueue /\ DOMAIN <<>> = {}
        BY DEF TrustBounds
      <4>2. QED BY <2>1, <2>2, <2>3, <3>1, <4>1
    <3>2. CASE u # t
      BY <1>1, <2>1, <2>2, <2>3, <3>2 DEF QueuesFit, SavesAreOfTheRecord, AcceptedAreConfirmed
    <3>3. QED BY <3>1, <3>2
  <2>5. QueuesFit' /\ SavesAreOfTheRecord' /\ AcceptedAreConfirmed'
    BY <2>4 DEF QueuesFit, SavesAreOfTheRecord, AcceptedAreConfirmed
  <2>6. QED BY <1>1, <2>1, <2>2, <2>3, <2>5
<1>4. QED BY <1>2, <1>3

\* Every step keeps the invariant.
LEMMA TrustNextInv == ASSUME TrustBounds, TrustInv, [TrustNext]_trustVars PROVE TrustInv'
<1>1. CASE UNCHANGED trustVars
  BY <1>1 DEF trustVars, TrustInv, TrustFits, QueuesFit, SavesAreOfTheRecord, AcceptedAreConfirmed
<1>2. CASE TrustNext
  BY <1>2, AnnounceInv, AskedOfATab, TrustBeginInv, SavedInv, LeftInv DEF TrustNext
<1>3. QED BY <1>1, <1>2

\* The only tab is the only one to write.
LEMMA RecordStays ==
  ASSUME TrustBounds, OneTab, TrustInv, RecordIsStored, [TrustNext]_trustVars PROVE RecordIsStored'
<1> USE DEF RecordIsStored, OneTab, TrustInv, TrustFits
<1>1. CASE AnnounceSigning \/ AnnounceOther \/ UNCHANGED trustVars
  BY <1>1 DEF AnnounceSigning, AnnounceOther, trustVars
<1>2. ASSUME NEW t \in Tabs, BeginOperation(t) \/ Verify(t) PROVE RecordIsStored'
  BY <1>2 DEF BeginOperation, Verify, Loaded
<1>3. ASSUME NEW t \in Tabs, Save(t) PROVE RecordIsStored'
  BY <1>3 DEF Save
<1>4. ASSUME NEW t \in Tabs, ReloadTab(t) PROVE RecordIsStored'
  BY <1>4 DEF ReloadTab
<1>5. ASSUME NEW t \in Tabs, UNCHANGED <<stored, record>> PROVE RecordIsStored'
  BY <1>5
<1>6. QED
  BY <1>1, <1>2, <1>3, <1>4, <1>5 DEF TrustNext, NotSaved, Accept, Refuse, Observe

\* An operation replaces the keys on record as the user accepted them, or adds a first signing
\* key; it drops no change that waits otherwise.
LEMMA AfterConsents ==
  ASSUME TrustBounds, NEW r \in Records, NEW op \in OpsOf, op.kind = "accept" => op.keys \in confirmed,
         NEW s \in After(r, op)
  PROVE  /\ s.keys # r.keys => s.keys \in confirmed \/ Grows(r, s)
         /\ Disappears(r, s) => s.keys \in confirmed \cap r.pending
<1>1. r = Rec(r.keys, r.pending, r.verified) /\ Known(r)
  BY RecordFields
<1>2. CASE op.kind = "observe"
  <2>1. s \in Observed(r, op)
    BY <1>2 DEF After
  <2>2. CASE FirstSigningKey(r, op)
    <3>1. s = Rec(Seen(r, op), {}, FALSE) /\ r.pending = {} /\ ~r.verified /\ r.keys.signing = NoSigning
      BY <1>1, <2>1, <2>2 DEF Observed, FirstSigningKey, Changed
    <3>2. Seen(r, op).encryption = r.keys.encryption
      BY <2>2 DEF FirstSigningKey, Seen
    <3>3. s.keys = Seen(r, op)
      BY <3>1 DEF Rec
    <3>4. QED BY <3>1, <3>2, <3>3 DEF Grows, Disappears
  <2>3. CASE ~FirstSigningKey(r, op) /\ Seen(r, op) = r.keys
    <3>1. s = r
      BY <1>1, <2>1, <2>3 DEF Observed
    <3>2. QED BY <3>1 DEF Disappears
  <2>4. CASE ~FirstSigningKey(r, op) /\ Seen(r, op) # r.keys
    <3>1. s = [r EXCEPT !.pending = {Seen(r, op)}]
      BY <1>1, <2>1, <2>4 DEF Observed
    <3>2. s = [Rec(r.keys, r.pending, r.verified) EXCEPT !.pending = {Seen(r, op)}]
      BY <1>1, <3>1
    <3>3. s.keys = r.keys /\ s.pending = {Seen(r, op)}
      BY <3>2 DEF Rec
    <3>4. QED BY <3>3 DEF Disappears
  <2>5. QED BY <2>2, <2>3, <2>4
<1>3. CASE op.kind = "accept"
  <2>1. s \in Accepted(r, op.keys)
    BY <1>3 DEF After
  <2>2. s = Rec(op.keys, {}, FALSE) /\ op.keys \in r.pending
    BY <2>1 DEF Accepted
  <2>3. s.keys = op.keys
    BY <2>2 DEF Rec
  <2>4. QED BY <1>3, <2>2, <2>3
<1>4. CASE op.kind = "verify"
  <2>1. s \in Compared(r, op.keys)
    BY <1>4 DEF After
  <2>2. s = [r EXCEPT !.verified = TRUE]
    BY <2>1 DEF Compared
  <2>3. s = Rec(r.keys, r.pending, TRUE)
    <3>1. s = [Rec(r.keys, r.pending, r.verified) EXCEPT !.verified = TRUE]
      BY <1>1, <2>2
    <3>2. r.verified \in BOOLEAN
      BY RecordFields
    <3>3. QED BY <3>1, <3>2, RecVerified
  <2>4. s.keys = r.keys /\ s.pending = r.pending
    BY <2>3 DEF Rec
  <2>5. QED BY <2>4 DEF Disappears
<1>5. QED BY <1>2, <1>3, <1>4 DEF OpsOf

\* Only a save changes the record.
LEMMA TrustStep ==
  ASSUME TrustBounds, TrustInv, RecordIsStored, [TrustNext]_trustVars PROVE Consented
<1> SUFFICES ASSUME Known(stored), stored' # stored
             PROVE  /\ stored'.keys # stored.keys => stored'.keys \in confirmed \/ Grows(stored, stored')
                    /\ Disappears(stored, stored') => stored'.keys \in confirmed \cap stored.pending
  BY DEF Consented
<1>1. PICK t \in Tabs : Save(t)
  BY DEF TrustNext, trustVars, AnnounceSigning, AnnounceOther, Observe, BeginOperation, NotSaved, Accept, Refuse,
         Verify, ReloadTab
<1>2. stored' \in saving[t] /\ saving[t] = After(stored, Head(operations[t])) /\ operations[t] # <<>>
  BY <1>1 DEF Save, TrustInv, SavesAreOfTheRecord, RecordIsStored
<1>3. stored \in Records
  BY AbsentUnknown DEF TrustInv, TrustFits
<1>4. Head(operations[t]) \in OpsOf /\ Head(operations[t]) = operations[t][1] /\ 1 \in DOMAIN operations[t]
  BY <1>2 DEF TrustInv, TrustFits
<1>5. Head(operations[t]).kind = "accept" => Head(operations[t]).keys \in confirmed
  BY <1>4 DEF TrustInv, AcceptedAreConfirmed
<1>6. QED BY <1>2, <1>3, <1>4, <1>5, AfterConsents

\* The types follow.
LEMMA TrustFollows == ASSUME TrustBounds, TrustInv PROVE TrustTypeOK
<1> USE DEF TrustInv, TrustFits
<1>1. ASSUME NEW t \in Tabs, saving[t] # {}
      PROVE  operations[t] # <<>> /\ \E r \in saving[t] : r \in Records /\ saving[t] = {r}
  <2>1. saving[t] \in {{}} \cup {{r} : r \in Records}
    OBVIOUS
  <2>2. \E r \in saving[t] : r \in Records /\ saving[t] = {r}
    BY <1>1, <2>1
  <2>3. QED BY <1>1, <2>2 DEF SavesAreOfTheRecord
<1>2. ASSUME NEW t \in Tabs PROVE warning[t] = {} \/ \E k \in Keys : warning[t] = {k}
  <2>1. warning[t] \in {{}} \cup {{k} : k \in Keys}
    OBVIOUS
  <2>2. QED BY <2>1
<1>3. QED BY <1>1, <1>2 DEF TrustTypeOK, QueuesFit

\* In a browser with one tab, the keys on record change only as the user accepted them on seeing
\* them, or by a first signing key nobody compared; a change that waits does not disappear otherwise.
THEOREM KeysChangeWithConsent ==
  ASSUME TrustBounds, OneTab PROVE TrustSpec => [][Consented]_trustVars
<1>1. TrustInit => TrustInv /\ RecordIsStored
  BY TrustInitInv DEF TrustInit, RecordIsStored
<1>2. /\ TrustInv /\ RecordIsStored
      /\ [TrustNext]_trustVars
      => TrustInv' /\ RecordIsStored' /\ Consented
  BY TrustNextInv, RecordStays, TrustStep
<1>3. QED BY <1>1, <1>2, PTL DEF TrustSpec

-----------------------------------------------------------------------------
(* The previews: when no reload decrypts, every frame on screen is filled, being filled or     *)
(* watched, unless it joined the drawing of an older list, or a reload that failed dropped it.  *)

RevealsUpTo(last) == [list : 1..last, todo : SUBSET Messages]

FramesTyped ==
  /\ onScreen \in Nat \ {0} /\ reloads \in Nat
  /\ drawn \subseteq listed /\ listed \subseteq arrived /\ arrived \subseteq Messages
  /\ pending \in [Messages -> 0..onScreen] /\ sharing \in [Messages -> 0..onScreen]
  /\ observers \subseteq (1..onScreen) \X Messages /\ drawing \subseteq (1..onScreen) \X Messages
  /\ reveals \subseteq RevealsUpTo(onScreen) /\ joined \subseteq Messages
  /\ replaced \in {"together", "later", "dropped"}

\* Only the messages of the list on screen wait for one of its frames.
FramesAreListed ==
  /\ \A m \in Messages : pending[m] = onScreen => m \in listed
  /\ \A m \in Messages : <<onScreen, m>> \in observers \cup drawing => m \in listed
  /\ \A r \in reveals : r.list = onScreen => r.todo \subseteq listed

\* A drawing that is joined is under way; of an older list only when the list on screen came later.
SharedAreDrawing ==
  /\ \A m \in Messages : sharing[m] # 0 => <<sharing[m], m>> \in drawing
  /\ replaced = "together" => \A m \in Messages : sharing[m] \in {0, onScreen}

FramesInv == FramesTyped /\ FramesAreListed /\ SharedAreDrawing /\ FramesAreAttended

\* The first list is drawn before it is revealed.
LEMMA PassInitInv == ASSUME PassBounds, PassInit PROVE FramesInv
<1> USE DEF PassInit, PassBounds, NoList
<1>1. FramesTyped
  BY DEF FramesTyped, RevealsUpTo
<1>2. FramesAreListed
  BY DEF FramesAreListed
<1>3. SharedAreDrawing /\ FramesAreAttended
  BY DEF SharedAreDrawing, FramesAreAttended, Attended
<1> QED
  BY <1>1, <1>2, <1>3 DEF FramesInv

\* The steps, with what each one needs of the lists.
LEMMA PassCases ==
  ASSUME PassNext
  PROVE  \/ \E held \in BOOLEAN : ReloadPrepared(held)
         \/ \E held \in BOOLEAN : Decrypted(held)
         \/ ReloadList
         \/ ReloadFails
         \/ \E r \in reveals : RevealEnds(r)
         \/ \E r \in reveals : \E m \in r.todo : RevealDraws(r, m)
         \/ \E m \in Messages : Arrives(m)
         \/ \E m \in Messages : Near(m)
         \/ \E m \in Messages : Background(m)
         \/ \E d \in drawing : DrawingEnds(d[1], d[2])
BY DEF PassNext

\* A step keeps the lists, the frames and the drawings well formed, and attends to no frame of
\* a message that is not listed.
LEMMA PassKeepsTypes ==
  ASSUME PassBounds, FramesTyped, FramesAreListed, PassNext
  PROVE  FramesTyped' /\ FramesAreListed'
<1> USE DEF FramesTyped, FramesAreListed, RevealsUpTo, NoList
\* The new list of a reload.
<1>1. ASSUME NEW held \in BOOLEAN, NEW how \in {"together", "later"}, ListReplaced(held, how), UNCHANGED <<arrived, drawing>>, reloads' \in Nat,
             pending' \in [Messages -> 0..onScreen'], sharing' \in [Messages -> 0..onScreen'],
             observers' \subseteq (1..onScreen') \X Messages,
             \A m \in Messages : pending'[m] = onScreen' => m \in arrived,
             \A m \in Messages : <<onScreen', m>> \in observers' => m \in arrived
      PROVE  FramesTyped' /\ FramesAreListed'
  <2>1. /\ onScreen' = onScreen + 1 /\ listed' = arrived /\ drawn' = {} /\ onScreen' \in Nat \ {0}
        /\ joined' = {} /\ replaced' \in {"together", "later"}
    BY <1>1 DEF ListReplaced
  <2>2. reveals' \subseteq RevealsUpTo(onScreen + 1)
    BY <1>1 DEF ListReplaced
  <2>3. drawing' \subseteq (1..onScreen') \X Messages
    BY <2>1, <1>1
  <2>4. \A m \in Messages : <<onScreen', m>> \notin drawing'
    BY <2>1, <1>1
  <2>5. \A r \in reveals' : r.list = onScreen' => r.todo \subseteq listed'
    BY <2>1, <1>1 DEF ListReplaced
  <2>6. FramesTyped'
    BY <2>1, <2>2, <2>3, <1>1
  <2> QED
    BY <2>1, <2>4, <2>5, <2>6, <1>1
<1>2. ASSUME NEW held \in BOOLEAN, ReloadPrepared(held) PROVE FramesTyped' /\ FramesAreListed'
  <2>1. ListReplaced(held, "together") /\ UNCHANGED <<arrived, drawing>> /\ reloads' \in Nat
    BY <1>2 DEF ReloadPrepared
  <2>2. onScreen' = onScreen + 1
    BY <2>1 DEF ListReplaced
  <2>3. sharing' \in [Messages -> 0..onScreen']
    BY <1>2, <2>2 DEF ReloadPrepared, SharedAfter
  <2>4. pending' \in [Messages -> 0..onScreen'] /\ \A m \in Messages : pending'[m] = onScreen' => m \in arrived
    BY <1>2, <2>2 DEF ReloadPrepared
  <2>5. /\ observers' \subseteq (1..onScreen') \X Messages
        /\ \A m \in Messages : <<onScreen', m>> \in observers' => m \in arrived
    BY <1>2, <2>2 DEF ReloadPrepared, Frames
  <2> QED
    BY <1>1, <2>1, <2>3, <2>4, <2>5
<1>3. ASSUME NEW held \in BOOLEAN, Decrypted(held) PROVE FramesTyped' /\ FramesAreListed'
  <2>1. ListReplaced(held, "later") /\ UNCHANGED <<arrived, drawing>> /\ reloads' \in Nat
    BY <1>3 DEF Decrypted
  <2>2. onScreen' = onScreen + 1
    BY <2>1 DEF ListReplaced
  <2>3. sharing' \in [Messages -> 0..onScreen']
    BY <1>3, <2>2 DEF Decrypted
  <2>4. pending' \in [Messages -> 0..onScreen'] /\ \A m \in Messages : pending'[m] = onScreen' => m \in arrived
    BY <1>3, <2>2 DEF Decrypted, Scheduled
  <2>5. /\ observers' \subseteq (1..onScreen') \X Messages
        /\ \A m \in Messages : <<onScreen', m>> \in observers' => m \in arrived
    BY <1>3, <2>2 DEF Decrypted, Scheduled, Frames
  <2> QED
    BY <1>1, <2>1, <2>3, <2>4, <2>5
<1>4. CASE ReloadList
  BY <1>4 DEF ReloadList, Forgotten, SharedAfter
<1>5. CASE ReloadFails
  BY <1>5 DEF ReloadFails, bookkeeping
\* Frames that are scheduled.
<1>6. ASSUME NEW n \in 1..onScreen, NEW ms \in SUBSET Messages, Scheduled(n, ms)
      PROVE  /\ pending' \in [Messages -> 0..onScreen]
             /\ observers' \subseteq (1..onScreen) \X Messages
             /\ \A m \in Messages : pending'[m] = onScreen => m \in listed \/ (n = onScreen /\ m \in ms)
             /\ \A m \in Messages : <<onScreen, m>> \in observers' =>
                  m \in listed \/ (n = onScreen /\ m \in ms)
  BY <1>6 DEF Scheduled, Frames
<1>7. ASSUME NEW r \in reveals, RevealEnds(r) PROVE FramesTyped' /\ FramesAreListed'
  <2>1. r.list \in 1..onScreen /\ r.todo \in SUBSET Messages /\ Scheduled(r.list, r.todo)
    BY <1>7 DEF RevealEnds
  <2>2. r.list = onScreen => r.todo \subseteq listed
    OBVIOUS
  <2> HIDE DEF RevealsUpTo
  <2>3. FramesTyped'
    BY <1>6, <1>7, <2>1 DEF RevealEnds
  <2> QED
    BY <1>6, <1>7, <2>1, <2>2, <2>3 DEF RevealEnds
<1>8. ASSUME NEW r \in reveals, NEW m \in r.todo, RevealDraws(r, m) PROVE FramesTyped' /\ FramesAreListed'
  <2>1. [r EXCEPT !.todo = @ \ {m}] \in RevealsUpTo(onScreen)
    OBVIOUS
  <2>2. reveals' \subseteq RevealsUpTo(onScreen)
    BY <1>8, <2>1 DEF RevealDraws
  <2>3. [r EXCEPT !.todo = @ \ {m}].list = r.list /\ [r EXCEPT !.todo = @ \ {m}].todo \subseteq r.todo
    OBVIOUS
  <2>4. \A o \in reveals' : o.list = onScreen => o.todo \subseteq listed
    BY <1>8, <2>3 DEF RevealDraws
  <2>5. drawn' \subseteq listed
    BY <1>8 DEF RevealDraws, Filled
  <2> HIDE DEF RevealsUpTo
  <2> QED
    BY <1>8, <2>2, <2>4, <2>5 DEF RevealDraws, bookkeeping
<1>9. ASSUME NEW m \in Messages, Arrives(m) PROVE FramesTyped' /\ FramesAreListed'
  <2>1. onScreen \in 1..onScreen /\ {m} \in SUBSET Messages /\ Scheduled(onScreen, {m})
    BY <1>9 DEF Arrives
  <2> HIDE DEF RevealsUpTo
  <2>2. FramesTyped'
    BY <1>6, <1>9, <2>1 DEF Arrives
  <2> QED
    BY <1>6, <1>9, <2>1, <2>2 DEF Arrives
\* A frame whose message is listed leaves the waiting ones for a drawing.
<1>10. ASSUME NEW m \in listed, observers' = observers \ {<<onScreen, m>>}, pending' = [pending EXCEPT ![m] = 0],
              Tracked(onScreen, m), UNCHANGED <<onScreen, listed, drawn, arrived, reloads, reveals, replaced>>
       PROVE  FramesTyped' /\ FramesAreListed'
  <2>1. sharing' \in [Messages -> 0..onScreen]
    BY <1>10 DEF Tracked
  <2>2. drawing' \subseteq drawing \cup {<<onScreen, m>>} /\ joined' \subseteq Messages
    BY <1>10 DEF Tracked
  <2>3. pending' \in [Messages -> 0..onScreen] /\ \A o \in Messages : pending'[o] \in {0, pending[o]}
    BY <1>10
  <2> HIDE DEF RevealsUpTo
  <2>4. FramesTyped'
    BY <1>10, <2>1, <2>2, <2>3
  <2> QED
    BY <1>10, <2>2, <2>3, <2>4
<1>11. ASSUME NEW m \in Messages, Near(m) PROVE FramesTyped' /\ FramesAreListed'
  <2>1. m \in listed
    BY <1>11 DEF Near
  <2> QED
    BY <1>10, <1>11, <2>1 DEF Near
<1>12. ASSUME NEW m \in Messages, Background(m) PROVE FramesTyped' /\ FramesAreListed'
  <2>1. m \in listed
    BY <1>12 DEF Background
  <2> QED
    BY <1>10, <1>12, <2>1 DEF Background
<1>13. ASSUME NEW d \in drawing, DrawingEnds(d[1], d[2]) PROVE FramesTyped' /\ FramesAreListed'
  <2>1. d[1] \in 1..onScreen /\ d[2] \in Messages /\ <<d[1], d[2]>> \in drawing
    BY <1>13 DEF DrawingEnds
  <2>2. sharing' \in [Messages -> 0..onScreen]
    BY <1>13, <2>1 DEF DrawingEnds
  <2>3. drawn' \subseteq listed
    BY <1>13, <2>1 DEF DrawingEnds, Filled
  <2> HIDE DEF RevealsUpTo
  <2> QED
    BY <1>13, <2>1, <2>2, <2>3 DEF DrawingEnds
<1> QED
  BY PassCases, <1>2, <1>3, <1>4, <1>5, <1>7, <1>8, <1>9, <1>11, <1>12, <1>13

\* A step leaves a drawing that is joined under way.
LEMMA PassKeepsDrawings ==
  ASSUME PassBounds, FramesInv, PassNext PROVE SharedAreDrawing'
<1> USE DEF FramesInv, FramesTyped, SharedAreDrawing, NoList
<1>1. ASSUME NEW held \in BOOLEAN, ReloadPrepared(held) PROVE SharedAreDrawing'
  BY <1>1 DEF ReloadPrepared, SharedAfter
<1>2. ASSUME NEW held \in BOOLEAN, Decrypted(held) PROVE SharedAreDrawing'
  BY <1>2 DEF Decrypted, ListReplaced
<1>3. CASE ReloadList
  BY <1>3 DEF ReloadList, Forgotten, SharedAfter
<1>4. CASE ReloadFails
  BY <1>4 DEF ReloadFails, bookkeeping
<1>5. ASSUME UNCHANGED <<sharing, drawing, onScreen, replaced>> PROVE SharedAreDrawing'
  BY <1>5
<1>6. ASSUME NEW r \in reveals, RevealEnds(r) PROVE SharedAreDrawing'
  BY <1>5, <1>6 DEF RevealEnds
<1>7. ASSUME NEW r \in reveals, NEW m \in r.todo, RevealDraws(r, m) PROVE SharedAreDrawing'
  BY <1>5, <1>7 DEF RevealDraws, bookkeeping
<1>8. ASSUME NEW m \in Messages, Arrives(m) PROVE SharedAreDrawing'
  BY <1>5, <1>8 DEF Arrives
<1>9. ASSUME NEW m \in Messages, Tracked(onScreen, m), UNCHANGED <<onScreen, replaced>> PROVE SharedAreDrawing'
  <2>1. CASE sharing[m] # 0
    BY <1>5, <1>9, <2>1 DEF Tracked
  <2>2. CASE sharing[m] = 0
    BY <1>9, <2>2 DEF Tracked
  <2> QED
    BY <2>1, <2>2
<1>10. ASSUME NEW m \in Messages, Near(m) \/ Background(m) PROVE SharedAreDrawing'
  BY <1>9, <1>10 DEF Near, Background
<1>11. ASSUME NEW d \in drawing, DrawingEnds(d[1], d[2]) PROVE SharedAreDrawing'
  <2>1. d[1] \in 1..onScreen /\ d[2] \in Messages /\ d = <<d[1], d[2]>>
    OBVIOUS
  <2>2. /\ sharing' = [sharing EXCEPT ![d[2]] = IF @ = d[1] THEN 0 ELSE @]
        /\ drawing' = drawing \ {<<d[1], d[2]>>} /\ UNCHANGED <<onScreen, replaced>>
    BY <1>11 DEF DrawingEnds
  <2> QED
    BY <2>1, <2>2
<1> QED
  BY PassCases, <1>1, <1>2, <1>3, <1>4, <1>6, <1>7, <1>8, <1>10, <1>11

\* A step leaves no frame of the list on screen to nobody, but for the two that are excepted.
LEMMA PassKeepsFrames ==
  ASSUME PassBounds, FramesInv, PassNext PROVE FramesAreAttended'
<1> USE DEF FramesInv, FramesTyped, NoList
<1> DEFINE Settled == reloads = 0 /\ replaced # "dropped"
           Served == \A m \in listed \ drawn : Attended(m) \/ m \in joined
<1>0. /\ onScreen \in Nat \ {0} /\ Settled => Served
      /\ replaced = "together" => joined = {}
  BY DEF FramesAreAttended
\* The new list of a reload, watched or drawn before it is revealed.
<1>1. ASSUME NEW held \in BOOLEAN, NEW how, ListReplaced(held, how), arrived \subseteq Messages,
             ~held => \A m \in arrived : <<onScreen + 1, m>> \in observers'
      PROVE  FramesAreAttended'
  <2>1. onScreen' = onScreen + 1 /\ listed' = arrived /\ joined' = {}
    BY <1>1 DEF ListReplaced
  <2>2. CASE held
    <3>1. [list |-> onScreen + 1, todo |-> arrived] \in reveals'
      BY <1>1, <2>2 DEF ListReplaced
    <3> QED
      BY <2>1, <3>1 DEF FramesAreAttended, Attended
  <2>3. CASE ~held
    BY <1>1, <2>1, <2>3 DEF FramesAreAttended, Attended
  <2> QED
    BY <2>2, <2>3
<1>2. ASSUME NEW held \in BOOLEAN, ReloadPrepared(held) PROVE FramesAreAttended'
  <2>1. ~held => \A m \in arrived : <<onScreen + 1, m>> \in observers'
    BY <1>2 DEF ReloadPrepared, Frames
  <2> QED
    BY <1>1, <1>2, <2>1 DEF ReloadPrepared
<1>3. ASSUME NEW held \in BOOLEAN, Decrypted(held) PROVE FramesAreAttended'
  <2>1. ~held => \A m \in arrived : <<onScreen + 1, m>> \in observers'
    BY <1>3 DEF Decrypted, Scheduled, Frames
  <2> QED
    BY <1>1, <1>3, <2>1 DEF Decrypted
<1>4. CASE ReloadList
  BY <1>0, <1>4 DEF ReloadList, FramesAreAttended
<1>5. CASE ReloadFails
  BY <1>0, <1>5 DEF ReloadFails, FramesAreAttended
\* Frames that are scheduled are watched, and the others still are.
<1>6. ASSUME NEW n, NEW ms, Scheduled(n, ms)
      PROVE  observers \subseteq observers' /\ \A m \in ms : <<n, m>> \in observers'
  BY <1>6 DEF Scheduled, Frames
\* What is left of a step on the frames of the list on screen.
<1>7. ASSUME UNCHANGED <<reloads, replaced>>, replaced = "together" => joined' = {},
             Served => \A m \in listed' \ drawn' : Attended(m)' \/ m \in joined'
      PROVE  FramesAreAttended'
  BY <1>0, <1>7 DEF FramesAreAttended
<1>8. ASSUME NEW r \in reveals, RevealEnds(r) PROVE FramesAreAttended'
  <2>1. observers \subseteq observers' /\ \A m \in r.todo : <<r.list, m>> \in observers'
    BY <1>6, <1>8 DEF RevealEnds
  <2>2. /\ reveals' = reveals \ {r}
        /\ UNCHANGED <<onScreen, listed, drawn, drawing, reloads, replaced, joined>>
    BY <1>8 DEF RevealEnds
  <2>3. Served => \A m \in listed' \ drawn' : Attended(m)' \/ m \in joined'
    BY <2>1, <2>2 DEF Attended
  <2> QED
    BY <1>0, <1>7, <2>2, <2>3
<1>9. ASSUME NEW r \in reveals, NEW m \in r.todo, RevealDraws(r, m) PROVE FramesAreAttended'
  <2>1. /\ [r EXCEPT !.todo = @ \ {m}].list = r.list
        /\ [r EXCEPT !.todo = @ \ {m}].todo = r.todo \ {m}
    BY DEF RevealsUpTo
  <2>2. /\ reveals' = (reveals \ {r}) \cup {[r EXCEPT !.todo = @ \ {m}]}
        /\ UNCHANGED <<onScreen, listed, drawing, observers, reloads, replaced, joined>>
        /\ drawn' = IF r.list = onScreen THEN drawn \cup {m} ELSE drawn
    BY <1>9 DEF RevealDraws, Filled, bookkeeping
  <2>3. Served => \A o \in listed' \ drawn' : Attended(o)' \/ o \in joined'
    BY <2>1, <2>2 DEF Attended
  <2> QED
    BY <1>0, <1>7, <2>2, <2>3
<1>10. ASSUME NEW m \in Messages, Arrives(m) PROVE FramesAreAttended'
  <2>1. observers \subseteq observers' /\ <<onScreen, m>> \in observers'
    BY <1>6, <1>10 DEF Arrives
  <2>2. listed' = listed \cup {m} /\ UNCHANGED <<onScreen, drawn, drawing, reveals, reloads, replaced, joined>>
    BY <1>10 DEF Arrives
  <2>3. Served => \A o \in listed' \ drawn' : Attended(o)' \/ o \in joined'
    BY <2>1, <2>2 DEF Attended
  <2> QED
    BY <1>0, <1>7, <2>2, <2>3
\* A frame that leaves the waiting ones is being drawn, or joined the drawing of an older list.
<1>11. ASSUME NEW m \in Messages, Tracked(onScreen, m), observers' = observers \ {<<onScreen, m>>},
              UNCHANGED <<onScreen, listed, drawn, reloads, reveals, replaced>>
       PROVE  FramesAreAttended'
  <2>1. drawing \subseteq drawing' /\ joined \subseteq joined'
    BY <1>11 DEF Tracked
  <2>2. <<onScreen, m>> \in drawing' \/ m \in joined'
    BY <1>0, <1>11 DEF Tracked, SharedAreDrawing
  <2>3. replaced = "together" => joined' = {}
    BY <1>0, <1>11 DEF Tracked, SharedAreDrawing
  <2>4. Served => \A o \in listed' \ drawn' : Attended(o)' \/ o \in joined'
    BY <1>11, <2>1, <2>2 DEF Attended
  <2> QED
    BY <1>7, <1>11, <2>3, <2>4
<1>12. ASSUME NEW m \in Messages, Near(m) \/ Background(m) PROVE FramesAreAttended'
  BY <1>11, <1>12 DEF Near, Background
<1>13. ASSUME NEW d \in drawing, DrawingEnds(d[1], d[2]) PROVE FramesAreAttended'
  <2>1. d[1] \in 1..onScreen /\ d[2] \in Messages /\ d = <<d[1], d[2]>>
    OBVIOUS
  <2>2. /\ drawing' = drawing \ {<<d[1], d[2]>>}
        /\ drawn' = IF d[1] = onScreen THEN drawn \cup {d[2]} ELSE drawn
        /\ UNCHANGED <<onScreen, listed, reloads, observers, reveals, replaced, joined>>
    BY <1>13 DEF DrawingEnds, Filled
  <2>3. Served => \A o \in listed' \ drawn' : Attended(o)' \/ o \in joined'
    BY <2>1, <2>2 DEF Attended
  <2> QED
    BY <1>0, <1>7, <2>2, <2>3
<1> HIDE DEF Settled, Served
<1> QED
  BY PassCases, <1>2, <1>3, <1>4, <1>5, <1>8, <1>9, <1>10, <1>12, <1>13

\* The steps keep the invariant.
LEMMA PassNextInv ==
  ASSUME PassBounds, FramesInv, [PassNext]_passVars PROVE FramesInv'
<1>1. CASE PassNext
  BY <1>1, PassKeepsTypes, PassKeepsDrawings, PassKeepsFrames DEF FramesInv
<1>2. CASE UNCHANGED passVars
  BY <1>2 DEF FramesInv, FramesTyped, FramesAreListed, SharedAreDrawing, FramesAreAttended, Attended,
             RevealsUpTo, passVars
<1> QED
  BY <1>1, <1>2

\* Whatever reloads, scrolls and drawings interleave, every empty frame of the list on screen has
\* somebody under way to fill it, but for those that joined an older drawing or that a failed
\* reload dropped, and a list that was prepared has no frame of the first kind.
THEOREM PassInvariant == ASSUME PassBounds PROVE PassSpec => []FramesInv
<1>1. PassInit => FramesInv
  BY PassInitInv
<1>2. FramesInv /\ [PassNext]_passVars => FramesInv'
  BY PassNextInv
<1> QED
  BY <1>1, <1>2, PTL DEF PassSpec

\* No frame on screen stays empty but those.
THEOREM FramesStayAttended == ASSUME PassBounds PROVE PassSpec => []FramesAreAttended
<1>1. FramesInv => FramesAreAttended
  BY DEF FramesInv
<1>2. QED BY <1>1, PassInvariant, PTL

\* The types follow.
LEMMA PassFollows == ASSUME FramesInv PROVE PassTypeOK
  BY DEF FramesInv, FramesTyped, PassTypeOK, RevealsUpTo

\* The types of the lists, the frames and the drawings.
THEOREM PassTyped == ASSUME PassBounds PROVE PassSpec => []PassTypeOK
  BY PassFollows, PassInvariant, PTL

-----------------------------------------------------------------------------
(* The composer: whatever posts fail, and whatever conversation is opened meanwhile, a file     *)
(* (not a recording, which follows its user) is posted and put back in its own conversation     *)
(* only, and none is lost.                                                                      *)

Kinds == {"text", "file", "voice", "poll"}
Drafts == [text : Nat, voice : Nat, files : Seq(Nat)]
SendsOf == [n : Nat, to : Conversations, rest : Drafts, failed : Drafts]

\* What is written stays what it is: an item of this kind, a file of this conversation.
Is(item, kind) == item \in DOMAIN written /\ written[item].kind = kind
FileOf(f, r) == Is(f, "file") /\ written[f].of = r
PartsFit(m, r) ==
  /\ m.text # 0 => Is(m.text, "text")
  /\ m.voice # 0 => Is(m.voice, "voice")
  /\ \A f \in ToSet(m.files) : FileOf(f, r)

WritingFits ==
  /\ here \in Conversations \cup {NoRoom} /\ recorder \in Conversations \cup {NoRoom}
  /\ written \in Seq([kind : Kinds, of : Conversations])
  /\ text \in Nat /\ voice \in Nat /\ files \in Seq(Nat)
  /\ sends \subseteq SendsOf /\ sendClicks \in Nat
DraftFits ==
  /\ text # 0 => Is(text, "text")
  /\ voice # 0 => Is(voice, "voice")
  /\ \A f \in ToSet(files) : FileOf(f, here)
SendsFit ==
  \A s \in sends : /\ PartsFit(s.rest, s.to) /\ PartsFit(s.failed, s.to)
                   /\ s.rest.text # 0 => s.failed.files = <<>>
Polls == [item : Nat, key : Conversations \cup {NoRoom}, signed : Conversations \cup {NoRoom}]
PostedFit ==
  /\ poll \in Polls
  /\ poll.signed # NoRoom => poll.item # 0
  /\ poll.item # 0 => Is(poll.item, "poll")
  /\ \A p \in posted : p.item \in DOMAIN written /\ (Is(p.item, "file") => FileOf(p.item, p.to))
KeptAreOfThis == \A f \in kept : FileOf(f, here)

KeptAreThere ==
  \A f \in kept : \/ f \in ToSet(files)
                  \/ \E s \in sends : f \in ToSet(s.rest.files) \cup ToSet(s.failed.files)
                  \/ \E p \in posted : p.item = f

DraftInv ==
  WritingFits /\ DraftFits /\ SendsFit /\ PostedFit /\ KeptAreOfThis /\ KeptAreThere

LEMMA DraftInitInv == ASSUME ComposerAssumption, ComposerInit PROVE DraftInv
<1> USE DEF ComposerInit, ComposerAssumption
<1>1. WritingFits
  BY DEF WritingFits
<1>2. DraftFits
  BY DEF DraftFits, PartsFit, Parts, ToSet
<1>3. SendsFit /\ PostedFit /\ KeptAreOfThis /\ KeptAreThere
  BY DEF SendsFit, PostedFit, NoPoll, Polls, KeptAreOfThis, KeptAreThere
<1> QED BY <1>1, <1>2, <1>3 DEF DraftInv

\* The members of a sequence that grows, or loses one element.
LEMMA SetOfAppend ==
  ASSUME NEW S, NEW s \in Seq(S), NEW x \in S
  PROVE  Append(s, x) \in Seq(S) /\ ToSet(Append(s, x)) = ToSet(s) \cup {x}
<1>1. /\ Append(s, x) \in Seq(S) /\ Len(Append(s, x)) = Len(s) + 1 /\ Len(s) \in Nat
      /\ \A i \in 1 .. Len(s) : Append(s, x)[i] = s[i]
      /\ Append(s, x)[Len(s) + 1] = x
  BY AppendProperties
<1>2. DOMAIN s = 1 .. Len(s) /\ DOMAIN Append(s, x) = 1 .. Len(s) + 1
  BY <1>1
<1> DEFINE n == Append(s, x)
<1> HIDE DEF n
<1>3. ASSUME NEW i \in DOMAIN n PROVE n[i] \in ToSet(s) \cup {x}
  <2>1. CASE i = Len(s) + 1
    BY <1>1, <2>1 DEF n
  <2>2. CASE i # Len(s) + 1
    <3>1. i \in DOMAIN s /\ n[i] = s[i]
      BY <1>1, <1>2, <2>2 DEF n
    <3> QED BY <3>1 DEF ToSet
  <2> QED BY <2>1, <2>2
<1>4. x \in ToSet(n)
  <2>1. Len(s) + 1 \in DOMAIN n /\ n[Len(s) + 1] = x
    BY <1>1, <1>2 DEF n
  <2> QED BY <2>1 DEF ToSet
<1>5. ASSUME NEW i \in DOMAIN s PROVE s[i] \in ToSet(n)
  <2>1. i \in DOMAIN n /\ n[i] = s[i]
    BY <1>1, <1>2 DEF n
  <2> QED BY <2>1 DEF ToSet
<1>6. ToSet(n) \subseteq ToSet(s) \cup {x}
  BY <1>3 DEF ToSet
<1>7. ToSet(s) \subseteq ToSet(n)
  BY <1>5 DEF ToSet
<1> QED BY <1>1, <1>4, <1>6, <1>7 DEF n

LEMMA SetOfConcat ==
  ASSUME NEW S, NEW s \in Seq(S), NEW t \in Seq(S)
  PROVE  s \o t \in Seq(S) /\ ToSet(s \o t) = ToSet(s) \cup ToSet(t)
<1>1. /\ s \o t \in Seq(S) /\ Len(s \o t) = Len(s) + Len(t) /\ Len(s) \in Nat /\ Len(t) \in Nat
      /\ DOMAIN s = 1 .. Len(s) /\ DOMAIN t = 1 .. Len(t)
      /\ \A i \in 1 .. Len(s) + Len(t) : (s \o t)[i] = IF i <= Len(s) THEN s[i] ELSE t[i - Len(s)]
  BY ConcatProperties
<1> DEFINE n == s \o t
<1>2. DOMAIN n = 1 .. Len(s) + Len(t)
  BY <1>1
<1> HIDE DEF n
<1>3. ASSUME NEW i \in DOMAIN s PROVE s[i] \in ToSet(n)
  <2>1. i \in DOMAIN n /\ n[i] = s[i]
    BY <1>1, <1>2 DEF n
  <2> QED BY <2>1 DEF ToSet
<1>4. ASSUME NEW i \in DOMAIN t PROVE t[i] \in ToSet(n)
  <2>1. i + Len(s) \in DOMAIN n
    BY <1>1, <1>2
  <2>2. n[i + Len(s)] = t[i + Len(s) - Len(s)]
    BY <1>1, <1>2, <2>1 DEF n
  <2>3. i + Len(s) - Len(s) = i
    BY <1>1
  <2> QED BY <2>1, <2>2, <2>3 DEF ToSet
<1>5. ASSUME NEW i \in DOMAIN n PROVE n[i] \in ToSet(s) \cup ToSet(t)
  <2>1. CASE i <= Len(s)
    <3>1. i \in DOMAIN s /\ n[i] = s[i]
      BY <1>1, <1>2, <2>1 DEF n
    <3> QED BY <3>1 DEF ToSet
  <2>2. CASE ~(i <= Len(s))
    <3>1. i - Len(s) \in DOMAIN t /\ n[i] = t[i - Len(s)]
      BY <1>1, <1>2, <2>2 DEF n
    <3> QED BY <3>1 DEF ToSet
  <2> QED BY <2>1, <2>2
<1>6. ToSet(n) \subseteq ToSet(s) \cup ToSet(t)
  BY <1>5 DEF ToSet
<1>7. ToSet(s) \cup ToSet(t) \subseteq ToSet(n)
  BY <1>3, <1>4 DEF ToSet
<1> QED BY <1>1, <1>6, <1>7 DEF n

LEMMA SetOfTail ==
  ASSUME NEW S, NEW s \in Seq(S), s # <<>>
  PROVE  /\ Head(s) \in S /\ Tail(s) \in Seq(S) /\ ToSet(s) = {Head(s)} \cup ToSet(Tail(s))
<1>1. Len(s) \in Nat /\ Len(s) # 0 /\ Head(s) = s[1] /\ Head(s) \in S /\ Tail(s) \in Seq(S)
      /\ Len(Tail(s)) = Len(s) - 1 /\ \A i \in 1 .. Len(s) - 1 : Tail(s)[i] = s[i + 1]
  BY HeadTailProperties, EmptySeq
<1>2. DOMAIN s = 1 .. Len(s) /\ DOMAIN Tail(s) = 1 .. Len(s) - 1
  BY <1>1
<1> DEFINE n == Tail(s)
<1> HIDE DEF n
<1>3. ASSUME NEW i \in DOMAIN s PROVE s[i] \in {Head(s)} \cup ToSet(n)
  <2>1. CASE i = 1
    BY <1>1, <2>1
  <2>2. CASE i # 1
    <3>1. i - 1 \in DOMAIN n
      BY <1>1, <1>2, <2>2 DEF n
    <3>2. n[i - 1] = s[i - 1 + 1] /\ i - 1 + 1 = i
      BY <1>1, <1>2, <3>1 DEF n
    <3> QED BY <3>1, <3>2 DEF ToSet
  <2> QED BY <2>1, <2>2
<1>4. ASSUME NEW i \in DOMAIN n PROVE n[i] \in ToSet(s)
  <2>1. i + 1 \in DOMAIN s /\ n[i] = s[i + 1]
    BY <1>1, <1>2 DEF n
  <2> QED BY <2>1 DEF ToSet
<1>5. Head(s) \in ToSet(s)
  <2>1. 1 \in DOMAIN s
    BY <1>1, <1>2
  <2> QED BY <1>1, <2>1 DEF ToSet
<1>6. ToSet(s) \subseteq {Head(s)} \cup ToSet(n)
  BY <1>3 DEF ToSet
<1>7. ToSet(n) \subseteq ToSet(s)
  BY <1>4 DEF ToSet
<1> QED BY <1>1, <1>5, <1>6, <1>7 DEF n

LEMMA SetOfRemoved ==
  ASSUME NEW S, NEW s \in Seq(S), NEW i \in DOMAIN s
  PROVE  /\ RemoveAt(s, i) \in Seq(S) /\ ToSet(RemoveAt(s, i)) \subseteq ToSet(s)
         /\ \A x \in ToSet(s) : x # s[i] => x \in ToSet(RemoveAt(s, i))
<1>0. i \in 1 .. Len(s) /\ Len(s) \in Nat /\ DOMAIN s = 1 .. Len(s)
  OBVIOUS
<1> DEFINE before == SubSeq(s, 1, i - 1)  after == SubSeq(s, i + 1, Len(s))
<1>1. before \in Seq(S) /\ Len(before) = i - 1 /\ \A j \in 1 .. i - 1 : before[j] = s[j]
  BY <1>0, SubSeqProperties
<1>2. after \in Seq(S) /\ Len(after) = Len(s) - i /\ \A j \in 1 .. Len(s) - i : after[j] = s[j + i]
  BY <1>0, SubSeqProperties
<1>3. RemoveAt(s, i) = before \o after
  BY DEF RemoveAt
<1> HIDE DEF before, after
<1>4. /\ DOMAIN before = 1 .. i - 1 /\ DOMAIN after = 1 .. Len(s) - i
  BY <1>0, <1>1, <1>2
<1>5. before \o after \in Seq(S) /\ ToSet(before \o after) = ToSet(before) \cup ToSet(after)
  BY <1>1, <1>2, SetOfConcat
<1>6. ASSUME NEW j \in DOMAIN before PROVE before[j] \in ToSet(s)
  <2>1. j \in DOMAIN s /\ before[j] = s[j]
    BY <1>0, <1>1, <1>4
  <2> QED BY <2>1 DEF ToSet
<1>7. ASSUME NEW j \in DOMAIN after PROVE after[j] \in ToSet(s)
  <2>1. j + i \in DOMAIN s /\ after[j] = s[j + i]
    BY <1>0, <1>2, <1>4
  <2> QED BY <2>1 DEF ToSet
<1>8. ASSUME NEW j \in DOMAIN s, j # i PROVE s[j] \in ToSet(before) \cup ToSet(after)
  <2>1. CASE j < i
    <3>1. j \in DOMAIN before /\ before[j] = s[j]
      BY <1>0, <1>1, <1>4, <2>1
    <3> QED BY <3>1 DEF ToSet
  <2>2. CASE ~(j < i)
    <3>1. j - i \in DOMAIN after
      BY <1>0, <1>4, <1>8, <2>2
    <3>2. after[j - i] = s[j - i + i] /\ j - i + i = j
      BY <1>0, <1>2, <1>4, <3>1
    <3> QED BY <3>1, <3>2 DEF ToSet
  <2> QED BY <2>1, <2>2
<1>9. ToSet(before) \cup ToSet(after) \subseteq ToSet(s)
  BY <1>6, <1>7 DEF ToSet
<1>10. \A x \in ToSet(s) : x # s[i] => x \in ToSet(before) \cup ToSet(after)
  BY <1>8 DEF ToSet
<1> QED BY <1>3, <1>5, <1>9, <1>10

\* What was written stays, and an item that is added has its kind.
LEMMA ItemsStay ==
  ASSUME WritingFits, NEW x \in [kind : Kinds, of : Conversations],
         written' = written \/ written' = Append(written, x)
  PROVE  /\ written' \in Seq([kind : Kinds, of : Conversations])
         /\ DOMAIN written \subseteq DOMAIN written'
         /\ \A i \in DOMAIN written : written'[i] = written[i]
         /\ written' = Append(written, x) =>
              New \in DOMAIN written' /\ written'[New] = x /\ New \notin DOMAIN written /\ New \in Nat
<1>1. written \in Seq([kind : Kinds, of : Conversations])
  BY DEF WritingFits
<1>2. Len(written) \in Nat /\ DOMAIN written = 1 .. Len(written)
  BY <1>1
<1>3. CASE written' = written
  <2>1. written # Append(written, x)
    <3> SUFFICES ASSUME written = Append(written, x) PROVE FALSE
      OBVIOUS
    <3>1. Len(Append(written, x)) = Len(written) + 1
      BY <1>1, AppendProperties
    <3>2. Len(written) = Len(written) + 1
      BY <3>1
    <3> QED BY <3>2, <1>2
  <2> QED BY <1>1, <1>3, <2>1
<1>4. CASE written' = Append(written, x)
  <2>1. /\ written' \in Seq([kind : Kinds, of : Conversations]) /\ Len(written') = Len(written) + 1
        /\ \A i \in 1 .. Len(written) : written'[i] = written[i]
        /\ written'[Len(written) + 1] = x
    BY <1>1, <1>4, AppendProperties
  <2>2. DOMAIN written' = 1 .. Len(written) + 1
    BY <2>1
  <2> QED BY <1>2, <2>1, <2>2 DEF New
<1> QED BY <1>3, <1>4

\* So parts that fit go on to fit, and a file is of one conversation.
WritingStays == /\ DOMAIN written \subseteq DOMAIN written'
                /\ \A i \in DOMAIN written : written'[i] = written[i]
LEMMA ItemsKeep ==
  ASSUME WritingStays
  PROVE  /\ \A i, k : Is(i, k) => Is(i, k)'
         /\ \A f, r : FileOf(f, r) => FileOf(f, r)'
         /\ \A m, r : PartsFit(m, r) => PartsFit(m, r)'
         /\ \A i \in DOMAIN written : \A k : Is(i, k)' => Is(i, k)
<1>1. \A i, k : Is(i, k) => Is(i, k)'
  BY DEF WritingStays, Is
<1>2. \A f, r : FileOf(f, r) => FileOf(f, r)'
  BY <1>1 DEF FileOf, WritingStays, Is
<1>3. ASSUME NEW m, NEW r, PartsFit(m, r) PROVE PartsFit(m, r)'
  BY <1>1, <1>2, <1>3 DEF PartsFit
<1>4. \A i \in DOMAIN written : \A k : Is(i, k)' => Is(i, k)
  BY DEF WritingStays, Is
<1> QED BY <1>1, <1>2, <1>3, <1>4

\* Every action leaves what was written, or adds to it.
LEMMA WritingGrows ==
  ASSUME ComposerAssumption, WritingFits, ComposerNext
  PROVE  WritingStays /\ written' \in Seq([kind : Kinds, of : Conversations])
<1>1. ASSUME NEW k \in Kinds, Written(k)
      PROVE WritingStays /\ written' \in Seq([kind : Kinds, of : Conversations])
  <2>1. [kind |-> k, of |-> here] \in [kind : Kinds, of : Conversations]
    BY <1>1 DEF Written, WritingFits
  <2> QED BY <1>1, <2>1, ItemsStay DEF Written, WritingStays
<1>2. CASE StopRecording
  <2>1. [kind |-> "voice", of |-> recorder] \in [kind : Kinds, of : Conversations]
    BY <1>2 DEF StopRecording, WritingFits, Kinds
  <2> QED BY <1>2, <2>1, ItemsStay DEF StopRecording, WritingStays
<1>3. CASE UNCHANGED written
  BY <1>3 DEF WritingStays, WritingFits
<1>4. CASE WriteText \/ StageFile \/ SubmitPoll
  BY <1>1, <1>4 DEF WriteText, StageFile, SubmitPoll, Kinds
<1> QED BY <1>2, <1>3, <1>4 DEF ComposerNext, Record, CloseCurrent, Send, RemoveFile,
      SelectAnother, PartPosted, PartFails,
                             Finished, SignPoll, PostPoll

\* How one part of a message that is sent moves: it is posted, or put with those
\* that failed. No file is lost on the way.
PartMoved(s, s1, item) ==
  /\ Become(s, s1) /\ s1 \in SendsOf /\ s1.to = s.to
  /\ item \in DOMAIN written /\ (Is(item, "file") => FileOf(item, s.to))
  /\ posted \subseteq posted' /\ posted' \subseteq posted \cup {[item |-> item, to |-> s.to]}
  /\ PartsFit(s1.rest, s.to) /\ PartsFit(s1.failed, s.to)
  /\ s1.rest.text # 0 => s1.failed.files = <<>>
  /\ \A f \in ToSet(s.rest.files) \cup ToSet(s.failed.files) :
       \/ f \in ToSet(s1.rest.files) \cup ToSet(s1.failed.files)
       \/ [item |-> f, to |-> s.to] \in posted'

LEMMA TextMoves ==
  ASSUME ComposerAssumption, WritingFits, SendsFit, NEW s \in sends, IsText(s),
         TextPosted(s) \/ TextFails(s)
  PROVE  \E s1, item : PartMoved(s, s1, item)
<1>1. /\ s \in SendsOf /\ s.rest \in Drafts /\ s.failed \in Drafts /\ s.rest.text # 0
      /\ s.rest.files \in Seq(Nat) /\ s.rest.voice \in Nat /\ s.rest.text \in Nat
  BY DEF WritingFits, SendsOf, Drafts, IsText
<1>2. PartsFit(s.rest, s.to) /\ PartsFit(s.failed, s.to) /\ s.failed.files = <<>>
  BY <1>1 DEF SendsFit
<1>3. s.rest.text \in DOMAIN written /\ ~Is(s.rest.text, "file")
  BY <1>1, <1>2 DEF PartsFit, Is
<1>4. CASE TextPosted(s)
  <2> DEFINE rest == [s.rest EXCEPT !.text = 0]  s1 == [s EXCEPT !.rest.text = 0]
  <2>1. rest \in Drafts /\ rest.text = 0 /\ rest.voice = s.rest.voice /\ rest.files = s.rest.files
    BY <1>1 DEF Drafts
  <2>2. s1 = [s EXCEPT !.rest = rest, !.failed = s.failed]
    BY <1>1 DEF SendsOf
  <2>3. Become(s, s1) /\ posted' = posted \cup {[item |-> s.rest.text, to |-> s.to]}
    BY <1>4 DEF TextPosted, Store, Addressed
  <2> HIDE DEF rest, s1
  <2>4. s1 \in SendsOf /\ s1.to = s.to /\ s1.rest = rest /\ s1.failed = s.failed
    BY <1>1, <2>1, <2>2 DEF SendsOf
  <2>5. PartsFit(rest, s.to)
    BY <1>2, <2>1 DEF PartsFit
  <2>6. PartMoved(s, s1, s.rest.text)
    BY <1>2, <1>3, <2>1, <2>3, <2>4, <2>5 DEF PartMoved
  <2> QED BY <2>6
<1>5. CASE TextFails(s)
  <2> DEFINE s1 == [s EXCEPT !.rest = Blank, !.failed = s.rest]
  <2>1. /\ Blank \in Drafts /\ Blank.text = 0 /\ Blank.voice = 0 /\ Blank.files = <<>>
        /\ ToSet(<<>>) = {}
    BY DEF Blank, Parts, Drafts, ToSet
  <2>2. Become(s, s1) /\ posted' \in {posted, posted \cup {[item |-> s.rest.text, to |-> s.to]}}
    BY <1>5 DEF TextFails, Fails, Store, Addressed
  <2>3. s1 \in SendsOf /\ s1.to = s.to /\ s1.rest = Blank /\ s1.failed = s.rest
    BY <1>1, <2>1 DEF SendsOf
  <2> HIDE DEF s1
  <2>4. PartsFit(Blank, s.to)
    BY <2>1 DEF PartsFit
  <2>5. PartMoved(s, s1, s.rest.text)
    BY <1>2, <1>3, <2>1, <2>2, <2>3, <2>4 DEF PartMoved
  <2> QED BY <2>5
<1> QED BY <1>4, <1>5

LEMMA VoiceMoves ==
  ASSUME ComposerAssumption, WritingFits, SendsFit, NEW s \in sends, IsVoice(s),
         VoicePosted(s) \/ VoiceFails(s)
  PROVE  \E s1, item : PartMoved(s, s1, item)
<1>1. /\ s \in SendsOf /\ s.rest \in Drafts /\ s.failed \in Drafts /\ s.rest.voice # 0
      /\ s.rest.text = 0
      /\ s.rest.voice \in Nat /\ s.rest.files \in Seq(Nat) /\ s.failed.files \in Seq(Nat)
      /\ s.failed.text \in Nat
  BY DEF WritingFits, SendsOf, Drafts, IsVoice
<1>2. PartsFit(s.rest, s.to) /\ PartsFit(s.failed, s.to)
  BY <1>1 DEF SendsFit
<1>3. s.rest.voice \in DOMAIN written /\ ~Is(s.rest.voice, "file") /\ Is(s.rest.voice, "voice")
  BY <1>1, <1>2 DEF PartsFit, Is
<1> DEFINE rest == [s.rest EXCEPT !.voice = 0]  failed == [s.failed EXCEPT !.voice = s.rest.voice]
<1>4. rest \in Drafts /\ rest.text = 0 /\ rest.voice = 0 /\ rest.files = s.rest.files
  BY <1>1 DEF Drafts
<1>5. /\ failed \in Drafts /\ failed.text = s.failed.text /\ failed.voice = s.rest.voice
      /\ failed.files = s.failed.files
  BY <1>1 DEF Drafts
<1>6. CASE VoicePosted(s)
  <2> DEFINE s1 == [s EXCEPT !.rest.voice = 0]
  <2>1. s1 = [s EXCEPT !.rest = rest, !.failed = s.failed]
    BY <1>1 DEF SendsOf
  <2>2. Become(s, s1) /\ posted' = posted \cup {[item |-> s.rest.voice, to |-> s.to]}
    BY <1>6 DEF VoicePosted, Store, Addressed
  <2> HIDE DEF rest, s1
  <2>3. s1 \in SendsOf /\ s1.to = s.to /\ s1.rest = rest /\ s1.failed = s.failed
    BY <1>1, <1>4, <2>1 DEF SendsOf
  <2>4. PartsFit(rest, s.to)
    BY <1>2, <1>4 DEF PartsFit
  <2>5. PartMoved(s, s1, s.rest.voice)
    BY <1>2, <1>3, <1>4, <2>2, <2>3, <2>4 DEF PartMoved
  <2> QED BY <2>5
<1>7. CASE VoiceFails(s)
  <2> DEFINE s1 == [s EXCEPT !.rest.voice = 0, !.failed.voice = s.rest.voice]
  <2>1. s1 = [s EXCEPT !.rest = rest, !.failed = failed]
    BY <1>1 DEF SendsOf
  <2>2. Become(s, s1) /\ posted' \in {posted, posted \cup {[item |-> s.rest.voice, to |-> s.to]}}
    BY <1>7 DEF VoiceFails, Fails, Store, Addressed
  <2> HIDE DEF rest, failed, s1
  <2>3. s1 \in SendsOf /\ s1.to = s.to /\ s1.rest = rest /\ s1.failed = failed
    BY <1>1, <1>4, <1>5, <2>1 DEF SendsOf
  <2>4. PartsFit(rest, s.to) /\ PartsFit(failed, s.to)
    BY <1>1, <1>2, <1>3, <1>4, <1>5 DEF PartsFit
  <2>5. PartMoved(s, s1, s.rest.voice)
    BY <1>2, <1>3, <1>4, <1>5, <2>2, <2>3, <2>4 DEF PartMoved
  <2> QED BY <2>5
<1> QED BY <1>6, <1>7

LEMMA FileMoves ==
  ASSUME ComposerAssumption, WritingFits, SendsFit, NEW s \in sends, IsFile(s),
         FilePosted(s) \/ FileFails(s)
  PROVE  \E s1, item : PartMoved(s, s1, item)
<1> DEFINE f == Head(s.rest.files)
<1>1. /\ s \in SendsOf /\ s.rest \in Drafts /\ s.failed \in Drafts
      /\ s.rest.voice = 0 /\ s.rest.text = 0 /\ s.rest.files # <<>>
      /\ s.rest.files \in Seq(Nat) /\ s.failed.files \in Seq(Nat)
  BY DEF WritingFits, SendsOf, Drafts, IsFile
<1>2. PartsFit(s.rest, s.to) /\ PartsFit(s.failed, s.to)
  BY <1>1 DEF SendsFit
<1>3. /\ f \in Nat /\ Tail(s.rest.files) \in Seq(Nat)
      /\ ToSet(s.rest.files) = {f} \cup ToSet(Tail(s.rest.files))
  BY <1>1, SetOfTail
<1>4. /\ Append(s.failed.files, f) \in Seq(Nat)
      /\ ToSet(Append(s.failed.files, f)) = ToSet(s.failed.files) \cup {f}
  BY <1>1, <1>3, SetOfAppend
<1>5. f \in DOMAIN written /\ FileOf(f, s.to)
  BY <1>2, <1>3 DEF PartsFit, FileOf, Is
<1> DEFINE rest == [s.rest EXCEPT !.files = Tail(s.rest.files)]
           failed == [s.failed EXCEPT !.files = Append(s.failed.files, f)]
<1>6. rest \in Drafts /\ rest.text = 0 /\ rest.voice = 0 /\ rest.files = Tail(s.rest.files)
  BY <1>1, <1>3 DEF Drafts
<1>7. /\ failed \in Drafts /\ failed.text = s.failed.text /\ failed.voice = s.failed.voice
      /\ failed.files = Append(s.failed.files, f)
  BY <1>1, <1>4 DEF Drafts
<1>8. PartsFit(rest, s.to) /\ PartsFit(failed, s.to)
  BY <1>2, <1>3, <1>4, <1>5, <1>6, <1>7 DEF PartsFit
<1>9. CASE FilePosted(s)
  <2> DEFINE s1 == [s EXCEPT !.rest.files = Tail(@)]
  <2>1. s1 = [s EXCEPT !.rest = rest, !.failed = s.failed]
    BY <1>1 DEF SendsOf
  <2>2. Become(s, s1) /\ posted' = posted \cup {[item |-> f, to |-> s.to]}
    BY <1>9 DEF FilePosted, Store, Addressed
  <2> HIDE DEF rest, s1
  <2>3. s1 \in SendsOf /\ s1.to = s.to /\ s1.rest = rest /\ s1.failed = s.failed
    BY <1>1, <1>6, <2>1 DEF SendsOf
  <2> HIDE DEF f
  <2>4. PartMoved(s, s1, f)
    BY <1>2, <1>3, <1>5, <1>6, <1>8, <2>2, <2>3 DEF PartMoved
  <2> QED BY <2>4
<1>10. CASE FileFails(s)
  <2> DEFINE s1 == [s EXCEPT !.rest.files = Tail(@), !.failed.files = Append(@, Head(s.rest.files))]
  <2>1. s1 = [s EXCEPT !.rest = rest, !.failed = failed]
    BY <1>1 DEF SendsOf
  <2>2. Become(s, s1) /\ posted' \in {posted, posted \cup {[item |-> f, to |-> s.to]}}
    BY <1>10 DEF FileFails, Fails, Store, Addressed
  <2> HIDE DEF rest, failed, s1
  <2>3. s1 \in SendsOf /\ s1.to = s.to /\ s1.rest = rest /\ s1.failed = failed
    BY <1>1, <1>6, <1>7, <2>1 DEF SendsOf
  <2> HIDE DEF f
  <2>4. PartMoved(s, s1, f)
    BY <1>2, <1>3, <1>4, <1>5, <1>6, <1>7, <1>8, <2>2, <2>3 DEF PartMoved
  <2> QED BY <2>4
<1> QED BY <1>9, <1>10

LEMMA PartMoves ==
  ASSUME ComposerAssumption, WritingFits, SendsFit, NEW s \in sends, PartPosted(s) \/ PartFails(s)
  PROVE  \E s1, item : PartMoved(s, s1, item)
  BY TextMoves, VoiceMoves, FileMoves DEF PartPosted, PartFails, TextPosted, VoicePosted,
      FilePosted, TextFails,
     VoiceFails, FileFails

\* The types of what the user writes.
LEMMA WritingKeeps ==
  ASSUME ComposerAssumption, WritingFits, DraftFits, SendsFit, ComposerNext PROVE WritingFits'
<1> USE DEF ComposerAssumption
<1>1. written' \in Seq([kind : Kinds, of : Conversations])
  BY WritingGrows
<1>2. New \in Nat
  BY DEF New, WritingFits
<1>3. CASE WriteText \/ StageFile \/ Record \/ StopRecording \/ CloseCurrent \/ SubmitPoll
             \/ SignPoll \/ PostPoll
           \/ \E r \in Conversations : SelectAnother(r)
  <2>1. text' \in Nat /\ voice' \in Nat
    BY <1>2, <1>3 DEF WritingFits, WriteText, StageFile, Record, StopRecording, CloseCurrent,
        SubmitPoll, SignPoll, PostPoll,
                      SelectAnother, draftVars
  <2>2. files' \in Seq(Nat)
    <3>1. files \in Seq(Nat) /\ <<>> \in Seq(Nat) /\ Append(files, New) \in Seq(Nat)
      BY <1>2, AppendProperties DEF WritingFits
    <3>2. files' = files \/ files' = <<>> \/ files' = Append(files, New)
      BY <1>3 DEF WriteText, StageFile, Record, StopRecording, CloseCurrent, SubmitPoll, SignPoll,
          PostPoll, SelectAnother, draftVars
    <3> QED BY <3>1, <3>2
  <2>3. here' \in Conversations \cup {NoRoom} /\ recorder' \in Conversations \cup {NoRoom} /\ UNCHANGED <<sends, sendClicks>>
    BY <1>3 DEF WritingFits, WriteText, StageFile, Record, StopRecording, CloseCurrent, SubmitPoll,
        SignPoll, PostPoll,
                SelectAnother, draftVars
  <2> QED BY <1>1, <2>1, <2>2, <2>3 DEF WritingFits
<1>4. ASSUME NEW i \in DOMAIN files, RemoveFile(i) PROVE WritingFits'
  <2>1. files' \in Seq(Nat)
    BY <1>4, SetOfRemoved DEF RemoveFile, WritingFits
  <2> QED BY <1>1, <1>4, <2>1 DEF RemoveFile, WritingFits
<1>5. CASE Send
  <2>1. [n |-> sendClicks, to |-> here, rest |-> Parts(text, voice, files), failed |-> Blank] \in SendsOf
    BY <1>5 DEF Send, WritingFits, SendsOf, Drafts, Parts, Blank
  <2> QED BY <1>1, <1>5, <2>1 DEF Send, WritingFits
<1>6. ASSUME NEW s \in sends, PartPosted(s) \/ PartFails(s) PROVE WritingFits'
  <2>1. PICK s1, item : PartMoved(s, s1, item)
    BY <1>6, PartMoves
  <2>2. UNCHANGED <<here, recorder, text, voice, files, sendClicks>>
    BY <1>6 DEF PartPosted, PartFails, draftVars
  <2> QED BY <1>1, <2>1, <2>2 DEF WritingFits, Become, PartMoved
<1>7. ASSUME NEW s \in sends, Finished(s) PROVE WritingFits'
  <2>1. s.failed \in Drafts /\ s.failed.text \in Nat /\ s.failed.voice \in Nat /\ s.failed.files \in Seq(Nat)
    BY <1>7 DEF WritingFits, SendsOf, Drafts
  <2>2. files \o s.failed.files \in Seq(Nat)
    BY <2>1, SetOfConcat DEF WritingFits
  <2> QED BY <1>1, <1>7, <2>1, <2>2 DEF Finished, WritingFits
<1> QED BY <1>3, <1>4, <1>5, <1>6, <1>7 DEF ComposerNext

\* An item of a kind that is written now.
LEMMA NewItem ==
  ASSUME WritingFits, NEW k \in Kinds, NEW r \in Conversations,
         written' = Append(written, [kind |-> k, of |-> r])
  PROVE  New \in Nat \ {0} /\ New \in DOMAIN written' /\ written'[New].kind = k /\ written'[New].of = r
<1> DEFINE x == [kind |-> k, of |-> r]
<1>1. x \in [kind : Kinds, of : Conversations] /\ x.kind = k /\ x.of = r
  OBVIOUS
<1> HIDE DEF x
<1>2. Len(written) \in Nat /\ written \in Seq([kind : Kinds, of : Conversations])
  BY DEF WritingFits
<1>3. written' = Append(written, x)
  BY DEF x
<1>4. /\ written' \in Seq([kind : Kinds, of : Conversations]) /\ Len(written') = Len(written) + 1
      /\ written'[Len(written) + 1] = x
  BY <1>1, <1>2, <1>3, AppendProperties
<1> QED BY <1>1, <1>2, <1>4 DEF New, Is

\* What is written, read after the step: all that was there is the same.
LEMMA ReadLater ==
  ASSUME WritingStays, NEW i \in DOMAIN written
  PROVE  i \in DOMAIN written' /\ written'[i].kind = written[i].kind /\ written'[i].of = written[i].of
  BY DEF WritingStays

\* What is left of a draft is a draft still.
LEMMA DraftKeeps ==
  ASSUME ComposerAssumption, DraftInv, ComposerNext PROVE DraftFits'
<1> USE DEF ComposerAssumption
<1>1. WritingStays /\ WritingFits /\ WritingFits' /\ New \in Nat
  BY WritingGrows, WritingKeeps DEF DraftInv, WritingFits, New
<1>2. /\ text # 0 => text \in DOMAIN written' /\ written'[text].kind = "text"
      /\ voice # 0 => voice \in DOMAIN written' /\ written'[voice].kind = "voice"
      /\ \A f \in ToSet(files) : f \in DOMAIN written' /\ written'[f].kind = "file" /\ written'[f].of = here
  BY <1>1, ReadLater DEF DraftInv, DraftFits, Is, FileOf
<1>4. ToSet(<<>>) = {}
  BY DEF ToSet
<1>5. CASE WriteText
  <2>1. text' \in DOMAIN written' /\ written'[text'].kind = "text"
    BY <1>1, <1>5, NewItem DEF WriteText, Written, Kinds, WritingFits
  <2> QED BY <1>2, <1>5, <2>1 DEF WriteText, DraftFits, Is, FileOf
<1>6. CASE StageFile
  <2>1. New \in DOMAIN written' /\ written'[New].kind = "file" /\ written'[New].of = here
    BY <1>1, <1>6, NewItem DEF StageFile, Written, Kinds, WritingFits
  <2>2. ToSet(files') = ToSet(files) \cup {New}
    <3>1. files \in Seq(Nat) /\ files' = Append(files, New)
      BY <1>1, <1>6 DEF StageFile, WritingFits
    <3>2. ToSet(Append(files, New)) = ToSet(files) \cup {New}
      BY <1>1, <3>1, SetOfAppend
    <3> QED BY <3>1, <3>2
  <2> QED BY <1>2, <1>6, <2>1, <2>2 DEF StageFile, DraftFits, Is, FileOf
<1>7. CASE StopRecording
  <2>1. voice' \in DOMAIN written' /\ written'[voice'].kind = "voice"
    BY <1>1, <1>7, NewItem DEF StopRecording, Kinds, WritingFits
  <2> QED BY <1>2, <1>7, <2>1 DEF StopRecording, DraftFits, Is, FileOf
<1>8. CASE Record \/ CloseCurrent \/ Send \/ SubmitPoll \/ SignPoll \/ PostPoll
             \/ \E r \in Conversations : SelectAnother(r)
  <2>1. text' \in {0, text} /\ voice' \in {0, voice}
    BY <1>8 DEF Record, CloseCurrent, Send, SubmitPoll, SignPoll, PostPoll, SelectAnother, draftVars
  <2>2. files' = <<>> \/ (files' = files /\ here' = here)
    BY <1>8 DEF Record, CloseCurrent, Send, SubmitPoll, SignPoll, PostPoll, SelectAnother, draftVars
  <2> QED BY <1>2, <1>4, <2>1, <2>2 DEF DraftFits, Is, FileOf
<1>9. ASSUME NEW i \in DOMAIN files, RemoveFile(i) PROVE DraftFits'
  <2>1. ToSet(files') \subseteq ToSet(files)
    BY <1>1, <1>9, SetOfRemoved DEF RemoveFile, WritingFits
  <2>2. text' = text /\ voice' = voice /\ here' = here
    BY <1>9 DEF RemoveFile
  <2> QED BY <1>2, <2>1, <2>2 DEF DraftFits, Is, FileOf
<1>10. ASSUME NEW s \in sends, PartPosted(s) \/ PartFails(s) PROVE DraftFits'
  <2>1. UNCHANGED <<text, voice, files, here>>
    BY <1>10 DEF PartPosted, PartFails, draftVars
  <2> QED BY <1>2, <2>1 DEF DraftFits, Is, FileOf
<1>11. ASSUME NEW s \in sends, Finished(s) PROVE DraftFits'
  <2>1. s.failed.files \in Seq(Nat) /\ files \in Seq(Nat) /\ UNCHANGED <<here, written>>
    BY <1>1, <1>11 DEF WritingFits, SendsOf, Drafts, Finished
  <2>2. CASE StillThere(s)
    <3>1. s.to = here /\ PartsFit(s.failed, s.to)
      BY <2>2 DEF StillThere, DraftInv, SendsFit
    <3>2. /\ s.failed.text # 0 => s.failed.text \in DOMAIN written' /\ written'[s.failed.text].kind = "text"
          /\ s.failed.voice # 0 => s.failed.voice \in DOMAIN written' /\ written'[s.failed.voice].kind = "voice"
          /\ \A f \in ToSet(s.failed.files) :
               f \in DOMAIN written' /\ written'[f].kind = "file" /\ written'[f].of = here
      BY <2>1, <3>1 DEF PartsFit, Is, FileOf
    <3>3. ToSet(files') = ToSet(files) \cup ToSet(s.failed.files)
      <4>1. files' = files \o s.failed.files
        BY <1>11, <2>2 DEF Finished
      <4>2. ToSet(files \o s.failed.files) = ToSet(files) \cup ToSet(s.failed.files)
        BY <2>1, SetOfConcat
      <4> QED BY <4>1, <4>2
    <3>4. /\ text' = IF s.failed.text = 0 THEN text ELSE s.failed.text
          /\ voice' = IF s.failed.voice = 0 THEN voice ELSE s.failed.voice
      BY <1>11, <2>2 DEF Finished
    <3> QED BY <1>2, <2>1, <3>2, <3>3, <3>4 DEF DraftFits, Is, FileOf
  <2>3. CASE ~StillThere(s)
    <3>1. UNCHANGED <<text, voice, files>>
      BY <1>11, <2>3 DEF Finished
    <3> QED BY <1>2, <2>1, <3>1 DEF DraftFits, Is, FileOf
  <2> QED BY <2>2, <2>3
<1> QED BY <1>5, <1>6, <1>7, <1>8, <1>9, <1>10, <1>11 DEF ComposerNext

\* So are the messages that are being sent.
LEMMA SendsKeep ==
  ASSUME ComposerAssumption, DraftInv, ComposerNext PROVE SendsFit'
<1>1. WritingStays /\ WritingFits /\ SendsFit
  BY WritingGrows DEF DraftInv
<1>2. \A m, r : PartsFit(m, r) => PartsFit(m, r)'
  BY <1>1, ItemsKeep
<1>3. \A s \in sends : /\ PartsFit(s.rest, s.to)' /\ PartsFit(s.failed, s.to)'
                       /\ s.rest.text # 0 => s.failed.files = <<>>
  BY <1>1, <1>2 DEF SendsFit
<1>4. CASE UNCHANGED sends
  BY <1>3, <1>4 DEF SendsFit
<1>5. CASE Send
  <2>1. PICK s1 : /\ s1.to = here /\ s1.rest = Parts(text, voice, files) /\ s1.failed = Blank
                  /\ sends' = sends \cup {s1}
    BY <1>5 DEF Send
  <2>2. PartsFit(s1.rest, s1.to)
    BY <2>1 DEF DraftInv, DraftFits, PartsFit, Parts
  <2>3. PartsFit(s1.failed, s1.to) /\ s1.failed.files = <<>>
    BY <2>1 DEF PartsFit, Blank, Parts, ToSet
  <2>4. PartsFit(s1.rest, s1.to)' /\ PartsFit(s1.failed, s1.to)'
    BY <1>2, <2>2, <2>3
  <2> QED BY <1>3, <2>1, <2>3, <2>4 DEF SendsFit
<1>6. ASSUME NEW s \in sends, PartPosted(s) \/ PartFails(s) PROVE SendsFit'
  <2>1. PICK s1, item : PartMoved(s, s1, item)
    BY <1>1, <1>6, PartMoves
  <2>2. sends' \subseteq sends \cup {s1}
    BY <2>1 DEF PartMoved, Become
  <2>3. PartsFit(s1.rest, s1.to)' /\ PartsFit(s1.failed, s1.to)'
    BY <1>2, <2>1 DEF PartMoved
  <2>4. s1.rest.text # 0 => s1.failed.files = <<>>
    BY <2>1 DEF PartMoved
  <2> QED BY <1>3, <2>2, <2>3, <2>4 DEF SendsFit
<1>7. ASSUME NEW s \in sends, Finished(s) PROVE SendsFit'
  <2>1. sends' \subseteq sends
    BY <1>7 DEF Finished
  <2> QED BY <1>3, <2>1 DEF SendsFit
<1> QED BY <1>4, <1>5, <1>6, <1>7 DEF ComposerNext, WriteText, StageFile, Record, StopRecording,
      CloseCurrent, RemoveFile,
                                      SelectAnother, SubmitPoll, SignPoll, PostPoll

\* What is posted was written, and a file only in its conversation.
LEMMA PostsKeep ==
  ASSUME ComposerAssumption, DraftInv, ComposerNext PROVE PostedFit'
<1> USE DEF ComposerAssumption
<1>1. WritingStays /\ WritingFits /\ SendsFit /\ PostedFit
  BY WritingGrows DEF DraftInv
<1>2. \A p \in posted : /\ p.item \in DOMAIN written'
                        /\ written'[p.item].kind = "file" => written'[p.item].of = p.to
  BY <1>1, ReadLater DEF PostedFit, Is, FileOf
<1>3. poll.item # 0 => poll.item \in DOMAIN written' /\ written'[poll.item].kind = "poll"
  BY <1>1, ReadLater DEF PostedFit, Is
<1>4. /\ poll \in Polls /\ (poll.signed # NoRoom => poll.item # 0)
      /\ NoPoll \in Polls /\ NoPoll.signed = NoRoom /\ NoPoll.item = 0
  BY <1>1 DEF PostedFit, NoPoll, Polls
<1>6. CASE UNCHANGED <<poll, posted>>
  BY <1>2, <1>3, <1>4, <1>6 DEF PostedFit, Is, FileOf
<1>7. CASE SubmitPoll
  <2>1. /\ New \in Nat \ {0} /\ New \in DOMAIN written' /\ written'[New].kind = "poll"
        /\ here \in Conversations
        /\ UNCHANGED posted
    BY <1>1, <1>7, NewItem DEF SubmitPoll, Written, Kinds, WritingFits
  <2>2. poll' \in Polls /\ poll'.item = New /\ poll'.signed = NoRoom
    BY <1>7, <2>1 DEF SubmitPoll, Polls
  <2> QED BY <1>2, <2>1, <2>2 DEF PostedFit, Is, FileOf
<1>8. CASE SignPoll
  <2>1. UNCHANGED <<written, posted>> /\ (here = NoRoom \/ here \in Conversations) /\ poll.item # 0
    BY <1>1, <1>8 DEF SignPoll, WritingFits
  <2>2. poll' = NoPoll \/ (poll' = [poll EXCEPT !.signed = here] /\ here \in Conversations)
    BY <1>8, <2>1 DEF SignPoll
  <2>3. poll' = NoPoll \/ (poll' \in Polls /\ poll'.item = poll.item)
    BY <1>4, <2>2 DEF Polls
  <2> QED BY <1>2, <1>3, <1>4, <2>1, <2>3 DEF PostedFit, Is, FileOf
<1>9. CASE PostPoll
  <2>1. UNCHANGED written /\ poll' = NoPoll /\ poll.item # 0
    BY <1>4, <1>9 DEF PostPoll
  <2>2. posted' \subseteq posted \cup {[item |-> poll.item, to |-> here]}
    BY <1>9 DEF PostPoll
  <2>3. ASSUME NEW p \in posted'
        PROVE  p.item \in DOMAIN written' /\ (written'[p.item].kind = "file" => written'[p.item].of = p.to)
    <3>1. CASE p \in posted
      BY <1>2, <3>1
    <3>2. CASE p \notin posted
      <4>1. p.item = poll.item
        BY <2>2, <3>2
      <4> QED BY <1>3, <2>1, <4>1
    <3> QED BY <3>1, <3>2
  <2> QED BY <1>4, <2>1, <2>3 DEF PostedFit, Is, FileOf
<1>10. ASSUME NEW s \in sends, PartPosted(s) \/ PartFails(s) PROVE PostedFit'
  <2>1. PICK s1, item : PartMoved(s, s1, item)
    BY <1>1, <1>10, PartMoves
  <2>2. UNCHANGED <<poll, written>>
    BY <1>10 DEF PartPosted, PartFails
  <2>3. /\ item \in DOMAIN written' /\ (written'[item].kind = "file" => written'[item].of = s.to)
        /\ posted' \subseteq posted \cup {[item |-> item, to |-> s.to]}
    BY <2>1, <2>2 DEF PartMoved, Is, FileOf
  <2>4. ASSUME NEW p \in posted'
        PROVE  p.item \in DOMAIN written' /\ (written'[p.item].kind = "file" => written'[p.item].of = p.to)
    <3>1. CASE p \in posted
      BY <1>2, <3>1
    <3>2. CASE p \notin posted
      <4>1. p.item = item /\ p.to = s.to
        BY <2>3, <3>2
      <4> QED BY <2>3, <4>1
    <3> QED BY <3>1, <3>2
  <2>5. poll' \in Polls /\ (poll'.signed # NoRoom => poll'.item # 0)
    BY <1>4, <2>2
  <2> QED BY <1>3, <2>2, <2>4, <2>5 DEF PostedFit, Is, FileOf
<1>11. ASSUME NEW s \in sends, Finished(s) PROVE UNCHANGED <<poll, posted>>
  BY <1>11 DEF Finished
<1> QED BY <1>6, <1>7, <1>8, <1>9, <1>10, <1>11
        DEF ComposerNext, WriteText, StageFile, Record, StopRecording, CloseCurrent, Send,
            RemoveFile, SelectAnother

\* The files that nobody took away are those of the conversation on screen, and
\* each is in the composer, in a message that is being sent, or posted.
LEMMA KeptKeep ==
  ASSUME ComposerAssumption, DraftInv, ComposerNext PROVE KeptAreOfThis' /\ KeptAreThere'
<1> USE DEF ComposerAssumption
<1>1. WritingStays /\ WritingFits /\ SendsFit /\ New \in Nat /\ files \in Seq(Nat)
  BY WritingGrows DEF DraftInv, WritingFits, New
<1>2. \A f \in kept : f \in DOMAIN written' /\ written'[f].kind = "file" /\ written'[f].of = here
  BY <1>1, ReadLater DEF DraftInv, KeptAreOfThis, Is, FileOf
<1>3. KeptAreThere
  BY DEF DraftInv
<1>4. ToSet(<<>>) = {}
  BY DEF ToSet
<1>5. CASE UNCHANGED <<here, kept, files, sends, posted>>
  BY <1>2, <1>3, <1>5 DEF KeptAreOfThis, KeptAreThere, Is, FileOf
<1>6. CASE UNCHANGED <<here, kept, files, sends>> /\ posted \subseteq posted'
  <2>1. KeptAreOfThis'
    BY <1>2, <1>6 DEF KeptAreOfThis, Is, FileOf
  <2> QED BY <1>3, <1>6, <2>1 DEF KeptAreThere
<1>7. CASE StageFile
  <2>1. New \in DOMAIN written' /\ written'[New].kind = "file" /\ written'[New].of = here
    BY <1>1, <1>7, NewItem DEF StageFile, Written, Kinds, WritingFits
  <2>2. ToSet(files') = ToSet(files) \cup {New}
    <3>1. files' = Append(files, New)
      BY <1>7 DEF StageFile
    <3>2. ToSet(Append(files, New)) = ToSet(files) \cup {New}
      BY <1>1, SetOfAppend
    <3> QED BY <3>1, <3>2
  <2>3. kept' = kept \cup {New} /\ UNCHANGED <<here, sends, posted>>
    BY <1>7 DEF StageFile
  <2>4. KeptAreOfThis'
    BY <1>2, <2>1, <2>3 DEF KeptAreOfThis, Is, FileOf
  <2> QED BY <1>3, <2>2, <2>3, <2>4 DEF KeptAreThere
<1>8. CASE CloseCurrent \/ \E r \in Conversations : SelectAnother(r)
  <2>1. kept' = {}
    BY <1>8 DEF CloseCurrent, SelectAnother
  <2> QED BY <2>1 DEF KeptAreOfThis, KeptAreThere
<1>9. CASE Send
  <2>1. PICK s1 : s1.rest = Parts(text, voice, files) /\ sends' = sends \cup {s1}
    BY <1>9 DEF Send
  <2>2. s1.rest.files = files /\ UNCHANGED <<here, kept, posted>>
    BY <1>9, <2>1 DEF Parts, Send
  <2>3. KeptAreOfThis'
    BY <1>2, <2>2 DEF KeptAreOfThis, Is, FileOf
  <2>4. ASSUME NEW f \in kept
        PROVE  \/ \E s \in sends' : f \in ToSet(s.rest.files) \cup ToSet(s.failed.files)
               \/ \E p \in posted' : p.item = f
    <3>1. CASE f \in ToSet(files)
      BY <2>1, <2>2, <3>1
    <3>2. CASE f \notin ToSet(files)
      BY <1>3, <2>1, <2>2, <3>2 DEF KeptAreThere
    <3> QED BY <3>1, <3>2
  <2> QED BY <2>2, <2>3, <2>4 DEF KeptAreThere
<1>10. ASSUME NEW i \in DOMAIN files, RemoveFile(i) PROVE KeptAreOfThis' /\ KeptAreThere'
  <2>1. \A x \in ToSet(files) : x # files[i] => x \in ToSet(files')
    BY <1>1, <1>10, SetOfRemoved DEF RemoveFile
  <2>2. kept' = kept \ {files[i]} /\ UNCHANGED <<here, sends, posted>>
    BY <1>10 DEF RemoveFile
  <2>3. KeptAreOfThis'
    BY <1>2, <2>2 DEF KeptAreOfThis, Is, FileOf
  <2> QED BY <1>3, <2>1, <2>2, <2>3 DEF KeptAreThere
<1>11. ASSUME NEW s \in sends, PartPosted(s) \/ PartFails(s) PROVE KeptAreOfThis' /\ KeptAreThere'
  <2>1. PICK s1, item : PartMoved(s, s1, item)
    BY <1>1, <1>11, PartMoves
  <2>2. UNCHANGED <<here, kept, files>>
    BY <1>11 DEF PartPosted, PartFails, draftVars
  <2>3. KeptAreOfThis'
    BY <1>2, <2>2 DEF KeptAreOfThis, Is, FileOf
  <2>4. sends' = (sends \ {s}) \cup {s1} /\ posted \subseteq posted'
    BY <2>1 DEF PartMoved, Become
  <2>5. \A f \in ToSet(s.rest.files) \cup ToSet(s.failed.files) :
          \/ f \in ToSet(s1.rest.files) \cup ToSet(s1.failed.files)
          \/ \E p \in posted' : p.item = f
    BY <2>1 DEF PartMoved
  <2>6. ASSUME NEW f \in kept
        PROVE  \/ f \in ToSet(files)
               \/ \E s2 \in sends' : f \in ToSet(s2.rest.files) \cup ToSet(s2.failed.files)
               \/ \E p \in posted' : p.item = f
    <3>1. CASE \E s2 \in sends : f \in ToSet(s2.rest.files) \cup ToSet(s2.failed.files)
      <4>1. PICK s2 \in sends : f \in ToSet(s2.rest.files) \cup ToSet(s2.failed.files)
        BY <3>1
      <4>2. CASE s2 = s
        BY <2>4, <2>5, <4>1, <4>2
      <4>3. CASE s2 # s
        BY <2>4, <4>1, <4>3
      <4> QED BY <4>2, <4>3
    <3>2. CASE f \in ToSet(files) \/ \E p \in posted : p.item = f
      BY <2>4, <3>2
    <3> QED BY <1>3, <3>1, <3>2 DEF KeptAreThere
  <2> QED BY <2>2, <2>3, <2>6 DEF KeptAreThere
<1>12. ASSUME NEW s \in sends, Finished(s) PROVE KeptAreOfThis' /\ KeptAreThere'
  <2>1. /\ s.failed.files \in Seq(Nat) /\ UNCHANGED <<here, kept, posted, written>>
        /\ sends' = sends \ {s}
        /\ s.rest.files = <<>>
    BY <1>1, <1>12 DEF WritingFits, SendsOf, Drafts, Finished, Blank, Parts
  <2>2. KeptAreOfThis'
    BY <1>2, <2>1 DEF KeptAreOfThis, Is, FileOf
  <2>3. ASSUME NEW f \in kept, f \in ToSet(s.failed.files) PROVE StillThere(s)
    <3>1. FileOf(f, here) /\ FileOf(f, s.to)
      BY <1>1, <2>3 DEF DraftInv, KeptAreOfThis, SendsFit, PartsFit
    <3> QED BY <3>1 DEF FileOf, StillThere
  <2>4. StillThere(s) => ToSet(files') = ToSet(files) \cup ToSet(s.failed.files)
    <3>1. StillThere(s) => files' = files \o s.failed.files
      BY <1>12 DEF Finished
    <3>2. ToSet(files \o s.failed.files) = ToSet(files) \cup ToSet(s.failed.files)
      BY <1>1, <2>1, SetOfConcat
    <3> QED BY <3>1, <3>2
  <2>5. ~StillThere(s) => files' = files
    BY <1>12 DEF Finished
  <2>6. ASSUME NEW f \in kept
        PROVE  \/ f \in ToSet(files')
               \/ \E s2 \in sends' : f \in ToSet(s2.rest.files) \cup ToSet(s2.failed.files)
               \/ \E p \in posted' : p.item = f
    <3>1. CASE \E s2 \in sends : f \in ToSet(s2.rest.files) \cup ToSet(s2.failed.files)
      <4>1. PICK s2 \in sends : f \in ToSet(s2.rest.files) \cup ToSet(s2.failed.files)
        BY <3>1
      <4>2. CASE s2 = s
        <5>1. f \in ToSet(s.failed.files)
          BY <1>4, <2>1, <4>1, <4>2
        <5> QED BY <2>3, <2>4, <5>1
      <4>3. CASE s2 # s
        BY <2>1, <4>1, <4>3
      <4> QED BY <4>2, <4>3
    <3>2. CASE f \in ToSet(files)
      BY <2>4, <2>5, <3>2
    <3>3. CASE \E p \in posted : p.item = f
      BY <2>1, <3>3
    <3> QED BY <1>3, <3>1, <3>2, <3>3 DEF KeptAreThere
  <2> QED BY <2>1, <2>2, <2>6 DEF KeptAreThere
<1>13. CASE WriteText \/ Record \/ StopRecording \/ SubmitPoll \/ SignPoll
  BY <1>5, <1>13 DEF WriteText, Record, StopRecording, SubmitPoll, SignPoll, draftVars
<1>14. CASE PostPoll
  <2>1. UNCHANGED <<here, kept, files, sends>> /\ posted \subseteq posted'
    BY <1>14 DEF PostPoll, draftVars
  <2> QED BY <1>6, <2>1
<1> QED BY <1>7, <1>8, <1>9, <1>10, <1>11, <1>12, <1>13, <1>14 DEF ComposerNext

LEMMA DraftNextInv ==
  ASSUME ComposerAssumption, DraftInv, [ComposerNext]_composerVars PROVE DraftInv'
<1>1. CASE ComposerNext
  <2>1. WritingFits'
    BY <1>1, WritingKeeps DEF DraftInv
  <2> QED BY <1>1, <2>1, DraftKeeps, SendsKeep, PostsKeep, KeptKeep DEF DraftInv
<1>2. CASE UNCHANGED composerVars
  BY <1>2 DEF composerVars, draftVars, DraftInv, WritingFits, DraftFits, SendsFit, PostedFit,
      KeptAreOfThis,
              KeptAreThere, PartsFit, Is, FileOf
<1> QED BY <1>1, <1>2

\* What the invariant is for.
LEMMA DraftFollows ==
  ASSUME DraftInv PROVE FilesStayInTheirConversation /\ FilesAreNotForgotten /\ ComposerTypeOK
<1>1. FilesStayInTheirConversation
  BY DEF DraftInv, DraftFits, PostedFit, FileOf, Is, FilesStayInTheirConversation
<1>2. FilesAreNotForgotten
  BY DEF DraftInv, KeptAreThere, FilesAreNotForgotten, ItemsOf
<1>3. ASSUME NEW m \in Drafts, NEW r, PartsFit(m, r) PROVE ItemsOf(m) \subseteq DOMAIN written
  BY <1>3 DEF PartsFit, FileOf, Is, ItemsOf
<1>4. ItemsOf(Parts(text, voice, files)) \subseteq DOMAIN written
  BY DEF DraftInv, DraftFits, Parts, ItemsOf, FileOf, Is
<1>5. kept \subseteq DOMAIN written
  BY DEF DraftInv, KeptAreOfThis, FileOf, Is
<1>6. \A s \in sends : s.rest \in Drafts /\ s.failed \in Drafts
  BY DEF DraftInv, WritingFits, SendsOf
<1>7. ComposerTypeOK
  BY <1>3, <1>4, <1>5, <1>6 DEF DraftInv, SendsFit, WritingFits, ComposerTypeOK
<1> QED BY <1>1, <1>2, <1>7

-----------------------------------------------------------------------------
(* The folder of files: whatever pages are asked for, and whenever they and the events come,   *)
(* an index without events on their way is the server's.                                       *)

\* The least of some numbers, and the greatest of some that are bounded.
LEMMA LeastOf == ASSUME NEW T \in SUBSET Nat, T # {} PROVE \E x \in T : \A y \in T : x <= y
<1>1. PICK x \in T : \A y \in T : ~(<<y, x>> \in OpToRel(<, Nat))
  BY WFMin, NatLessThanWellFounded
<1>2. \A y \in T : ~(y < x)
  BY <1>1 DEF OpToRel
<1>3. \A y \in T : x <= y
  BY <1>2
<1> QED BY <1>3

LEMMA GreatestOf ==
  ASSUME NEW top \in Nat, NEW T \in SUBSET (1 .. top), T # {} PROVE \E x \in T : \A y \in T : y <= x
<1> DEFINE below == {top - y : y \in T}
<1>1. below \in SUBSET Nat /\ below # {}
  <2>1. \A y \in T : y \in Nat /\ y <= top /\ top - y \in Nat
    OBVIOUS
  <2>2. below # {}
    OBVIOUS
  <2> QED BY <2>1, <2>2
<1>2. PICK b \in below : \A c \in below : b <= c
  <2> HIDE DEF below
  <2> QED BY <1>1, LeastOf
<1>3. PICK x \in T : b = top - x
  BY <1>2
<1>4. ASSUME NEW y \in T PROVE y <= x
  <2>1. b <= top - y
    BY <1>2
  <2> QED BY <1>3, <2>1
<1> QED BY <1>4

LEMMA MinIs ==
  ASSUME NEW T \in SUBSET Nat, T # {} PROVE Min(T) \in T /\ \A y \in T : Min(T) <= y
<1>1. \E x \in T : \A y \in T : x =< y
  BY LeastOf
<1> QED BY <1>1 DEF Min

\* The newest of some files: those above any of them are among them too, and if they are not as
\* many as a page holds, they are all.
Newest(F) == {f \in F : Cardinality({g \in F : f < g}) < PageSize}
LEMMA NewestAre ==
  ASSUME FolderAssumption, NEW top \in Nat, NEW F \in SUBSET (1 .. top)
  PROVE  /\ IsFiniteSet(F) /\ Newest(F) \subseteq F
         /\ \A f \in Newest(F) : \A g \in F : f < g => g \in Newest(F)
         /\ Cardinality(Newest(F)) # PageSize => Newest(F) = F
<1>0. PageSize \in Nat \ {0}
  BY DEF FolderAssumption
<1>1. IsFiniteSet(F)
  <2>1. 1 \in Int /\ top \in Int
    OBVIOUS
  <2>2. IsFiniteSet(1 .. top)
    BY <2>1, FS_Interval
  <2> QED BY <2>2, FS_Subset
<1>n. F \subseteq Nat
  OBVIOUS
<1> DEFINE P == Newest(F)  above(f) == {g \in F : f < g}
<1>2. P \subseteq F
  BY DEF Newest
<1>3. \A f \in F : IsFiniteSet(above(f)) /\ Cardinality(above(f)) \in Nat
  BY <1>1, FS_Subset, FS_CardinalityType
<1>4. \A f \in F : f \in P <=> Cardinality(above(f)) < PageSize
  BY DEF Newest
<1>5. ASSUME NEW f \in P, NEW g \in F, f < g PROVE g \in P
  <2>1. above(g) \in SUBSET above(f)
    <3>1. f \in Nat /\ g \in Nat
      BY <1>n, <1>2, <1>5
    <3>2. \A h \in F : h \in Nat /\ (g < h => f < h)
      BY <1>n, <1>5, <3>1
    <3> QED BY <3>2
  <2>2. IsFiniteSet(above(f))
    BY <1>2, <1>3
  <2>3. Cardinality(above(g)) <= Cardinality(above(f))
    BY <2>1, <2>2, FS_Subset
  <2>4. /\ Cardinality(above(f)) \in Nat /\ Cardinality(above(g)) \in Nat
        /\ Cardinality(above(f)) < PageSize
    BY <1>2, <1>3, <1>4
  <2>5. Cardinality(above(g)) < PageSize
    BY <1>0, <2>3, <2>4
  <2> QED BY <1>4, <2>5
<1>6. ASSUME P # F PROVE Cardinality(P) = PageSize
  <2>1. F \ P \in SUBSET (1 .. top) /\ F \ P # {}
    BY <1>2, <1>6
  <2>2. PICK f \in F \ P : \A g \in F \ P : g <= f
    <3> HIDE DEF P
    <3> QED BY <2>1, GreatestOf
  <2>3. P = above(f)
    <3>1. ASSUME NEW g \in P PROVE g \in above(f)
      <4>1. g \in F /\ g # f /\ ~(g < f) /\ g \in Nat /\ f \in Nat
        <5>1. g \in F /\ f \in F /\ f \notin P /\ g # f
          BY <1>2, <2>2, <3>1
        <5>2. ~(g < f)
          BY <1>5, <3>1, <5>1
        <5> QED BY <1>n, <5>1, <5>2
      <4> QED BY <4>1
    <3>2. ASSUME NEW g \in above(f) PROVE g \in P
      <4>1. g \in F /\ f < g /\ g \in Nat /\ f \in Nat
        BY <3>2
      <4> QED BY <2>2, <4>1
    <3> QED BY <3>1, <3>2
  <2>4. Cardinality(P) \in Nat /\ ~(Cardinality(P) < PageSize) /\ IsFiniteSet(P)
    BY <1>3, <1>4, <2>2, <2>3
  <2>5. P # {} /\ P \in SUBSET Nat
    <3> HIDE DEF P
    <3>1. P # {}
      BY <1>0, <2>4, FS_EmptySet
    <3> QED BY <1>n, <1>2, <3>1
  <2>6. PICK m \in P : \A y \in P : m <= y
    <3> HIDE DEF P
    <3> QED BY <2>5, LeastOf
  <2>7. P = above(m) \cup {m}
    <3>1. ASSUME NEW g \in P PROVE g \in above(m) \cup {m}
      <4>1. g \in F /\ m <= g /\ g \in Nat /\ m \in Nat
        BY <1>2, <2>5, <2>6
      <4> QED BY <4>1
    <3>2. ASSUME NEW g \in above(m) PROVE g \in P
      BY <1>5, <2>6
    <3> HIDE DEF P, above
    <3> QED BY <2>6, <3>1, <3>2
  <2>8. m \in F /\ IsFiniteSet(above(m)) /\ m \notin above(m) /\ Cardinality(above(m)) \in Nat
        /\ Cardinality(above(m)) < PageSize
    BY <1>2, <1>3, <1>4, <2>5, <2>6
  <2>9. Cardinality(above(m) \cup {m}) = Cardinality(above(m)) + 1
    <3> HIDE DEF above
    <3> QED BY <2>8, FS_AddElement
  <2>10. Cardinality(P) = Cardinality(above(m)) + 1
    BY <2>7, <2>9
  <2> HIDE DEF P, above
  <2> QED BY <1>0, <2>4, <2>8, <2>10
<1> QED BY <1>1, <1>2, <1>5, <1>6

Ats == {"asked", "answered", "drawn", "settled", "failed"}
FolderLoads == [before : Nat, drawn : BOOLEAN, valid : BOOLEAN, at : Ats, page : SUBSET Nat]
IndexOf == [messages : SUBSET Nat, loaded : BOOLEAN, more : BOOLEAN, before : Nat]
FilesFit ==
  /\ sent \in Nat /\ allFiles \in SUBSET (1 .. sent) /\ fileEvents \in Nat
  /\ index \in IndexOf /\ pageLoads \in Seq(FolderLoads) /\ first \in Nat /\ next \in Nat

\* What a valid request asks for: the first page, when there is no index, or the page that
\* follows the index. There is one of each at most.
LoadsWait ==
  \A n \in DOMAIN pageLoads :
    pageLoads[n].valid /\ pageLoads[n].at \in {"asked", "answered"} =>
      \/ pageLoads[n].before = 0 /\ first = n /\ ~index.loaded
      \/ /\ pageLoads[n].before # 0 /\ next = n
         /\ index.loaded /\ pageLoads[n].before = index.before

\* The page that answered it is of the files of now, unless an event is on its way.
PagesAreThose ==
  fileEvents = 0 =>
    \A n \in DOMAIN pageLoads :
      pageLoads[n].valid /\ pageLoads[n].at = "answered" =>
        pageLoads[n].page = Page(pageLoads[n].before)

FolderInv == FilesFit /\ LoadsWait /\ PagesAreThose /\ IndexIsTheServers

\* Pages are of files that were sent, and tasks await a request that was made.
TaskTypes(n) ==
  [at : {"first", "draw", "fill", "next"}, load : 0 .. n, before : Nat, mine : BOOLEAN, page : SUBSET Nat]
TasksUpTo(n) == {t \in TaskTypes(n) : t.at = "first" => t.load # 0}
FolderShows ==
  /\ index.messages \subseteq 1 .. sent
  /\ \A n \in DOMAIN pageLoads : pageLoads[n].page \subseteq 1 .. sent
  /\ first \in 0 .. Len(pageLoads) /\ next \in 0 .. Len(pageLoads)
  /\ tasks \subseteq TasksUpTo(Len(pageLoads))

LEMMA PagesFit ==
  ASSUME FolderAssumption, FilesFit, NEW b \in Nat
  PROVE  /\ Page(b) \subseteq Older(b) /\ Older(b) \subseteq allFiles /\ Page(b) \subseteq Nat
         /\ allFiles \subseteq Nat /\ 0 \notin allFiles
         /\ \A f \in Page(b) : \A g \in Older(b) : f < g => g \in Page(b)
         /\ Cardinality(Page(b)) # PageSize => Page(b) = Older(b)
<1>1. Page(b) = Newest(Older(b))
  BY DEF Page, Newest
<1>2. Older(b) \in SUBSET (1 .. sent) /\ sent \in Nat /\ allFiles \in SUBSET (1 .. sent)
  BY DEF FilesFit, Older
<1>3. /\ Newest(Older(b)) \subseteq Older(b)
      /\ \A f \in Newest(Older(b)) : \A g \in Older(b) : f < g => g \in Newest(Older(b))
      /\ Cardinality(Newest(Older(b))) # PageSize => Newest(Older(b)) = Older(b)
  BY <1>2, NewestAre
<1>4. Older(b) \subseteq allFiles /\ allFiles \subseteq Nat /\ 0 \notin allFiles
  BY <1>2 DEF Older
<1> QED BY <1>1, <1>3, <1>4

\* An index made of a page and of those before it, if any, is what the server has.
LEMMA RememberedIs ==
  ASSUME FolderAssumption, FilesFit, NEW b \in Nat,
         NEW M, M = {f \in allFiles : b # 0 /\ f >= b}, NEW x, x = Remembered(M, Page(b))
  PROVE  x.messages = {f \in allFiles : f >= x.before} /\ (~x.more => x.messages = allFiles)
<1> DEFINE P == Page(b)
<1>1. /\ P \subseteq Older(b) /\ P \subseteq Nat /\ allFiles \subseteq Nat
      /\ \A f \in P : \A g \in Older(b) : f < g => g \in P
      /\ Cardinality(P) # PageSize => P = Older(b)
  BY PagesFit
<1>2. PageSize # 0 /\ Cardinality({}) = 0
  BY FS_EmptySet DEF FolderAssumption
<1>3. /\ x.messages = M \cup P /\ (x.more <=> Cardinality(P) = PageSize)
      /\ x.before = IF P = {} THEN 0 ELSE Min(P)
  BY DEF Remembered
<1> HIDE DEF P
<1>4. \A f \in allFiles : f \in M \/ f \in Older(b)
  BY <1>1 DEF Older
<1>5. \A f \in Older(b) : f \in allFiles
  BY DEF Older
<1>6. ~x.more => x.messages = allFiles
  BY <1>1, <1>3, <1>4, <1>5
<1>7. CASE P = {}
  <2>1. x.messages = allFiles /\ x.before = 0
    BY <1>2, <1>3, <1>6, <1>7
  <2>2. \A f \in allFiles : f \in Nat /\ f >= 0
    <3>1. \A n \in Nat : n >= 0
      OBVIOUS
    <3> QED BY <1>1, <3>1
  <2>3. {f \in allFiles : f >= x.before} = allFiles
    BY <2>1, <2>2
  <2> QED BY <2>1, <2>3
<1>8. CASE P # {}
  <2> DEFINE m == Min(P)
  <2>1. m \in P /\ \A y \in P : m <= y
    BY <1>1, <1>8, MinIs
  <2>2. x.before = m
    BY <1>3, <1>8
  <2> HIDE DEF m
  <2>3. ASSUME NEW f \in allFiles, f >= m PROVE f \in M \cup P
    <3>1. f \in Nat /\ m \in Nat
      BY <1>1, <2>1
    <3>2. f = m \/ m < f
      BY <2>3, <3>1
    <3> QED BY <1>1, <1>4, <2>1, <3>2
  <2>4. ASSUME NEW f \in P PROVE f \in allFiles /\ f >= m
    BY <1>1, <1>5, <2>1, <2>4
  <2>5. ASSUME NEW f \in M PROVE f \in allFiles /\ f >= m
    <3>1. f \in allFiles /\ b # 0 /\ f >= b
      OBVIOUS
    <3>2. m < b
      BY <1>1, <2>1, <3>1 DEF Older
    <3>3. f \in Nat /\ m \in Nat
      BY <1>1, <2>1, <3>1
    <3> QED BY <3>1, <3>2, <3>3
  <2>6. x.messages = {f \in allFiles : f >= x.before}
    BY <1>3, <2>2, <2>3, <2>4, <2>5
  <2> QED BY <1>6, <2>6
<1> QED BY <1>7, <1>8

LEMMA RememberedFits ==
  ASSUME NEW M \in SUBSET Nat,
         NEW P \in SUBSET Nat PROVE Remembered(M, P) \in IndexOf /\ Remembered(M, P).loaded
<1>1. P # {} => Min(P) \in Nat
  BY MinIs
<1>2. (IF P = {} THEN 0 ELSE Min(P)) \in Nat
  BY <1>1
<1> QED BY <1>2 DEF Remembered, IndexOf

LEMMA FolderInitInv == ASSUME FolderAssumption, FolderInit PROVE FolderInv
<1>1. FilesFit
  BY DEF FolderAssumption, FolderInit, FilesFit, NoIndex, IndexOf
<1>2. LoadsWait /\ PagesAreThose /\ IndexIsTheServers
  BY DEF FolderInit, LoadsWait, PagesAreThose, IndexIsTheServers, NoIndex
<1> QED BY <1>1, <1>2 DEF FolderInv

\* A request is made: the first of its kind.
LEMMA AskingKeeps ==
  ASSUME FolderInv, NEW b \in Nat, NEW d \in BOOLEAN,
         pageLoads' = Append(pageLoads, PageLoad(b, d)), UNCHANGED <<allFiles, sent, fileEvents, index>>,
         \/ b = 0 /\ ~index.loaded /\ first = 0 /\ first' = Len(pageLoads) + 1 /\ next' = next
         \/ /\ b # 0 /\ index.loaded /\ b = index.before
            /\ next = 0 /\ next' = Len(pageLoads) + 1 /\ first' = first
  PROVE  FolderInv'
<1> DEFINE x == PageLoad(b, d)  top == Len(pageLoads) + 1
<1>1. /\ x \in FolderLoads /\ x.before = b /\ x.valid /\ x.at = "asked"
  BY DEF PageLoad, FolderLoads, Ats
<1> HIDE DEF x
<1>2. pageLoads \in Seq(FolderLoads) /\ Len(pageLoads) \in Nat /\ DOMAIN pageLoads = 1 .. Len(pageLoads)
  BY DEF FolderInv, FilesFit
<1>3. pageLoads' = Append(pageLoads, x)
  BY DEF x
<1>4. /\ pageLoads' \in Seq(FolderLoads) /\ Len(pageLoads') = Len(pageLoads) + 1
      /\ \A n \in 1 .. Len(pageLoads) : pageLoads'[n] = pageLoads[n]
      /\ pageLoads'[Len(pageLoads) + 1] = x
  BY <1>1, <1>2, <1>3, AppendProperties
<1>5. /\ DOMAIN pageLoads' = 1 .. Len(pageLoads) + 1
      /\ \A n \in DOMAIN pageLoads' : n = top \/ (n \in DOMAIN pageLoads /\ pageLoads'[n] = pageLoads[n] /\ n # 0)
  BY <1>2, <1>4
<1>6. pageLoads'[top] = x /\ top \in Nat
  BY <1>2, <1>4
<1>7. FilesFit'
  BY <1>2, <1>4 DEF FolderInv, FilesFit
<1> HIDE DEF top
<1>8. first' = top \/ next' = top
  BY DEF top
<1>9. LoadsWait'
  <2> SUFFICES ASSUME NEW n \in DOMAIN pageLoads', pageLoads'[n].valid,
                      pageLoads'[n].at \in {"asked", "answered"}
               PROVE  \/ pageLoads'[n].before = 0 /\ first' = n /\ ~index.loaded
                      \/ /\ pageLoads'[n].before # 0 /\ next' = n
                         /\ index.loaded /\ pageLoads'[n].before = index.before
    BY DEF LoadsWait
  <2>1. CASE n = top
    BY <1>1, <1>6, <2>1 DEF top
  <2>2. CASE n # top
    <3>1. n \in DOMAIN pageLoads /\ pageLoads'[n] = pageLoads[n] /\ n # 0
      BY <1>5, <2>2
    <3>2. \/ pageLoads[n].before = 0 /\ first = n /\ ~index.loaded
          \/ pageLoads[n].before # 0 /\ next = n /\ index.loaded /\ pageLoads[n].before = index.before
      BY <3>1 DEF FolderInv, LoadsWait
    <3> QED BY <3>1, <3>2
  <2> QED BY <2>1, <2>2
<1>10. PagesAreThose'
  <2> SUFFICES ASSUME fileEvents = 0, NEW n \in DOMAIN pageLoads', pageLoads'[n].valid,
                      pageLoads'[n].at = "answered"
               PROVE  pageLoads'[n].page = Page(pageLoads'[n].before)
    BY DEF PagesAreThose, Page, Older
  <2>1. n # top
    BY <1>1, <1>6
  <2>2. n \in DOMAIN pageLoads /\ pageLoads'[n] = pageLoads[n]
    BY <1>5, <2>1
  <2> QED BY <2>2 DEF FolderInv, PagesAreThose
<1>11. IndexIsTheServers'
  BY DEF FolderInv, IndexIsTheServers
<1> QED BY <1>7, <1>9, <1>10, <1>11 DEF FolderInv

\* Requests go on, or are over: none becomes one that is awaited.
LEMMA GoingOnKeeps ==
  ASSUME FolderInv, pageLoads' \in Seq(FolderLoads), DOMAIN pageLoads' = DOMAIN pageLoads,
         UNCHANGED <<allFiles, sent, fileEvents, index>>, first' \in Nat, next' \in Nat,
         \A n \in DOMAIN pageLoads :
           pageLoads'[n].valid /\ pageLoads'[n].at \in {"asked", "answered"} =>
             /\ pageLoads[n].valid /\ pageLoads[n].at \in {"asked", "answered"}
             /\ pageLoads'[n].before = pageLoads[n].before
             /\ (first = n => first' = n) /\ (next = n => next' = n)
             /\ \/ pageLoads'[n].at = "asked"
                \/ pageLoads'[n].at = pageLoads[n].at /\ pageLoads'[n].page = pageLoads[n].page
                \/ pageLoads'[n].page = Page(pageLoads[n].before)
  PROVE  FolderInv'
<1>1. FilesFit'
  BY DEF FolderInv, FilesFit
<1>2. LoadsWait'
  BY DEF FolderInv, LoadsWait
<1>3. PagesAreThose'
  <2> SUFFICES ASSUME fileEvents = 0, NEW n \in DOMAIN pageLoads', pageLoads'[n].valid,
                      pageLoads'[n].at = "answered"
               PROVE  pageLoads'[n].page = Page(pageLoads'[n].before)
    BY DEF PagesAreThose, Page, Older
  <2>1. n \in DOMAIN pageLoads /\ pageLoads'[n].before = pageLoads[n].before /\ pageLoads[n].valid
    OBVIOUS
  <2>2. CASE pageLoads[n].at = "answered" /\ pageLoads'[n].page = pageLoads[n].page
    BY <2>1, <2>2 DEF FolderInv, PagesAreThose
  <2>3. CASE pageLoads'[n].page = Page(pageLoads[n].before)
    BY <2>1, <2>3
  <2> QED BY <2>2, <2>3
<1>4. IndexIsTheServers'
  BY DEF FolderInv, IndexIsTheServers
<1> QED BY <1>1, <1>2, <1>3, <1>4 DEF FolderInv

\* A page of the index as it is arrives.
LEMMA ArrivingKeeps ==
  ASSUME FolderAssumption, FolderInv, NEW n \in DOMAIN pageLoads, pageLoads[n].valid,
         pageLoads[n].at = "answered",
         index' = Remembered(IF pageLoads[n].before = 0 THEN {} ELSE index.messages, pageLoads[n].page),
         pageLoads' \in Seq(FolderLoads), DOMAIN pageLoads' = DOMAIN pageLoads,
         \A m \in DOMAIN pageLoads \ {n} : pageLoads'[m] = pageLoads[m],
         pageLoads'[n].at \notin {"asked", "answered"},
         UNCHANGED <<allFiles, sent, fileEvents>>, first' \in Nat, next' \in Nat
  PROVE  FolderInv'
<1> DEFINE b == pageLoads[n].before  P == pageLoads[n].page  M == IF b = 0 THEN {} ELSE index.messages
<1>1. b \in Nat /\ P \in SUBSET Nat /\ M \in SUBSET Nat
  <2>1. pageLoads[n] \in FolderLoads /\ index.messages \in SUBSET Nat
    BY DEF FolderInv, FilesFit, IndexOf
  <2> QED BY <2>1 DEF FolderLoads
<1>2. index' = Remembered(M, P)
  OBVIOUS
<1>3. index' \in IndexOf
  <2> HIDE DEF M, P
  <2> QED BY <1>1, <1>2, RememberedFits
<1>4. FilesFit'
  BY <1>3 DEF FolderInv, FilesFit
<1>5. \A m \in DOMAIN pageLoads :
        ~(pageLoads'[m].valid /\ pageLoads'[m].at \in {"asked", "answered"})
  BY DEF FolderInv, LoadsWait
<1>6. LoadsWait' /\ PagesAreThose'
  BY <1>5 DEF LoadsWait, PagesAreThose
<1>7. IndexIsTheServers'
  <2> SUFFICES ASSUME fileEvents = 0
               PROVE  index'.messages = {f \in allFiles : f >= index'.before} /\ (~index'.more => index'.messages = allFiles)
    BY DEF IndexIsTheServers
  <2>1. P = Page(b)
    BY DEF FolderInv, PagesAreThose
  <2>2. b # 0 => index.loaded /\ b = index.before
    BY DEF FolderInv, LoadsWait
  <2>3. b # 0 => index.messages = {f \in allFiles : f >= b}
    BY <2>2 DEF FolderInv, IndexIsTheServers
  <2>4. M = {f \in allFiles : b # 0 /\ f >= b}
    BY <2>3
  <2> HIDE DEF b, P, M
  <2>5. index' = Remembered(M, Page(b))
    BY <1>2, <2>1
  <2>6. FilesFit
    BY DEF FolderInv
  <2> QED BY <1>1, <2>4, <2>5, <2>6, RememberedIs
<1> QED BY <1>4, <1>6, <1>7 DEF FolderInv

LEMMA FolderNextInv == ASSUME FolderAssumption, FolderInv, [FolderNext]_folderVars PROVE FolderInv'
<1> USE DEF storedVars, indexVars, dialogVars, countVars
<1>1. pageLoads \in Seq(FolderLoads) /\ first \in Nat /\ next \in Nat /\ index \in IndexOf /\ FilesFit
  BY DEF FolderInv, FilesFit
<1>2. \A n \in DOMAIN pageLoads : pageLoads[n] \in FolderLoads
  BY <1>1
<1>3. ASSUME UNCHANGED <<storedVars, indexVars>> PROVE FolderInv'
  BY <1>3 DEF FolderInv, FilesFit, LoadsWait, PagesAreThose, IndexIsTheServers, Page, Older
<1>4. CASE Change
  <2>1. fileEvents' # 0 /\ fileEvents' \in Nat
    BY <1>1, <1>4 DEF Change, FilesFit
  <2>2. sent' \in Nat /\ allFiles' \in SUBSET (1 .. sent')
    <3>1. sent \in Nat /\ allFiles \in SUBSET (1 .. sent)
      BY <1>1 DEF FilesFit
    <3>2. CASE sent' = sent + 1 /\ allFiles' = allFiles \cup {sent + 1}
      <4>1. \A f \in allFiles \cup {sent + 1} : f \in 1 .. sent + 1
        BY <3>1
      <4> QED BY <3>1, <3>2, <4>1
    <3>3. CASE sent' = sent /\ allFiles' \subseteq allFiles
      BY <3>1, <3>3
    <3> QED BY <1>4, <3>2, <3>3 DEF Change
  <2>3. FilesFit' /\ LoadsWait'
    BY <1>1, <1>4, <2>1, <2>2 DEF Change, FolderInv, FilesFit, LoadsWait
  <2> QED BY <2>1, <2>3 DEF FolderInv, PagesAreThose, IndexIsTheServers
<1>5. CASE HearChange
  <2>1. /\ DOMAIN pageLoads' = DOMAIN pageLoads /\ \A n \in DOMAIN pageLoads : pageLoads'[n] \in FolderLoads /\ ~pageLoads'[n].valid
    BY <1>2, <1>5 DEF HearChange, FolderLoads
  <2>2. pageLoads' \in Seq(FolderLoads)
    <3>1. DOMAIN pageLoads = 1 .. Len(pageLoads) /\ Len(pageLoads) \in Nat
      BY <1>1
    <3>2. pageLoads' \in [1 .. Len(pageLoads) -> FolderLoads]
      BY <1>5, <2>1, <3>1 DEF HearChange
    <3> QED BY <3>1, <3>2
  <2>3. FilesFit'
    BY <1>1, <1>5, <2>2 DEF HearChange, FilesFit, NoIndex, IndexOf
  <2>4. LoadsWait' /\ PagesAreThose'
    BY <2>1 DEF LoadsWait, PagesAreThose
  <2>5. IndexIsTheServers'
    BY <1>5 DEF HearChange, IndexIsTheServers, NoIndex
  <2> QED BY <2>3, <2>4, <2>5 DEF FolderInv
<1>6. ASSUME AskFirst, ~index.loaded, UNCHANGED storedVars PROVE FolderInv'
  <2>1. CASE first # 0
    BY <1>3, <1>6, <2>1 DEF AskFirst
  <2>2. CASE first = 0
    <3>1. /\ pageLoads' = Append(pageLoads, PageLoad(0, FALSE))
          /\ UNCHANGED <<allFiles, sent, fileEvents, index>>
          /\ first' = Len(pageLoads) + 1 /\ next' = next
      BY <1>6, <2>2 DEF AskFirst
    <3> QED BY <1>6, <2>2, <3>1, AskingKeeps
  <2> QED BY <2>1, <2>2
<1>7. CASE Preload \/ OpenFolder
  BY <1>3, <1>6, <1>7 DEF Preload, OpenFolder
<1>8. ASSUME NEW t, AskNext(t), index.loaded, index.before # 0, UNCHANGED storedVars PROVE FolderInv'
  <2>1. CASE next # 0
    BY <1>3, <1>8, <2>1 DEF AskNext
  <2>2. CASE next = 0
    <3>1. /\ pageLoads' = Append(pageLoads, PageLoad(index.before, TRUE))
          /\ UNCHANGED <<allFiles, sent, fileEvents, index>>
          /\ next' = Len(pageLoads) + 1 /\ first' = first /\ index.before \in Nat
      BY <1>1, <1>8, <2>2 DEF AskNext, IndexOf
    <3> QED BY <1>8, <2>2, <3>1, AskingKeeps
  <2> QED BY <2>1, <2>2
<1>9. CASE Scroll
  BY <1>8, <1>9 DEF Scroll
<1>10. ASSUME NEW t, Fill(t) PROVE FolderInv'
  BY <1>3, <1>8, <1>10 DEF Fill
<1>11. ASSUME NEW t, FirstCame(t) \/ Draw(t) PROVE FolderInv'
  BY <1>3, <1>11 DEF FirstCame, Draw
<1>12. CASE CloseFolder
  <2>1. /\ DOMAIN pageLoads' = DOMAIN pageLoads
        /\ \A n \in DOMAIN pageLoads : /\ pageLoads'[n] \in FolderLoads /\ pageLoads'[n].valid = pageLoads[n].valid
                                        /\ pageLoads'[n].at = pageLoads[n].at
                                        /\ pageLoads'[n].page = pageLoads[n].page
                                        /\ pageLoads'[n].before = pageLoads[n].before
    BY <1>2, <1>12 DEF CloseFolder, Undrawn, FolderLoads
  <2>2. pageLoads' \in Seq(FolderLoads)
    <3>1. DOMAIN pageLoads = 1 .. Len(pageLoads) /\ Len(pageLoads) \in Nat
      BY <1>1
    <3>2. pageLoads' \in [1 .. Len(pageLoads) -> FolderLoads]
      BY <1>12, <2>1, <3>1 DEF CloseFolder, Undrawn
    <3> QED BY <3>1, <3>2
  <2>3. UNCHANGED <<allFiles, sent, fileEvents, index, first, next>>
    BY <1>12 DEF CloseFolder
  <2> QED BY <1>1, <2>1, <2>2, <2>3, GoingOnKeeps
<1>13. ASSUME NEW n \in DOMAIN pageLoads, NEW a \in {"settled", "failed"}, Settle(n, a)
       PROVE  /\ pageLoads' \in Seq(FolderLoads) /\ DOMAIN pageLoads' = DOMAIN pageLoads /\ pageLoads'[n].at = a
              /\ \A m \in DOMAIN pageLoads \ {n} : pageLoads'[m] = pageLoads[m]
              /\ first' \in Nat /\ next' \in Nat
              /\ \A m \in DOMAIN pageLoads \ {n} : (first = m => first' = m) /\ (next = m => next' = m)
  <2>1. pageLoads' = [pageLoads EXCEPT ![n].at = a]
    BY <1>13 DEF Settle
  <2>2. pageLoads[n] \in FolderLoads /\ a \in Ats
    BY <1>2 DEF Ats
  <2> DEFINE l == [pageLoads[n] EXCEPT !.at = a]
  <2>3. l \in FolderLoads /\ l.at = a
    BY <2>2 DEF FolderLoads
  <2>4. pageLoads' = [pageLoads EXCEPT ![n] = l]
    BY <2>1
  <2> HIDE DEF l
  <2>5. pageLoads' \in Seq(FolderLoads) /\ DOMAIN pageLoads' = DOMAIN pageLoads /\ pageLoads'[n].at = a
        /\ \A m \in DOMAIN pageLoads \ {n} : pageLoads'[m] = pageLoads[m]
    BY <1>1, <2>3, <2>4
  <2>6. /\ first' = (IF first = n THEN 0 ELSE first) /\ next' = (IF next = n THEN 0 ELSE next)
    BY <1>13 DEF Settle
  <2> QED BY <1>1, <2>5, <2>6
<1>14. ASSUME NEW n \in DOMAIN pageLoads, NEW a \in {"settled", "failed"}, Settle(n, a),
              UNCHANGED <<allFiles, sent, fileEvents, index>>
       PROVE  FolderInv'
  <2>1. /\ pageLoads' \in Seq(FolderLoads) /\ DOMAIN pageLoads' = DOMAIN pageLoads
        /\ pageLoads'[n].at = a
        /\ \A m \in DOMAIN pageLoads \ {n} : pageLoads'[m] = pageLoads[m]
        /\ first' \in Nat /\ next' \in Nat
        /\ \A m \in DOMAIN pageLoads \ {n} : (first = m => first' = m) /\ (next = m => next' = m)
    BY <1>13, <1>14
  <2>2. a \notin {"asked", "answered"}
    OBVIOUS
  <2> QED BY <1>14, <2>1, <2>2, GoingOnKeeps
<1>15. ASSUME NEW n \in DOMAIN pageLoads, AnswerPage(n) PROVE FolderInv'
  <2> DEFINE l == [pageLoads[n] EXCEPT !.at = "answered", !.page = Page(pageLoads[n].before)]
  <2>1. pageLoads[n] \in FolderLoads /\ pageLoads[n].before \in Nat /\ Page(pageLoads[n].before) \in SUBSET Nat
    BY <1>1, <1>2, PagesFit DEF FolderLoads
  <2>2. /\ l \in FolderLoads /\ l.at = "answered" /\ l.page = Page(pageLoads[n].before)
        /\ l.valid = pageLoads[n].valid /\ l.before = pageLoads[n].before
    BY <2>1 DEF FolderLoads, Ats
  <2>3. pageLoads' = [pageLoads EXCEPT ![n] = l]
    BY <1>15 DEF AnswerPage
  <2>4. pageLoads[n].at = "asked" /\ UNCHANGED <<allFiles, sent, fileEvents, index, first, next>>
    BY <1>15 DEF AnswerPage
  <2> HIDE DEF l
  <2>5. /\ pageLoads' \in Seq(FolderLoads) /\ DOMAIN pageLoads' = DOMAIN pageLoads /\ pageLoads'[n] = l
        /\ \A m \in DOMAIN pageLoads \ {n} : pageLoads'[m] = pageLoads[m]
    BY <1>1, <2>2, <2>3
  <2> QED BY <1>1, <2>2, <2>4, <2>5, GoingOnKeeps
<1>16. ASSUME NEW n \in DOMAIN pageLoads, FirstArrives(n) PROVE FolderInv'
  <2>1. CASE SameIndex(pageLoads[n])
    <3>1. /\ pageLoads[n].valid /\ pageLoads[n].at = "answered" /\ pageLoads[n].before = 0
          /\ index' = Remembered({}, pageLoads[n].page) /\ Settle(n, "settled")
          /\ UNCHANGED <<allFiles, sent, fileEvents>>
      BY <1>16, <2>1 DEF FirstArrives, SameIndex
    <3>2. /\ pageLoads' \in Seq(FolderLoads) /\ DOMAIN pageLoads' = DOMAIN pageLoads
          /\ pageLoads'[n].at = "settled"
          /\ \A m \in DOMAIN pageLoads \ {n} : pageLoads'[m] = pageLoads[m]
          /\ first' \in Nat /\ next' \in Nat
      BY <1>13, <3>1
    <3> QED BY <3>1, <3>2, ArrivingKeeps
  <2>2. CASE ~SameIndex(pageLoads[n])
    BY <1>14, <1>16, <2>2 DEF FirstArrives
  <2> QED BY <2>1, <2>2
<1>17. ASSUME NEW n \in DOMAIN pageLoads, NextArrives(n) PROVE FolderInv'
  <2>1. CASE SameIndex(pageLoads[n])
    <3>1. /\ pageLoads[n].valid /\ pageLoads[n].at = "answered" /\ pageLoads[n].before # 0
          /\ index' = Remembered(index.messages, pageLoads[n].page)
          /\ UNCHANGED <<allFiles, sent, fileEvents>>
      BY <1>17, <2>1 DEF NextArrives, SameIndex
    <3>2. CASE folderOpen /\ pageLoads[n].drawn
      <4> DEFINE l == [pageLoads[n] EXCEPT !.at = "drawn"]
      <4>1. l \in FolderLoads /\ l.at = "drawn"
        BY <1>2 DEF FolderLoads, Ats
      <4>2. pageLoads' = [pageLoads EXCEPT ![n] = l] /\ UNCHANGED <<first, next>>
        BY <1>17, <2>1, <3>2 DEF NextArrives
      <4> HIDE DEF l
      <4>3. /\ pageLoads' \in Seq(FolderLoads) /\ DOMAIN pageLoads' = DOMAIN pageLoads
            /\ pageLoads'[n] = l
            /\ \A m \in DOMAIN pageLoads \ {n} : pageLoads'[m] = pageLoads[m]
        BY <1>1, <4>1, <4>2
      <4> QED BY <1>1, <3>1, <4>1, <4>2, <4>3, ArrivingKeeps
    <3>3. CASE ~(folderOpen /\ pageLoads[n].drawn)
      <4>1. Settle(n, "settled")
        BY <1>17, <3>3 DEF NextArrives
      <4>2. /\ pageLoads' \in Seq(FolderLoads) /\ DOMAIN pageLoads' = DOMAIN pageLoads
            /\ pageLoads'[n].at = "settled"
            /\ \A m \in DOMAIN pageLoads \ {n} : pageLoads'[m] = pageLoads[m]
            /\ first' \in Nat /\ next' \in Nat
        BY <1>13, <4>1
      <4> QED BY <3>1, <4>2, ArrivingKeeps
    <3> QED BY <3>2, <3>3
  <2>2. CASE ~SameIndex(pageLoads[n])
    BY <1>14, <1>17, <2>2 DEF NextArrives
  <2> QED BY <2>1, <2>2
<1>18. ASSUME NEW n \in DOMAIN pageLoads, NamesDecrypted(n) \/ RequestFails(n) PROVE FolderInv'
  BY <1>14, <1>18 DEF NamesDecrypted, RequestFails
<1>19. CASE UNCHANGED folderVars
  BY <1>3, <1>19 DEF folderVars
<1> QED BY <1>4, <1>5, <1>7, <1>9, <1>10, <1>11, <1>12, <1>15, <1>16, <1>17, <1>18, <1>19 DEF FolderNext, LoadStep

-----------------------------------------------------------------------------
(* The requests and the tasks of the folder                                *)

\* The folder starts without a request and without a task.
LEMMA FolderShowsInit == ASSUME FolderInit PROVE FolderShows
  BY DEF FolderInit, FolderShows, NoIndex

\* A request keeps its page, or is answered by files of the server; none is dropped.
LEMMA LoadsChange ==
  ASSUME FolderAssumption, FolderInv, FolderInv', [FolderNext]_folderVars
  PROVE  /\ Len(pageLoads) \in Nat /\ Len(pageLoads') \in Nat /\ Len(pageLoads) <= Len(pageLoads')
         /\ \A n \in DOMAIN pageLoads' :
              \/ pageLoads'[n].page \subseteq allFiles
              \/ n \in DOMAIN pageLoads /\ pageLoads'[n].page = pageLoads[n].page
<1> USE DEF storedVars, indexVars, dialogVars, countVars
<1> DEFINE PageKept(n) == \/ pageLoads'[n].page \subseteq allFiles
                          \/ n \in DOMAIN pageLoads /\ pageLoads'[n].page = pageLoads[n].page
<1>1. pageLoads \in Seq(FolderLoads) /\ pageLoads' \in Seq(FolderLoads) /\ Len(pageLoads) \in Nat /\ Len(pageLoads') \in Nat
  BY DEF FolderInv, FilesFit
<1>2. ASSUME NEW n \in DOMAIN pageLoads
      PROVE  pageLoads[n] \in FolderLoads /\ pageLoads[n].before \in Nat
  <2>1. pageLoads[n] \in FolderLoads
    BY <1>1
  <2>2. QED BY <2>1 DEF FolderLoads
<1>3. ASSUME DOMAIN pageLoads' = DOMAIN pageLoads PROVE Len(pageLoads) <= Len(pageLoads')
  BY <1>1, <1>3
<1>4. CASE UNCHANGED pageLoads
  BY <1>1, <1>4
<1>5. ASSUME NEW b, NEW d, pageLoads' = Append(pageLoads, PageLoad(b, d))
      PROVE  Len(pageLoads) <= Len(pageLoads') /\ \A n \in DOMAIN pageLoads' : PageKept(n)
  <2>1. PageLoad(b, d).page = {}
    BY DEF PageLoad
  <2>2. /\ Len(pageLoads') = Len(pageLoads) + 1
        /\ \A n \in DOMAIN pageLoads' : n \in DOMAIN pageLoads \/ n = Len(pageLoads) + 1
        /\ \A n \in DOMAIN pageLoads : pageLoads'[n] = pageLoads[n]
        /\ pageLoads'[Len(pageLoads) + 1] = PageLoad(b, d)
    BY <1>1, <1>5
  <2>3. QED BY <1>1, <2>1, <2>2
<1>6. CASE HearChange \/ CloseFolder
  <2>1. DOMAIN pageLoads' = DOMAIN pageLoads /\ \A n \in DOMAIN pageLoads : pageLoads'[n].page = pageLoads[n].page
    BY <1>2, <1>6 DEF HearChange, CloseFolder, Undrawn, FolderLoads
  <2>2. QED BY <1>1, <1>3, <2>1
<1>7. ASSUME NEW n \in DOMAIN pageLoads, NEW a, pageLoads' = [pageLoads EXCEPT ![n].at = a]
      PROVE  DOMAIN pageLoads' = DOMAIN pageLoads /\ \A m \in DOMAIN pageLoads : pageLoads'[m].page = pageLoads[m].page
  BY <1>2, <1>7 DEF FolderLoads
<1>8. ASSUME NEW n \in DOMAIN pageLoads, NEW a, Settle(n, a)
      PROVE  DOMAIN pageLoads' = DOMAIN pageLoads /\ \A m \in DOMAIN pageLoads : pageLoads'[m].page = pageLoads[m].page
  BY <1>7, <1>8 DEF Settle
<1>9. ASSUME NEW n \in DOMAIN pageLoads, AnswerPage(n)
      PROVE  DOMAIN pageLoads' = DOMAIN pageLoads /\ \A m \in DOMAIN pageLoads : PageKept(m)
  <2> DEFINE l == [pageLoads[n] EXCEPT !.at = "answered", !.page = Page(pageLoads[n].before)]
  <2>1. Page(pageLoads[n].before) \subseteq allFiles
    BY <1>2, PagesFit DEF FolderInv
  <2>2. l.page = Page(pageLoads[n].before)
    BY <1>2 DEF FolderLoads
  <2>3. pageLoads' = [pageLoads EXCEPT ![n] = l]
    BY <1>9 DEF AnswerPage
  <2> HIDE DEF l
  <2>4. QED BY <2>1, <2>2, <2>3
<1>10. ASSUME NEW n \in DOMAIN pageLoads, LoadStep(n) \/ RequestFails(n)
       PROVE  DOMAIN pageLoads' = DOMAIN pageLoads /\ \A m \in DOMAIN pageLoads : PageKept(m)
  BY <1>7, <1>8, <1>9, <1>10 DEF LoadStep, FirstArrives, NextArrives, NamesDecrypted, RequestFails
<1>11. \/ UNCHANGED pageLoads
       \/ \E b, d : pageLoads' = Append(pageLoads, PageLoad(b, d))
       \/ HearChange \/ CloseFolder
       \/ \E n \in DOMAIN pageLoads : LoadStep(n) \/ RequestFails(n)
  BY DEF FolderNext, folderVars, Change, Preload, OpenFolder, AskFirst, Scroll, AskNext, FirstCame, Draw, Fill
<1> HIDE DEF PageKept
<1>12. Len(pageLoads) <= Len(pageLoads') /\ \A n \in DOMAIN pageLoads' : PageKept(n)
  <2>1. CASE UNCHANGED pageLoads
    BY <1>1, <1>4, <2>1 DEF PageKept
  <2>2. CASE HearChange \/ CloseFolder
    BY <1>6, <2>2 DEF PageKept
  <2>3. ASSUME NEW n \in DOMAIN pageLoads, LoadStep(n) \/ RequestFails(n)
        PROVE  Len(pageLoads) <= Len(pageLoads') /\ \A m \in DOMAIN pageLoads' : PageKept(m)
    BY <1>3, <1>10, <2>3
  <2>4. QED BY <1>5, <1>11, <2>1, <2>2, <2>3
<1>13. QED BY <1>1, <1>12 DEF PageKept

\* Tasks await requests there are, and what they draw are pages that came.
LEMMA TasksStay ==
  ASSUME FolderAssumption, FolderInv, FolderInv', FolderShows, [FolderNext]_folderVars
  PROVE  /\ first' \in 0 .. Len(pageLoads') /\ next' \in 0 .. Len(pageLoads')
         /\ tasks' \subseteq TasksUpTo(Len(pageLoads'))
<1> USE DEF storedVars, indexVars, dialogVars, countVars
<1>1. Len(pageLoads) \in Nat /\ Len(pageLoads') \in Nat /\ Len(pageLoads) <= Len(pageLoads')
  BY LoadsChange
<1>2. ASSUME NEW t \in TasksUpTo(Len(pageLoads)) PROVE t \in TasksUpTo(Len(pageLoads'))
  <2>1. 0 .. Len(pageLoads) \subseteq 0 .. Len(pageLoads')
    BY <1>1
  <2>2. QED BY <2>1 DEF TasksUpTo, TaskTypes
<1>3. tasks \subseteq TasksUpTo(Len(pageLoads'))
  BY <1>2 DEF FolderShows
<1>4. first \in 0 .. Len(pageLoads') /\ next \in 0 .. Len(pageLoads')
  BY <1>1 DEF FolderShows
<1>5. ASSUME NEW t \in TasksUpTo(Len(pageLoads')) PROVE [t EXCEPT !.mine = FALSE] \in TasksUpTo(Len(pageLoads'))
  BY DEF TasksUpTo, TaskTypes
<1>6. OutdatedTasks \subseteq TasksUpTo(Len(pageLoads'))
  BY <1>3, <1>5 DEF OutdatedTasks
<1>7. index.messages \in SUBSET Nat /\ index.before \in Nat /\ \A n \in DOMAIN pageLoads : pageLoads[n].page \in SUBSET Nat
  <2>1. index \in IndexOf /\ \A n \in DOMAIN pageLoads : pageLoads[n] \in FolderLoads
    BY DEF FolderInv, FilesFit
  <2>2. QED BY <2>1 DEF IndexOf, FolderLoads
<1>8. ASSUME NEW n \in 0 .. Len(pageLoads'), NEW a \in {"first", "draw", "fill"}, a = "first" => n # 0
      PROVE  Task(a, n) \in TasksUpTo(Len(pageLoads'))
  <2>1. Task(a, n) \in TaskTypes(Len(pageLoads')) /\ Task(a, n).at = a /\ Task(a, n).load = n
    BY DEF Task, TaskTypes
  <2>2. QED BY <1>8, <2>1 DEF TasksUpTo
<1>9. ASSUME AskFirst, UNCHANGED index PROVE first' \in 0 .. Len(pageLoads') /\ first' # 0 /\ next' = next
  <2>1. CASE first # 0
    BY <1>4, <1>9, <2>1 DEF AskFirst
  <2>2. CASE first = 0
    <3>1. pageLoads' = Append(pageLoads, PageLoad(0, FALSE)) /\ first' = Len(pageLoads) + 1 /\ next' = next
      BY <1>9, <2>2 DEF AskFirst
    <3>2. pageLoads \in Seq(FolderLoads) /\ PageLoad(0, FALSE) \in FolderLoads
      BY DEF FolderInv, FilesFit, PageLoad, FolderLoads, Ats
    <3>3. Len(pageLoads') = Len(pageLoads) + 1
      BY <3>1, <3>2, AppendProperties
    <3>4. QED BY <1>1, <3>1, <3>3
  <2>3. QED BY <2>1, <2>2
<1>10. ASSUME NEW t \in TasksUpTo(Len(pageLoads')), NEW n \in 0 .. Len(pageLoads')
       PROVE  Asked(t, n) \in TasksUpTo(Len(pageLoads'))
  BY <1>7 DEF Asked, TasksUpTo, TaskTypes
<1>11. ASSUME NEW t \in TasksUpTo(Len(pageLoads')), AskNext(t)
       PROVE  /\ first' = first /\ next' \in 0 .. Len(pageLoads')
              /\ tasks' \subseteq TasksUpTo(Len(pageLoads'))
  <2>1. CASE next # 0
    BY <1>3, <1>4, <1>10, <1>11, <2>1 DEF AskNext, TaskBecomes
  <2>2. CASE next = 0
    <3>1. /\ pageLoads' = Append(pageLoads, PageLoad(index.before, TRUE))
          /\ next' = Len(pageLoads) + 1 /\ first' = first
          /\ tasks' = (tasks \ {t}) \cup {Asked(t, Len(pageLoads) + 1)}
      BY <1>11, <2>2 DEF AskNext, TaskBecomes
    <3>2. pageLoads \in Seq(FolderLoads) /\ PageLoad(index.before, TRUE) \in FolderLoads
      BY <1>7 DEF FolderInv, FilesFit, PageLoad, FolderLoads, Ats
    <3>3. Len(pageLoads') = Len(pageLoads) + 1
      BY <3>1, <3>2, AppendProperties
    <3>4. Len(pageLoads) + 1 \in 0 .. Len(pageLoads')
      BY <1>1, <3>3
    <3>5. QED BY <1>3, <1>10, <3>1, <3>4
  <2>3. QED BY <2>1, <2>2
<1>12. CASE OpenFolder
  <2>1. CASE index.loaded
    <3> DEFINE t == [Task("draw", 0) EXCEPT !.page = index.messages]
    <3>1. Task("draw", 0) \in TasksUpTo(Len(pageLoads')) /\ Task("draw", 0).at = "draw"
      <4>1. 0 \in 0 .. Len(pageLoads')
        BY <1>1
      <4>2. Task("draw", 0) \in TasksUpTo(Len(pageLoads'))
        BY <1>8, <4>1
      <4>3. QED BY <4>2 DEF Task
    <3>4. t \in TasksUpTo(Len(pageLoads'))
      BY <1>7, <3>1 DEF TasksUpTo, TaskTypes
    <3>2. tasks' = OutdatedTasks \cup {t} /\ UNCHANGED <<first, next>>
      BY <1>12, <2>1 DEF OpenFolder
    <3> HIDE DEF t
    <3>3. QED BY <1>4, <1>6, <3>2, <3>4
  <2>2. CASE ~index.loaded
    <3>1. AskFirst /\ tasks' = OutdatedTasks \cup {Task("first", first')}
      BY <1>12, <2>2 DEF OpenFolder
    <3>2. first' \in 0 .. Len(pageLoads') /\ first' # 0 /\ next' = next
      BY <1>9, <3>1 DEF AskFirst
    <3>3. QED BY <1>4, <1>6, <1>8, <3>1, <3>2
  <2>3. QED BY <2>1, <2>2
<1>13. CASE CloseFolder
  BY <1>4, <1>6, <1>13 DEF CloseFolder
<1>14. CASE Preload
  <2>1. CASE index.loaded
    BY <1>3, <1>4, <1>14, <2>1 DEF Preload
  <2>2. CASE ~index.loaded
    BY <1>3, <1>4, <1>9, <1>14, <2>2 DEF Preload, AskFirst
  <2>3. QED BY <2>1, <2>2
<1>15. CASE HearChange
  BY <1>1, <1>3, <1>15 DEF HearChange
<1>16. CASE Scroll
  <2>1. AskNext(Task("fill", 0)) /\ Task("fill", 0) \in TasksUpTo(Len(pageLoads'))
    BY <1>1, <1>8, <1>16 DEF Scroll
  <2>2. QED BY <1>4, <1>11, <2>1
<1>17. ASSUME NEW t \in tasks, Fill(t)
       PROVE  /\ first' \in 0 .. Len(pageLoads') /\ next' \in 0 .. Len(pageLoads')
              /\ tasks' \subseteq TasksUpTo(Len(pageLoads'))
  BY <1>3, <1>4, <1>11, <1>17 DEF Fill, TaskEnds
<1>18. ASSUME NEW t \in tasks, FirstCame(t)
       PROVE  UNCHANGED <<first, next>> /\ tasks' \subseteq TasksUpTo(Len(pageLoads'))
  <2>1. UNCHANGED <<first, next>>
    BY <1>18 DEF FirstCame
  <2>2. CASE tasks' = tasks \ {t}
    BY <1>3, <2>1, <2>2
  <2>3. CASE pageLoads[t.load].at = "settled"
    <3> DEFINE x == [t EXCEPT !.at = "draw", !.page = pageLoads[t.load].page]
    <3>1. tasks' = (tasks \ {t}) \cup {x}
      BY <1>18, <2>3 DEF FirstCame, TaskBecomes
    <3>2. t.load \in DOMAIN pageLoads
      <4>1. t \in TasksUpTo(Len(pageLoads)) /\ t.at = "first"
        BY <1>18 DEF FolderShows, FirstCame
      <4>2. t.load \in 1 .. Len(pageLoads)
        BY <1>1, <4>1 DEF TasksUpTo, TaskTypes
      <4>3. DOMAIN pageLoads = 1 .. Len(pageLoads)
        BY DEF FolderInv, FilesFit
      <4>4. QED BY <4>2, <4>3
    <3>3. pageLoads[t.load].page \in SUBSET Nat /\ t \in TasksUpTo(Len(pageLoads'))
      BY <1>3, <1>7, <3>2
    <3>4. x \in TasksUpTo(Len(pageLoads'))
      BY <3>3 DEF TasksUpTo, TaskTypes
    <3> HIDE DEF x
    <3>5. QED BY <1>3, <2>1, <3>1, <3>4
  <2>4. QED BY <1>18, <2>2, <2>3 DEF FirstCame, TaskEnds
<1>19. ASSUME NEW t \in tasks, Draw(t)
       PROVE  UNCHANGED <<first, next>> /\ tasks' \subseteq TasksUpTo(Len(pageLoads'))
  <2> DEFINE x == [t EXCEPT !.at = "fill", !.page = {}]
  <2>1. x \in TasksUpTo(Len(pageLoads'))
    <3>1. t \in TasksUpTo(Len(pageLoads'))
      BY <1>3
    <3>2. QED BY <3>1 DEF TasksUpTo, TaskTypes
  <2>2. UNCHANGED <<first, next>> /\ (tasks' = (tasks \ {t}) \cup {x} \/ tasks' = tasks \ {t})
    BY <1>19 DEF Draw, TaskBecomes, TaskEnds
  <2> HIDE DEF x
  <2>3. QED BY <1>3, <2>1, <2>2
<1>20. ASSUME NEW n \in DOMAIN pageLoads, LoadStep(n) \/ RequestFails(n)
       PROVE  first' \in {first, 0} /\ next' \in {next, 0} /\ tasks' \subseteq tasks
  BY <1>20 DEF LoadStep, AnswerPage, FirstArrives, NextArrives, NamesDecrypted, RequestFails, Settle
<1>21. \/ UNCHANGED <<first, next, tasks>>
       \/ HearChange \/ Preload \/ OpenFolder \/ CloseFolder \/ Scroll
       \/ \E n \in DOMAIN pageLoads : LoadStep(n) \/ RequestFails(n)
       \/ \E t \in tasks : FirstCame(t) \/ Draw(t) \/ Fill(t)
  BY DEF FolderNext, folderVars, Change
<1>22. CASE UNCHANGED <<first, next, tasks>>
  BY <1>3, <1>4, <1>22
<1>23. ASSUME NEW n \in DOMAIN pageLoads, LoadStep(n) \/ RequestFails(n)
       PROVE  /\ first' \in 0 .. Len(pageLoads') /\ next' \in 0 .. Len(pageLoads')
              /\ tasks' \subseteq TasksUpTo(Len(pageLoads'))
  BY <1>1, <1>3, <1>4, <1>20, <1>23
<1>24. ASSUME NEW t \in tasks, FirstCame(t) \/ Draw(t)
       PROVE  /\ first' \in 0 .. Len(pageLoads') /\ next' \in 0 .. Len(pageLoads')
              /\ tasks' \subseteq TasksUpTo(Len(pageLoads'))
  BY <1>4, <1>18, <1>19, <1>24
<1>25. QED BY <1>12, <1>13, <1>14, <1>15, <1>16, <1>17, <1>21, <1>22, <1>23, <1>24

\* Every step keeps them.
LEMMA FolderShowsNext ==
  ASSUME FolderAssumption, FolderInv, FolderInv', FolderShows, [FolderNext]_folderVars
  PROVE  FolderShows'
<1> USE DEF storedVars, indexVars, dialogVars, countVars
<1>1. sent \in Nat /\ sent' \in Nat /\ sent <= sent'
  <2>1. sent \in Nat /\ sent' \in {sent, sent + 1}
    BY DEF FolderInv, FilesFit, FolderNext, folderVars, Change, HearChange, Preload, OpenFolder, AskFirst, CloseFolder,
           Scroll, AskNext, LoadStep, AnswerPage, FirstArrives, NextArrives, NamesDecrypted, RequestFails,
           FirstCame, Draw, Fill
  <2>2. QED BY <2>1
<1>2. 1 .. sent \subseteq 1 .. sent'
  BY <1>1
<1>3. \A n \in DOMAIN pageLoads : pageLoads[n].page \subseteq 1 .. sent
  BY DEF FolderShows
<1>4. \A n \in DOMAIN pageLoads' : pageLoads'[n].page \subseteq 1 .. sent'
  <2>1. allFiles \subseteq 1 .. sent
    BY DEF FolderInv, FilesFit
  <2>2. QED BY <1>2, <1>3, <2>1, LoadsChange
<1>5. ASSUME NEW n \in DOMAIN pageLoads, NEW M, M \in {{}, index.messages}, index' = Remembered(M, pageLoads[n].page)
      PROVE  index'.messages \subseteq 1 .. sent
  <2>1. index'.messages = M \cup pageLoads[n].page
    BY <1>5 DEF Remembered
  <2>2. M \subseteq 1 .. sent
    BY <1>5 DEF FolderShows
  <2>3. QED BY <1>3, <2>1, <2>2
<1>6. \/ index' = index \/ index' = NoIndex
      \/ \E n \in DOMAIN pageLoads, M \in {{}, index.messages} : index' = Remembered(M, pageLoads[n].page)
  <2>1. ASSUME NEW n \in DOMAIN pageLoads, FirstArrives(n) \/ NextArrives(n)
        PROVE  \/ index' = index
               \/ \E M \in {{}, index.messages} : index' = Remembered(M, pageLoads[n].page)
    BY <2>1 DEF FirstArrives, NextArrives
  <2>2. \/ index' \in {index, NoIndex}
        \/ \E n \in DOMAIN pageLoads : FirstArrives(n) \/ NextArrives(n)
    BY DEF FolderNext, folderVars, Change, HearChange, Preload, OpenFolder, AskFirst, CloseFolder,
           Scroll, AskNext, LoadStep, AnswerPage, NamesDecrypted, RequestFails, FirstCame, Draw, Fill
  <2>3. QED BY <2>1, <2>2
<1>7. index'.messages \subseteq 1 .. sent'
  <2>1. index.messages \subseteq 1 .. sent /\ NoIndex.messages = {}
    BY DEF FolderShows, NoIndex
  <2>2. QED BY <1>2, <1>5, <1>6, <2>1
<1>8. QED BY <1>4, <1>7, TasksStay DEF FolderShows

\* The types follow.
LEMMA FolderFollows == ASSUME FolderInv, FolderShows PROVE FolderTypeOK
<1>1. ASSUME NEW t \in tasks PROVE t.load \in 0 .. Len(pageLoads)
  <2>1. t \in TasksUpTo(Len(pageLoads))
    BY DEF FolderShows
  <2>2. QED BY <2>1 DEF TasksUpTo, TaskTypes
<1>2. QED BY <1>1 DEF FolderInv, FilesFit, FolderShows, FolderTypeOK
=============================================================================
