------------------------------ MODULE FileShares ------------------------------
(***************************************************************************)
(* The temporary links to the files of the folder (app.js, file-share       *)
(* dialog): opening the dialog of a file, which lists its active links,      *)
(* creating a link, whose token the browser draws so that it finds it again  *)
(* when the answer is lost, and revoking one. fileShareOpenVersion is the    *)
(* flag of an opening that is still the last one. The links expire in the    *)
(* server, which is left out; what the links encrypt is left out too.        *)
(***************************************************************************)
EXTENDS Naturals, Sequences, FiniteSets

CONSTANTS
  SharedFiles,
  NoFile,
  MaxLinks,    \* bound: links ever drawn
  MaxDialogs, \* bound: openings of the dialog
  MaxLosses   \* bound: requests or answers lost

SharesAssumption ==
  /\ {MaxDialogs, MaxLosses} \subseteq Nat /\ MaxLinks \in Nat \ {0}
  /\ SharedFiles # {} /\ NoFile \notin SharedFiles

VARIABLES
  links,     \* file_shares, as [of |-> the file, active |-> ...]; 0 is no link
  counts,    \* active_share_count of the files, in the folder
  sharesOpen, \* the dialog is open
  sharedFile, \* state.pendingFileShare
  madeLink,  \* state.activeFileShareID
  address,   \* the link in fileShareURL
  listedLinks, \* the links of fileShareExistingList
  listings,  \* openFileShareDialog, while it loads the links of its file
  creation,  \* createFileShare
  revoking,  \* the revocations: of the created link, of a listed one
  dialogs, losses

shareDialogVars == <<sharesOpen, sharedFile, madeLink, address, listedLinks>>
sharesVars == <<links, counts, shareDialogVars, listings, creation, revoking, dialogs, losses>>

NotCreating == [at |-> "none", of |-> NoFile, link |-> 0]
ActiveLinks(f) == {n \in DOMAIN links : links[n].of = f /\ links[n].active}

SharesInit ==
  /\ links = <<[of |-> CHOOSE f \in SharedFiles : TRUE, active |-> TRUE]>>
  /\ counts = [f \in SharedFiles |-> Cardinality(ActiveLinks(f))]
  /\ sharesOpen = FALSE /\ sharedFile = NoFile /\ madeLink = 0 /\ address = 0 /\ listedLinks = {}
  /\ listings = {} /\ creation = NotCreating /\ revoking = {} /\ dialogs = 0 /\ losses = 0

Loses == losses < MaxLosses /\ losses' = losses + 1

-----------------------------------------------------------------------------
(* The dialog                                                              *)

OutdatedListings == {[l EXCEPT !.valid = FALSE] : l \in listings}

\* openFileShareDialog, up to its request.
OpenShares(f) ==
  /\ dialogs < MaxDialogs /\ dialogs' = dialogs + 1
  /\ ~sharesOpen
  /\ ~\E l \in listings : l.of = f /\ sharedFile = f
  /\ listings' = OutdatedListings \cup {[n |-> dialogs, of |-> f, valid |-> TRUE, at |-> "asked", found |-> {}]}
  /\ sharedFile' = f /\ madeLink' = 0 /\ address' = 0 /\ listedLinks' = {}
  /\ UNCHANGED <<links, counts, sharesOpen, creation, revoking, losses>>

ListAnswer(l) ==
  /\ l.at = "asked"
  /\ listings' = (listings \ {l}) \cup {[l EXCEPT !.at = "answered", !.found = ActiveLinks(l.of)]}
  /\ UNCHANGED <<links, counts, shareDialogVars, creation, revoking, dialogs, losses>>

LatestOpening(l) == l.valid /\ sharedFile = l.of

\* The links are decrypted between the answer and the list.
ListArrives(l) ==
  /\ l.at = "answered"
  /\ listings' = listings \ {l}
  /\ IF LatestOpening(l)
       THEN /\ counts' = [counts EXCEPT ![l.of] = Cardinality(l.found)]
            /\ listedLinks' = l.found /\ sharesOpen' = TRUE
       ELSE UNCHANGED <<counts, listedLinks, sharesOpen>>
  /\ UNCHANGED <<links, sharedFile, madeLink, address, creation, revoking, dialogs, losses>>

ListFails(l) ==
  /\ l.at = "asked" /\ Loses
  /\ listings' = listings \ {l}
  /\ IF LatestOpening(l) THEN sharedFile' = NoFile /\ listedLinks' = {} ELSE UNCHANGED <<sharedFile, listedLinks>>
  /\ UNCHANGED <<links, counts, sharesOpen, madeLink, address, creation, revoking, dialogs>>

CloseShares ==
  /\ sharesOpen
  /\ sharesOpen' = FALSE /\ sharedFile' = NoFile /\ madeLink' = 0
  /\ listings' = OutdatedListings
  /\ UNCHANGED <<links, counts, address, listedLinks, creation, revoking, dialogs, losses>>

-----------------------------------------------------------------------------
(* Creating a link                                                         *)

\* The button stays busy until the end.
CreateLink ==
  /\ sharesOpen /\ sharedFile # NoFile /\ madeLink = 0
  /\ creation = NotCreating /\ Len(links) < MaxLinks
  /\ creation' = [at |-> "asked", of |-> sharedFile, link |-> 0]
  /\ UNCHANGED <<links, counts, shareDialogVars, listings, revoking, dialogs, losses>>

\* The file is encrypted and posted. The server may keep the link and lose its
\* answer, or lose the request.
ServerCreates ==
  /\ creation.at = "asked"
  /\ links' = Append(links, [of |-> creation.of, active |-> TRUE])
  /\ \/ creation' = [creation EXCEPT !.at = "answered", !.link = Len(links) + 1] /\ UNCHANGED losses
     \/ creation' = [creation EXCEPT !.at = "lost", !.link = Len(links) + 1] /\ Loses
  /\ UNCHANGED <<counts, shareDialogVars, listings, revoking, dialogs>>
RequestLost ==
  /\ creation.at = "asked" /\ Loses
  /\ creation' = [creation EXCEPT !.at = "lost"]
  /\ UNCHANGED <<links, counts, shareDialogVars, listings, revoking, dialogs>>

FoundAgain ==
  IF creation.link # 0 /\ links[creation.link].active THEN "answered" ELSE "failed"

\* The link is looked for by its token.
RecoverLink ==
  /\ creation.at = "lost"
  /\ \/ creation' = [creation EXCEPT !.at = FoundAgain] /\ UNCHANGED losses
     \/ creation' = [creation EXCEPT !.at = "failed"] /\ Loses
  /\ UNCHANGED <<links, counts, shareDialogVars, listings, revoking, dialogs>>

\* A token nobody registered is a link that does not exist.
NoSuchLink == MaxLinks + 1

CreateArrives ==
  /\ creation.at = "answered"
  /\ creation' = NotCreating
  /\ address' = IF creation.link = 0 THEN NoSuchLink ELSE creation.link
  /\ madeLink' = address'
  /\ listedLinks' = {}
  /\ counts' = [counts EXCEPT ![creation.of] = @ + 1]
  /\ UNCHANGED <<links, sharesOpen, sharedFile, listings, revoking, dialogs, losses>>

CreateFails ==
  /\ creation.at = "failed"
  /\ creation' = NotCreating
  /\ UNCHANGED <<links, counts, shareDialogVars, listings, revoking, dialogs, losses>>

-----------------------------------------------------------------------------
(* Revoking a link                                                         *)

\* revokeFileShare, or the button of a link of the list; of: the file whose
\* links were listed when the button was drawn.
Revoke ==
  /\ sharesOpen /\ madeLink # 0 /\ ~\E r \in revoking : r.kind = "created"
  /\ revoking' = revoking \cup {[kind |-> "created", link |-> madeLink, of |-> NoFile, at |-> "asked"]}
  /\ UNCHANGED <<links, counts, shareDialogVars, listings, creation, dialogs, losses>>
RevokeListed(n) ==
  /\ sharesOpen /\ n \in listedLinks /\ ~\E r \in revoking : r.link = n
  /\ revoking' = revoking \cup {[kind |-> "listed", link |-> n, of |-> links[n].of, at |-> "asked"]}
  /\ UNCHANGED <<links, counts, shareDialogVars, listings, creation, dialogs, losses>>

ServerRevokes(r) ==
  /\ r.at = "asked" /\ r.link \in DOMAIN links
  /\ links' = [links EXCEPT ![r.link].active = FALSE]
  /\ revoking' = (revoking \ {r}) \cup {[r EXCEPT !.at = "answered"]}
  /\ UNCHANGED <<counts, shareDialogVars, listings, creation, dialogs, losses>>

RevokeArrives(r) ==
  /\ r.at = "answered"
  /\ revoking' = revoking \ {r}
  /\ IF r.kind = "created"
       THEN /\ madeLink' = 0 /\ address' = 0
            /\ IF sharedFile = NoFile THEN UNCHANGED <<counts, listedLinks>>
               ELSE /\ counts' = [counts EXCEPT ![sharedFile] = IF @ = 0 THEN 0 ELSE @ - 1]
                    /\ listedLinks' = {}
       ELSE /\ listedLinks' = listedLinks \ {r.link}
            /\ counts' = [counts EXCEPT ![r.of] = Cardinality(listedLinks')]
            /\ UNCHANGED <<madeLink, address>>
  /\ UNCHANGED <<links, sharesOpen, sharedFile, listings, creation, dialogs, losses>>

RevokeFails(r) ==
  /\ r.at = "asked" /\ Loses
  /\ revoking' = revoking \ {r}
  /\ UNCHANGED <<links, counts, shareDialogVars, listings, creation, dialogs>>

-----------------------------------------------------------------------------

SharesNext ==
  \/ \E f \in SharedFiles : OpenShares(f)
  \/ \E l \in listings : ListAnswer(l) \/ ListArrives(l) \/ ListFails(l)
  \/ CloseShares \/ CreateLink \/ ServerCreates \/ RequestLost \/ RecoverLink \/ CreateArrives \/ CreateFails
  \/ Revoke \/ \E n \in listedLinks : RevokeListed(n)
  \/ \E r \in revoking : ServerRevokes(r) \/ RevokeArrives(r) \/ RevokeFails(r)

SharesSpec == SharesInit /\ [][SharesNext]_sharesVars

-----------------------------------------------------------------------------
(* Properties                                                              *)

SharesTypeOK ==
  /\ \A n \in DOMAIN links : links[n].of \in SharedFiles
  /\ \A f \in SharedFiles : counts[f] \in 0 .. MaxLinks + 1
  /\ sharedFile \in SharedFiles \cup {NoFile}
  /\ listedLinks \subseteq DOMAIN links
  /\ creation.at \in {"none", "asked", "lost", "answered", "failed"}

\* A link the dialog gives to copy is one the server registered, whatever was
\* lost while it was created.
LinksExist == address # 0 => address \in DOMAIN links

\* The links listed as revocable in the dialog are those of its file.
ListedLinksAreOfTheFile == sharesOpen => \A n \in listedLinks : links[n].of = sharedFile
=============================================================================
