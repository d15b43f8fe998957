------------------------------ MODULE FileCache ------------------------------
(***************************************************************************)
(* The decrypted files and thumbnails of the conversation on screen        *)
(* (loadDecryptedFile, loadDecryptedFileThumbnail, preparedPDFThumbnail and*)
(* clearFileCache of web/js/app.js).  A browser keeps what an object URL   *)
(* names until the URL is revoked: a URL nothing refers to any more is a   *)
(* decrypted file kept in memory for as long as the page lives.            *)
(***************************************************************************)
EXTENDS Naturals, FiniteSets

CONSTANTS
    Files,      \* files shown whole, in state.files
    Thumbs,     \* thumbnails, in state.fileThumbnails
    MaxFetches,   \* bound: loads started
    MaxClears   \* bound: conversations left

CacheBounds == Files \cap Thumbs = {} /\ {MaxFetches, MaxClears} \subseteq Nat

VARIABLES
    generation, \* state.fileCacheGeneration
    entry,      \* the URL the cache holds for a file or a thumbnail
    shared,     \* the load that later requests join
    fetches,      \* loads on their way, with the generation they began in
    display,    \* displayURL: the cropped image of a thumbnail, by its URL
    crops,      \* displayLoad: thumbnails being cropped, by URL
    revoked,    \* thumbnails whose object is marked revoked
    alive,      \* object URLs created and not revoked
    created,    \* URLs created so far: their names
    removed     \* files of messages deleted here

cacheVars == <<generation, entry, shared, fetches, display, crops, revoked, alive, created, removed>>

Entries == Files \cup Thumbs
NoURL == 0
Held == {entry[f] : f \in Entries} \ {NoURL}
DisplayFile(u) == {p[2] : p \in {q \in display : q[1] = u}}

-----------------------------------------------------------------------------
(* A preview or a download asks for a file: the cached one, the load under *)
(* way, or a new one. *)
AskFile(f) ==
    /\ f \notin removed
    /\ entry[f] = NoURL /\ shared[f] = 0
    /\ Cardinality(fetches) + created < MaxFetches
    /\ LET id == CHOOSE i \in 1..MaxFetches : \A l \in fetches : l.id # i IN
         /\ fetches' = fetches \cup {[file |-> f, began |-> generation, id |-> id]}
         /\ shared' = [shared EXCEPT ![f] = id]
    /\ UNCHANGED <<generation, entry, display, crops, revoked, alive, created, removed>>

Ended(l) ==
    /\ fetches' = fetches \ {l}
    /\ shared' = [shared EXCEPT ![l.file] = IF @ = l.id THEN 0 ELSE @]

(* The file is fetched, checked and decrypted; its URL is created, kept if *)
(* the cache was not cleared meanwhile, revoked otherwise. *)
AnyGeneration(l) == TRUE            \* mutant: a load of a conversation left
SameGeneration(l) == l.began = generation

FileLoaded(l) ==
    /\ Ended(l)
    /\ created' = created + 1
    /\ IF SameGeneration(l)
         THEN /\ entry' = [entry EXCEPT ![l.file] = created + 1]
              /\ alive' = alive \cup {created + 1}
         ELSE UNCHANGED <<entry, alive>>
    /\ UNCHANGED <<generation, display, crops, revoked, removed>>

(* The network, a signature or the decryption fails. *)
FetchFails(l) ==
    /\ Ended(l)
    /\ UNCHANGED <<generation, entry, display, crops, revoked, alive, created, removed>>

(* preparedPDFThumbnail: the image of a PDF is cropped once. *)
Crop(f) ==
    /\ f \in Thumbs /\ entry[f] # NoURL
    /\ DisplayFile(entry[f]) = {} /\ entry[f] \notin crops
    /\ crops' = crops \cup {entry[f]}
    /\ UNCHANGED <<generation, entry, shared, fetches, display, revoked, alive, created, removed>>

(* The cropped image is drawn: under a URL of its own when it differs. *)
StillWanted(u) == u \notin revoked

Cropped(u, differs) ==
    /\ u \in crops
    /\ crops' = crops \ {u}
    /\ IF StillWanted(u)
         THEN /\ created' = IF differs THEN created + 1 ELSE created
              /\ display' = display \cup {<<u, IF differs THEN created' ELSE u>>}
              /\ alive' = IF differs THEN alive \cup {created'} ELSE alive
         ELSE UNCHANGED <<display, alive, created>>
    /\ UNCHANGED <<generation, entry, shared, fetches, revoked, removed>>

CropFails(u) ==
    /\ u \in crops
    /\ crops' = crops \ {u}
    /\ UNCHANGED <<generation, entry, shared, fetches, display, revoked, alive, created, removed>>

(* revokeFileThumbnail, URL.revokeObjectURL. *)
UrlRevoked(urls) == alive \ (urls \cup UNION {DisplayFile(u) : u \in urls})

(* clearFileCache: another conversation is shown, or none. *)
Clear ==
    /\ generation < MaxClears
    /\ generation' = generation + 1
    /\ alive' = UrlRevoked(Held)
    /\ revoked' = (revoked \cup {entry[f] : f \in Thumbs}) \ {NoURL}
    /\ entry' = [f \in Entries |-> NoURL]
    /\ shared' = [f \in Entries |-> 0]
    /\ UNCHANGED <<fetches, display, crops, created, removed>>

(* deleteMessage: the user deletes the message of a file. *)
DeleteFile(f) ==
    /\ f \notin removed
    /\ removed' = removed \cup {f}
    /\ alive' = UrlRevoked({entry[f]})
    /\ revoked' = IF f \in Thumbs THEN (revoked \cup {entry[f]}) \ {NoURL} ELSE revoked
    /\ entry' = [entry EXCEPT ![f] = NoURL]
    /\ shared' = [shared EXCEPT ![f] = 0]
    /\ UNCHANGED <<generation, fetches, display, crops, created>>

-----------------------------------------------------------------------------
CacheInit ==
    /\ generation = 0 /\ created = 0
    /\ entry = [f \in Entries |-> NoURL]
    /\ shared = [f \in Entries |-> 0]
    /\ fetches = {} /\ display = {} /\ crops = {} /\ revoked = {} /\ alive = {} /\ removed = {}

CacheNext ==
    \/ \E f \in Entries : AskFile(f) \/ Crop(f) \/ DeleteFile(f)
    \/ \E l \in fetches : FileLoaded(l) \/ FetchFails(l)
    \/ \E u \in crops : CropFails(u) \/ \E differs \in BOOLEAN : Cropped(u, differs)
    \/ Clear

CacheSpec == CacheInit /\ [][CacheNext]_cacheVars

-----------------------------------------------------------------------------
CacheTypeOK ==
    /\ entry \in [Entries -> 0..created] /\ alive \subseteq 1..created
    /\ Held \subseteq alive
    /\ crops \subseteq 1..created /\ revoked \subseteq 1..created
    /\ \A l \in fetches : l.file \in Entries /\ l.began <= generation

(* Whatever loads, crops, deletions and conversations cross, every object URL *)
(* still alive is one the cache will revoke: no decrypted file is left behind *)
(* (app.js 706-722, 9796-9807, 9841-9851, 9955-9962).                         *)
NoFileIsLeftBehind == alive \subseteq Held \cup UNION {DisplayFile(u) : u \in Held}
=============================================================================
