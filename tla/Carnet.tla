-------------------------------- MODULE Carnet --------------------------------
(***************************************************************************)
(* The address book of the people the user has talked to (app.js): the      *)
(* entries the server keeps, the copy of the page, which openCarnet,        *)
(* refreshAll and refreshConversationList load each in their own way, and   *)
(* the dialog that lists them and deletes those of ended conversations.     *)
(* carnetLoadVersion is the flag of a load that is still the last one. The  *)
(* conversation that an entry resumes only counts for the active entries.   *)
(***************************************************************************)
EXTENDS Naturals, Sequences, FiniteSets

CONSTANTS
  People,     \* the people of the user's conversations, past or present
  MaxChanges, \* bound: conversations begun or left
  MaxLoads,   \* bound: requests for the entries
  MaxDeletions, \* bound: deletions the user confirms
  MaxErrors   \* bound: requests that fail

CarnetAssumption == {MaxChanges, MaxLoads, MaxDeletions, MaxErrors} \subseteq Nat

VARIABLES
  book,      \* carnet_entries
  present,    \* the people of a present conversation
  changes,
  cached,    \* state.carnet
  loaded,    \* state.carnetLoaded
  dialogOpen,    \* the dialog is open
  list,      \* what it shows: its entries, that they are loading, that they failed
  busy,      \* aria-busy of the list
  loads,     \* the requests for the entries
  deletions, \* deleteCarnetEntry and deleteAllCarnetEntries, once confirmed
  deleted,   \* history: number of deletions
  forgotten, \* history: the people whose deletion the page was told, and whom the server did not note again
  errors

serverVars == <<book, present, changes>>
pageVars == <<cached, loaded, dialogOpen, list, busy>>
carnetVars == <<serverVars, pageVars, loads, deletions, deleted, forgotten, errors>>

Entry(p) == [of |-> p, active |-> p \in present]
Listed(entries) == [shown |-> "entries", entries |-> entries]
Told(what) == [shown |-> what, entries |-> {}]
Of(entries) == {e.of : e \in entries}

CarnetInit ==
  /\ present \in SUBSET People
  /\ book = People /\ changes = 0
  /\ cached = {} /\ loaded = FALSE
  /\ dialogOpen = FALSE /\ list = Told("nothing") /\ busy = FALSE
  /\ loads = <<>> /\ deletions = {} /\ deleted = 0 /\ forgotten = {} /\ errors = 0

\* A conversation begins or ends; carnet.Sync notes its members with the next list.
Converse(p) ==
  /\ changes < MaxChanges /\ changes' = changes + 1
  /\ present' = IF p \in present THEN present \ {p} ELSE present \cup {p}
  /\ forgotten' = forgotten \ {p}
  /\ UNCHANGED <<book, pageVars, loads, deletions, deleted, errors>>

-----------------------------------------------------------------------------
(* The loads                                                               *)

\* had: the list showed the entries of the page when it asked.
Load(kind, had) == [kind |-> kind, had |-> had, valid |-> TRUE, at |-> "asked", entries |-> {}]
Outdated == [n \in DOMAIN loads |-> [loads[n] EXCEPT !.valid = FALSE]]
Versioned(kind) == kind # "list"

\* openCarnet
Open ==
  /\ ~dialogOpen /\ Len(loads) < MaxLoads
  /\ dialogOpen' = TRUE /\ busy' = TRUE
  /\ list' = IF loaded THEN Listed(cached) ELSE Told("loading")
  /\ loads' = Append(Outdated, Load("open", loaded))
  /\ UNCHANGED <<serverVars, cached, loaded, deletions, deleted, forgotten, errors>>

Close ==
  /\ dialogOpen
  /\ dialogOpen' = FALSE /\ busy' = FALSE
  /\ loads' = Outdated
  /\ UNCHANGED <<serverVars, cached, loaded, list, deletions, deleted, forgotten, errors>>

\* refreshCarnetInBackground, with every refreshAll.
RefreshCarnet ==
  /\ Len(loads) < MaxLoads
  /\ loads' = Append(Outdated, Load("refresh", FALSE))
  /\ UNCHANGED <<serverVars, pageVars, deletions, deleted, forgotten, errors>>

\* refreshConversationList: the version is neither taken nor compared.
RefreshList ==
  /\ Len(loads) < MaxLoads
  /\ loads' = Append(loads, Load("list", FALSE))
  /\ UNCHANGED <<serverVars, pageVars, deletions, deleted, forgotten, errors>>

\* CarnetList: Sync, then the entries.
Answer(n) ==
  /\ loads[n].at = "asked"
  /\ book' = book \cup present
  /\ loads' = [loads EXCEPT ![n].at = "answered", ![n].entries = {Entry(p) : p \in book \cup present}]
  /\ UNCHANGED <<present, changes, pageVars, deletions, deleted, forgotten, errors>>

Arrive(n) ==
  LET l == loads[n] IN
  /\ l.at = "answered"
  /\ loads' = [loads EXCEPT ![n].at = "done"]
  /\ IF Versioned(l.kind) /\ ~l.valid THEN UNCHANGED pageVars
     ELSE /\ cached' = l.entries /\ loaded' = TRUE
          /\ IF l.kind = "open" THEN list' = Listed(l.entries) /\ busy' = FALSE ELSE UNCHANGED <<list, busy>>
          /\ UNCHANGED dialogOpen
  /\ UNCHANGED <<serverVars, deletions, deleted, forgotten, errors>>

LoadFails(n) ==
  LET l == loads[n] IN
  /\ l.at = "asked"
  /\ errors < MaxErrors /\ errors' = errors + 1
  /\ loads' = [loads EXCEPT ![n].at = "done"]
  /\ IF l.kind = "open" /\ l.valid
       THEN /\ busy' = FALSE
            /\ list' = IF l.had THEN list ELSE Told("failed")
       ELSE UNCHANGED <<list, busy>>
  /\ UNCHANGED <<serverVars, cached, loaded, dialogOpen, deletions, deleted, forgotten>>

-----------------------------------------------------------------------------
(* The deletions                                                           *)

\* who: those the user confirms to delete; gone: those the server deleted.
Confirm(who) ==
  /\ deleted < MaxDeletions /\ deleted' = deleted + 1
  /\ dialogOpen /\ list.shown = "entries"
  /\ deletions' = deletions \cup {[who |-> who, at |-> "asked", gone |-> {}]}
  /\ UNCHANGED <<serverVars, pageVars, loads, forgotten, errors>>

Everyone == "everyone"
Delete(p) == (\E e \in list.entries : e.of = p /\ ~e.active) /\ Confirm(p)
DeleteAll == (\E e \in cached : ~e.active) /\ Confirm(Everyone)

\* CarnetDelete refuses the entry of a present conversation; CarnetDeleteAll
\* leaves them.
ServerDeletes(d) ==
  LET gone == (IF d.who = Everyone THEN book ELSE book \cap {d.who}) \ present IN
  /\ d.at = "asked"
  /\ IF d.who # Everyone /\ gone = {}
       THEN /\ deletions' = deletions \ {d}
            /\ UNCHANGED book
       ELSE /\ deletions' = (deletions \ {d}) \cup {[d EXCEPT !.at = "answered", !.gone = gone]}
            /\ book' = book \ gone
  /\ UNCHANGED <<present, changes, pageVars, loads, deleted, forgotten, errors>>

VersionKept == loads   \* mutant: a deletion lets the loads under way answer
VersionMoved == Outdated

Kept(d) == IF d.who = Everyone THEN {e \in cached : e.active} ELSE {e \in cached : e.of # d.who}

DeletionArrives(d) ==
  /\ d.at = "answered"
  /\ deletions' = deletions \ {d}
  /\ loads' = VersionMoved
  /\ cached' = Kept(d) /\ loaded' = TRUE
  /\ list' = Listed(cached') /\ busy' = FALSE
  /\ forgotten' = forgotten \cup (d.gone \ (Of(cached') \cup book \cup present))
  /\ UNCHANGED <<serverVars, dialogOpen, deleted, errors>>

-----------------------------------------------------------------------------

CarnetNext ==
  \/ Open \/ Close \/ RefreshCarnet \/ RefreshList
  \/ \E p \in People : Converse(p) \/ Delete(p)
  \/ DeleteAll
  \/ \E n \in DOMAIN loads : Answer(n) \/ Arrive(n) \/ LoadFails(n)
  \/ \E d \in deletions : ServerDeletes(d) \/ DeletionArrives(d)

CarnetSpec == CarnetInit /\ [][CarnetNext]_carnetVars

-----------------------------------------------------------------------------
(* Properties                                                              *)

CarnetTypeOK ==
  /\ book \subseteq People /\ present \subseteq People /\ forgotten \subseteq People
  /\ Of(cached) \subseteq People /\ Of(list.entries) \subseteq People
  /\ list.shown \in {"nothing", "loading", "failed", "entries"}
  /\ cached # {} => loaded
  /\ \A n \in DOMAIN loads : loads[n].kind \in {"open", "refresh", "list"}

\* Someone whose deletion was confirmed does not come back to the address book
\* of the page with an answer that compares the versions (app.js 8388 ff.). The
\* refresh of the list of conversations compares none, and does bring a deleted
\* entry back when its answer is late (app.js 3385-3393).
ComesBack == Of(cached') \cap forgotten # {} /\ Of(cached) \cap forgotten = {}
StaysAway == ComesBack => \E n \in DOMAIN loads : loads[n].kind = "list" /\ loads'[n] # loads[n]
DeletedStaysAway == [][StaysAway]_carnetVars
=============================================================================
