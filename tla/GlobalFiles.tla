------------------------------ MODULE GlobalFiles ------------------------------
(***************************************************************************)
(* The folder of every file of the user's conversations (app.js): an index  *)
(* loaded page by page and invalidated by the events of the socket, and the *)
(* dialog that shows it. A file is the number of its message, and a page the *)
(* set of its files. The requests are numbered; globalFilesGeneration and    *)
(* globalFilesLoadVersion are flags of a request or a task, cleared when the *)
(* counter moves on. What the names of the files decrypt to is left out; the *)
(* awaits of it are kept.                                                    *)
(***************************************************************************)
EXTENDS Naturals, Sequences, FiniteSets, FiniteSetsExt

CONSTANTS
  PageSize,    \* GLOBAL_FILES_PAGE_SIZE
  Fits,        \* the rows that fill the viewport of the dialog
  OldFiles,    \* the files there are when the page opens
  MaxFileChanges,  \* bound: files sent or deleted while the page is open
  MaxFolderOpenings, \* bound: clicks on the folder
  MaxScrolls,  \* bound: scrolls down to the end of the list
  MaxRequestFaults    \* bound: requests that fail

FolderAssumption ==
  /\ {OldFiles, MaxFileChanges, MaxFolderOpenings, MaxScrolls, MaxRequestFaults} \subseteq Nat
  /\ {PageSize, Fits} \subseteq Nat \ {0}

VARIABLES
  allFiles,       \* the files of the server
  sent,        \* the number of files ever sent
  fileChanges,
  fileEvents,      \* the changes whose event is on its way
  index,       \* globalFileMessages, globalFilesLoaded, globalFilesHasMore, globalFilesNextBefore
  pageLoads,       \* the requests
  first, next, \* globalFilesFirstPageLoad and globalFilesNextPageLoad, 0 for none
  scheduled,   \* globalFilesPreloadScheduled
  folderOpen,      \* the dialog is open
  rows,        \* the number of files in its list
  folderLoading,     \* its status line still tells that the files are loading
  tasks,       \* openGlobalFiles, the scroll handler, fillGlobalFilesViewport
  openings, scrolls, requestFaults

storedVars == <<allFiles, sent, fileChanges, fileEvents>>
indexVars == <<index, pageLoads, first, next>>
dialogVars == <<folderOpen, rows, folderLoading, tasks>>
countVars == <<openings, scrolls, requestFaults>>
folderVars == <<storedVars, indexVars, scheduled, dialogVars, countVars>>

NoIndex == [messages |-> {}, loaded |-> FALSE, more |-> TRUE, before |-> 0]

FolderInit ==
  /\ allFiles = 1 .. OldFiles /\ sent = OldFiles /\ fileChanges = 0 /\ fileEvents = 0
  /\ index = NoIndex /\ pageLoads = <<>> /\ first = 0 /\ next = 0
  /\ scheduled = TRUE
  /\ folderOpen = FALSE /\ rows = 0 /\ folderLoading = FALSE /\ tasks = {}
  /\ openings = 0 /\ scrolls = 0 /\ requestFaults = 0

Older(before) == {f \in allFiles : before = 0 \/ f < before}
\* GET /api/files: the newest files sent before the given one.
Page(before) ==
  {f \in Older(before) : Cardinality({g \in Older(before) : f < g}) < PageSize}

Change ==
  /\ fileChanges < MaxFileChanges
  /\ fileChanges' = fileChanges + 1 /\ fileEvents' = fileEvents + 1
  /\ \/ sent' = sent + 1 /\ allFiles' = allFiles \cup {sent + 1}
     \/ \E f \in allFiles : allFiles' = allFiles \ {f} /\ UNCHANGED sent
  /\ UNCHANGED <<indexVars, scheduled, dialogVars, countVars>>

\* invalidateGlobalFilesIndex and scheduleGlobalFilesPreload: nobody joins the
\* requests under way any more.
HearChange ==
  /\ fileEvents > 0
  /\ fileEvents' = fileEvents - 1
  /\ index' = NoIndex
  /\ pageLoads' = [n \in DOMAIN pageLoads |-> [pageLoads[n] EXCEPT !.valid = FALSE]]
  /\ first' = 0 /\ next' = 0
  /\ scheduled' = TRUE
  /\ UNCHANGED <<allFiles, sent, fileChanges, dialogVars, countVars>>

-----------------------------------------------------------------------------
(* The requests                                                            *)

\* drawn: the page is drawn for the opening of the dialog that asked for it.
PageLoad(before, drawn) ==
  [before |-> before, drawn |-> drawn, valid |-> TRUE, at |-> "asked", page |-> {}]
Under(n) == pageLoads[n].at \notin {"settled", "failed"}

\* loadGlobalFilesFirstPage, when the index is not loaded.
AskFirst ==
  IF first # 0 THEN UNCHANGED indexVars
  ELSE /\ pageLoads' = Append(pageLoads, PageLoad(0, FALSE))
       /\ first' = Len(pageLoads) + 1
       /\ UNCHANGED <<index, next>>

\* preloadGlobalFiles, once the page is idle.
Preload ==
  /\ scheduled
  /\ scheduled' = FALSE
  /\ IF index.loaded THEN UNCHANGED indexVars ELSE AskFirst
  /\ UNCHANGED <<storedVars, dialogVars, countVars>>

AnyIndex(l) == TRUE   \* mutant: the generation is not compared when a page arrives
SameIndex(l) == l.valid

Remembered(messages, page) ==
  [messages |-> messages \cup page, loaded |-> TRUE, more |-> Cardinality(page) = PageSize,
   before |-> IF page = {} THEN 0 ELSE Min(page)]

Settle(n, at) ==
  /\ pageLoads' = [pageLoads EXCEPT ![n].at = at]
  /\ first' = (IF first = n THEN 0 ELSE first)
  /\ next' = (IF next = n THEN 0 ELSE next)

AnswerPage(n) ==
  /\ pageLoads[n].at = "asked"
  /\ pageLoads' = [pageLoads EXCEPT ![n].at = "answered", ![n].page = Page(pageLoads[n].before)]
  /\ UNCHANGED <<storedVars, index, first, next, scheduled, dialogVars, countVars>>

\* rememberGlobalFilesFirstPage; a page of another generation is answered by null.
FirstArrives(n) ==
  /\ pageLoads[n].at = "answered" /\ pageLoads[n].before = 0
  /\ index' = IF SameIndex(pageLoads[n]) THEN Remembered({}, pageLoads[n].page) ELSE index
  /\ Settle(n, IF SameIndex(pageLoads[n]) THEN "settled" ELSE "failed")
  /\ UNCHANGED <<storedVars, scheduled, dialogVars, countVars>>

\* rememberNextGlobalFilesPage, and the rows of the page below those of the list,
\* which are then decrypted.
NextArrives(n) ==
  /\ pageLoads[n].at = "answered" /\ pageLoads[n].before # 0
  /\ index' = IF SameIndex(pageLoads[n]) THEN Remembered(index.messages, pageLoads[n].page)
              ELSE index
  /\ IF SameIndex(pageLoads[n]) /\ folderOpen /\ pageLoads[n].drawn
       THEN /\ rows' = rows + Cardinality(pageLoads[n].page)
            /\ folderLoading' = FALSE
            /\ pageLoads' = [pageLoads EXCEPT ![n].at = "drawn"] /\ UNCHANGED <<first, next>>
       ELSE /\ UNCHANGED <<rows, folderLoading>>
            /\ Settle(n, "settled")
  /\ UNCHANGED <<storedVars, scheduled, folderOpen, tasks, countVars>>

NamesDecrypted(n) ==
  /\ pageLoads[n].at = "drawn"
  /\ Settle(n, "settled")
  /\ UNCHANGED <<storedVars, index, scheduled, dialogVars, countVars>>

\* The tasks that await a request that fails tell so.
RequestFails(n) ==
  /\ pageLoads[n].at = "asked"
  /\ requestFaults < MaxRequestFaults /\ requestFaults' = requestFaults + 1
  /\ Settle(n, "failed")
  /\ folderLoading' =
       (folderLoading /\ ~(folderOpen /\ (pageLoads[n].drawn \/ \E t \in tasks : t.load = n /\ t.mine)))
  /\ tasks' = {t \in tasks : t.load # n}
  /\ UNCHANGED <<storedVars, index, scheduled, folderOpen, rows, openings, scrolls>>

-----------------------------------------------------------------------------
(* The dialog                                                              *)

\* mine: the dialog was neither closed nor opened again since.
Task(at, load) == [at |-> at, load |-> load, before |-> 0, mine |-> TRUE, page |-> {}]
TaskBecomes(t, next1) == tasks' = (tasks \ {t}) \cup {next1}
TaskEnds(t) == tasks' = tasks \ {t}
OutdatedTasks == {[t EXCEPT !.mine = FALSE] : t \in tasks}
Undrawn(ls) == [n \in DOMAIN ls |-> [ls[n] EXCEPT !.drawn = FALSE]]

OpenFolder ==
  /\ openings < MaxFolderOpenings /\ ~folderOpen
  /\ openings' = openings + 1
  /\ folderOpen' = TRUE /\ folderLoading' = TRUE
  /\ IF index.loaded
       THEN /\ tasks' = OutdatedTasks \cup {[Task("draw", 0) EXCEPT !.page = index.messages]}
            /\ UNCHANGED indexVars
       ELSE /\ AskFirst
            /\ tasks' = OutdatedTasks \cup {Task("first", first')}
  /\ UNCHANGED <<storedVars, scheduled, rows, scrolls, requestFaults>>

CloseFolder ==
  /\ folderOpen
  /\ folderOpen' = FALSE
  /\ tasks' = OutdatedTasks
  /\ pageLoads' = Undrawn(pageLoads)
  /\ UNCHANGED <<storedVars, index, first, next, scheduled, rows, folderLoading, countVars>>

\* The first page is there, or belongs to another generation.
FirstCame(t) ==
  /\ t.at = "first" /\ ~Under(t.load)
  /\ IF pageLoads[t.load].at = "settled"
       THEN TaskBecomes(t, [t EXCEPT !.at = "draw", !.page = pageLoads[t.load].page])
       ELSE TaskEnds(t)
  /\ UNCHANGED <<storedVars, indexVars, scheduled, folderOpen, rows, folderLoading, countVars>>

\* renderGlobalFileMessages: the rows take the place of those of before.
Draw(t) ==
  /\ t.at = "draw"
  /\ IF t.mine
       THEN /\ rows' = Cardinality(t.page) /\ folderLoading' = FALSE
            /\ TaskBecomes(t, [t EXCEPT !.at = "fill", !.page = {}])
       ELSE TaskEnds(t) /\ UNCHANGED <<rows, folderLoading>>
  /\ UNCHANGED <<storedVars, indexVars, scheduled, folderOpen, countVars>>

\* loadNextGlobalFilesPage
Asked(t, n) == [t EXCEPT !.at = "next", !.load = n, !.before = index.before]
AskNext(t) ==
  IF next # 0 THEN TaskBecomes(t, Asked(t, next)) /\ UNCHANGED indexVars
  ELSE /\ pageLoads' = Append(pageLoads, PageLoad(index.before, TRUE))
       /\ next' = Len(pageLoads) + 1
       /\ UNCHANGED <<index, first>>
       /\ TaskBecomes(t, Asked(t, Len(pageLoads) + 1))

\* fillGlobalFilesViewport, from one await to the next.
Fill(t) ==
  /\ \/ t.at = "fill"
     \/ t.at = "next" /\ ~Under(t.load)
  /\ IF \/ t.at = "next" /\ t.before = index.before
        \/ ~(folderOpen /\ t.mine /\ index.more) \/ rows >= Fits
        \/ ~index.loaded \/ index.before = 0
       THEN TaskEnds(t) /\ UNCHANGED indexVars
       ELSE AskNext(t)
  /\ UNCHANGED <<storedVars, scheduled, folderOpen, rows, folderLoading, countVars>>

\* handleGlobalFilesScroll, at the end of the list.
Scroll ==
  /\ folderOpen /\ rows # 0 /\ scrolls < MaxScrolls
  /\ scrolls' = scrolls + 1
  /\ index.loaded /\ index.more /\ index.before # 0
  /\ AskNext(Task("fill", 0))
  /\ UNCHANGED <<storedVars, scheduled, folderOpen, rows, folderLoading, openings, requestFaults>>

-----------------------------------------------------------------------------

LoadStep(n) ==
  AnswerPage(n) \/ FirstArrives(n) \/ NextArrives(n) \/ NamesDecrypted(n)

FolderNext ==
  \/ Change \/ HearChange \/ Preload \/ OpenFolder \/ CloseFolder \/ Scroll
  \/ \E n \in DOMAIN pageLoads : LoadStep(n) \/ RequestFails(n)
  \/ \E t \in tasks : FirstCame(t) \/ Draw(t) \/ Fill(t)

FolderSpec == FolderInit /\ [][FolderNext]_folderVars

-----------------------------------------------------------------------------
(* Properties                                                              *)

FolderTypeOK ==
  /\ allFiles \subseteq 1 .. sent /\ index.messages \subseteq 1 .. sent
  /\ first \in 0 .. Len(pageLoads) /\ next \in 0 .. Len(pageLoads)
  /\ \A t \in tasks : t.load \in 0 .. Len(pageLoads)

\* The index that an opening shows without a request is the server's: once every
\* event was heard, it holds all the files from the oldest one it reached.
IndexIsTheServers ==
  index.loaded /\ fileEvents = 0 =>
    /\ index.messages = {f \in allFiles : f >= index.before}
    /\ ~index.more => index.messages = allFiles
=============================================================================
