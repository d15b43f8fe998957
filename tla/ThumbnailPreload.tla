--------------------------- MODULE ThumbnailPreload ---------------------------
(***************************************************************************)
(* The thumbnails fetched ahead of their conversations                     *)
(* (preloadFileThumbnailPayload and the background queue of web/js/app.js).*)
(* Every refresh of the list of conversations begins a session with a      *)
(* budget of bytes; the sessions share one queue, a few tasks of which run *)
(* at a time.                                                              *)
(***************************************************************************)
EXTENDS Integers, Sequences, FiniteSets, FiniteSetsExt

CONSTANTS
    Files,      \* files with a preview
    Size,       \* preview_size, or FILE_PREVIEW_MAX_BYTES where the server gives none
    Largest,    \* the largest preview that is fetched
    Pages,      \* pages of messages: the files of each, the last message first
    Sessions,   \* refreshes of the list
    Budget,     \* BACKGROUND_THUMBNAIL_PRELOAD_BUDGET_BYTES
    Concurrency,\* BACKGROUND_THUMBNAIL_PRELOAD_CONCURRENCY
    MaxTasks    \* bound: thumbnails asked for

PreloadBounds ==
    /\ {Budget, Largest, MaxTasks} \subseteq Nat
    /\ Concurrency \in Nat \ {0}
    /\ Size \in [Files -> Nat \ {0}] /\ Pages \subseteq Seq(Files)

VARIABLES
    waiting,    \* backgroundThumbnailQueue
    running,    \* the tasks started, and where each is
    loading,    \* fileThumbnailPayloadPreloads: the task loading each file
    kept,       \* previews in the local cache
    remaining,       \* remainingThumbnailBytes of each session
    fetched,    \* bytes each session asked the server for
    asked       \* tasks so far: their names

preloadVars == <<waiting, running, loading, kept, remaining, fetched, asked>>

NoTask == 0

-----------------------------------------------------------------------------
(* pumpBackgroundThumbnailQueue: tasks start while there is room. *)
Free(active) == Concurrency - Cardinality(active)

Pumped(queue, active) ==
    LET n == Min({Len(queue), Free(active)}) IN
    /\ waiting' = SubSeq(queue, n + 1, Len(queue))
    /\ running' = active \cup {[task |-> queue[i], step |-> "start", joins |-> NoTask] : i \in 1..n}

(* queueConversationThumbnailPreloads: every message of the page preloaded that *)
(* has a preview. *)
QueuePage(page, s) ==
    /\ asked + Len(page) <= MaxTasks
    /\ asked' = asked + Len(page)
    /\ Pumped(waiting \o [i \in DOMAIN page |-> [id |-> asked + i, file |-> page[i], session |-> s]],
              running)
    /\ UNCHANGED <<loading, kept, remaining, fetched>>

TaskGoes(r, step) == running' = (running \ {r}) \cup {[r EXCEPT !.step = step]}

(* A file being loaded is joined: the task ends with that load. *)
Start(r) ==
    /\ r.step = "start"
    /\ IF loading[r.task.file] # NoTask
         THEN /\ running' = (running \ {r}) \cup {[r EXCEPT !.step = "joined", !.joins = loading[r.task.file]]}
              /\ UNCHANGED loading
         ELSE TaskGoes(r, "read") /\ loading' = [loading EXCEPT ![r.task.file] = r.task.id]
    /\ UNCHANGED <<waiting, kept, remaining, fetched, asked>>

(* The task is over, and so is the load it owned; the queue is pumped. *)
TaskEnds(r) ==
    /\ Pumped(waiting, running \ {r})
    /\ loading' = [f \in Files |-> IF loading[f] = r.task.id THEN NoTask ELSE loading[f]]

Joined(r) ==
    /\ r.step = "joined" /\ r.joins \notin {loading[f] : f \in Files}
    /\ TaskEnds(r)
    /\ UNCHANGED <<kept, remaining, fetched, asked>>

(* The cache answered: nothing to do, nothing left to spend, or a request. *)
BeforeTheWait(r) == TRUE            \* mutant: what is left was read before the wait
Affordable(r) == Size[r.task.file] <= remaining[r.task.session]

CacheAnswers(r) ==
    /\ r.step = "read"
    /\ IF r.task.file \in kept \/ Size[r.task.file] > Largest \/ ~Affordable(r)
         THEN TaskEnds(r) /\ UNCHANGED <<remaining, fetched>>
         ELSE /\ TaskGoes(r, "fetch")
              /\ remaining' = [remaining EXCEPT ![r.task.session] = @ - Size[r.task.file]]
              /\ fetched' = [fetched EXCEPT ![r.task.session] = @ + Size[r.task.file]]
              /\ UNCHANGED <<waiting, loading>>
    /\ UNCHANGED <<kept, asked>>

(* The preview arrives, and is saved; the request fails, or gives something else; *)
(* the local cache refuses it. *)
Fetched(r) ==
    /\ r.step = "fetch" /\ TaskGoes(r, "save")
    /\ UNCHANGED <<waiting, loading, kept, remaining, fetched, asked>>

Saved(r) ==
    /\ r.step = "save" /\ kept' = kept \cup {r.task.file}
    /\ TaskEnds(r)
    /\ UNCHANGED <<remaining, fetched, asked>>

TaskFails(r) ==
    /\ r.step \in {"read", "fetch", "save"}
    /\ TaskEnds(r)
    /\ UNCHANGED <<kept, remaining, fetched, asked>>

-----------------------------------------------------------------------------
PreloadInit ==
    /\ waiting = <<>> /\ running = {} /\ kept = {} /\ asked = 0
    /\ loading = [f \in Files |-> NoTask]
    /\ remaining = [s \in Sessions |-> Budget]
    /\ fetched = [s \in Sessions |-> 0]

(* The cache answers, and a request is answered or fails. *)
TaskProgress ==
    \E r \in running :
        Start(r) \/ Joined(r) \/ CacheAnswers(r) \/ Fetched(r) \/ Saved(r) \/ TaskFails(r)

PreloadNext == TaskProgress \/ \E page \in Pages, s \in Sessions : QueuePage(page, s)

PreloadFairness == WF_preloadVars(TaskProgress)

PreloadSpec == PreloadInit /\ [][PreloadNext]_preloadVars /\ PreloadFairness

-----------------------------------------------------------------------------
PreloadTypeOK ==
    /\ waiting \in Seq([id : 1..asked, file : Files, session : Sessions])
    /\ \A r \in running : r.step \in {"start", "read", "fetch", "save", "joined"} /\ r.joins \in 0..asked
    /\ loading \in [Files -> 0..asked] /\ kept \subseteq Files
    /\ remaining \in [Sessions -> Nat]

(* However tasks and sessions overlap, a session spends no more than its     *)
(* budget, a file is requested once at a time, and no more tasks run than    *)
(* allowed (app.js 3207-3248).                                               *)
PreloadsKeepTheirLimits ==
    /\ \A s \in Sessions : fetched[s] <= Budget
    /\ \A r, q \in running : {r.step, q.step} \subseteq {"fetch", "save"} /\ r.task.file = q.task.file => r = q
    /\ Cardinality(running) <= Concurrency

(* Every thumbnail asked for is dealt with, failures included. *)
Drained == waiting = <<>> /\ running = {}
QueueDrains == <>[]Drained
=============================================================================
