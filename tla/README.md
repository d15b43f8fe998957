# Vibration: TLA+ models, checks and proofs

This directory models the parts of Vibration Community whose correctness depends on order,
concurrency, limits and failures. Every module is written from the code of the repository
(`internal/`, `web/js/`); `PROJECT.json` gives, definition by definition, the lines it stands for.

```
tlc -workers 2 -config MCPage.cfg MCPage      # any run: a configuration and its module
tlapm DispatcherAndGroupProofs.tla            # the theorems of a module
```

1. [The system](#1-the-system) 2. [Modules](#2-modules) 3. [Runs](#3-runs)
4. [Findings](#4-findings) 5. [Observations](#5-observations) 6. [Proofs](#6-proofs)
7. [Not modelled](#7-not-modelled)

## 1. The system

Vibration is an end-to-end encrypted messenger: a Go server (`cmd/server`, `internal/`) over one
SQLite database, and a browser client (`web/js`, of which `app.js` is most). The community edition has
no federation router; the call-signalling package `callsig` is written for both editions, and the
community server uses its ledger.

Two facts shape everything.

* **The server has one connection to its database** (`db_community.go:19,42`). A transaction excludes
  every other statement, so the models make it one step. The statements a handler issues *outside* a
  transaction interleave with everyone else's, so each is a step of its own, with what the handler read
  before carried along. Rows that are open hold the connection (`Presence` models it).
* **The page has one thread and many awaits.** What runs between two awaits is one step. What follows an
  await is a task that resumes later, in any order with the others, and finds whatever the handlers in
  between have left. Most of the page's guards are version counters or identities compared after an
  await; the models keep such a counter as a flag of the task, cleared when the counter moves on.

| Component | State | Operations | Hard behaviour | What makes it correct |
|---|---|---|---|---|
| Call dispatcher (`callsig/dispatcher.go`) | streams, waiting jobs, a counter | Submit, one goroutine per stream | start after unlock, hung instances, expiry in the queue, three caps | FIFO per stream, one goroutine each, one verdict per job, caps |
| Receipt cache (`callsig/receipts.go`) | entries with generations, expiry and a channel | Lookup, Begin, await, Publish, Abandon | slow leaders, expiry in flight, eviction | one delivery per retention, followers are told what their leader did |
| Call ledger (`callsig/ledger.go`) | ids seen, sequences, tombstones | Accept, Admit, Finish, Forget | retries, overtaking, sweeps, evictions, clocks | retries dropped, outdated refused, ended calls stay ended, nothing else refused |
| Hub (`ws/hub.go`, `ws/handlers.go`) | connections and two bounded queues each | Register, Unregister, Send*, KickUser, read and write loop | backpressure, kicks, failed writes, closing of channels | no send on a closed channel, overflow means resync, a close is effective |
| Presence (`ws/handlers.go`) | nothing of its own | presence_state, user_online, user_offline | goroutines of two connections are unordered | no ghost; whoever is online was announced |
| Groups (`conversations`, `groupkeys`) | members, epoch, envelopes, freeze | create, accept, rotate, leave, delete | rotation against send, leave, accept; restarts that backfill | members hold the key, nobody else can read |
| Messages and receipts (`messages`, `files`) | messages, receipts | create, broadcast, read, upload | statements of several requests interleave | receipts never go back |
| Sessions and devices (`auth`) | sessions, trusted devices, pending approvals | login, approve, prove, revoke, recover | check-then-insert, revocation against use | a session follows its device, consent once a device is trusted |
| Peer negotiation (`call-negotiation.js`) | two peers' signalling states, a ledger of signals | offer, answer, rollback, ICE restart | glare, loss, reordering, late roles | both become stable on one offer, nothing is refused |
| Calls in the page (`app.js` 4797-6860) | call, media, peers, whiteboard, buttons | invite, accept, hang up, resync, share a screen, draw | awaits between check and use; one call replaced by another | no call outlives its peer, none rings for ever, no ended call captures a screen |
| Displayed conversation (`app.js`) | selection, rows, caches, pins | select, load, preload, verify, socket events | answers for a conversation left, in any order | rows, copies and composer are those of the selection |
| List of conversations (`app.js`, `conversation-cache.js`) | rows, previews and names by version, the queue of renders | boot from the cache, refresh, events, clicks, render | a render suspended in an await while the list changes | the last render leaves what the page holds |
| Composer (`app.js`) | text, files, voice, polls | send, fail and restore, move on | one part of several fails; the user moves meanwhile | a file goes where it was added, or is kept |
| Folder, links, address book (`app.js`, `share.js`) | index, dialogs, links | open, scroll, create, revoke, delete | generations of pages and of openings, lost answers | lists are the server's; the last click counts |
| Identities and group keys (`identity-trust.js`, `app.js`) | records of keys, keys by epoch | observe, confirm, verify, rotate, edit | records read, then saved; epochs missed | no change without consent; a key is filed under its own epoch |
| Decrypted files and previews (`app.js`) | object URLs, frames, a queue | load, crop, draw, reload, leave | loads shared across a replaced list | nothing stays in memory, no frame is left to nobody (two exceptions) |
| Start, connection, sign-in, unlock (`app.js`, `websocket.js`, `login.js`, `crypto.js`, `device-vault.js`) | steps of the start, socket, polls, keys | boot, retry, reconnect, sleep, approve, migrate | retries, replaced sockets, several tabs | what was missed is asked for; one signing identity |

How they interact: a browser's frame reaches `readLoop`, which calls the call routing (ledger, limiter)
or relays typing; HTTP handlers write the database and then call `Hub.SendToUser`, which only queues.
Revocations call `Hub.KickUser`. The hub calls nobody back. The federation callbacks of the other
edition would reach the dispatcher (outgoing signals) and the receipt cache (incoming ones). In the page,
the socket's events reach the handlers of calls, of the conversation, of the folder and of the pins; a
socket that reconnects, or a `resync`, makes the page ask for its list again.

`PROJECT.json` lists every component, those left out too, and forty hazards: what is hard to test in this
code, at the line where it bites, with the properties about it.

## 2. Modules

Plain names are specifications, one per component. `*Proofs` hold theorems. `MC*` are instances for TLC.

### Server

| Module | Models |
|---|---|
| `SignalStream`, `CallDispatcher`, `CallDispatcherRefinement` | the promise of `dispatcher.go`, its code at the grain of its critical sections, the mapping between the two |
| `ReceiptCache` | `receipts.go`; an entry is named by the request that claimed it, which stands for its generation |
| `CallLedger` | `ledger.go` and the windows of `event.go`; requests carry events; `place` and `decidedAt` are history |
| `Hub` | `hub.go`, the loops of `handlers.go`; queues are their lengths |
| `Presence` | `ServeHTTP` and the two presence functions, one peer per step; `rows` is who holds the database |
| `GroupConversation` | `conversations`, `groupkeys`, messages and receipts; a handler is a *request* that goes from statement to statement |
| `Sessions` | `auth`: login, enrolment, approval, proof, revocation, recovery; a step per statement on the tables of one account |

**CallDispatcher.** `streams`, `jobs`, `running`, `queued` are the fields of `Dispatcher` and `stream`;
`stage` and `verdict` follow a job, `run` and `item` the goroutine it started. `Submit` is the expiry
check (`SubmitExpired`, `SubmitLive`), then the critical section (`Refuse` or `Accept`), then what
follows the unlock (`ReportRefused`, `Start`). `run` is `Take` or `Leave`, then `SettleExpired`, or
`Deliver` and `SettleDelivered`. Expiry is a free choice at each of the two checks.

**ReceiptCache.** `slot` is the map; the fields of an entry are functions of the request that claimed
it, so an entry that left the map is still there for its followers, as in Go. The clock is read in a
step of its own (`ReadClock`) because the code reads it before locking. `Publish` and `Abandon` are the
critical section, `Close` the closing of the channel after it. Eviction may pick any set of the oldest
completed entries; the code breaks ties by the text of the key.

**CallLedger.** The three maps hold times, `-1` for no entry. `admit` reads the clock and refuses
expired signals in `Arrive`, and does the rest under the lock in `Refuse` or `Deliver`; both sweep.
`Deliver` ends with the insertions and, for a terminal signal, the tombstone and the removal of the
sequences of the call. `Finish` and `Forget` are the local teardown. Signals of clients get a fresh
window at each arrival, as `buildCallEvent` does; those of peers keep theirs.

**Hub.** A send is one step under the read lock; `KickUser` is a step for the list and one per
connection. The goroutine of `ServeHTTP` is `pc`, the write loop `writer`. A failed write ends the write
loop and leaves the socket open: only `Deadline` ends such a connection.

**Presence.** The goroutine visits one peer per step; `Tell` is `SendEphemeralToUser`, which may find any
queue past its watermark. `view` is what a client shows after it has read its queue; `told` the last
announcement of a user to a peer.

**GroupConversation.** The tables `conversations`, `conversation_members`,
`conversation_key_envelopes`, `messages` and `message_receipts` of one group. A key is the epoch it was
generated for. `Rotate`, `LeaveGroup`, `Store` and `DeleteGroup` are transactions; `StartRotate`,
`StartDelete`, `StartSend`, `StartRead` and `LookUp` are the reads before them, `Push`, `MarkText` and
`MarkFile` what follows the commit. `Abort` ends a request anywhere; `Restart` ends all of them and runs
the backfill of `db.Migrate`. `audience` of a message is history.

**Sessions.** `session` and `device` are the tables `sessions` and `trusted_devices` of one account, with
the foreign key (`Insertable`, `Bind`, `SetNull`) and `UNIQUE(user_id, key_id)` (`Write`) that decide what
a late statement does. `pc` is the statement a login is at, then the one of a request of its session (one
at a time). The middleware and the lookup before a transaction are the `Start` steps; the transactions
`Approve` and `Revoke` are one step. `Drop` stands for every `DELETE` of one session by its id, and for
`expires_at`: no handler takes a row past it for a session. `Lapse` is the deadline of a pending one.
`orphan`, `guarded` and `outdated` are history. `Restart` ends every handler, a recovery included.

### Browser: calls

| Module | Models |
|---|---|
| `SignalLedger` | `createCallSignalLedger`: events seen, last sequences, ended calls, trimmed in order of insertion |
| `PeerLink` | `createPeerLink` on both sides: the chain of tasks, glare, rollback, held candidates, the path of signals |
| `IceRecovery` | an accepted private call on both pages: first offer, ICE restarts, lost sockets, resync, the end |
| `CallPage` | the call of one page through its awaits: invitations, answers, timers, media, group members |
| `CallMedia` | the camera, its replacement, a shared screen |
| `CallConfig` | the capability probe behind the call buttons, the cached call configuration |
| `Whiteboard` | the operations of the participants over one data channel per pair |

`PeerLink` keeps a description as the number of the offer it makes or answers. `setLocalDescription` and
its kin are external: their effect on `signalingState`, and the states in which they throw; a call that
would throw is put in `refused`, which an invariant keeps empty. A side's `chain` is the promise chain of
the link; each task has a step per await. The path may drop, double and (unless `InOrder`) reorder.
`IceRecovery` extends it with what the pages do around the link; what a handler calls synchronously next
is its `todo`, the next step of that page. Whether a connection works is external (`connectionState`).

`CallPage` names a call by a model value; a resumed task reads the current call as the code does, so it
may resume on another call. A call that replaces another (`app.js:6753`, `5134`) does not end it: the old
connections keep their handlers, which act on the call of the moment (`PeerUp`, `PeerFails`, `MediaFails`).
`CallMedia` keeps the tracks that are live and who still has to stop them; what a replaced call captured
stays with it.

### Browser: conversations, files, keys

| Module | Models |
|---|---|
| `ConversationPage` | selection, verification of members, loads, preloads, cache, socket events on the rows |
| `ConversationList` | the list in the sidebar: its loading, its cache, invitations, events, and the renders that draw it |
| `PinnedPanel` | the panel of pins and its reloads |
| `Composer` | text, files, voice and polls while the conversation changes and posts fail |
| `GlobalFiles` | the folder's index, loaded page by page and invalidated by events, and its dialog; a page is a set of files, the rows of the dialog their number |
| `FileShares`, `SharePage` | the dialog of the links of a file; the public page of a link |
| `Carnet` | the address book, its three ways to load, its deletions |
| `IdentityTrust` | the recorded keys of a correspondent, in IndexedDB and in the memory of each tab |
| `GroupKeys` | the epochs, keys and envelopes of a group as owners' and members' pages hold them, the editor |
| `FileCache` | object URLs of decrypted files and thumbnails |
| `PreviewPass`, `ThumbnailPreload` | the drawing of previews across reloads; thumbnails fetched ahead |

### Browser: start

| Module | Models |
|---|---|
| `Startup` | `startBoot`, `boot`, `refreshAll`, `ChatSocket`, the foreground handlers |
| `SignIn` | the forms to sign in and to register, the proof of a device, the approval poll and its cancellation, the terms |
| `Unlock` | the migration of an account without signing key, the vault of the browser and the storage of each window, in several windows and browsers |

In these modules a variable bears the name of the field of `state` or of the DOM element it stands for,
and its comment says so. A `Max...` constant is a bound on how often the environment or the user acts
(clicks, faults, changes); it never limits what the code does in answer.

## 3. Runs

A passing run asks one question of one kind of system. Parts that do not meet are run *side by side*: a
behaviour belongs to one part, named by the first variable (`server` in `MCServer`, `page` in `MCPage`,
`mode` in `MCLive`), and the registers (`s1, s2, ...`, `p1, p2, ...`, `x1, x2, ...`) are the variables of
that part. The parts cannot influence each other, so the states of the run are the sum of theirs, not the
product; a property of the run is the conjunction of the parts' properties, each guarded by its part, and
`ServerAssumption`, `PageAssumption` and `LiveAssumptions` are the parts' assumptions, which TLC evaluates
for the constants of the instance. The properties themselves are defined, with what they say about the
code, in the modules of the parts. These modules instantiate the modules of the *proofs* of their parts, so
that `SystemProofs` can state the properties of the runs for every value of the constants.

| Run | Instance | Shows |
|---|---|---|
| `call_dispatcher` | 4 jobs, 2 streams, one hung; depths 2, 2 | caps, one goroutine per stream, every signal of a live instance reported and its stream gone, `SignalStream` is implemented |
| `group_conversation` | 3 accounts, 2 concurrent requests, 3 epochs, 1 message of either kind | keys, readers, receipts of texts |
| `calls` | `library`: signals in order, 3 offers, 1 candidate, 1 fault. `call`: signals reordered, 4 offers, 2 faults, 1 restart | nothing is refused, answers meet their offer, quiet means agreed; a failed link is attended; no call outlives its peer's |
| `server` | `cache`: 3 deliveries of 2 events, capacity 1, retention 1. `sent`: 5 requests of 3 signals, capacity 2. `received`: 3 signals of a peer whose clock is ahead. `stalled`: 2 signals, late clock readings. `sessions`: 3 logins, 2 keys, 1 recovery. `presence`: 3 users, 3 connections | verdicts, tombstones, followers' answers, redeliveries, bindings and consent, announcements |
| `page` | seventeen parts, see below | what the page shows and holds is what it should be; the hub that feeds it |
| `live` | calls, start, thumbnails, sign-in, page of a link, one connection of the hub | what was begun ends |
| `file_receipts`, `sessions_reset`, `session_gone`, `group_title`, `lost_rows`, `ended_calls` | instances of `GroupConversation`, `Sessions`, `IceRecovery`, `GroupKeys`, `ConversationPage`, `CallPage` | **violations**, findings 1 to 6 |

The parts of `page`: `conversation` (2 rooms, one suspended by its owner, 1 post, 2 selections, 1 failed
request), `sidebar` (a start over a cache that holds an invitation, then one event or click, with renders
that overlap), `folder` (4 files at most over pages of 2, 1 change, 2 openings, 1 lost answer), `carnet`
(2 people), `shares` (2 files, 3 links), `pins` (2 rooms, 5 clicks), `composer` (3 items, 2 moves, 1 send),
`trust` (one tab, 2 keys), `keys` (2 pages of the owner, 2 epochs, 2 edits), `decrypted` (4 loads, 2
departures), `previews` (2 messages, one of them late, over 3 lists; reloads that find their messages
decrypted, reloads that do not, and one of these that fails), `media` (2 calls, which may replace one
another, 3 tracks), `buttons` (2 rooms, one federated), `board` (2 participants), `account` (2 windows of one
browser, 4 keys made, 1 return, 1 denial), `visit` (2 clicks), `hub` (2 connections, queues of 1).

The parts of `live`: `calls` (a call of one's own, one of a group and another that comes in, 2 signals, 1
lost socket), `start` (3 sockets, 1 change, 1 failed request, 1 break, 2 times in the background), `preload`
(3 pictures, 2 refreshes, 4 tasks), `login` (1 submission, 1 fault), `share` (2 clicks), `socket` (1
connection). The types of the last two are checked by `page`.

**Why the bounds are enough.** Each is the least with which the case that matters happens, and each
property has a mutation of the code (`PROJECT.json`, "mutants") that the run catches within them. In the
dispatcher, three jobs on one stream with a depth of two fill the stream, and with the fourth the total; a
second stream shows independence. `DispatchMaxStreams` cannot bind with two keys and two streams: the
theorem covers it. In the receipt cache one slot makes every second key force an eviction or a refusal,
and the ticks pass an expiry and a sweep. In the ledger the unit divides the durations of the code (skew
30 s, default lifetime 30 s, tombstone 120 s), so that each boundary is met exactly; `MaxStall` lets a
request act on a clock one unit old. The sweep interval is one unit where the code has more, which sweeps
earlier and oftener. In the group, two requests cover every pair of handlers, and three epochs a rotation
that follows a rotation; one message suffices because the handlers treat messages independently. In the
sessions the two logins with one key race for `UNIQUE` and for the proof, the third trusts its own browser,
approves and revokes them; a single acting session is enough because what `Approve` and `Revoke` do does
not depend on who asked. In the page, an answer that is late needs two requests and one thing that happens
between them: two rooms, two openings, one fault. In the calls, two offers make a glare, the third follows
the rollback and the fourth is the restart of a restart; one attempt instead of the code's two makes
giving up reachable; the ledger's capacity stays out of the way (its eviction is a matter of `CallLedger`).

Symmetry is used where two model values play the same part in every constant of the instance (the
non-owners of the group and its requests; the two deliveries of one event and the two logins of one
browser, and the two connections of one user, in `server`).

**Fairness.** Only what the code's schedulers promise:

* `CallDispatcher!Fairness`: the Go scheduler runs goroutines that can run, a mutex is not starved, and a
  delivery returns (it is an HTTP request with a deadline) except towards `HungKey`; nobody has to submit.
* `MCLive!LiveFairness`, hub: the goroutine of `ServeHTTP` runs (weak), the read deadline fires on a socket
  that is closed or no longer pinged (weak), `KickUser` finishes its list (weak), and the `select` of the
  write loop, which picks at random among the ready cases, does not pass over a close for ever (strong).
* `MCLive!LiveFairness`, page: an answer or an error comes to every request (`fetch` with a timeout, or a
  socket that closes; `CancelServed` is the answer to the click that gives up an approval), a timer that is
  set fires, a microtask runs. The user's actions, the changes at the
  server and the faults are never fair.
* `MCCalls`: every page goes on with what it has to do (`Progress`): a timer, an operation of its link, a
  signal that lies on the path. Lost signals are lost.

Everything else is checked for safety and assumes none. Liveness formulas whose bounds end the run (a user
who may act `MaxClicks` times) say what happens after the last action, which is what the code promises.

`CHECK_DEADLOCK FALSE` stands where the instance is finite: each request, job or connection is used once
and the system then has nothing left to do; the owner may delete the group.

## 4. Findings

Each is a violation run; `PROJECT.json` quotes the line it contradicts.

1. **A read file goes back to delivered** (`files/handlers.go:336`). `Upload` lacks the `status='sent'`
   guard that `messages.broadcast` has, that `handlers_test.go:166-207` tests and `README.md:246` promises.
2. **A login under way survives the recovery of the password** (`auth.go:463`). `ResetPassword` is three
   statements; a login that compared the old password inserts its session after them, approved at once when
   nothing is left to ask. `README.md:480` and `SECURITY.md:67` promise that all sessions are revoked. (A
   session inserted between the last two statements is also unbound: `HeldSessionsFollowTheirDevice` names
   that exception.)
3. **The end of a forgotten call is judged stale** (`app.js:6583`). A page that was loaded again during a
   call is asked to resynchronise it and answers `session_gone`, with a sequence that starts again at 1; the
   peer's ledger refuses it and the peer waits for its restart timers, although `app.js:6574-6575` says
   otherwise. The call does end: `CallsDoNotOutliveTheirPeer`. (A page that *ended* the call does not answer:
   it recorded the end under the identity of its peer, `app.js:5015-5021`, and drops the resync as
   `call_ended`.)
4. **The editor of a group stores a title under the old key** (`conversations/handlers.go:824`,
   `app.js` `editConversation`). The dialog keeps the key it was opened with across a rotation.
   `README.md:507` says the title uses the group's key.
5. **A deleted message stays on the screen** (`app.js:7520`). Deleted while its row is being decrypted, it is
   added after its removal was heard, and nothing asks again.
6. **A call that has ended rings** (`app.js:6753`). The caller hangs up while the page awaits the names it
   rings with. `call-negotiation.js:331` says "A call that ended stays ended."

## 5. Observations

Met while modelling; none is claimed by a run, either because no document promises otherwise or because
what it needs is left out of the models. A property is stated so that it does not claim them.

*Server.* A peer of the other edition may give a signal the longest lifetime of two minutes, with a clock
ahead by the skew, and `Expired` grants the skew again: such an offer may arrive after the tombstone of its
call (120 s, `ledger.go:33-36`) has lapsed. Signals this server stamps live 30 s. The list `presence_state`
is gathered peer by peer and sent at the end (`ws/handlers.go:238-239`), so an announcement made meanwhile
is overwritten by the older list; likewise the `user_offline` of a connection that goes may follow the
`user_online` of the next one. Two logins that begin on an account without device or session are both
approved. Check-then-insert without protection: crossing contact requests and `CreatePrivate`
(`contacts/handlers.go:249`), the number of links of a file (`files/shares.go:102-123`), the last invitation
(`invitationstore/store.go:64`, decided later by a conditional update). A private conversation is deleted in
two statements (`conversations/handlers.go:914`). The version of the terms is read and cached while it may
be replaced (`terms_gate.go:95`).

*Negotiation.* An offer that overtakes the answer of the same sender leaves both sides waiting: hence
`QuietMeansAgreed` is claimed for the ordered path only. A first offer or answer that is lost leaves the
caller in "connecting" until somebody hangs up. Candidates that arrive before `ensureCallPeer` has run are
dropped (`app.js:6686`), those before the description are held (`call-negotiation.js:639-644`). Busy replies
and the hangup of a page that is left carry no event id or sequence.

*Calls.* Streams or connections left open: the microphone, when the call ends during `getUserMedia`; the new
camera in `switchCallCamera`; the connection in `ensureCallPeer`. A call overwritten by another
(`app.js:6753`, `5134`) is never told and never closed. Its connections keep their handlers, which read
`state.call` again (`app.js:6238-6259`, `6494-6525`, `6601-6611`): when one of them connects, the new call is
marked accepted, and when its ICE restarts are used up, the new call is hung up. A screen it captured stays
captured, and no control of the page stops it. `CallPage` and `CallMedia` have these steps;
`CallsEndForTheirOwnReasons` and `ScreensAreReleased` are stated so that they do not claim the contrary. A camera muted before a screen was shared comes back enabled; the flag of a shared screen may stay
set after the camera replaced it. After a page was restored from the history its exit handler does not run
again. The call accepted may be another than the one the user saw (`app.js:5147-5149`). Whiteboards may
diverge when a clear crosses an operation. A failed capability probe is not always tried again.

*Conversation.* A list that was rendered may stay hidden when the selection moved on. `getMembers` may store
and mark as verified an answer older than the event that invalidated it. A message deleted while its
conversation is not displayed stays in the local cache until the next load; concurrent transactions of the
cache may bring a deleted record back, exceed `MAX_CACHED_MESSAGES`, or lose one of two payloads.
`README.md:762` says messages are not kept offline; `conversation-cache.js` keeps them, encrypted. Two
overlapping requests for the list may apply the older answer last, and that answer also replaces the address
book without comparing its version (`app.js:3385-3393`), so that it brings a deleted entry back (`StaysAway`
excepts it); `refreshAll` falls back to the cached list
and nothing asks again before the next event. A pin announced while the panel opens is missed.

*Composer.* A text or voice message that failed is restored over a newer draft; a stored message whose
refresh fails is restored and sent twice; the text, the reply and a recording go with the user to the next
conversation; a second click saves "…" as the label of the button; two clicks on the microphone leave a
stream open. `submitPoll`, `submitEvent`, `editMessage` and the epoch in `sendEncryptedFile` read the current
conversation again after awaits.

*Identities and keys.* A click on "verified" may mark a fingerprint that was not displayed when a first
signing key was recorded in between. A second tab records a first signing key over another tab's
verification (`tests/identity-trust.test.cjs:57`), and a pending change can disappear through it: hence the
part `trust` has one tab. The check of old envelopes (`app.js:4491-4498`) compares unlike fingerprints. A
page that slept through two rotations keeps the envelopes of the first until it is reloaded. Two tabs that
create a device key at once leave a remembered identity that does not open (`app.js:1528`).

*Previews.* A list that is rendered drops the bookkeeping of its previews before it decrypts
(`app.js:6998-7010`). A frame of the old list that is drawn meanwhile starts a drawing anew, which the frames
of the new list join (`app.js:10329-10365`): they stay empty for ever, and so do those of the old list when
the decryption fails. `app.js:10363` promises that nobody ever meets a preview in preparation;
`FramesAreAttended` names the two exceptions. A message deleted or expired while its file loads leaves the
file in memory until the conversation is left; the URL of an audio on display is revoked early.

*Folder and links.* Rows may be listed twice, the dialog left loading, the count of links wrong.

*Start and sign-in.* A half-open socket is not noticed while the page is visible. The list of the start is
read before its socket is registered and is not read again when the socket opens during the start
(`app.js:3421-3426`), although the comment at `app.js:3423-3428` says that coming back misses nothing as long as the
socket is open: `MissedIsAskedFor` speaks of the sockets that opened when the page was ready. When the socket opens while the list is asked for and the
list fails without a copy in the cache, the page says "Reconnexion" (`app.js:935-936`); the next attempt keeps
the open socket (`app.js:894`) and succeeds, and the page goes on saying so. `StartedOrGone` is about the
socket, not about what the page says of it. The poll of a cancelled sign-in goes on and may stop the next one's
(`README.md:258`). The button stays disabled when the terms are refused after an approval. Two tabs may lose
a count of logins.

## 6. Proofs

Checked by TLAPS for every value of the constants that satisfies the named assumptions, which the runs
evaluate on their instances. The invariant a run checks is seldom inductive; each part has a strengthening
(`IInv` or `...Inv`) that its initial states satisfy and every action preserves, and the properties follow
from it. Strengthenings were checked by TLC on the instances before they were proved.
`PageTypes`, `LiveTypes` and `ServerTypes` state the types of every part; most follow from the invariants
above, and four of them need a strengthening of their own: an index, a page and a task of the folder are of
files that were sent and of requests that were made (`FolderShows`), the count of a file does not exceed its
links by more than the creation under way (`CountsFit`), a URL that the page holds is one it made and did not
give back (`HeldAreAlive`), and an address book that has an entry was loaded (`CarnetShows`).

| Module | Proves about |
|---|---|
| `DispatcherAndGroupProofs` | `CallDispatcher`, and that it implements `SignalStream`; `GroupConversation` |
| `CallLedgerProofs` | `CallLedger` |
| `ServerProofs` | `Sessions`, `Presence`, `ReceiptCache` |
| `PageProofs` | `Hub`, `GroupKeys`, `IdentityTrust`, `CallMedia`, `CallConfig`, `SharePage`, `PinnedPanel`, `Carnet`, `PreviewPass`, `Composer`, `GlobalFiles` |
| `ConversationProofs` | `ConversationPage`, `ConversationList`, `FileCache`, `Unlock`, `FileShares`, `Whiteboard` |
| `NegotiationProofs` | `PeerLink`, as a library and under the pages of `IceRecovery` (`MCCalls`) |
| `LiveProofs` | `Startup`, `ThumbnailPreload`, `SignIn`, `CallPage` |
| `SystemProofs` | the properties of the runs `server`, `page` and `live`, from those of their parts |

A run over several parts is proved part by part. A step of the run is a step of its part (`PageSteps`,
`LiveSteps`), the lemmas of the part, instantiated with its registers, say what the step keeps, and the
name of the part never changes.

**Dispatcher** (`DispatchAssumption`: finitely many jobs, positive caps). That `queued` is the number of
waiting jobs needs that each list holds waiting jobs of its own stream once each (`LinesInv`); that at most
`DispatchMaxStreams` jobs are in flight needs that each is carried by a goroutine that owns a stream of its
own (`ItemsInv`, `OwnersInv`), whence an injection from jobs in flight into streams.
`DispatcherRefinesStream` maps `Accept` to `Accept`, `Deliver` to the start of service and
`SettleDelivered` or `SettleExpired` to the answer; every other step stutters.

**Group** (`GroupAssumption`). `OutsidersCannotRead` speaks of stored messages only; it is kept by a rotation
because a key goes to final members alone, and by a *send* because a group that accepts messages has shared
its current key with nobody but its members (`OpenGroupIsSealed`). That in turn survives a departure because
it freezes the group, and a restart because the backfill only copies the key of a member's own row.
`NoFutureKeys` says that the epoch a rotation opens is fresh. `RecipientsCanRead` needs
`MembersHoldTheCurrentKey` at the moment of the send.

**Receipt cache** (`ReceiptAssumption`). A leader loses its entry only by completing it, by its expiry or by
an eviction, and an eviction spares what is in flight; so a claim that finds the slot taken knows why
(`ClaimFinds`), a published receipt is final (`ReceiptsStayFinal`), and a second delivery is explained
(`ReceiptRedelivery`). `ReceiptCapacity` counts: the sweep and the evictions of `Begin` leave room for one
more entry, by the cardinality theorems of finite sets.

**Hub** (`HubAssumption`). Where the goroutine of a connection is (`pc`) decides whether the hub lists it and
whether its queues are closed (`ProgressShows`); a sender finds only listed connections. An overflow sets
both marks in one step under the lock, and neither is ever unset.

**Presence** (`PresenceAssumption`). What was last told to a peer is accounted for by a live connection or by
a goroutine that has still to visit that peer (`OnlineIsAccounted`); a user that is online but untold is one
whose announcement is under way (`SilenceIsShort`). When every goroutine is idle these are the two promises.

**Group keys** (`GroupKeysBounds`). The server only appends epochs. The row, the envelopes and the answers of
a page were the server's at some epoch, and what it files under an epoch comes from them or from a rotation
of its own that the server took (`KeysAreOfTheirEpoch`), however rotations cross, fail or lose their answers.

**Sessions** (`SessionsAssumption`: finitely many logins and keys). The id a handler carries across its
statements is that of its own browser, or of a device that is gone (`FoundIsOwn`); a new id is one that
nothing carries, which exists by counting the bindings, the handlers and the keys (`FreshIsFree`). A row that
awaits a proof and has lost its binding is an orphan of a recovery (`Carried`). A login that saw a device from
its start carries the need for consent until its row is inserted (`GuardedAreAsked`). So
`BoundToItsOwnBrowser`, `HeldSessionsFollowTheirDevice` and `NoFreeSessionOnceTrusted` hold whatever logins,
enrolments, proofs, revocations and recoveries interleave.

**Call ledger** (`LedgerAssumption`, and `TombstoneLasts` for the last). The ledger forgets: it sweeps what
is out of date and evicts what is oldest. The invariant says what an entry that is missing means. `place`
orders the requests of a call as they were decided. An event id is remembered because a request delivered it,
and until its window is over, unless something was evicted (`SeenOK`); a tombstone stands for an end, and for
as long as promised less the age of the reading it was made with (`TerminatedOK`); the entry of a sequence is
that of the last live signal that raised it (`SequencesOK`). Whence retries are dropped, what is outdated
refused, and nothing refused without a cause. That a signal in flight at the hangup is refused
(`EndedStaysEnded`) needs that a tombstone outlasts the longest window plus the skew and the age of a
reading; it is an assumption because the code does not enforce it for signals of a peer (Observations).

**Negotiation** (`LinkAssumption`, `LibraryBounds`). Only the first task of a chain has started, and what the
connection and the negotiation hold is what that task left them in (`LinkShape`): `making` while an offer is
being created, `answering` while an answer is being applied, a remote offer in force while it is being
answered. So a description that starts to be applied meets a connection that takes it, and nothing is refused
(`RefusesNothing`), whatever is lost, doubled or overtaken, however the pages restart, crash or hang up, for
any number of offers, candidates and faults; and a candidate is held only where no description was heard.
That an answer completes its own offer needs both connections at once, with everything under way between
them, on the path or in a chain (`GlareInv`). `Pact` says where offers and answers may be, given what the two sides
are doing: an answer is under way only for the offer its addressee waits with; an offer under way is the one
its sender waits with, or one that the polite side rolled back, which then arrives while the other still waits
and is ignored; while a side answers, nothing else is under way that could disturb it. This speaks of
signals that are heard once, so it is claimed while no ledger forgets (`Fits`: a page sends fewer signals of
the call than the ledger of its peer holds, 2048 in `call-negotiation.js:25`). In the library nothing is lost,
and an offer that is not settled is under way or held by somebody (`LibraryInv`): with nothing under way both
sides are stable on one offer. These are the parts of `NegotiationsAgree` (`NegotiationAgrees`).

**Page.** *Hub* and *group keys* as above. *Unlock* (`UnlockBounds`): a window past the registration of a
signing key holds the key the server registered (`SignsAsTheAccount`), since the server takes the first and
answers the others with it; so there is one signing identity for each account, however many windows,
browsers, reloads and denials. *Previews*: every empty frame of the list on screen is being drawn, watched, or has its turn
before the list is revealed, unless a reload decrypts (`FramesInv`). A drawing that is joined is under way, and
it is of the list on screen unless that list was decrypted after its bookkeeping was dropped
(`SharedAreDrawing`); this is where the two exceptions come from, and they are part of the property. *Decrypted files*: a load of the current generation, and only such a
one, may still put a file in memory (`CurrentFetches`). *Links*: a listing under way found links of the file it
was asked for (`LinksAreKnown`), and the dialog drops the answers of another opening. *Address book*: an
answer that is valid and came after a deletion does not hold the deleted (`ForgottenAreGone`). *Pins*: an
opening that is valid is wanted (`OpeningsAreWanted`). *Identities*: a tab
saves what it made of a record it read (`SavesAreOfTheRecord`), for any number of tabs; with `OneTab`, what it
has in memory is the record that is stored, but for the operation it is saving (`RecordIsStored`), and an
acceptance that waits is one the user confirmed. With two tabs this is false, and so is the property: see
Observations. The theorem `PageConsent` is therefore one of a browser with one tab and not listed as a result.
*Call media*: a screen that captures is that of a call that was not ended and says it shares it; a picker is
never open while the call of the moment shares, so that what it gives replaces no screen, and a replacement of
tracks that outlived its call stops its own (`MediaInv`). The call may be one that was replaced. *Call buttons*: an entry of the cache that says "supported" for a federated conversation
is an answer that said so (`EntriesAreAnswers`). *Composer* (`ComposerAssumption`): every file
that was added is in exactly one place, the draft, a send under way, what failed and was put back, or
what was posted, and the last names the conversation it was added in (`DraftInv`; a recording follows its
user, and nothing is claimed of it); a send holds what the draft
lost, and a failed part returns to the draft only when its conversation is on screen. *Folder*
(`FolderAssumption`): an index of the current generation is what the server has from its oldest entry on, and
everything if no more is to come; a page under way of that generation was answered from the same files
(`FolderInv`), because an event that is on its way makes the claim void and the one that arrives starts a new
generation. A page is modelled as the set of the newest files before a bound, so that this needs the
cardinality theorems of finite sets, and the least and the greatest element of a finite set of numbers, which
come from the well-foundedness of `<`. *Whiteboard*: an operation that no board removed is on the board of
whoever drew it, and for each of its open channels on the other board or in a message on its way
(`AuthorsKeep`, `OthersAreTold`), since a channel that opens begins with the whole list and an undo on its way
takes back what was erased where it was done (`UndoneAreErased`). A list is kept as the place of each operation,
so that its last one exists for any finite list. *Displayed conversation* (`ConversationInv`): what a task
carries across its awaits, rows, a copy or a message, is of its own room (`Sound`), and a task of the last
selection is about the room on screen (`Selects`); so whatever is written after an await is of the selection,
because the selection is compared or was the task's. A copy that may be shown, and an answer whose version
still holds, miss nothing the page was told of (`CopiesFit`): an event makes the copy and the preload of its
room void in the step that hears it, and what the page was told is gone the server no longer has. *List of
conversations* (`SidebarInv`): unless a change owes a render (`RenderOwed`), what the last render has read so
far is what the page holds, step of the render by step (`RenderFollows`); an earlier render finds its version
outdated after each await, and the key that spares a redraw is that of the rows on screen.

**Live parts.** *Start*: a socket that connects or is open is the one the page holds (`HeldIsLive`), and
one that has lived since the page was ready was asked for what it missed, or has its greeting on the way, or
will have when the phone wakes up (`NothingIsMissed`); a socket that opened during the first start is not
among them. *Thumbnails*: a task that fetches is the one the
loading of its file belongs to (`LoadsAreOwned`), each task exists once, waiting or running (`OnceEach`), and
what a session has spent and what remains of it are its budget (`BudgetIsShared`). *Sign-in*: a form is
disabled only while a function that began with it is under way, or the terms or an approval are waited for;
that function is found among those of its kind (`FlowsTyped`), and the terms are asked for only while somebody
waits for them (`TermsAreWaitedFor`). *Calls*: with the types (`CallsTyped`) the property is inductive; the
handlers that compare the call after they waited are exactly those it speaks of. Those of a replaced call's
connection compare nothing, and the property leaves them out. No fairness is needed for
any of these.

**What stays with TLC.** Liveness under fairness (`EverythingEnds`, `NobodyRingsForEver`,
`CallsDoNotOutliveTheirPeer`, the progress of the dispatcher), which is outside the prover's reach, and
`FailedLinksAreAttended`, which has no inductive strengthening yet. The violations are findings of TLC.

## 7. Not modelled

* **Cryptography** (`crypto.js`, signatures) is assumed: a key opens what was encrypted under it and nothing
  else does. With the signatures goes the revision of an edit: two edits that read the same revision
  (`messages/handlers.go:504`) are listed as a hazard without a property, as are the other operations of
  messages (reactions, polls, events, reports, expiry).
* **The composition of sessions and sockets.** A socket that passes the middleware before a revocation may
  register after its `KickUser` (`sessions.go:211`): both parts are modelled, their product is not.
* **Contacts, registration and terms** are check-then-insert sequences whose races are named under
  Observations; quotas and rate limits are counters under one lock or in one statement.
* **Interface**: rendering, scrolling, translations, tones, layout, Office previews, notifications.
* **The HTTP layer**, the router, error pages, metrics, configuration, search, calendars and web push have no
  protocol of their own beyond single statements. Queries that only read are left out of the state machines
  unless a later step uses what they returned.
* **The federation of the other edition** is not in this repository: peers appear as signals that arrive, and
  as deliveries that succeed, fail or hang.
* **Two tabs on one registry of identities** (`IdentityTrust` takes any number; the run has one tab), because
  tabs do not tell each other of what they wrote and the code does not claim that they agree.
