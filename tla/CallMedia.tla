------------------------------ MODULE CallMedia ------------------------------
(***************************************************************************)
(* The video tracks of a call (app.js): the camera, its replacement by the  *)
(* other camera, and a shared screen. The page waits for the user (a picker *)
(* or a permission) and for the connections to take a new track; the call   *)
(* may end meanwhile, and another begin or take its place: an invitation or *)
(* a call of one's own that was being prepared overwrites state.call and    *)
(* ends nothing. replaceTrack is external: it settles. So is the picker of  *)
(* the browser: one at a time.                                              *)
(***************************************************************************)
EXTENDS Naturals, FiniteSets

CONSTANTS
  VideoCalls,   \* the video calls of this page, one after the other
  Nothing,
  MaxTracks     \* bound: tracks ever captured

MediaAssumption == Nothing \notin VideoCalls \cup Nat /\ MaxTracks \in Nat

VARIABLES
  current,   \* state.call
  media,     \* phase of each call, its localStream (stream, and local: its video tracks),
             \* screenStream and screenSharing
  live,      \* the tracks that capture
  screens,   \* the tracks that capture a screen
  captured,  \* the tracks captured so far, which number them
  waits      \* what waits: [for, call, track, stage]

mediaVars == <<current, media, live, screens, captured, waits>>

NoMedia == [phase |-> "new", stream |-> FALSE, local |-> {}, screen |-> Nothing, sharing |-> FALSE]
Wait(what, c, t) == [for |-> what, call |-> c, track |-> t]
NewTrack == captured + 1
Capture == captured < MaxTracks /\ captured' = NewTrack

MediaInit ==
  /\ current = Nothing
  /\ media = [c \in VideoCalls |-> NoMedia]
  /\ live = {} /\ screens = {} /\ waits = {}
  /\ captured = 0

Holds(c, m) == media' = [media EXCEPT ![c] = m]

\* A call becomes the current one. The call it replaces, if any, keeps what it
\* captured and is not ended.
Begin(c) ==
  /\ media[c].phase = "new"
  /\ current' = c
  /\ Holds(c, [NoMedia EXCEPT !.phase = "begun"])
  /\ UNCHANGED <<live, screens, captured, waits>>

\* ensureLocalCallStream: the call of the moment takes the stream, in place of any
\* it had; without a call the handler fails.
AskForLocal ==
  /\ current # Nothing /\ ~media[current].stream
  /\ waits' = waits \cup {Wait("local", Nothing, Nothing)}
  /\ UNCHANGED <<current, media, live, screens, captured>>

LocalOpened(w) ==
  /\ w.for = "local"
  /\ Capture
  /\ live' = live \cup {NewTrack}
  /\ waits' = waits \ {w}
  /\ \/ current = Nothing /\ UNCHANGED media
     \/ /\ current # Nothing
        /\ Holds(current, [media[current] EXCEPT !.stream = TRUE, !.local = {NewTrack}])
  /\ UNCHANGED <<current, screens>>

\* closeCallResources
KeepSharing(m) == m.local   \* mutant: the stream of the screen is not stopped
Stopped(m) == m.local \cup {m.screen}
End ==
  /\ current # Nothing
  /\ live' = live \ Stopped(media[current])
  /\ Holds(current, [media[current] EXCEPT !.phase = "over"])
  /\ current' = Nothing
  /\ UNCHANGED <<screens, captured, waits>>

-----------------------------------------------------------------------------
(* replaceLocalCallVideoTrack: the senders of the call take the track, then *)
(* it becomes the only one of the local stream. A call that has no stream   *)
(* takes none: the track is stopped at once.                                *)

Replacing(c, t) == Wait("senders", c, t)
Streams == current # Nothing /\ media[current].stream
Replace(t, rest) ==
  /\ waits' = rest \cup (IF Streams THEN {Replacing(current, t)} ELSE {})
  /\ live' = live \cup (IF Streams THEN {t} \ {Nothing} ELSE {})

Replaced(w) ==
  /\ w.for = "senders"
  /\ waits' = waits \ {w}
  /\ \/ /\ current = w.call
        /\ Holds(current, [media[current] EXCEPT !.local = {w.track} \ {Nothing}])
        /\ live' = live \ (media[current].local \ {w.track})
     \/ /\ current # w.call
        /\ live' = live \ {w.track}
        /\ UNCHANGED media
  /\ UNCHANGED <<current, screens, captured>>

-----------------------------------------------------------------------------

PickerOpen == \E w \in waits : w.for = "picker"

\* toggleScreenShare
AskForScreen ==
  /\ current # Nothing /\ ~media[current].sharing /\ ~PickerOpen
  /\ waits' = waits \cup {Wait("picker", Nothing, Nothing)}
  /\ UNCHANGED <<current, media, live, screens, captured>>

\* The call the page is in by then shares the screen; without one it is released.
TakeScreen(w) ==
  /\ w.for = "picker"
  /\ Capture
  /\ screens' = screens \cup {NewTrack}
  /\ \/ /\ current = Nothing
        /\ waits' = waits \ {w}
        /\ UNCHANGED <<media, live>>
     \/ /\ current # Nothing
        /\ Holds(current, [media[current] EXCEPT !.screen = NewTrack, !.sharing = TRUE])
        /\ Replace(NewTrack, waits \ {w})
  /\ UNCHANGED current

RefuseScreen(w) ==
  /\ w.for = "picker"
  /\ waits' = waits \ {w}
  /\ \/ current = Nothing /\ UNCHANGED <<media, live>>
     \/ /\ current # Nothing
        /\ live' = live \ {media[current].screen}
        /\ Holds(current, [media[current] EXCEPT !.screen = Nothing, !.sharing = FALSE])
  /\ UNCHANGED <<current, screens, captured>>

\* stopScreenShare, by the button or because the browser ended the capture.
StopSharing ==
  /\ current # Nothing /\ media[current].sharing
  /\ live' = live \ {media[current].screen}
  /\ Holds(current, [media[current] EXCEPT !.screen = Nothing, !.sharing = FALSE])
  /\ waits' = waits \cup {Wait("camera", current, Nothing)}
  /\ UNCHANGED <<current, screens, captured>>

\* The camera comes back, enabled, or the picture stays empty.
CameraBack(w) ==
  /\ w.for = "camera"
  /\ \/ Capture /\ Replace(NewTrack, waits \ {w})
     \/ UNCHANGED captured /\ Replace(Nothing, waits \ {w})
  /\ UNCHANGED <<current, media, screens>>

-----------------------------------------------------------------------------
(* switchCallCamera                                                        *)

AskForCamera ==
  /\ current # Nothing /\ ~media[current].sharing
  /\ waits' = waits \cup {Wait("other camera", current, Nothing)}
  /\ UNCHANGED <<current, media, live, screens, captured>>

\* Without a call that has a stream the handler fails, and the track stays.
OtherCamera(w) ==
  /\ w.for = "other camera"
  /\ Capture
  /\ live' = live \cup {NewTrack}
  /\ waits' = (waits \ {w}) \cup (IF Streams THEN {Replacing(current, NewTrack)} ELSE {})
  /\ UNCHANGED <<current, media, screens>>

\* The device is refused.
NoCamera(w) ==
  /\ w.for \in {"local", "other camera"}
  /\ waits' = waits \ {w}
  /\ UNCHANGED <<current, media, live, screens, captured>>

MediaNext ==
  \/ AskForLocal \/ End \/ AskForScreen \/ StopSharing \/ AskForCamera
  \/ \E c \in VideoCalls : Begin(c)
  \/ \E w \in waits :
       \/ LocalOpened(w) \/ Replaced(w) \/ TakeScreen(w) \/ RefuseScreen(w)
       \/ CameraBack(w) \/ OtherCamera(w) \/ NoCamera(w)

MediaSpec == MediaInit /\ [][MediaNext]_mediaVars

-----------------------------------------------------------------------------
(* Properties                                                              *)

MediaTypeOK ==
  /\ current \in VideoCalls \cup {Nothing}
  /\ live \cup screens \subseteq 1..captured
  /\ \A c \in VideoCalls : Cardinality(media[c].local) <= 1
  /\ \A c \in VideoCalls : media[c].sharing <=> media[c].screen # Nothing

\* A screen is captured only for a call that was not ended and that says it shares
\* it, however calls end or replace one another around the picker and the
\* replacement of tracks. A call that was replaced is never ended: its screen
\* stays captured, and no control of the page stops it any more.
ScreensAreReleased ==
  \A t \in live \cap screens :
    \E c \in VideoCalls : media[c].phase = "begun" /\ media[c].sharing /\ media[c].screen = t
=============================================================================
