------------------------------- MODULE Composer -------------------------------
(***************************************************************************)
(* What the user writes in a conversation (app.js): the text, the files and  *)
(* the voice message of the composer, which sendMessage posts one after the  *)
(* other and puts back when it fails, and the polls and events of their      *)
(* dialogs, which read the conversation on screen again after every await.   *)
(* Everything written is an item; the encryption is left out but for the     *)
(* conversation whose key it takes. Events stand for polls.                   *)
(***************************************************************************)
EXTENDS Naturals, Sequences, FiniteSets, SequencesExt

CONSTANTS
  Conversations,
  NoRoom,
  MaxItems,  \* bound: items ever written
  MaxMoves,  \* bound: conversations selected or closed
  MaxSends,  \* bound: clicks on the button that sends
  MaxPostFaults  \* bound: posts or refreshes that fail

ComposerAssumption ==
  /\ {MaxItems, MaxMoves, MaxSends, MaxPostFaults} \subseteq Nat
  /\ NoRoom \notin Conversations

VARIABLES
  here,  \* state.current
  written,  \* history: the items, with the conversation on screen when they were written
  text,     \* the text of the input, 0 for none
  files,    \* state.pendingFiles
  voice,    \* state.pendingVoiceFile
  recorder, \* state.recorder: off, or the conversation where it started
  sends,    \* sendMessage, under way
  posted,   \* what the server stored, and in which conversation
  poll,     \* submitPoll and submitEvent: the item, the conversation of its key, of its signature
  kept,     \* history: the files that nobody took away
  moves, sendClicks, postFaults

draftVars == <<text, files, voice, recorder>>
composerVars ==
  <<here, written, draftVars, sends, posted, poll, kept, moves, sendClicks, postFaults>>

NoPoll == [item |-> 0, key |-> NoRoom, signed |-> NoRoom]

ComposerInit ==
  /\ here = NoRoom /\ written = <<>>
  /\ text = 0 /\ files = <<>> /\ voice = 0 /\ recorder = NoRoom
  /\ sends = {} /\ posted = {} /\ poll = NoPoll /\ kept = {}
  /\ moves = 0 /\ sendClicks = 0 /\ postFaults = 0

New == Len(written) + 1
Written(kind) ==
  /\ here # NoRoom /\ New <= MaxItems
  /\ written' = Append(written, [kind |-> kind, of |-> here])

-----------------------------------------------------------------------------
(* The draft                                                               *)

WriteText ==
  /\ text = 0 /\ Written("text") /\ text' = New
  /\ UNCHANGED <<here, files, voice, recorder, sends, posted, poll, kept,
                 moves, sendClicks, postFaults>>

\* stageFiles, within the quotas.
StageFile ==
  /\ Written("file")
  /\ files' = Append(files, New) /\ kept' = kept \cup {New}
  /\ UNCHANGED <<here, text, voice, recorder, sends, posted, poll, moves, sendClicks, postFaults>>

RemoveFile(i) ==
  /\ files' = RemoveAt(files, i) /\ kept' = kept \ {files[i]}
  /\ UNCHANGED <<here, written, text, voice, recorder, sends, posted, poll,
                 moves, sendClicks, postFaults>>

\* toggleVoiceRecording: the draft of before is dropped when a recording starts.
Record ==
  /\ recorder = NoRoom /\ here # NoRoom
  /\ recorder' = here /\ voice' = 0
  /\ UNCHANGED <<here, written, text, files, sends, posted, poll, kept,
                 moves, sendClicks, postFaults>>
StopRecording ==
  /\ recorder # NoRoom /\ New <= MaxItems
  /\ written' = Append(written, [kind |-> "voice", of |-> recorder])
  /\ voice' = New /\ recorder' = NoRoom
  /\ UNCHANGED <<here, text, files, sends, posted, poll, kept, moves, sendClicks, postFaults>>

Moved == moves < MaxMoves /\ moves' = moves + 1

\* selectConversation: the files and the voice message are dropped; the text,
\* and a recording under way, stay.
SelectAnother(r) ==
  /\ Moved /\ r # here
  /\ here' = r
  /\ files' = <<>> /\ voice' = 0 /\ kept' = {}
  /\ UNCHANGED <<written, text, recorder, sends, posted, poll, sendClicks, postFaults>>

\* closeCurrentConversation
CloseCurrent ==
  /\ Moved /\ here # NoRoom
  /\ here' = NoRoom
  /\ text' = 0 /\ files' = <<>> /\ kept' = {}
  /\ UNCHANGED <<written, voice, recorder, sends, posted, poll, sendClicks, postFaults>>

-----------------------------------------------------------------------------
(* sendMessage                                                             *)

\* The parts of a message: a text, a voice message and files.
Parts(t, v, fs) == [text |-> t, voice |-> v, files |-> fs]
Blank == Parts(0, 0, <<>>)

\* rest: what is still to post, in this order; failed: what was not posted.
Send ==
  /\ sendClicks < MaxSends /\ sendClicks' = sendClicks + 1
  /\ here # NoRoom
  /\ text # 0 \/ files # <<>> \/ voice # 0
  /\ sends' = sends \cup {[n |-> sendClicks, to |-> here, rest |-> Parts(text, voice, files),
                           failed |-> Blank]}
  /\ text' = 0 /\ files' = <<>> /\ voice' = 0
  /\ UNCHANGED <<here, written, recorder, posted, poll, kept, moves, postFaults>>

Become(s, next) == sends' = (sends \ {s}) \cup {next}

Addressed(s) == s.to
Store(s, item) == posted' = posted \cup {[item |-> item, to |-> Addressed(s)]}
\* The post fails, or is stored and the refresh after it fails.
Fails(s, item) == UNCHANGED posted \/ Store(s, item)

IsText(s) == s.rest.text # 0
IsVoice(s) == s.rest.text = 0 /\ s.rest.voice # 0
IsFile(s) == s.rest.text = 0 /\ s.rest.voice = 0 /\ s.rest.files # <<>>

TextPosted(s) == IsText(s) /\ Store(s, s.rest.text) /\ Become(s, [s EXCEPT !.rest.text = 0])
VoicePosted(s) == IsVoice(s) /\ Store(s, s.rest.voice) /\ Become(s, [s EXCEPT !.rest.voice = 0])
FilePosted(s) ==
  IsFile(s) /\ Store(s, Head(s.rest.files)) /\ Become(s, [s EXCEPT !.rest.files = Tail(@)])
PartPosted(s) ==
  /\ TextPosted(s) \/ VoicePosted(s) \/ FilePosted(s)
  /\ UNCHANGED <<here, written, draftVars, poll, kept, moves, sendClicks, postFaults>>

\* A text that failed takes the rest with it; a voice message or a file only itself.
TextFails(s) ==
  IsText(s) /\ Fails(s, s.rest.text) /\ Become(s, [s EXCEPT !.rest = Blank, !.failed = s.rest])
VoiceFails(s) ==
  /\ IsVoice(s) /\ Fails(s, s.rest.voice)
  /\ Become(s, [s EXCEPT !.rest.voice = 0, !.failed.voice = s.rest.voice])
FileFails(s) ==
  /\ IsFile(s) /\ Fails(s, Head(s.rest.files))
  /\ Become(s, [s EXCEPT !.rest.files = Tail(@), !.failed.files = Append(@, Head(s.rest.files))])
PartFails(s) ==
  /\ postFaults < MaxPostFaults /\ postFaults' = postFaults + 1
  /\ TextFails(s) \/ VoiceFails(s) \/ FileFails(s)
  /\ UNCHANGED <<here, written, draftVars, poll, kept, moves, sendClicks>>

Anywhere(s) == TRUE   \* mutant: the draft is put back whichever conversation is on screen
StillThere(s) == here = s.to

Finished(s) ==
  /\ s.rest = Blank
  /\ sends' = sends \ {s}
  /\ IF StillThere(s)
       THEN /\ text' = IF s.failed.text = 0 THEN text ELSE s.failed.text
            /\ voice' = IF s.failed.voice = 0 THEN voice ELSE s.failed.voice
            /\ files' = files \o s.failed.files
       ELSE UNCHANGED <<text, voice, files>>
  /\ UNCHANGED <<here, written, recorder, posted, poll, kept, moves, sendClicks, postFaults>>

-----------------------------------------------------------------------------
(* submitPoll and submitEvent                                              *)

\* state.current is read for the key, for the signature and for the post; the
\* dialog does not keep a contact accepted before from opening its conversation.
SubmitPoll ==
  /\ poll = NoPoll /\ Written("poll")
  /\ poll' = [item |-> New, key |-> here, signed |-> NoRoom]
  /\ UNCHANGED <<here, draftVars, sends, posted, kept, moves, sendClicks, postFaults>>

SignPoll ==
  /\ poll.item # 0 /\ poll.signed = NoRoom
  /\ poll' = IF here = NoRoom THEN NoPoll ELSE [poll EXCEPT !.signed = here]
  /\ UNCHANGED <<here, written, draftVars, sends, posted, kept, moves, sendClicks, postFaults>>

\* The server refuses a signature of another conversation.
PostPoll ==
  /\ poll.signed # NoRoom
  /\ poll' = NoPoll
  /\ posted' = IF poll.signed = here THEN posted \cup {[item |-> poll.item, to |-> here]}
                                     ELSE posted
  /\ UNCHANGED <<here, written, draftVars, sends, kept, moves, sendClicks, postFaults>>

-----------------------------------------------------------------------------

ComposerNext ==
  \/ WriteText \/ StageFile \/ Record \/ StopRecording \/ CloseCurrent \/ Send
  \/ \E i \in DOMAIN files : RemoveFile(i)
  \/ \E r \in Conversations : SelectAnother(r)
  \/ \E s \in sends : PartPosted(s) \/ PartFails(s) \/ Finished(s)
  \/ SubmitPoll \/ SignPoll \/ PostPoll

ComposerSpec == ComposerInit /\ [][ComposerNext]_composerVars

-----------------------------------------------------------------------------
(* Properties                                                              *)

\* The items of a message.
ItemsOf(m) == ({m.text, m.voice} \ {0}) \cup ToSet(m.files)

ComposerTypeOK ==
  /\ here \in Conversations \cup {NoRoom}
  /\ ItemsOf(Parts(text, voice, files)) \cup kept \subseteq DOMAIN written
  /\ \A s \in sends : ItemsOf(s.rest) \cup ItemsOf(s.failed) \subseteq DOMAIN written

\* The files chosen in a conversation are offered, and posted, in no other one,
\* even when a post that was awaited meanwhile fails.
FilesStayInTheirConversation ==
  /\ \A f \in ToSet(files) : written[f].of = here
  /\ \A p \in posted : written[p.item].kind = "file" => written[p.item].of = p.to

\* A file waits in the composer until it is posted, removed or its conversation
\* is left: what a failure interrupted is put back.
FilesAreNotForgotten ==
  \A f \in kept : \/ f \in ToSet(files)
                  \/ \E s \in sends : f \in ItemsOf(s.rest) \cup ItemsOf(s.failed)
                  \/ \E p \in posted : p.item = f
=============================================================================
