----------------------------- MODULE Whiteboard -----------------------------
(***************************************************************************)
(* The whiteboard of a video call (app.js): every participant keeps a list  *)
(* of operations and tells the others of each change over one data channel  *)
(* per pair. A data channel is ordered and reliable while it is open; what  *)
(* it carries is lost when it closes. Geometry, colours and the drawing of  *)
(* the canvas are left out: an operation is a number, and a list of          *)
(* operations is kept as the place of each.                                  *)
(***************************************************************************)
EXTENDS Naturals, Sequences, FiniteSetsExt

CONSTANTS
  Artists,       \* the participants
  MaxStrokes,    \* bound: operations drawn
  MaxErasures,   \* bound: undo and clear
  MaxOpenings    \* bound: openings of one end of a channel

BoardAssumption == {MaxStrokes, MaxErasures, MaxOpenings} \subseteq Nat

VARIABLES
  board,     \* operations, the list of each participant: the place of each
  draft,     \* who is drawing
  author,    \* who drew each operation
  channel,   \* the ends that are open: <<participant, other>>
  opened,    \* how often each end was opened
  inFlight,     \* the messages on their way: queue[a][b] from a to b
  erased     \* the operations some board removed; the number of erasures

boardVars == <<board, draft, author, channel, opened, inFlight, erased>>

Ends == {e \in Artists \X Artists : e[1] # e[2]}
Drawn == DOMAIN author

BoardInit ==
  /\ board = [a \in Artists |-> <<>>]
  /\ draft = [a \in Artists |-> FALSE]
  /\ author = <<>>
  /\ channel = {}
  /\ opened = [e \in Ends |-> 0]
  /\ inFlight = [e \in Ends |-> <<>>]
  /\ erased = [operations |-> {}, times |-> 0]

-----------------------------------------------------------------------------
(* What is told: sendWhiteboardPayload reaches the open channels.          *)

Tell(a, message) ==
  inFlight' = [e \in Ends |-> IF e[1] = a /\ e \in channel THEN Append(inFlight[e], message) ELSE inFlight[e]]

Payload(action, what) == [action |-> action, what |-> what]

\* A list of one. Only operations that are not on the list yet are added, behind it.
Alone(o) == [p \in {o} |-> 1]
Behind(list) == Max({0} \cup {list[o] : o \in DOMAIN list})
Added(list, new) ==
  [o \in DOMAIN list \cup DOMAIN new |-> IF o \in DOMAIN list THEN list[o] ELSE Behind(list) + new[o]]
Removed(list, operations) == [o \in DOMAIN list \ operations |-> list[o]]

Erase(operations, times) ==
  erased' = [operations |-> erased.operations \cup operations, times |-> erased.times + times]

-----------------------------------------------------------------------------
(* The participant                                                         *)

StartPointer(a) ==
  /\ ~draft[a] /\ Len(author) < MaxStrokes
  /\ draft' = [draft EXCEPT ![a] = TRUE]
  /\ UNCHANGED <<board, author, channel, opened, inFlight, erased>>

\* A path of one point, or a pointer the browser takes back, draws nothing.
CancelPointer(a) ==
  /\ draft[a]
  /\ draft' = [draft EXCEPT ![a] = FALSE]
  /\ UNCHANGED <<board, author, channel, opened, inFlight, erased>>

\* finishWhiteboardPointer, or placeWhiteboardText once its dialog is confirmed.
FinishPointer(a) ==
  LET o == Len(author) + 1 IN
  /\ draft[a] /\ Len(author) < MaxStrokes
  /\ draft' = [draft EXCEPT ![a] = FALSE]
  /\ author' = Append(author, a)
  /\ board' = [board EXCEPT ![a] = Added(@, Alone(o))]
  /\ Tell(a, Payload("op", Alone(o)))
  /\ UNCHANGED <<channel, opened, erased>>

\* The last operation of one's own goes, or the last of all.
ToUndo(a) ==
  LET own == {o \in DOMAIN board[a] : author[o] = a}
      eligible == IF own # {} THEN own ELSE DOMAIN board[a]
  IN CHOOSE o \in eligible : \A p \in eligible : board[a][p] <= board[a][o]

Undo(a) ==
  /\ DOMAIN board[a] # {} /\ erased.times < MaxErasures
  /\ board' = [board EXCEPT ![a] = Removed(@, {ToUndo(a)})]
  /\ Erase({ToUndo(a)}, 1)
  /\ Tell(a, Payload("undo", Alone(ToUndo(a))))
  /\ UNCHANGED <<draft, author, channel, opened>>

ClearBoard(a) ==
  /\ DOMAIN board[a] # {} /\ erased.times < MaxErasures
  /\ board' = [board EXCEPT ![a] = <<>>]
  /\ draft' = [draft EXCEPT ![a] = FALSE]
  /\ Erase(DOMAIN board[a], 1)
  /\ Tell(a, Payload("clear", <<>>))
  /\ UNCHANGED <<author, channel, opened>>

-----------------------------------------------------------------------------
(* The channels                                                            *)

\* An end opens: the whole list is sent. A closed pair is opened anew.
NoGreeting(a) == <<>>   \* mutant: a channel that opens carries nothing yet
Greeting(a) == <<Payload("state", board[a])>>
OpenEnd(e) ==
  /\ e \notin channel /\ opened[e] < MaxOpenings
  /\ channel' = channel \cup {e}
  /\ opened' = [opened EXCEPT ![e] = @ + 1]
  /\ inFlight' = [inFlight EXCEPT ![e] = Greeting(e[1])]
  /\ UNCHANGED <<board, draft, author, erased>>

\* The connection of a pair is replaced: what was on its way is lost.
ClosePair(e) ==
  LET back == <<e[2], e[1]>> IN
  /\ {e, back} \subseteq channel
  /\ channel' = channel \ {e, back}
  /\ inFlight' = [inFlight EXCEPT ![e] = <<>>, ![back] = <<>>]
  /\ UNCHANGED <<board, draft, author, opened, erased>>

\* receiveWhiteboardPayload
Receive(e) ==
  LET b == e[2]  message == Head(inFlight[e]) IN
  /\ inFlight[e] # <<>>
  /\ <<e[2], e[1]>> \in channel
  /\ inFlight' = [inFlight EXCEPT ![e] = Tail(@)]
  /\ \/ /\ message.action \in {"state", "op"}
        /\ board' = [board EXCEPT ![b] = Added(@, message.what)]
        /\ UNCHANGED <<draft, erased>>
     \/ /\ message.action = "undo"
        /\ board' = [board EXCEPT ![b] = Removed(@, DOMAIN message.what)]
        /\ UNCHANGED <<draft, erased>>
     \/ /\ message.action = "clear"
        /\ board' = [board EXCEPT ![b] = <<>>]
        /\ draft' = [draft EXCEPT ![b] = FALSE]
        /\ Erase(DOMAIN board[b], 0)
  /\ UNCHANGED <<author, channel, opened>>

BoardNext ==
  \/ \E a \in Artists :
       StartPointer(a) \/ CancelPointer(a) \/ FinishPointer(a) \/ Undo(a) \/ ClearBoard(a)
  \/ \E e \in Ends : OpenEnd(e) \/ ClosePair(e) \/ Receive(e)

BoardSpec == BoardInit /\ [][BoardNext]_boardVars

-----------------------------------------------------------------------------
(* Properties                                                              *)

BoardTypeOK ==
  /\ \A a \in Artists : DOMAIN board[a] \subseteq Drawn
  /\ \A a \in Artists : \A o, p \in DOMAIN board[a] : board[a][o] = board[a][p] => o = p
  /\ erased.operations \subseteq Drawn

\* Once every channel is open and has delivered, an operation nobody erased is on
\* every board, also on those that joined, or came back, after it was drawn.
NothingDrawnIsLost ==
  channel = Ends /\ (\A e \in Ends : inFlight[e] = <<>>) =>
    \A a \in Artists : Drawn \ erased.operations \subseteq DOMAIN board[a]
=============================================================================
