------------------------------ MODULE PinnedPanel ------------------------------
(***************************************************************************)
(* The panel of the messages the user pinned in the conversation on screen   *)
(* (app.js). Opening it loads and decrypts its cards first; while it is      *)
(* open, the pins of this browser and of the others reload it, and so does   *)
(* the selection of another conversation, once it is verified. The pins of a *)
(* conversation are the number of their last change.                         *)
(***************************************************************************)
EXTENDS Naturals, FiniteSets

CONSTANTS
  Chats,
  NoChat,
  MaxPins,   \* bound: pins and unpins
  MaxPresses, \* bound: clicks on the panel and on the conversations
  MaxReads   \* bound: requests for the pins

PinnedAssumption ==
  /\ {MaxPins, MaxPresses, MaxReads} \subseteq Nat
  /\ NoChat \notin Chats

VARIABLES
  pins,     \* the last change of the pins of every conversation
  events,   \* the conversations whose change is announced to the page
  chat,  \* state.current
  selected, \* the selection that is still to be verified and displayed
  hidden,   \* pinnedPanel.hidden
  cards,    \* what the panel holds: the conversation and its pins, or that they load
  opening,  \* pinnedPanelOpenTask
  reads,    \* loadPinnedMessages
  wanted,   \* history: the last click on the panel asked to see it
  presses, asked

panelVars == <<hidden, cards, opening, reads, wanted, asked>>
pinnedVars == <<pins, events, chat, selected, presses, panelVars>>

NoCards == [of |-> NoChat, pins |-> 0]

PinnedInit ==
  /\ pins = [r \in Chats |-> 0] /\ events = {}
  /\ chat = NoChat /\ selected = FALSE
  /\ hidden = TRUE /\ cards = NoCards /\ opening = 0 /\ reads = {}
  /\ wanted = FALSE /\ presses = 0 /\ asked = 0

-----------------------------------------------------------------------------
(* loadPinnedMessages                                                      *)

\* n: the number of the load; opens: the panel waits for it to open; valid: no
\* click closed the panel since.
NewLoad(opens) ==
  [n |-> asked + 1, of |-> chat, opens |-> opens, valid |-> TRUE, at |-> "asked", pins |-> 0]

\* A reload shows that it loads; an opening does not.
ReloadPins ==
  IF chat = NoChat \/ hidden \/ asked >= MaxReads THEN UNCHANGED panelVars
  ELSE /\ reads' = reads \cup {NewLoad(FALSE)} /\ asked' = asked + 1
       /\ cards' = NoCards
       /\ UNCHANGED <<hidden, opening, wanted>>

PinsAnswered(l) ==
  /\ l.at = "asked"
  /\ reads' = (reads \ {l}) \cup {[l EXCEPT !.at = "answered", !.pins = pins[l.of]]}
  /\ UNCHANGED <<pins, events, chat, selected, presses, hidden, cards, opening, wanted, asked>>

IsRelevant(l) == chat = l.of /\ (l.opens \/ ~hidden)

LastOpening(l) == l.valid /\ chat # NoChat

\* The cards are decrypted and built, or the request fails.
Built(l) ==
  /\ l.at = "answered"
  /\ reads' = reads \ {l}
  /\ cards' = IF IsRelevant(l) THEN [of |-> l.of, pins |-> l.pins] ELSE cards
  /\ hidden' = (hidden /\ ~(l.opens /\ IsRelevant(l) /\ LastOpening(l)))
  /\ opening' = IF opening = l.n THEN 0 ELSE opening
  /\ UNCHANGED <<pins, events, chat, selected, presses, wanted, asked>>

PinsFail(l) ==
  /\ l.at = "asked"
  /\ reads' = reads \ {l}
  /\ cards' = IF IsRelevant(l) /\ ~l.opens THEN NoCards ELSE cards
  /\ opening' = IF opening = l.n THEN 0 ELSE opening
  /\ UNCHANGED <<pins, events, chat, selected, presses, hidden, wanted, asked>>

-----------------------------------------------------------------------------
(* The clicks and the events                                               *)

Pressed == presses < MaxPresses /\ presses' = presses + 1

\* setPinnedPanelOpen(true); the button is disabled while a task opens it.
OpenPanel ==
  /\ Pressed /\ hidden /\ chat # NoChat /\ opening = 0 /\ asked < MaxReads
  /\ reads' = reads \cup {NewLoad(TRUE)} /\ asked' = asked + 1
  /\ opening' = asked + 1 /\ wanted' = TRUE
  /\ UNCHANGED <<pins, events, chat, selected, hidden, cards>>

\* setPinnedPanelOpen(false)
Closed ==
  /\ hidden' = TRUE /\ wanted' = FALSE /\ opening' = 0
  /\ reads' = {[l EXCEPT !.valid = FALSE] : l \in reads}

ClosePanel ==
  /\ Pressed /\ Closed
  /\ UNCHANGED <<pins, events, chat, selected, cards, asked>>

Select(r) ==
  /\ Pressed /\ r # chat
  /\ chat' = r /\ selected' = TRUE
  /\ UNCHANGED <<pins, events, panelVars>>

\* selectConversation, once its members are verified and its messages displayed.
Displayed ==
  /\ selected /\ selected' = FALSE
  /\ ReloadPins
  /\ UNCHANGED <<pins, events, chat, presses>>

\* Its members cannot be verified, or the conversation is closed.
CloseConversation ==
  /\ chat # NoChat
  /\ chat' = NoChat /\ selected' = FALSE
  /\ Closed
  /\ UNCHANGED <<pins, events, presses, cards, asked>>

\* togglePinnedMessage, here or in another browser of the user.
Pin(r) ==
  /\ pins[r] < MaxPins
  /\ pins' = [pins EXCEPT ![r] = @ + 1]
  /\ events' = events \cup {r}
  /\ UNCHANGED <<chat, selected, presses, panelVars>>

\* The end of togglePinnedMessage, or the conversation_updated of another browser.
HearPin(r) ==
  /\ r \in events /\ events' = events \ {r}
  /\ IF r = chat THEN ReloadPins ELSE UNCHANGED panelVars
  /\ UNCHANGED <<pins, chat, selected, presses>>

-----------------------------------------------------------------------------

PinnedNext ==
  \/ OpenPanel \/ ClosePanel \/ Displayed \/ CloseConversation
  \/ \E r \in Chats : Select(r) \/ Pin(r) \/ HearPin(r)
  \/ \E l \in reads : PinsAnswered(l) \/ Built(l) \/ PinsFail(l)

PinnedSpec == PinnedInit /\ [][PinnedNext]_pinnedVars

-----------------------------------------------------------------------------
(* Properties                                                              *)

PinnedTypeOK ==
  /\ chat \in Chats \cup {NoChat} /\ cards.of \in Chats \cup {NoChat}
  /\ \A l \in reads : l.of \in Chats /\ l.n \in 1 .. asked
  /\ opening # 0 => \E l \in reads : l.n = opening /\ l.valid

\* A panel that opens shows the cards of the conversation on screen, and was not
\* closed by the user since its opening was asked for.
AsAsked == hidden /\ ~hidden' => wanted' /\ cards'.of = chat'
OpensAsAsked == [][AsAsked]_pinnedVars
=============================================================================
