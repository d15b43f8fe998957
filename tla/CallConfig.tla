----------------------------- MODULE CallConfig -----------------------------
(***************************************************************************)
(* What the page asks the server before it offers a call (app.js): whether  *)
(* every instance of the displayed conversation supports calls, which sets  *)
(* the call buttons, and the configuration that carries this browser's own  *)
(* identity. Answers are cached for a time; a failure is cached for less.   *)
(***************************************************************************)
EXTENDS Naturals

CONSTANTS
  Rooms,       \* the conversations visited
  Federated,   \* those with members on other instances
  Nowhere,
  Ttl, Retry,  \* CALL_CAPABILITY_TTL_MS, and CALL_CAPABILITY_RETRY_MS = CALL_CONFIG_RETRY_MS
  MaxTime      \* bound: the clock

ConfigAssumption ==
  /\ Federated \subseteq Rooms /\ Nowhere \notin Rooms
  /\ Retry \in Nat \ {0} /\ Ttl \in Nat /\ Ttl > Retry /\ MaxTime \in Nat

VARIABLES
  room,        \* state.current
  capability,  \* callCapabilityCache
  probing,     \* callCapabilityProbes
  retry,       \* callCapabilityRetryTimer: the conversation and the time
  offered,     \* the buttons of the displayed conversation are enabled
  config,      \* state.callConfig
  identity,    \* state.callIdentity is known
  configLoading,     \* callConfigProbe
  clock

configVars == <<room, capability, probing, retry, offered, config, identity, configLoading, clock>>

Never == [found |-> FALSE, verified |-> FALSE, supported |-> FALSE, at |-> 0]
NoTimer == [for |-> Nowhere, due |-> 0]

ConfigInit ==
  /\ room = Nowhere
  /\ capability = [r \in Rooms |-> Never]
  /\ probing = {}
  /\ retry = NoTimer
  /\ offered = FALSE
  /\ config = [found |-> FALSE, verified |-> FALSE, at |-> 0]
  /\ identity = FALSE
  /\ configLoading = FALSE
  /\ clock = 0

\* callCapability
Valid(entry) == entry.found /\ clock - entry.at < (IF entry.verified THEN Ttl ELSE Retry)

\* updateCallButtons, from the entry of r
Offering(r, entry) ==
  r # Nowhere /\ (IF Valid(entry) THEN entry.supported ELSE r \notin Federated)

-----------------------------------------------------------------------------
(* refreshCallCapability                                                   *)

Probed(r) == IF Valid(capability[r]) THEN probing ELSE probing \cup {r}

Display(r) ==
  /\ r # room
  /\ room' = r
  /\ offered' = Offering(r, capability[r])
  /\ probing' = Probed(r)
  /\ UNCHANGED <<capability, retry, config, identity, configLoading, clock>>

\* A network error enables nothing that needs another instance.
FailedEntry(r) == [found |-> TRUE, verified |-> FALSE, supported |-> r \notin Federated, at |-> clock]
AnsweredEntry(supported) == [found |-> TRUE, verified |-> TRUE, supported |-> supported, at |-> clock]

\* The probe settles. If r is still displayed its buttons are set, and a failure
\* is retried by the one timer there is.
ProbeSettles(r) ==
  /\ r \in probing
  /\ probing' = probing \ {r}
  /\ \E entry \in {FailedEntry(r), AnsweredEntry(TRUE), AnsweredEntry(FALSE)} :
       /\ capability' = [capability EXCEPT ![r] = entry]
       /\ \/ /\ room = r
             /\ offered' = Offering(r, entry)
             /\ retry' = IF entry.verified THEN retry ELSE [for |-> r, due |-> clock + Retry]
          \/ room # r /\ UNCHANGED <<offered, retry>>
  /\ UNCHANGED <<room, config, identity, configLoading, clock>>

RetryTimer ==
  /\ retry # NoTimer /\ clock >= retry.due
  /\ retry' = NoTimer
  /\ probing' = IF room = retry.for THEN Probed(room) ELSE probing
  /\ UNCHANGED <<room, capability, offered, config, identity, configLoading, clock>>

\* The buttons are set again for other reasons: a call, the socket.
UpdateButtons ==
  /\ room # Nowhere
  /\ offered' = Offering(room, capability[room])
  /\ UNCHANGED <<room, capability, probing, retry, config, identity, configLoading, clock>>

-----------------------------------------------------------------------------
(* loadCallConfig                                                          *)

StaleConfig == config.found /\ ~config.verified /\ clock - config.at >= Retry

\* A call needs the configuration; force is ensureCallIdentity's.
LoadConfig ==
  \E force \in BOOLEAN :
    /\ force => ~identity
    /\ force \/ ~config.found \/ StaleConfig
    /\ configLoading' = TRUE
    /\ UNCHANGED <<room, capability, probing, retry, offered, config, identity, clock>>

ConfigSettles ==
  /\ configLoading
  /\ configLoading' = FALSE
  /\ \E answered \in BOOLEAN :
       /\ config' = [found |-> TRUE, verified |-> answered, at |-> clock]
       /\ identity' \in (IF answered THEN BOOLEAN ELSE {identity})
  /\ UNCHANGED <<room, capability, probing, retry, offered, clock>>

Tick ==
  /\ clock < MaxTime
  /\ clock' = clock + 1
  /\ retry # NoTimer => clock' <= retry.due
  /\ UNCHANGED <<room, capability, probing, retry, offered, config, identity, configLoading>>

ConfigNext ==
  \/ \E r \in Rooms : Display(r) \/ ProbeSettles(r)
  \/ RetryTimer \/ UpdateButtons \/ LoadConfig \/ ConfigSettles \/ Tick

ConfigSpec == ConfigInit /\ [][ConfigNext]_configVars

-----------------------------------------------------------------------------
(* Properties                                                              *)

ConfigTypeOK ==
  /\ room \in Rooms \cup {Nowhere} /\ retry.for \in Rooms \cup {Nowhere}
  /\ probing \subseteq Rooms
  /\ \A r \in Rooms : capability[r].at <= clock /\ (capability[r].verified => capability[r].found)

\* The buttons of a federated conversation are enabled by an answer every
\* instance gave, never by an error or by the answer for another conversation.
CallsAreOfferedOnAnswers ==
  offered /\ room \in Federated => capability[room].verified /\ capability[room].supported
=============================================================================
